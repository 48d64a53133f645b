---------------------------- MODULE WriterEffects ----------------------------
(***************************************************************************)
(* Proofs about Writer: what its callers and its files see of it.          *)
(* First, Writer implements AtomicLedger, for any calls, request ids,      *)
(* files and bounds: RefinementInv is inductive relative to WriterInv;     *)
(* then the append of a single transaction is the step that applies it, an *)
(* answer acknowledges or declines, a death and a replaced file are what   *)
(* they are there, and every other step is a stuttering step.              *)
(* Second, what a transaction leaves behind: EffectsInv is inductive       *)
(* relative to WriterInv, so an entry is announced at most once and        *)
(* durable, the node files show a transaction together with the ledger or  *)
(* not at all, and a clean shutdown leaves no accepted command behind.     *)
(***************************************************************************)
EXTENDS WriterProofs

USE DEF memory, files, books, ending

(***************************************************************************)
(* The refinement mapping, by the positions of the ledger files.           *)
(***************************************************************************)
Telling == TellsOf(ino)
Before == (UNION {TellsOf(n) : n \in 1..(ino - 1)}) \ TellsOf(ino)
Grouped == {g \in Groups : DurableCall(g)}
Answers == [c \in Singles |-> CASE reply[c] = "none" -> "none"
                                [] reply[c] = "ok" -> "ok"
                                [] OTHER -> "declined"]

SingleIn(s, d) == \E k \in DOMAIN s : Kind[s[k].call] = "single" /\ s[k].call = d

LEMMA TellingIs ==
  /\ \A d : d \in Telling <=> SingleIn(ledger[ino].log, d)
  /\ \A d : d \in Telling' <=> SingleIn(ledger'[ino'].log, d)
  /\ \A d : d \in Before <=> /\ d \notin Telling
                             /\ \E n \in 1..(ino - 1) : SingleIn(ledger[n].log, d)
  /\ \A d : d \in Before' <=> /\ d \notin Telling'
                              /\ \E n \in 1..(ino' - 1) : SingleIn(ledger'[n].log, d)
<1>1. ASSUME NEW s, NEW d
      PROVE d \in {e.call : e \in {x \in Entries(s) : Kind[x.call] = "single"}} <=> SingleIn(s, d)
  BY DEF Entries, SingleIn
<1>2. /\ \A d : d \in Telling <=> SingleIn(ledger[ino].log, d)
      /\ \A d : d \in Telling' <=> SingleIn(ledger'[ino'].log, d)
  BY <1>1 DEF Telling, TellsOf
<1>3. \A n, d : d \in TellsOf(n) <=> SingleIn(ledger[n].log, d)
  BY <1>1 DEF TellsOf
<1>4. \A n, d : d \in TellsOf(n)' <=> SingleIn(ledger'[n].log, d)
  BY <1>1 DEF TellsOf
<1>5. \A d : d \in Before <=> /\ d \notin Telling
                              /\ \E n \in 1..(ino - 1) : SingleIn(ledger[n].log, d)
  BY <1>3 DEF Before, Telling
<1>6. \A d : d \in Before' <=> /\ d \notin Telling'
                               /\ \E n \in 1..(ino' - 1) : SingleIn(ledger'[n].log, d)
  BY <1>4 DEF Before, Telling
<1> QED BY <1>2, <1>5, <1>6

LEMMA TellsSingles ==
  ASSUME BooksOK
  PROVE /\ Telling \subseteq Singles /\ Before \subseteq Singles
        /\ \A c \in Singles : ReqOf[c] \in Requests
<1>1. \A n \in 1..MaxInode : \A d : SingleIn(ledger[n].log, d) => d \in Singles
  BY LogTyped DEF SingleIn, Singles
<1>2. ino \in 1..MaxInode /\ \A n \in 1..(ino - 1) : n \in 1..MaxInode
  BY WriterBounds DEF BooksOK
<1> QED BY <1>1, <1>2, TellingIs, CallAssumption DEF Singles

(* Most steps leave the single transactions of the ledger where they are. *)
Quiet ==
    /\ ino' = ino /\ SyncedKept
    /\ \A m \in 1..MaxInode :
          /\ ledger[m].synced <= ledger'[m].synced
          /\ \A k \in DOMAIN ledger'[m].log : Kind[ledger'[m].log[k].call] = "single" =>
                k \in DOMAIN ledger[m].log /\ ledger'[m].log[k] = ledger[m].log[k]
          /\ \A k \in DOMAIN ledger[m].log :
                k \in DOMAIN ledger'[m].log /\ ledger'[m].log[k] = ledger[m].log[k]

LEMMA QuietTells ==
  ASSUME BooksOK, BooksOK', Quiet
  PROVE Telling' = Telling /\ Before' = Before /\ (CopiesSynced => CopiesSynced')
<1>1. ino' = ino /\ ino \in 1..MaxInode /\ MaxInode \in Nat
  BY WriterBounds DEF Quiet, BooksOK
<1>2. ASSUME NEW m \in 1..MaxInode, NEW d
      PROVE SingleIn(ledger'[m].log, d) <=> SingleIn(ledger[m].log, d)
  BY DEF Quiet, SingleIn
<1>3. Telling' = Telling
  BY <1>1, <1>2, TellingIs
<1>4. \A n \in 1..(ino - 1) : n \in 1..MaxInode
  BY <1>1
<1>5. ASSUME NEW d PROVE d \in Before' <=> d \in Before
  BY <1>1, <1>2, <1>3, <1>4, TellingIs
<1>6. Before' = Before
  BY <1>5 DEF Before
<1>7. ASSUME CopiesSynced, NEW n \in 1..(ino' - 1), NEW j \in DOMAIN ledger'[n].log,
             NEW k \in DOMAIN ledger'[ino'].log, Kind[ledger'[ino'].log[k].call] = "single",
             ledger'[n].log[j].call = ledger'[ino'].log[k].call
      PROVE k <= ledger'[ino'].synced
  <2>1. n \in 1..(ino - 1) /\ n \in 1..MaxInode
    BY <1>1
  <2>2. /\ k \in DOMAIN ledger[ino].log /\ ledger'[ino].log[k] = ledger[ino].log[k]
        /\ j \in DOMAIN ledger[n].log /\ ledger'[n].log[j] = ledger[n].log[j]
    BY <1>1, <1>7, <2>1 DEF Quiet
  <2>3. k <= ledger[ino].synced
    BY <1>1, <1>7, <2>1, <2>2 DEF CopiesSynced, IsSingle
  <2>4. ledger[ino].synced \in Nat /\ ledger'[ino].synced \in Nat /\ k \in Nat
        /\ ledger[ino].synced <= ledger'[ino].synced
    <3>1. k \in Nat
      BY <1>1, <2>2, LogTyped
    <3>2. ledger[ino].synced \in Nat /\ ledger'[ino].synced \in Nat
      BY <1>1 DEF BooksOK
    <3> QED BY <1>1, <3>1, <3>2 DEF Quiet
  <2> QED BY <1>1, <2>3, <2>4
<1> QED BY <1>3, <1>6, <1>7 DEF CopiesSynced, IsSingle

LEMMA QuietUnchanged ==
  ASSUME BooksOK, UNCHANGED <<ledger, ino>>
  PROVE Quiet
BY DEF Quiet, SyncedKept, BooksOK

LEMMA QuietSynced ==
  ASSUME WriterInv, NEW n, n \in {ino, handle}, ledger' = Synced(n), ino' = ino, handle' = handle
  PROVE Quiet
<1>1. BooksOK /\ n \in 0..ino /\ handle' \in 0..ino
  BY WriterBounds DEF WriterInv, BooksOK
<1>2. SyncedKept /\ \A m \in 1..MaxInode : /\ ledger'[m].log = ledger[m].log
                                           /\ ledger[m].synced <= ledger'[m].synced
  BY <1>1, SyncedStep, SyncedBooks
<1> QED BY <1>2 DEF Quiet

LEMMA QuietWritten ==
  ASSUME WriterInv, NEW n \in 1..ino, NEW s \in Seq(Entry), ledger' = Written(n, s),
         ino' = ino, handle' \in 0..ino, \A j \in DOMAIN s : Kind[s[j].call] # "single"
  PROVE Quiet
<1>1. BooksOK
  BY DEF WriterInv
<1>2. SyncedKept /\ \A m \in 1..MaxInode :
         /\ \A k \in DOMAIN ledger'[m].log : Kind[ledger'[m].log[k].call] = "single" =>
               k \in DOMAIN ledger[m].log /\ ledger'[m].log[k] = ledger[m].log[k]
         /\ \A k \in DOMAIN ledger[m].log :
               k \in DOMAIN ledger'[m].log /\ ledger'[m].log[k] = ledger[m].log[k]
  BY <1>1, WrittenKeeps
<1>3. \A m \in 1..MaxInode : ledger[m].synced <= ledger'[m].synced
  <2>1. \A m \in 1..MaxInode : ledger'[m].synced = ledger[m].synced
    BY <1>1, WrittenBooks
  <2>2. \A m \in 1..MaxInode : ledger[m].synced \in Nat
    BY <1>1 DEF BooksOK
  <2> QED BY <2>1, <2>2
<1> QED BY <1>2, <1>3 DEF Quiet

(* The append of a transaction tells of it when it is a single one and does not fail. *)
Applies == cmd.op = "append" /\ Kind[Cur] = "single" /\ ledger' = Written(ino, EntriesOf(Cur))
           /\ UNCHANGED <<ino, reply>> /\ handle' = ino

LEMMA AppendEntriesQuiet ==
  ASSUME WriterInv, AppendEntries
  PROVE Quiet \/ Applies
<1>1. PICK c : c = Cur
  OBVIOUS
<1>2. cmd.op = "append" /\ handle' = ino /\ UNCHANGED <<ino, reply>>
  BY DEF AppendEntries, Running
<1>3. c \in Calls /\ Kind[c] \in {"single", "multi"}
  BY <1>1, <1>2, Working
<1>4. ino \in 1..ino /\ handle' \in 0..ino
  BY <1>2 DEF WriterInv, BooksOK
<1> DEFINE s == EntriesOf(c)
<1>5. /\ s \in Seq(Entry) /\ Len(s) = Parts(c)
      /\ \A j \in DOMAIN s : s[j].call = c
  BY <1>3, EntriesTyped
<1>6. Parts(c) \in {1, 2} /\ (Kind[c] = "single" => Parts(c) = 1)
  BY DEF Parts
<1>7. CASE ledger' = Written(ino, s)
  <2>1. CASE Kind[c] = "single"
    BY <1>1, <1>2, <1>7, <2>1 DEF Applies
  <2>2. CASE Kind[c] = "multi"
    BY <1>2, <1>4, <1>5, <1>7, <2>2, QuietWritten
  <2> QED BY <1>3, <2>1, <2>2
<1>8. ASSUME NEW n \in 0..(Parts(c) - 1), ledger' = Written(ino, SubSeq(s, 1, n))
      PROVE Quiet
  <2> DEFINE u == SubSeq(s, 1, n)
  <2> HIDE DEF s
  <2>1. n \in Nat /\ n <= Len(s) /\ (Kind[c] = "single" => n = 0)
    BY <1>5, <1>6
  <2>2. /\ u \in Seq(Entry) /\ DOMAIN u = 1..n /\ \A j \in DOMAIN u : u[j].call = c
    BY <1>5, <2>1
  <2>3. \A j \in DOMAIN u : Kind[u[j].call] # "single"
    BY <2>1, <2>2
  <2>4. ledger' = Written(ino, u)
    BY <1>8
  <2> HIDE DEF u
  <2> QED BY <1>2, <1>4, <2>2, <2>3, <2>4, QuietWritten
<1> QED BY <1>1, <1>7, <1>8 DEF AppendEntries

LEMMA BatchAppendQuiet ==
  ASSUME WriterInv, BatchAppend
  PROVE Quiet
<1>1. /\ cmd.op = "batch" /\ cmd.i <= Len(cmd.calls)
      /\ handle' = (IF handle = 0 THEN ino ELSE handle) /\ ino' = ino
  BY DEF BatchAppend, Running
<1>2. /\ cmd.calls \in Seq(Calls) /\ cmd.i \in Int /\ cmd.i >= 1
      /\ \A k \in DOMAIN cmd.calls : Kind[cmd.calls[k]] = "append"
  BY <1>1 DEF WriterInv, CommandsOK, HandOK
<1>3. PICK c \in Calls : c = cmd.calls[cmd.i] /\ Kind[c] = "append"
  BY <1>1, <1>2
<1>4. BooksOK /\ handle' \in 1..ino /\ handle' \in 0..ino
  BY <1>1 DEF WriterInv, BooksOK
<1>5. EntriesOf(c) \in Seq(Entry) /\ \A k \in DOMAIN EntriesOf(c) : EntriesOf(c)[k].call = c
  BY EntriesTyped
<1>6. CASE ledger' = Written(handle', EntriesOf(c))
  BY <1>1, <1>3, <1>4, <1>5, <1>6, QuietWritten
<1>7. CASE UNCHANGED ledger
  BY <1>1, <1>4, <1>7, QuietUnchanged
<1> QED BY <1>3, <1>6, <1>7 DEF BatchAppend

LEMMA StepQuiet ==
  ASSUME WriterInv, [Next]_vars
  PROVE Quiet \/ (AppendEntries /\ Applies) \/ DaemonDies \/ Replace
<1>0. BooksOK
  BY DEF WriterInv
<1>1. CASE \E c \in Calls : CallSteps(c) \/ Refuse(c) \/ Drop(c)
  BY <1>0, <1>1, QuietUnchanged
     DEF CallSteps, Refuse, Drop, StartRecovery, MergeHistory, Admit, CacheAppend, WriterGone
<1>2. CASE TakeBarrier \/ RetrySync \/ Sync \/ BatchSync
  <2>1. ino' = ino /\ handle' = handle
        /\ \/ UNCHANGED ledger
           \/ ledger' = Synced(ino)
           \/ ledger' = Synced(handle)
    BY <1>2 DEF TakeBarrier, RetrySync, Sync, BatchSync
  <2> QED BY <1>0, <2>1, QuietUnchanged, QuietSynced
<1>3. CASE TakeBatch \/ TakeSingle \/ TakeMulti \/ TakeRecover \/ TakeShutdown
  BY <1>0, <1>3, QuietUnchanged DEF TakeBatch, TakeSingle, TakeMulti, TakeRecover, TakeShutdown
<1>4. CASE Stage \/ Backup \/ Rename \/ Undo \/ Finish
  BY <1>0, <1>4, QuietUnchanged DEF Stage, Backup, Rename, Undo, Finish
<1>5. CASE AskShutdown \/ ShutdownTimesOut \/ UNCHANGED vars
  BY <1>0, <1>5, QuietUnchanged DEF AskShutdown, ShutdownTimesOut, vars
<1> QED BY <1>1, <1>2, <1>3, <1>4, <1>5, AppendEntriesQuiet, BatchAppendQuiet
        DEF Next, WriterLoop, Take, Transact

(***************************************************************************)
(* The steps that change what the ledger tells of.                         *)
(***************************************************************************)
LEMMA AppliedTells ==
  ASSUME WriterInv, Applies, NEW c, c = Cur
  PROVE /\ c \in Singles /\ Telling' = Telling \cup {c} /\ Before' = Before
        /\ \A d \in Telling : ReqOf[d] # ReqOf[c]
        /\ CopiesSynced => CopiesSynced'
<1>1. /\ cmd.op = "append" /\ Kind[c] = "single" /\ ledger' = Written(ino, EntriesOf(c))
      /\ UNCHANGED <<ino, reply>> /\ handle' = ino
  BY DEF Applies
<1>2. c \in Calls /\ c \in Singles
  BY <1>1, Working DEF Singles
<1>3. BooksOK /\ ino \in 1..ino /\ ino \in 1..MaxInode /\ handle' \in 0..ino /\ MaxInode \in Nat
  BY <1>1, WriterBounds DEF WriterInv, BooksOK
<1> DEFINE s == EntriesOf(c)
<1>4. s \in Seq(Entry) /\ DOMAIN s = {1} /\ s[1].call = c
  <2>1. s \in Seq(Entry) /\ Len(s) = 1 /\ \A j \in DOMAIN s : s[j].call = c
    BY <1>1, <1>2, EntriesTyped DEF Parts
  <2> HIDE DEF s
  <2> QED BY <2>1
<1> DEFINE new == Len(ledger[ino].log) + 1
<1>5. /\ \A m \in 1..MaxInode : \A k \in DOMAIN ledger'[m].log :
            \/ k \in DOMAIN ledger[m].log /\ ledger'[m].log[k] = ledger[m].log[k]
            \/ m = ino /\ ledger'[m].log[k].call = c
      /\ \A m \in 1..MaxInode : \A k \in DOMAIN ledger[m].log :
            k \in DOMAIN ledger'[m].log /\ ledger'[m].log[k] = ledger[m].log[k]
      /\ new \in DOMAIN ledger'[ino].log /\ ledger'[ino].log[new].call = c
      /\ \A m \in 1..MaxInode : ledger'[m].synced = ledger[m].synced
  <2>1. ledger' = Written(ino, s) /\ ino' = ino
    BY <1>1
  <2> HIDE DEF s
  <2>2. /\ \A m \in 1..MaxInode : \A k \in DOMAIN ledger'[m].log :
              \/ k \in DOMAIN ledger[m].log /\ ledger'[m].log[k] = ledger[m].log[k]
              \/ m = ino /\ \E j \in DOMAIN s : ledger'[m].log[k] = s[j]
        /\ \A m \in 1..MaxInode : \A k \in DOMAIN ledger[m].log :
              k \in DOMAIN ledger'[m].log /\ ledger'[m].log[k] = ledger[m].log[k]
        /\ \A j \in DOMAIN s : LET k == Len(ledger[ino].log) + j IN
              k \in DOMAIN ledger'[ino].log /\ ledger'[ino].log[k] = s[j]
    BY <1>3, <1>4, <2>1, WrittenKeeps
  <2>3. \A m \in 1..MaxInode : ledger'[m].synced = ledger[m].synced
    BY <1>3, <1>4, <2>1, WrittenBooks
  <2> QED BY <1>4, <2>2, <2>3
<1> HIDE DEF new
<1>6. \A m \in 1..MaxInode : \A k \in DOMAIN ledger[m].log : ledger[m].log[k].call # c
  <2>1. ToAppend(c)
    BY <1>1 DEF ToAppend, BeforeAppend
  <2> QED BY <1>1, <1>2, <2>1 DEF WriterInv, Fresh, Tells
<1>7. Telling' = Telling \cup {c}
  <2>1. ASSUME NEW d PROVE SingleIn(ledger'[ino].log, d) <=> SingleIn(ledger[ino].log, d) \/ d = c
    BY <1>1, <1>3, <1>5 DEF SingleIn
  <2>2. \A d : d \in Telling' <=> d \in Telling \/ d = c
    BY <1>1, <2>1, TellingIs
  <2> QED BY <2>2
<1>8. \A n \in 1..(ino - 1) : n \in 1..MaxInode /\ n # ino
  BY <1>3
<1>9. Before' = Before
  <2>1. ASSUME NEW n \in 1..(ino - 1), NEW d
        PROVE /\ SingleIn(ledger'[n].log, d) <=> SingleIn(ledger[n].log, d)
              /\ SingleIn(ledger[n].log, d) => d # c
    BY <1>5, <1>6, <1>8 DEF SingleIn
  <2>2. \A d : d \in Before' <=> d \in Before
    BY <1>1, <1>7, <2>1, TellingIs
  <2> QED BY <2>2 DEF Before
<1>10. ASSUME NEW d \in Telling PROVE ReqOf[d] # ReqOf[c]
  <2>1. PICK k \in DOMAIN ledger[ino].log :
           Kind[ledger[ino].log[k].call] = "single" /\ ledger[ino].log[k].call = d
    BY <1>10, TellingIs DEF SingleIn
  <2>2. cmd.op \in BeforeAppend
    BY <1>1 DEF BeforeAppend
  <2> QED BY <1>1, <2>1, <2>2 DEF WriterInv, HistoryKnown, NextIsNew, IsSingle, ReqAt
<1>11. ASSUME CopiesSynced, NEW n \in 1..(ino - 1), NEW j \in DOMAIN ledger'[n].log,
              NEW k \in DOMAIN ledger'[ino].log, Kind[ledger'[ino].log[k].call] = "single",
              ledger'[n].log[j].call = ledger'[ino].log[k].call
       PROVE k <= ledger'[ino].synced
  <2>1. j \in DOMAIN ledger[n].log /\ ledger'[n].log[j] = ledger[n].log[j]
    BY <1>5, <1>8
  <2>2. ledger'[ino].log[k].call # c
    BY <1>6, <1>8, <1>11, <2>1
  <2>3. k \in DOMAIN ledger[ino].log /\ ledger'[ino].log[k] = ledger[ino].log[k]
    BY <1>3, <1>5, <2>2
  <2>4. k <= ledger[ino].synced
    BY <1>11, <2>1, <2>3 DEF CopiesSynced, IsSingle
  <2> QED BY <1>3, <1>5, <2>4
<1> QED BY <1>1, <1>2, <1>7, <1>9, <1>10, <1>11 DEF CopiesSynced, IsSingle

LEMMA DeathTells ==
  ASSUME WriterInv, CopiesSynced, SinglesTruthful, DaemonDies
  PROVE /\ Telling' \subseteq Telling /\ Before' = Before /\ CopiesSynced'
        /\ \A d \in Telling \ Telling', c \in Singles : reply[c] = "ok" /\ ReqOf[c] = ReqOf[d] =>
              \/ \E e \in Before : ReqOf[e] = ReqOf[c]
              \/ \E g \in Serves(c) : DurableCall(g)
<1>1. ino' = ino /\ handle' = 0
  BY DEF DaemonDies
<1>2. PICK n \in ledger[ino].synced..Len(ledger[ino].log) :
         ledger' = [ledger EXCEPT ![ino].log = SubSeq(@, 1, n)]
  BY DEF DaemonDies
<1>3. BooksOK /\ ino \in 1..MaxInode /\ MaxInode \in Nat /\ ledger[ino].synced \in Nat
      /\ DOMAIN ledger[ino].log = 1..Len(ledger[ino].log) /\ Len(ledger[ino].log) \in Nat
      /\ n \in Nat /\ n <= Len(ledger[ino].log) /\ ledger[ino].synced <= n
  <2>1. BooksOK
    BY DEF WriterInv
  <2>2. ino \in 1..MaxInode /\ MaxInode \in Nat /\ ledger[ino].synced \in Nat
    BY <2>1, WriterBounds DEF BooksOK
  <2> QED BY <2>1, <2>2, LogTyped
<1>4. /\ ledger'[ino].synced = ledger[ino].synced
      /\ DOMAIN ledger'[ino].log = 1..n
      /\ \A k \in 1..n : ledger'[ino].log[k] = ledger[ino].log[k]
      /\ \A m \in 1..MaxInode : m # ino => ledger'[m] = ledger[m]
  BY <1>1, <1>2, <1>3, DeathKeeps
<1>5. \A d : SingleIn(ledger'[ino].log, d) => SingleIn(ledger[ino].log, d)
  BY <1>3, <1>4 DEF SingleIn
<1>6. Telling' \subseteq Telling
  BY <1>1, <1>5, TellingIs
<1>7. \A m \in 1..(ino - 1) : m \in 1..MaxInode /\ m # ino
  BY <1>3
<1>8. ASSUME NEW d \in Telling \ Telling'
      PROVE /\ \A m \in 1..(ino - 1) : ~SingleIn(ledger[m].log, d)
            /\ \A k \in DOMAIN ledger[ino].log :
                  Kind[ledger[ino].log[k].call] = "single" /\ ReqOf[ledger[ino].log[k].call] = ReqOf[d]
                  => k > ledger[ino].synced /\ ledger[ino].log[k].call = d
  <2>1. PICK k \in DOMAIN ledger[ino].log :
           Kind[ledger[ino].log[k].call] = "single" /\ ledger[ino].log[k].call = d
    BY <1>8, TellingIs DEF SingleIn
  <2>2. k > n
    <3>1. CASE k \in 1..n
      BY <1>1, <1>4, <1>8, <2>1, <3>1, TellingIs DEF SingleIn
    <3> QED BY <1>3, <3>1
  <2>3. k > ledger[ino].synced
    BY <1>3, <2>2
  <2>4. ASSUME NEW m \in 1..(ino - 1), SingleIn(ledger[m].log, d) PROVE FALSE
    <3>1. PICK j \in DOMAIN ledger[m].log : ledger[m].log[j].call = d
      BY <2>4 DEF SingleIn
    <3>2. k <= ledger[ino].synced
      BY <2>1, <3>1 DEF CopiesSynced, IsSingle
    <3> QED BY <1>3, <2>3, <3>2
  <2>5. ASSUME NEW j \in DOMAIN ledger[ino].log, Kind[ledger[ino].log[j].call] = "single",
               ReqOf[ledger[ino].log[j].call] = ReqOf[d]
        PROVE j = k
    BY <2>1, <2>5 DEF WriterInv, AppliedOnce, IsSingle, ReqAt
  <2> QED BY <2>1, <2>3, <2>4, <2>5
<1>9. Before' = Before
  <2>1. ASSUME NEW m \in 1..(ino - 1), NEW d
        PROVE SingleIn(ledger'[m].log, d) <=> SingleIn(ledger[m].log, d)
    BY <1>4, <1>7
  <2>2. ASSUME NEW d PROVE d \in Before' <=> d \in Before
    BY <1>1, <1>6, <1>8, <2>1, TellingIs
  <2> QED BY <2>2 DEF Before
<1>10. ASSUME NEW d \in Telling \ Telling', NEW c \in Singles, reply[c] = "ok", ReqOf[c] = ReqOf[d],
              ~(\E g \in Serves(c) : DurableCall(g))
       PROVE \E e \in Before : ReqOf[e] = ReqOf[c]
  <2>1. PICK e \in Calls : Kind[e] = "single" /\ ReqOf[e] = ReqOf[d] /\ DurableCall(e)
    BY <1>10 DEF SinglesTruthful
  <2>2. PICK m \in 1..MaxInode : \E k \in 1..ledger[m].synced : ledger[m].log[k].call = e
    BY <2>1 DEF DurableCall
  <2>3. PICK k \in 1..ledger[m].synced : ledger[m].log[k].call = e
    BY <2>2
  <2>4. m \in 1..ino /\ k \in DOMAIN ledger[m].log /\ k <= ledger[m].synced
    <3>1. ledger[m].synced \in Nat /\ ledger[m].synced <= Len(ledger[m].log)
          /\ (m > ino => ledger[m].synced = 0)
      BY <1>3 DEF BooksOK
    <3>2. DOMAIN ledger[m].log = 1..Len(ledger[m].log) /\ Len(ledger[m].log) \in Nat
      BY <1>3, LogTyped
    <3> QED BY <1>3, <3>1, <3>2
  <2>5. m # ino
    BY <1>3, <1>8, <2>1, <2>3, <2>4
  <2>6. m \in 1..(ino - 1) /\ SingleIn(ledger[m].log, e)
    BY <1>3, <2>1, <2>3, <2>4, <2>5 DEF SingleIn
  <2>7. e \notin Telling
    <3>1. ASSUME e \in Telling PROVE FALSE
      <4>1. PICK j \in DOMAIN ledger[ino].log :
               Kind[ledger[ino].log[j].call] = "single" /\ ledger[ino].log[j].call = e
        BY <3>1, TellingIs DEF SingleIn
      <4>2. e = d
        BY <1>8, <2>1, <4>1
      <4> QED BY <1>8, <2>6, <4>2
    <3> QED BY <3>1
  <2>8. e \in Before
    BY <2>6, <2>7, TellingIs
  <2> QED BY <1>10, <2>1, <2>8
<1>11. ASSUME NEW m \in 1..(ino - 1), NEW j \in DOMAIN ledger'[m].log,
              NEW k \in DOMAIN ledger'[ino].log, Kind[ledger'[ino].log[k].call] = "single",
              ledger'[m].log[j].call = ledger'[ino].log[k].call
       PROVE k <= ledger'[ino].synced
  <2>1. k \in DOMAIN ledger[ino].log /\ ledger'[ino].log[k] = ledger[ino].log[k]
    BY <1>3, <1>4
  <2> QED BY <1>4, <1>7, <1>11, <2>1 DEF CopiesSynced, IsSingle
<1> QED BY <1>1, <1>6, <1>9, <1>10, <1>11 DEF CopiesSynced, IsSingle

LEMMA ReplaceTells ==
  ASSUME WriterInv, Replace
  PROVE /\ Telling' \subseteq Telling /\ Before' = Before \cup (Telling \ Telling')
        /\ CopiesSynced'
<1>1. ino < MaxInode /\ ino' = ino + 1 /\ handle' = handle
  BY DEF Replace
<1>2. PICK n \in {0, Len(ledger[ino].log)} :
         ledger' = [ledger EXCEPT ![ino + 1] = [log |-> SubSeq(ledger[ino].log, 1, n), synced |-> n]]
  BY DEF Replace
<1>3. BooksOK /\ ino \in 1..MaxInode /\ MaxInode \in Nat
  BY WriterBounds DEF WriterInv, BooksOK
<1>4. /\ DOMAIN ledger'[ino'].log = 1..n /\ ledger'[ino'].synced = n
      /\ \A k \in 1..n : k \in DOMAIN ledger[ino].log /\ ledger'[ino'].log[k] = ledger[ino].log[k]
      /\ \A m \in 1..ino : ledger'[m] = ledger[m]
  BY <1>1, <1>2, <1>3, ReplaceKeeps
<1>5. Telling' \subseteq Telling
  BY <1>4, TellingIs DEF SingleIn
<1>6. 1..(ino' - 1) = 1..ino /\ 1..ino = 1..(ino - 1) \cup {ino}
  BY <1>1, <1>3
<1>7. ASSUME NEW d
      PROVE d \in Before' <=> d \in Before \/ d \in Telling \ Telling'
  <2>1. \A m \in 1..ino : SingleIn(ledger'[m].log, d) <=> SingleIn(ledger[m].log, d)
    BY <1>4
  <2>2. d \in Before' <=> d \notin Telling' /\ \E m \in 1..ino : SingleIn(ledger[m].log, d)
    BY <1>6, <2>1, TellingIs
  <2>3. (\E m \in 1..ino : SingleIn(ledger[m].log, d))
        <=> d \in Telling \/ \E m \in 1..(ino - 1) : SingleIn(ledger[m].log, d)
    BY <1>6, TellingIs
  <2>4. d \in Before <=> d \notin Telling /\ \E m \in 1..(ino - 1) : SingleIn(ledger[m].log, d)
    BY TellingIs
  <2> QED BY <1>5, <2>2, <2>3, <2>4
<1>8. CopiesSynced'
  <2>1. n \in Nat
    BY <1>3, LogTyped
  <2>2. \A k \in DOMAIN ledger'[ino'].log : k <= ledger'[ino'].synced
    BY <1>4, <2>1
  <2> QED BY <2>2 DEF CopiesSynced
<1> QED BY <1>5, <1>7, <1>8

(***************************************************************************)
(* What the callers of single transactions are told.                       *)
(***************************************************************************)
Told == {"ok", "conflict", "uncertain", "failed", "absent"}
Unanswered == {"new", "scanning", "scanned", "waiting"}

(* What vouches for an "ok": a single transaction that is durable after the step, or a *)
(* group that serves the call and is durable before it.                                *)
Vouched(c) ==
    \/ \E d \in Calls : Kind[d] = "single" /\ ReqOf[d] = ReqOf[c] /\ DurableCall(d)'
    \/ \E g \in Serves(c) : DurableCall(g)

(* No answer changes, one "ok" is given at a time, and for what is durable. *)
Speaks ==
    /\ \A c \in Singles : reply'[c] # reply[c] => reply[c] = "none" /\ reply'[c] \in Told
    /\ \A c \in Singles : reply'[c] = "ok" /\ reply[c] # "ok" =>
          /\ \A d \in Singles : d # c => reply'[d] = reply[d]
          /\ Vouched(c)

LEMMA Silent ==
  ASSUME \A c \in Singles : reply'[c] = reply[c]
  PROVE Speaks
BY DEF Speaks

LEMMA SpeaksAll ==
  ASSUME CallsOK, NEW cs, NEW v, Answer(cs, v), \A c \in cs : v[c] \in Told,
         \A c \in cs \cap Calls : pc[c] \in Unanswered \cup {"dropped"},
         \A c \in cs \cap Singles : v[c] # "ok"
  PROVE Speaks
<1>1. \A c \in Singles : c \in Calls
  BY DEF Singles
<1>2. \A c \in Singles : reply'[c] = reply[c]
                         \/ (reply[c] = "none" /\ reply'[c] \in Told \ {"ok"})
  BY <1>1 DEF Answer, CallsOK, Unanswered
<1> QED BY <1>2 DEF Speaks, Told

LEMMA SpeaksOne ==
  ASSUME CallsOK, NEW c \in Calls, NEW v \in Told, AnswerOne(c, v),
         pc[c] \in Unanswered \cup {"dropped"},
         c \in Singles /\ v = "ok" => Vouched(c)
  PROVE Speaks
<1>1. \A d \in Singles : d \in Calls
  BY DEF Singles
<1>2. \A d \in Calls : d # c => reply'[d] = reply[d]
  BY DEF AnswerOne, Answer
<1>3. reply'[c] = reply[c] \/ (reply[c] = "none" /\ reply'[c] = v)
  BY DEF AnswerOne, Answer, CallsOK, Unanswered
<1> QED BY <1>1, <1>2, <1>3 DEF Speaks

(* A request id is answered from the cache only for a single transaction, or for a group *)
(* that is durable and serves the call.                                                   *)
LEMMA LookupTruth ==
  ASSUME WriterInv, CachesFromCalls, NEW c \in Calls, Kind[c] \in {"single", "recover"},
         Lookup(c) \in {"ok", "pending"}, NEW t, t = cache[ReqOf[c]].tx
  PROVE /\ t \in Calls /\ ReqOf[t] = ReqOf[c]
        /\ Kind[t] = "single" \/ (Lookup(c) = "ok" /\ t \in Serves(c))
        /\ Lookup(c) = "ok" => DurableCall(t)
<1> DEFINE r == ReqOf[c]
           m == cache[r]
<1>1. r \in Requests /\ IdentOf[c] \in Idents /\ IdentOf[c] # NoIdent
  BY CallAssumption
<1>2. Lookup(c) = LookupSingle(c)
  BY DEF Lookup
<1>3. /\ m # Missing /\ m.ident = IdentOf[c] /\ ~(Named[c] /\ ~m.named)
      /\ Lookup(c) = IF m.dur = "uncertain" THEN "pending" ELSE "ok"
  BY <1>2 DEF LookupSingle
<1>4. m \in Cached
  BY <1>1, <1>3 DEF WriterInv, CacheTypes
<1>5. t \in Calls /\ m.dur \in {"durable", "uncertain"}
  BY <1>4 DEF Cached
<1>6. ReqOf[t] = r /\ (m.dur = "durable" => DurableCall(t))
  BY <1>1, <1>3 DEF WriterInv, DurableKnown, CachesDurable
<1>7. OfSingle(m) \/ OfGroup(m)
  BY <1>1, <1>3 DEF CachesFromCalls
<1>8. ASSUME OfGroup(m) PROVE Lookup(c) = "ok" /\ t \in Serves(c)
  <2>1. Lookup(c) = "ok"
    BY <1>3, <1>8 DEF OfGroup
  <2>2. Kind[t] = "multi" /\ EntryIdent[IdentOf[t]] = IdentOf[c]
    BY <1>3, <1>8 DEF OfGroup
  <2>3. Named[c] = FALSE
    <3>1. Named[c] => FALSE
      BY <1>3, <1>8 DEF OfGroup
    <3>2. Named[c] \in BOOLEAN
      BY CallAssumption
    <3> QED BY <3>1, <3>2
  <2> QED BY <1>5, <1>6, <2>1, <2>2, <2>3 DEF Serves, Groups
<1>9. OfSingle(m) => Kind[t] = "single"
  BY DEF OfSingle
<1> QED BY <1>3, <1>5, <1>6, <1>7, <1>8, <1>9

LEMMA OkTruth ==
  ASSUME WriterInv, CachesFromCalls, BooksOK', SyncedKept, NEW c \in Calls, Lookup(c) = "ok",
         c \in Singles
  PROVE Vouched(c)
<1>1. PICK t : t = cache[ReqOf[c]].tx
  OBVIOUS
<1>2. /\ t \in Calls /\ ReqOf[t] = ReqOf[c] /\ DurableCall(t)
      /\ Kind[t] = "single" \/ t \in Serves(c)
  BY <1>1, LookupTruth DEF Singles
<1>3. DurableCall(t)'
  BY <1>2, DurableStays DEF WriterInv
<1> QED BY <1>2, <1>3 DEF Vouched

LEMMA CallsSpeak ==
  ASSUME WriterInv, CachesFromCalls, BooksOK', SyncedKept, NEW c \in Calls,
         CallSteps(c) \/ Refuse(c) \/ Drop(c)
  PROVE Speaks
<1>1. CallsOK
  BY DEF WriterInv, CommandsOK
<1>2. CASE StartRecovery(c) \/ CacheAppend(c) \/ Drop(c)
  BY <1>2, Silent DEF StartRecovery, CacheAppend, Drop
<1>3. CASE Refuse(c) \/ WriterGone(c) \/ MergeHistory(c)
  <2>1. CASE UNCHANGED reply
    BY <2>1, Silent
  <2>2. CASE AnswerOne(c, "failed") /\ pc[c] \in Unanswered
    BY <1>1, <2>2, SpeaksOne DEF Told
  <2> QED BY <1>3, <2>1, <2>2 DEF Refuse, WriterGone, MergeHistory, Unanswered
<1>4. CASE Admit(c)
  <2>1. pc[c] \in Unanswered
    BY <1>4 DEF Admit, Unanswered
  <2>2. CASE UNCHANGED reply
    BY <2>2, Silent
  <2>3. CASE AnswerOne(c, Lookup(c)) /\ Lookup(c) \in {"ok", "conflict"}
    <3>1. PICK v \in Told : v = Lookup(c)
      BY <2>3 DEF Told
    <3> QED BY <1>1, <2>1, <2>3, <3>1, SpeaksOne, OkTruth
  <2>4. CASE \E v \in {"absent", "conflict"} : AnswerOne(c, v)
    <3>1. PICK v \in Told : AnswerOne(c, v) /\ v # "ok"
      BY <2>4 DEF Told
    <3> QED BY <1>1, <2>1, <3>1, SpeaksOne
  <2> QED BY <1>4, <2>2, <2>3, <2>4 DEF Admit
<1> QED BY <1>2, <1>3, <1>4 DEF CallSteps

LEMMA TakesSpeak ==
  ASSUME WriterInv, CachesFromCalls, BooksOK', SyncedKept, TakeSingle \/ TakeMulti \/ TakeRecover
  PROVE Speaks
<1>1. CallsOK
  BY DEF WriterInv, CommandsOK
<1>2. PICK x : x = queue[1]
  OBVIOUS
<1>3. queue # <<>> /\ x.op \in {"single", "multi", "recover"}
  BY <1>2 DEF TakeSingle, TakeMulti, TakeRecover, Ready, Head1
<1>4. PICK c \in Calls : c = x.call /\ Kind[c] = x.op /\ pc[c] \in Unanswered \cup {"dropped"}
  <2>1. x.op \in Kinds /\ x.op # "shutdown"
    BY <1>3 DEF Kinds
  <2> QED BY <1>2, <1>3, <2>1, HeadTyped DEF Unanswered
<1>5. Lookup(c) \in {"miss", "conflict", "pending", "ok"}
  BY LookupTyped
<1>6. CASE UNCHANGED reply
  BY <1>6, Silent
<1>7. ASSUME NEW v \in Told, AnswerOne(c, v), v = "ok" => Lookup(c) = "ok"
      PROVE Speaks
  BY <1>1, <1>4, <1>7, SpeaksOne, OkTruth
<1>8. UNCHANGED reply \/ \E v \in Told : AnswerOne(c, v) /\ (v = "ok" => Lookup(c) = "ok")
  <2>1. CASE TakeSingle
    <3>1. UNCHANGED reply \/ (AnswerOne(c, Lookup(c)) /\ Lookup(c) \in Told)
      BY <1>2, <1>4, <1>5, <2>1 DEF TakeSingle, Head1, Told
    <3> QED BY <3>1
  <2>2. CASE TakeMulti
    <3>1. \/ UNCHANGED reply
          \/ AnswerOne(c, Lookup(c)) /\ Lookup(c) \in Told
          \/ AnswerOne(c, "failed")
      BY <1>2, <1>4, <1>5, <2>2 DEF TakeMulti, Head1, Told
    <3> QED BY <3>1 DEF Told
  <2>3. CASE TakeRecover
    <3>1. \/ AnswerOne(c, Lookup(c)) /\ Lookup(c) \in Told
          \/ AnswerOne(c, "absent")
      BY <1>2, <1>4, <1>5, <2>3 DEF TakeRecover, Head1, Told
    <3> QED BY <3>1 DEF Told
  <2> QED BY <2>1, <2>2, <2>3
<1> QED BY <1>6, <1>7, <1>8

(* An entry the writer's handle holds is durable once it is synced. *)
LEMMA SyncedIsDurable ==
  ASSUME WriterInv, BooksOK', ledger' = Synced(handle), ino' = ino, handle' = handle,
         NEW t, InHandle(t)
  PROVE DurableCall(t)'
<1>1. BooksOK /\ handle \in 0..ino /\ handle' \in 0..ino /\ handle \in 1..MaxInode
  BY WriterBounds DEF WriterInv, BooksOK, InHandle
<1>2. /\ ledger'[handle].log = ledger[handle].log
      /\ ledger'[handle].synced = Len(ledger[handle].log)
  BY <1>1, SyncedBooks
<1>3. PICK k \in DOMAIN ledger[handle].log : ledger[handle].log[k].call = t
  BY DEF InHandle
<1>4. k \in 1..Len(ledger[handle].log)
  BY <1>1, <1>3, LogTyped
<1>5. k \in 1..ledger'[handle].synced /\ ledger'[handle].log[k].call = t
  BY <1>2, <1>3, <1>4
<1> QED BY <1>1, <1>5 DEF DurableCall

LEMMA RetrySyncSpeaks ==
  ASSUME WriterInv, CachesFromCalls, BooksOK', RetrySync
  PROVE Speaks
<1>1. CallsOK
  BY DEF WriterInv, CommandsOK
<1>2. PICK x : x = queue[1]
  OBVIOUS
<1>3. /\ queue # <<>> /\ x.op \in {"single", "multi", "recover"} /\ UNCHANGED <<ino, handle>>
      /\ Lookup(x.call) = "pending"
      /\ \/ /\ AnswerOne(x.call, "ok") /\ ledger' = Synced(handle)
            /\ Kind[x.call] # "multi" => Retained(cache[ReqOf[x.call]].tx)
         \/ AnswerOne(x.call, "uncertain")
  BY <1>2 DEF RetrySync, Head1
<1>4. PICK c \in Calls : c = x.call /\ Kind[c] = x.op /\ pc[c] \in Unanswered \cup {"dropped"}
  <2>1. x.op \in Kinds /\ x.op # "shutdown"
    BY <1>3 DEF Kinds
  <2> QED BY <1>2, <1>3, <2>1, HeadTyped DEF Unanswered
<1>5. CASE AnswerOne(c, "uncertain")
  BY <1>1, <1>4, <1>5, SpeaksOne DEF Told
<1>6. CASE /\ AnswerOne(c, "ok") /\ ledger' = Synced(handle)
           /\ Kind[c] # "multi" => Retained(cache[ReqOf[c]].tx)
  <2>1. ASSUME c \in Singles
        PROVE Vouched(c)
    <3>1. PICK t : t = cache[ReqOf[c]].tx
      OBVIOUS
    <3>2. t \in Calls /\ Kind[t] = "single" /\ ReqOf[t] = ReqOf[c]
      BY <1>3, <1>4, <2>1, <3>1, LookupTruth DEF Singles
    <3>3. Retained(t)
      BY <1>6, <2>1, <3>1 DEF Singles
    <3>4. InHandle(t)
      BY <3>3 DEF Retained, InHandle, Entries
    <3>5. DurableCall(t)'
      BY <1>3, <1>6, <3>4, SyncedIsDurable
    <3> QED BY <3>2, <3>5 DEF Vouched
  <2> QED BY <1>1, <1>4, <1>6, <2>1, SpeaksOne DEF Told
<1> QED BY <1>3, <1>4, <1>5, <1>6

LEMMA FinishSpeaks ==
  ASSUME WriterInv, BooksOK', SyncedKept, Finish
  PROVE Speaks
<1>1. CallsOK
  BY DEF WriterInv, CommandsOK
<1>2. PICK c : c = Cur
  OBVIOUS
<1>3. cmd.op \in {"durable", "uncertain"}
  BY DEF Finish, Running
<1>4. PICK v \in Told : v = IF cmd.op = "durable" THEN "ok" ELSE "uncertain"
  BY DEF Told
<1>5. AnswerOne(c, v)
  BY <1>2, <1>4 DEF Finish
<1>6. c \in Calls /\ Kind[c] \in {"single", "multi"} /\ pc[c] \in Unanswered \cup {"dropped"}
  BY <1>2, <1>3, Working DEF Unanswered
<1>7. ASSUME c \in Singles, v = "ok" PROVE Kind[c] = "single" /\ DurableCall(c)'
  <2>1. Kind[c] = "single" /\ cmd.op = "durable"
    BY <1>4, <1>6, <1>7 DEF Singles
  <2>2. DurableCall(c)
    BY <1>2, <2>1 DEF WriterInv, DurableKnown, HandDurable
  <2> QED BY <2>1, <2>2, DurableStays DEF WriterInv
<1>8. c \in Singles /\ v = "ok" => Vouched(c)
  BY <1>6, <1>7 DEF Vouched
<1> QED BY <1>1, <1>5, <1>6, <1>8, SpeaksOne

LEMMA AbortSpeaks ==
  ASSUME WriterInv, Stage \/ Backup \/ Undo
  PROVE Speaks
<1>1. CallsOK
  BY DEF WriterInv, CommandsOK
<1>2. cmd.op \notin {"idle", "batch"}
  BY DEF Stage, Backup, Undo, Running
<1>3. PICK c : c = Cur
  OBVIOUS
<1>4. c \in Calls /\ pc[c] \in Unanswered \cup {"dropped"}
  BY <1>2, <1>3, Working DEF Unanswered
<1>5. UNCHANGED reply \/ AnswerOne(c, "failed")
  BY <1>3 DEF Stage, Backup, Undo, Abort
<1>6. CASE AnswerOne(c, "failed")
  BY <1>1, <1>4, <1>6, SpeaksOne DEF Told
<1> QED BY <1>5, <1>6, Silent

LEMMA BatchSyncSpeaks ==
  ASSUME WriterInv, BatchSync
  PROVE Speaks
<1>1. /\ cmd.op = "batch" /\ cmd.calls \in Seq(Calls)
      /\ \A k \in DOMAIN cmd.calls : Kind[cmd.calls[k]] = "append"
  BY DEF BatchSync, Running, WriterInv, CommandsOK, HandOK
<1>2. \A c \in Entries(cmd.calls) : c \notin Singles
  BY <1>1 DEF Entries, Singles
<1>3. \E v : Answer(Entries(cmd.calls), v)
  BY DEF BatchSync
<1>4. \A c \in Singles : c \in Calls
  BY DEF Singles
<1>5. \A c \in Singles : reply'[c] = reply[c]
  BY <1>2, <1>3, <1>4 DEF Answer
<1> QED BY <1>5, Silent

LEMMA TakeShutdownSpeaks ==
  ASSUME WriterInv, TakeShutdown
  PROVE Speaks
<1>1. CallsOK /\ queue \in Seq(Command)
  BY DEF WriterInv, CommandsOK, QueueOK
<1>2. Answer(Behind, [c \in Behind |-> "failed"])
  BY DEF TakeShutdown
<1>3. ASSUME NEW c \in Behind \cap Calls PROVE pc[c] \in Unanswered \cup {"dropped"}
  <2>1. PICK k \in 2..Len(queue) : queue[k].call = c
    BY <1>3 DEF Behind
  <2>2. k \in DOMAIN queue
    BY <1>1, <2>1
  <2>3. Queued(c)
    BY <2>1, <2>2 DEF Queued
  <2> QED BY <2>3, NotBusy DEF Unanswered
<1>4. PICK v : v = [c \in Behind |-> "failed"]
  OBVIOUS
<1>5. /\ Answer(Behind, v)
      /\ \A c \in Behind : v[c] \in Told /\ v[c] # "ok"
  BY <1>2, <1>4 DEF Told
<1> QED BY <1>1, <1>3, <1>5, SpeaksAll

LEMMA StepSpeaks ==
  ASSUME WriterInv, CachesFromCalls, BooksOK', Quiet, [Next]_vars
  PROVE Speaks
<1>1. SyncedKept
  BY DEF Quiet
<1>2. CASE TakeBarrier \/ TakeBatch \/ Rename \/ AppendEntries \/ Sync \/ BatchAppend
  BY <1>2, Silent DEF TakeBarrier, TakeBatch, Rename, AppendEntries, Sync, BatchAppend
<1>3. CASE AskShutdown \/ ShutdownTimesOut \/ DaemonDies \/ Replace \/ UNCHANGED vars
  BY <1>3, Silent DEF AskShutdown, ShutdownTimesOut, DaemonDies, Replace, vars
<1> QED BY <1>1, <1>2, <1>3, CallsSpeak, TakesSpeak, RetrySyncSpeaks, FinishSpeaks, AbortSpeaks,
           BatchSyncSpeaks, TakeShutdownSpeaks DEF Next, WriterLoop, Take, Transact

(***************************************************************************)
(* The invariant of the refinement.                                        *)
(***************************************************************************)
OfSingles(m) == m # Missing /\ m.ident # NoIdent => OfSingle(m) \/ OfGroup(m)
OfGroups(m) == m # Missing => Kind[m.tx] = "multi" /\ m.ident = IdentOf[m.tx]

LEMMA CachesStay ==
  ASSUME CachesFromCalls,
         \A r \in Requests : /\ cache'[r] = cache[r] \/ OfSingles(cache'[r])
                             /\ multi'[r] = multi[r] \/ OfGroups(multi'[r])
  PROVE CachesFromCalls'
BY DEF CachesFromCalls, OfSingles, OfGroups, OfSingle, OfGroup

LEMMA MergeFits ==
  ASSUME WriterInv, CachesFromCalls, NEW c \in Calls, MergeHistory(c)
  PROVE CachesFromCalls'
<1>1. multi' = multi
  BY DEF MergeHistory
<1>2. ASSUME NEW r \in Requests
      PROVE cache'[r] = cache[r] \/ OfSingles(cache'[r])
  <2>1. CASE Recovered(r) = {} \/ cache' = cache
    BY <2>1 DEF MergeHistory
  <2>2. CASE Recovered(r) # {}
    <3>1. PICK d : d = CHOOSE x \in Recovered(r) : TRUE
      OBVIOUS
    <3>2. d \in Recovered(r)
      BY <2>2, <3>1
    <3>3. Kind[d] = "single"
      BY <3>2 DEF Recovered, WriterInv, DurableKnown, FoundDurable
    <3>4. OfSingles(ReplayOf(d))
      BY <3>3 DEF OfSingles, OfSingle, ReplayOf
    <3>5. cache' = cache \/ cache'[r] \in {cache[r], ReplayOf(d)}
      BY <3>1 DEF MergeHistory
    <3> QED BY <3>4, <3>5
  <2> QED BY <2>1, <2>2
<1> QED BY <1>1, <1>2, CachesStay

LEMMA CacheAppendFits ==
  ASSUME WriterInv, CachesFromCalls, NEW c \in Calls, CacheAppend(c)
  PROVE CachesFromCalls'
<1>1. multi' = multi
  BY DEF CacheAppend
<1>2. ASSUME NEW r \in Requests
      PROVE cache'[r] = cache[r] \/ cache'[r].ident = NoIdent
  BY DEF CacheAppend, WriterInv, CacheTypes
<1> QED BY <1>1, <1>2, CachesStay DEF OfSingles

(* What a durable group leaves for single transactions is a group's entry. *)
LEMMA EntryFits ==
  ASSUME NEW m \in Cached, Kind[m.tx] = "multi", m.ident = IdentOf[m.tx]
  PROVE OfSingles(OfEntry(m))
<1>1. m.ident \in Idents
  BY CallAssumption DEF Cached
<1>2. /\ OfEntry(m).tx = m.tx /\ OfEntry(m).dur = "durable" /\ ~OfEntry(m).named
      /\ OfEntry(m).ident = EntryIdent[IdentOf[m.tx]]
  BY <1>1, EntryCached
<1> QED BY <1>2 DEF OfSingles, OfGroup

LEMMA RetrySyncFits ==
  ASSUME WriterInv, CachesFromCalls, RetrySync
  PROVE CachesFromCalls'
<1>1. PICK c : c = queue[1].call
  OBVIOUS
<1> DEFINE q == ReqOf[c]
           m == IF Kind[c] = "multi" THEN multi[q] ELSE cache[q]
           one == [m EXCEPT !.dur = "durable"]
<1>2. /\ queue # <<>> /\ queue[1].op \in {"single", "multi", "recover"} /\ Lookup(c) = "pending"
      /\ \/ UNCHANGED <<cache, multi>>
         \/ /\ Kind[c] = "multi" /\ multi' = [multi EXCEPT ![q].dur = "durable"]
            /\ cache' = GroupKnown(q, one)
         \/ /\ Kind[c] # "multi" /\ cache' = [cache EXCEPT ![q].dur = "durable"]
            /\ UNCHANGED multi
  BY <1>1 DEF RetrySync, Head1
<1>3. c \in Calls /\ q \in Requests
  <2>1. PICK x : x = queue[1]
    OBVIOUS
  <2>2. c \in Calls
    BY <1>1, <1>2, <2>1, HeadTyped
  <2> QED BY <2>2, CallAssumption
<1>4. m \in Cached /\ m # Missing
  <2>1. m \in Cached \cup {Missing} /\ m # Missing
    BY <1>2, <1>3 DEF WriterInv, CacheTypes, Lookup, LookupSingle, LookupMulti, LookupAppend
  <2> QED BY <2>1
<1>5. IF Kind[c] = "multi" THEN OfGroups(m) ELSE OfSingles(m)
  BY <1>3 DEF CachesFromCalls, OfSingles, OfGroups
<1>6. one \in Cached /\ one.tx = m.tx /\ one.ident = m.ident /\ one.named = m.named
      /\ one.dur = "durable"
  BY <1>4 DEF Cached
<1> HIDE DEF m, one
<1>7. Kind[c] = "multi" => OfGroups(one) /\ OfSingles(OfEntry(one))
  BY <1>4, <1>5, <1>6, EntryFits DEF OfGroups
<1>8. Kind[c] # "multi" => OfSingles(one)
  BY <1>4, <1>5, <1>6 DEF OfSingles, OfSingle, OfGroup
<1>9. ASSUME NEW r \in Requests
      PROVE /\ cache'[r] = cache[r] \/ OfSingles(cache'[r])
            /\ multi'[r] = multi[r] \/ OfGroups(multi'[r])
  <2>1. cache \in [Requests -> Cached \cup {Missing}] /\ multi \in [Requests -> Cached \cup {Missing}]
    BY DEF WriterInv, CacheTypes
  <2>2. CASE Kind[c] = "multi"
    <3>1. cache'[r] \in {cache[r], OfEntry(one)} /\ multi'[r] \in {multi[r], one}
      BY <1>2, <1>3, <1>6, <2>1, <2>2 DEF GroupKnown, m, one
    <3> QED BY <1>7, <2>2, <3>1
  <2>3. CASE Kind[c] # "multi"
    <3>1. cache'[r] \in {cache[r], one} /\ multi'[r] = multi[r]
      BY <1>2, <1>3, <2>1, <2>3 DEF m, one
    <3> QED BY <1>8, <2>3, <3>1
  <2> QED BY <2>2, <2>3
<1> QED BY <1>9, CachesStay

LEMMA FinishFits ==
  ASSUME WriterInv, CachesFromCalls, Finish
  PROVE CachesFromCalls'
<1>1. PICK c : c = Cur
  OBVIOUS
<1>2. PICK o \in {"durable", "uncertain"} : o = cmd.op
  BY DEF Finish, Running
<1> DEFINE m == [tx |-> c, ident |-> IdentOf[c], named |-> Named[c], dur |-> o]
<1>3. c \in Calls /\ Kind[c] \in {"single", "multi"} /\ ReqOf[c] \in Requests
  BY <1>1, <1>2, Working, CallAssumption
<1>4. /\ IF Kind[c] = "multi"
         THEN multi' = [multi EXCEPT ![ReqOf[c]] = m] /\ cache' = GroupKnown(ReqOf[c], m)
         ELSE cache' = [cache EXCEPT ![ReqOf[c]] = m] /\ UNCHANGED multi
  BY <1>1, <1>2 DEF Finish
<1>5. /\ m \in Cached /\ m.tx = c /\ m.ident = IdentOf[c]
      /\ Kind[c] = "single" => OfSingles(m)
      /\ Kind[c] = "multi" => OfGroups(m)
  BY <1>3, CallAssumption DEF Cached, OfSingles, OfSingle, OfGroups
<1> HIDE DEF m
<1>6. Kind[c] = "multi" => OfSingles(OfEntry(m))
  BY <1>5, EntryFits
<1>7. ASSUME NEW r \in Requests
      PROVE /\ \/ cache'[r] = cache[r]
               \/ Kind[c] = "single" /\ cache'[r] = m
               \/ Kind[c] = "multi" /\ cache'[r] = OfEntry(m)
            /\ multi'[r] = multi[r] \/ (Kind[c] = "multi" /\ multi'[r] = m)
  BY <1>3, <1>4 DEF WriterInv, CacheTypes, GroupKnown
<1> QED BY <1>5, <1>6, <1>7, CachesStay

LEMMA CachesStep ==
  ASSUME WriterInv, CachesFromCalls, [Next]_vars
  PROVE CachesFromCalls'
<1>1. CASE UNCHANGED <<cache, multi>>
  BY <1>1, CachesStay
<1>2. CASE DaemonDies
  <2>1. \A r \in Requests : cache'[r] = Missing /\ multi'[r] = Missing
    BY <1>2 DEF DaemonDies
  <2> QED BY <2>1 DEF CachesFromCalls
<1>3. CASE \E c \in Calls : CallSteps(c) \/ Refuse(c) \/ Drop(c)
  <2>1. CASE \E c \in Calls : StartRecovery(c) \/ Admit(c) \/ WriterGone(c) \/ Refuse(c) \/ Drop(c)
    BY <1>1, <2>1 DEF StartRecovery, Admit, WriterGone, Refuse, Drop
  <2> QED BY <1>3, <2>1, MergeFits, CacheAppendFits DEF CallSteps
<1>4. CASE TakeBarrier \/ TakeBatch \/ TakeSingle \/ TakeMulti \/ TakeRecover \/ TakeShutdown
  BY <1>1, <1>4 DEF TakeBarrier, TakeBatch, TakeSingle, TakeMulti, TakeRecover, TakeShutdown
<1>5. CASE Stage \/ Backup \/ Rename \/ Undo \/ AppendEntries \/ Sync \/ BatchAppend \/ BatchSync
  BY <1>1, <1>5 DEF Stage, Backup, Rename, Undo, AppendEntries, Sync, BatchAppend, BatchSync
<1>6. CASE AskShutdown \/ ShutdownTimesOut \/ Replace \/ UNCHANGED vars
  BY <1>1, <1>6 DEF AskShutdown, ShutdownTimesOut, Replace, vars
<1> QED BY <1>2, <1>3, <1>4, <1>5, <1>6, RetrySyncFits, FinishFits
        DEF Next, WriterLoop, Take, Transact

LEMMA TruthfulStays ==
  ASSUME WriterInv, SinglesTruthful, BooksOK', SyncedKept, Speaks
  PROVE SinglesTruthful'
<1>1. ASSUME NEW c \in Singles, reply'[c] = "ok"
      PROVE \/ \E d \in Calls : Kind[d] = "single" /\ ReqOf[d] = ReqOf[c] /\ DurableCall(d)'
            \/ \E g \in Serves(c) : DurableCall(g)'
  <2>0. \A d : DurableCall(d) => DurableCall(d)'
    BY DurableStays DEF WriterInv
  <2>1. CASE reply[c] = "ok"
    <3>1. \/ \E d \in Calls : Kind[d] = "single" /\ ReqOf[d] = ReqOf[c] /\ DurableCall(d)
          \/ \E g \in Serves(c) : DurableCall(g)
      BY <2>1 DEF SinglesTruthful
    <3> QED BY <2>0, <3>1
  <2>2. CASE reply[c] # "ok"
    BY <1>1, <2>0, <2>2 DEF Speaks, Vouched
  <2> QED BY <2>1, <2>2
<1> QED BY <1>1 DEF SinglesTruthful

LEMMA SyncedKeptAlways ==
  ASSUME WriterInv, [Next]_vars
  PROVE SyncedKept
<1>1. CASE Quiet
  BY <1>1 DEF Quiet
<1>2. CASE Applies
  <2>1. PICK c : c = Cur
    OBVIOUS
  <2>2. c \in Calls
    BY <1>2, <2>1, Working DEF Applies
  <2>3. BooksOK /\ ino \in 1..ino /\ handle' \in 0..ino
    BY <1>2 DEF Applies, WriterInv, BooksOK
  <2>4. PICK s \in Seq(Entry) : s = EntriesOf(c)
    BY <2>2, EntriesTyped
  <2>5. ledger' = Written(ino, s) /\ ino' = ino
    BY <1>2, <2>1, <2>4 DEF Applies
  <2> QED BY <2>3, <2>5, WrittenKeeps
<1>3. CASE DaemonDies
  <2>1. PICK n \in ledger[ino].synced..Len(ledger[ino].log) :
           ledger' = [ledger EXCEPT ![ino].log = SubSeq(@, 1, n)]
    BY <1>3 DEF DaemonDies
  <2>2. ino' = ino /\ handle' = 0 /\ BooksOK
    BY <1>3 DEF DaemonDies, WriterInv
  <2> QED BY <2>1, <2>2, DeathKeeps
<1>4. CASE Replace
  <2>1. ino < MaxInode /\ ino' = ino + 1 /\ handle' = handle /\ BooksOK
    BY <1>4 DEF Replace, WriterInv
  <2>2. PICK n \in {0, Len(ledger[ino].log)} :
           ledger' = [ledger EXCEPT ![ino + 1] = [log |-> SubSeq(ledger[ino].log, 1, n), synced |-> n]]
    BY <1>4 DEF Replace
  <2> QED BY <2>1, <2>2, ReplaceKeeps
<1> QED BY <1>1, <1>2, <1>3, <1>4, StepQuiet

LEMMA RefinementInvStep ==
  ASSUME WriterInv, RefinementInv, [Next]_vars
  PROVE RefinementInv'
<1>1. WriterInv' /\ SyncedKept /\ BooksOK /\ BooksOK'
  BY StepKeeps, SyncedKeptAlways DEF WriterInv
<1>2. CachesFromCalls'
  BY CachesStep DEF RefinementInv
<1>3. Speaks
  <2>1. CASE Quiet
    BY <1>1, <2>1, StepSpeaks DEF RefinementInv
  <2>2. CASE Applies \/ DaemonDies \/ Replace
    BY <2>2, Silent DEF Applies, DaemonDies, Replace
  <2> QED BY <2>1, <2>2, StepQuiet
<1>4. SinglesTruthful'
  BY <1>1, <1>3, TruthfulStays DEF RefinementInv
<1>5. CopiesSynced'
  <2>1. CASE Quiet
    BY <1>1, <2>1, QuietTells DEF RefinementInv
  <2>2. CASE Applies
    BY <2>2, AppliedTells DEF RefinementInv
  <2> QED BY <2>1, <2>2, StepQuiet, DeathTells, ReplaceTells DEF RefinementInv
<1> QED BY <1>2, <1>4, <1>5 DEF RefinementInv

LEMMA RefinementInvInit ==
  ASSUME Init
  PROVE RefinementInv
<1>1. /\ reply = [c \in Calls |-> "none"] /\ ino = 1
      /\ cache = [r \in Requests |-> Missing] /\ multi = [r \in Requests |-> Missing]
  BY DEF Init
<1>2. \A c \in Singles : reply[c] = "none"
  BY <1>1 DEF Singles
<1>3. SinglesTruthful
  BY <1>2 DEF SinglesTruthful
<1>4. CopiesSynced
  BY <1>1 DEF CopiesSynced
<1>5. CachesFromCalls
  BY <1>1 DEF CachesFromCalls
<1> QED BY <1>3, <1>4, <1>5 DEF RefinementInv

(***************************************************************************)
(* Every step is a step of AtomicLedger.                                   *)
(***************************************************************************)
Ack(v) == CASE v = "none" -> "none" [] v = "ok" -> "ok" [] OTHER -> "declined"

LEMMA AnswersAre ==
  /\ Answers \in [Singles -> {"none", "ok", "declined"}]
  /\ Answers' \in [Singles -> {"none", "ok", "declined"}]
  /\ \A c \in Singles : Answers[c] = Ack(reply[c]) /\ Answers'[c] = Ack(reply'[c])
  /\ (\A c \in Singles : reply'[c] = reply[c]) => Answers' = Answers
BY DEF Answers, Ack

(* An answer: of one caller "ok", or of some callers that they have nothing. *)
LEMMA AnswerIsStep ==
  ASSUME WriterInv, WriterInv', Speaks, Telling' = Telling, Before' = Before,
         Grouped \subseteq Grouped'
  PROVE [Atomic!Next]_(Atomic!vars)
<1>1. ASSUME NEW c \in Singles, reply'[c] = "ok", reply[c] # "ok"
      PROVE Atomic!Next
  <2>1. /\ reply[c] = "none" /\ \A d \in Singles : d # c => reply'[d] = reply[d]
    BY <1>1 DEF Speaks
  <2>2. ASSUME NEW d \in Calls, Kind[d] = "single", DurableCall(d)'
        PROVE d \in Telling \cup Before
    <3>1. PICK n \in 1..MaxInode : \E k \in 1..ledger'[n].synced : ledger'[n].log[k].call = d
      BY <2>2 DEF DurableCall
    <3>2. PICK k \in 1..ledger'[n].synced : ledger'[n].log[k].call = d
      BY <3>1
    <3>3. PICK i : i = ino'
      OBVIOUS
    <3>4. /\ ledger'[n].log \in Seq(Entry) /\ ledger'[n].synced \in Nat
          /\ ledger'[n].synced <= Len(ledger'[n].log)
          /\ i \in 1..MaxInode /\ MaxInode \in Nat
          /\ n \in (i + 1)..MaxInode => ledger'[n].synced = 0
      BY <3>3, WriterBounds DEF WriterInv, BooksOK
    <3>5. k \in DOMAIN ledger'[n].log
      <4>1. PICK log, synced : log = ledger'[n].log /\ synced = ledger'[n].synced
        OBVIOUS
      <4>2. log \in Seq(Entry) /\ synced \in Nat /\ synced <= Len(log) /\ k \in 1..synced
        BY <3>4, <4>1
      <4> QED BY <4>1, <4>2
    <3>6. n = i \/ n \in 1..(i - 1)
      <4>1. n \notin (i + 1)..MaxInode
        BY <3>4
      <4>2. i \in Nat /\ n \in Nat
        BY <3>4
      <4> QED BY <3>4, <4>1, <4>2
    <3>7. SingleIn(ledger'[n].log, d)
      BY <2>2, <3>2, <3>5 DEF SingleIn
    <3>8. d \in Telling' \/ d \in Before'
      BY <3>3, <3>6, <3>7, TellingIs
    <3> QED BY <3>8
  <2>3. \/ \E d \in Telling \cup Before : ReqOf[d] = ReqOf[c]
        \/ Serves(c) \cap Grouped # {}
    <3>1. CASE \E d \in Calls : Kind[d] = "single" /\ ReqOf[d] = ReqOf[c] /\ DurableCall(d)'
      BY <2>2, <3>1
    <3>2. CASE \E g \in Serves(c) : DurableCall(g)
      BY <3>2 DEF Serves, Grouped
    <3> QED BY <1>1, <3>1, <3>2 DEF Speaks, Vouched
  <2>4. Answers' = [Answers EXCEPT ![c] = "ok"] /\ Answers[c] = "none"
    <3>1. Answers[c] = "none" /\ Answers'[c] = "ok"
      BY <1>1, <2>1, AnswersAre DEF Ack
    <3>2. \A e \in Singles : e # c => Answers'[e] = Answers[e]
      BY <2>1, AnswersAre
    <3> QED BY <3>1, <3>2, AnswersAre
  <2>5. Atomic!Acknowledge(c)
    BY <2>3, <2>4 DEF Atomic!Acknowledge, Atomic!Told, Atomic!Served, Telling, Before, Grouped, Answers
  <2> QED BY <2>5 DEF Atomic!Next, Grouped
<1>2. ASSUME \A c \in Singles : reply'[c] = "ok" => reply[c] = "ok"
      PROVE Atomic!Next
  <2>0. PICK S : S = {c \in Singles : reply'[c] # reply[c]}
    OBVIOUS
  <2>1. \A c \in S : Answers[c] = "none"
    BY <2>0, AnswersAre DEF Speaks, Ack
  <2>2. \A c \in Singles : Answers'[c] = IF c \in S THEN "declined" ELSE Answers[c]
    <3>1. \A c \in S : reply'[c] \in Told /\ reply'[c] # "ok"
      BY <1>2, <2>0 DEF Speaks
    <3>2. \A c \in S : Answers'[c] = "declined"
      BY <2>0, <3>1, AnswersAre DEF Told, Ack
    <3>3. \A c \in Singles : c \notin S => Answers'[c] = Answers[c]
      BY <2>0, AnswersAre
    <3> QED BY <3>2, <3>3
  <2>3. Answers' = [c \in Singles |-> IF c \in S THEN "declined" ELSE Answers[c]]
    BY <2>2, AnswersAre
  <2>4. Atomic!Decline(S)
    BY <2>1, <2>3 DEF Atomic!Decline, Telling, Before, Answers
  <2>5. S \in SUBSET Singles
    BY <2>0
  <2> QED BY <2>4, <2>5 DEF Atomic!Next, Grouped
<1> QED BY <1>1, <1>2

LEMMA StepIsAtomic ==
  ASSUME WriterInv, RefinementInv, [Next]_vars
  PROVE [Atomic!Next]_(Atomic!vars)
<1>1. WriterInv' /\ RefinementInv' /\ BooksOK /\ BooksOK'
  BY StepKeeps, RefinementInvStep DEF WriterInv
<1>0. Grouped \subseteq Grouped'
  BY <1>1, SyncedKeptAlways, DurableStays DEF Grouped
<1>2. CASE Quiet
  <2>1. Telling' = Telling /\ Before' = Before
    BY <1>1, <1>2, QuietTells
  <2>2. Speaks
    BY <1>1, <1>2, StepSpeaks DEF RefinementInv
  <2> QED BY <1>0, <1>1, <2>1, <2>2, AnswerIsStep
<1>3. CASE Applies
  <2>1. PICK c : c = Cur
    OBVIOUS
  <2>2. /\ c \in Singles /\ Telling' = Telling \cup {c} /\ Before' = Before
        /\ \A d \in Telling : ReqOf[d] # ReqOf[c]
    BY <1>3, <2>1, AppliedTells
  <2>3. Answers' = Answers
    BY <1>3, AnswersAre DEF Applies
  <2>4. Atomic!Apply(c)
    BY <2>2, <2>3 DEF Atomic!Apply, Atomic!Told, Telling, Before, Answers
  <2> QED BY <1>0, <2>2, <2>4 DEF Atomic!Next, Grouped
<1>4. CASE DaemonDies
  <2>1. /\ Telling' \subseteq Telling /\ Before' = Before
        /\ \A d \in Telling \ Telling', c \in Singles : reply[c] = "ok" /\ ReqOf[c] = ReqOf[d] =>
              \/ \E e \in Before : ReqOf[e] = ReqOf[c]
              \/ \E g \in Serves(c) : DurableCall(g)
    BY <1>4, DeathTells DEF RefinementInv
  <2>2. Answers' = Answers
    BY <1>4, AnswersAre DEF DaemonDies
  <2>3. PICK S : S = Telling \ Telling'
    OBVIOUS
  <2>4. Telling' = Telling \ S /\ S \subseteq Telling
    BY <2>1, <2>3
  <2>5. \A c \in Singles : Answers[c] = "ok" => reply[c] = "ok"
    BY AnswersAre DEF Ack
  <2>6. \A d \in S, c \in Singles : Answers[c] = "ok" /\ ReqOf[c] = ReqOf[d] =>
           \/ \E e \in Before : ReqOf[e] = ReqOf[c]
           \/ Serves(c) \cap Grouped # {}
    BY <2>1, <2>3, <2>5 DEF Grouped, Serves
  <2>7. Atomic!Crash(S)
    BY <2>1, <2>2, <2>4, <2>6
       DEF Atomic!Crash, Atomic!Told, Atomic!Served, Telling, Before, Grouped, Answers
  <2>8. S \in SUBSET TellsOf(ino)
    BY <2>4 DEF Telling
  <2> QED BY <1>0, <2>7, <2>8 DEF Atomic!Next, Grouped
<1>5. CASE Replace
  <2>1. /\ Telling' \subseteq Telling /\ Before' = Before \cup (Telling \ Telling')
    BY <1>5, ReplaceTells
  <2>2. Answers' = Answers
    BY <1>5, AnswersAre DEF Replace
  <2>3. PICK S : S = Telling \ Telling'
    OBVIOUS
  <2>4. Telling' = Telling \ S /\ S \subseteq Telling /\ Before' = Before \cup S
    BY <2>1, <2>3
  <2>5. Atomic!Replaced(S)
    BY <2>2, <2>4 DEF Atomic!Replaced, Telling, Before, Answers
  <2>6. S \in SUBSET TellsOf(ino)
    BY <2>4 DEF Telling
  <2> QED BY <1>0, <2>5, <2>6 DEF Atomic!Next, Grouped
<1> QED BY <1>2, <1>3, <1>4, <1>5, StepQuiet

LEMMA InitIsAtomic ==
  ASSUME Init
  PROVE Atomic!Init
<1>1. /\ reply = [c \in Calls |-> "none"] /\ ino = 1
      /\ ledger = [n \in 1..MaxInode |-> [log |-> <<>>, synced |-> 0]]
  BY DEF Init
<1>2. ledger[ino].log = <<>>
  BY <1>1, WriterBounds
<1>3. \A d : d \notin Telling /\ d \notin Before
  <2>1. \A d : d \notin Telling
    BY <1>2, TellingIs DEF SingleIn
  <2>2. 1..(ino - 1) = {}
    BY <1>1
  <2> QED BY <2>1, <2>2, TellingIs
<1>4. Telling = {} /\ Before = {}
  BY <1>3
<1>5. Answers = [c \in Singles |-> "none"]
  BY <1>1 DEF Answers, Singles
<1>6. Grouped = {}
  BY <1>1, WriterBounds DEF Grouped, DurableCall
<1> QED BY <1>4, <1>5, <1>6 DEF Atomic!Init, Telling, Before, Grouped, Answers

(* Towards the callers of single transactions the writer is a ledger that applies each *)
(* request at one moment and acknowledges it only afterwards, or for a durable group    *)
(* that serves it.                                                                      *)
THEOREM WriterImplementsAtomic == Spec => ImplementsAtomic
<1>1. Init => RefinementInv /\ Atomic!Init
  BY RefinementInvInit, InitIsAtomic
<1>2. WriterInv /\ RefinementInv /\ [Next]_vars => RefinementInv'
  BY RefinementInvStep
<1>3. WriterInv /\ RefinementInv /\ [Next]_vars => [Atomic!Next]_(Atomic!vars)
  BY StepIsAtomic
<1>4. Spec => []RefinementInv
  BY <1>1, <1>2, WriterInvariant, PTL DEF Spec
<1> QED BY <1>1, <1>3, <1>4, WriterInvariant, PTL DEF Spec, ImplementsAtomic, Atomic!Spec

-----------------------------------------------------------------------------
(***************************************************************************)
(* The commands ahead: the queue loses commands at its head, and gains     *)
(* those of new calls at its tail.                                         *)
(***************************************************************************)
Moves(m) == \A k \in DOMAIN queue' : k + m \in DOMAIN queue /\ queue'[k] = queue[k + m]
Enqueues(c) ==
    pc[c] = "new" /\ \E op \in Kinds \cup {"barrier"} : queue' = Append(queue, [op |-> op, call |-> c])

LEMMA TailMoves ==
  ASSUME QueueOK, queue' = Tail(queue), queue # <<>>
  PROVE Moves(1)
<1>1. queue \in Seq(Command)
  BY DEF QueueOK
<1> QED BY <1>1 DEF Moves

LEMMA SameMoves ==
  ASSUME QueueOK, queue' = queue
  PROVE Moves(0)
<1>1. queue \in Seq(Command)
  BY DEF QueueOK
<1>2. \A k \in DOMAIN queue : k + 0 = k
  BY <1>1
<1> QED BY <1>2 DEF Moves

LEMMA SubMoves ==
  ASSUME QueueOK, NEW n \in 1..Len(queue), queue' = SubSeq(queue, n + 1, Len(queue))
  PROVE Moves(n)
<1> DEFINE len == Len(queue)
<1>1. queue \in Seq(Command) /\ len \in Nat /\ n \in 1..len /\ DOMAIN queue = 1..len
  BY DEF QueueOK
<1>2. queue' = SubSeq(queue, n + 1, len)
  OBVIOUS
<1> HIDE DEF len
<1>3. /\ DOMAIN queue' = 1..(len - n)
      /\ \A k \in 1..(len - n) : queue'[k] = queue[n + k]
  BY <1>1, <1>2
<1>4. \A k \in 1..(len - n) : k + n = n + k /\ k + n \in 1..len
  BY <1>1
<1> QED BY <1>1, <1>3, <1>4 DEF Moves

LEMMA AppendedLast ==
  ASSUME QueueOK, NEW x, queue' = Append(queue, x)
  PROVE /\ Len(queue) \in Nat /\ DOMAIN queue = 1..Len(queue)
        /\ \A k \in DOMAIN queue' : \/ k \in DOMAIN queue /\ queue'[k] = queue[k]
                                    \/ k = Len(queue) + 1 /\ queue'[k] = x
        /\ \A k \in DOMAIN queue' : k \in Nat /\ k <= Len(queue) + 1
<1> DEFINE len == Len(queue)
<1>1. /\ len \in Nat /\ DOMAIN queue = 1..len /\ DOMAIN queue' = 1..(len + 1)
      /\ \A k \in 1..len : queue'[k] = queue[k]
      /\ queue'[len + 1] = x
  BY DEF QueueOK
<1> HIDE DEF len
<1>2. \A k \in 1..(len + 1) : k \in Nat /\ k <= len + 1 /\ (k \in 1..len \/ k = len + 1)
  BY <1>1
<1> QED BY <1>1, <1>2 DEF len

LEMMA QueueEvolves ==
  ASSUME WriterInv, [Next]_vars
  PROVE \/ (\E m \in Nat : Moves(m)) /\ (before' = before \/ before' = {})
        \/ (\E c \in Calls : Enqueues(c)) /\ before' = before
        \/ AskShutdown
<1>0. QueueOK
  BY DEF WriterInv, CommandsOK
<1>1. CASE queue' = queue /\ before' = before
  BY <1>0, <1>1, SameMoves
<1>2. CASE queue # <<>> /\ queue' = Tail(queue) /\ before' = before
  BY <1>0, <1>2, TailMoves
<1>3. CASE queue' = <<>> /\ (before' = before \/ before' = {})
  <2>1. Moves(0)
    BY <1>3 DEF Moves
  <2> QED BY <1>3, <2>1
<1>4. CASE TakeBatch
  <2>1. PICK n \in 1..Len(queue) : queue' = SubSeq(queue, n + 1, Len(queue))
    BY <1>4 DEF TakeBatch
  <2>2. n \in Nat /\ before' = before
    BY <1>4 DEF TakeBatch
  <2> QED BY <1>0, <2>1, <2>2, SubMoves
<1>5. CASE \E c \in Calls : CallSteps(c) \/ Refuse(c) \/ Drop(c)
  <2>1. PICK c \in Calls : CallSteps(c) \/ Refuse(c) \/ Drop(c)
    BY <1>5
  <2>2. CASE StartRecovery(c)
    BY <2>2 DEF StartRecovery, Enqueues, Enqueue
  <2>3. CASE Admit(c)
    <3>1. Kind[c] \in Kinds
      BY CallAssumption
    <3> QED BY <1>1, <2>3, <3>1 DEF Admit, Enqueues, Enqueue
  <2> QED BY <1>1, <2>1, <2>2, <2>3 DEF CallSteps, Refuse, Drop, MergeHistory, CacheAppend, WriterGone
<1>6. CASE TakeBarrier \/ TakeSingle \/ TakeMulti \/ TakeRecover \/ RetrySync
  BY <1>2, <1>6 DEF TakeBarrier, TakeSingle, TakeMulti, TakeRecover, RetrySync, Ready
<1>7. CASE TakeShutdown \/ DaemonDies
  BY <1>3, <1>7 DEF TakeShutdown, DaemonDies
<1>8. CASE Transact \/ BatchAppend \/ BatchSync
  BY <1>1, <1>8 DEF Transact, Stage, Backup, Rename, Undo, AppendEntries, Sync, Finish, BatchAppend,
                    BatchSync
<1>9. CASE ShutdownTimesOut \/ Replace \/ UNCHANGED vars
  BY <1>1, <1>9 DEF ShutdownTimesOut, Replace, vars
<1> QED BY <1>4, <1>5, <1>6, <1>7, <1>8, <1>9 DEF Next, WriterLoop, Take

(* No call starts again, but for the one whose history was merged. *)
LEMMA EarlyNarrows ==
  ASSUME WriterInv, [Next]_vars, NEW c \in Calls, pc'[c] \in Early
  PROVE pc[c] \in Early
<1>1. pc \in [Calls -> {"new", "scanning", "scanned", "waiting", "answered", "done", "dropped"}]
  BY DEF WriterInv, CommandsOK, CallsOK
<1>2. CASE pc' = pc
  BY <1>2
<1>3. ASSUME NEW cs, NEW v, Answer(cs, v) PROVE pc[c] \in Early
  BY <1>3 DEF Answer, Early
<1>4. CASE \E d \in Calls : CallSteps(d) \/ Refuse(d) \/ Drop(d)
  <2>1. PICK d \in Calls : CallSteps(d) \/ Refuse(d) \/ Drop(d)
    BY <1>4
  <2>2. CASE Refuse(d) \/ WriterGone(d)
    BY <1>3, <2>2 DEF Refuse, WriterGone, AnswerOne
  <2>3. CASE StartRecovery(d) \/ CacheAppend(d) \/ Drop(d)
    BY <1>1, <2>3 DEF StartRecovery, CacheAppend, Drop, Early
  <2>4. CASE MergeHistory(d)
    BY <1>1, <1>3, <2>4 DEF MergeHistory, AnswerOne, Early
  <2>5. CASE Admit(d)
    BY <1>1, <1>3, <2>5 DEF Admit, AnswerOne, Early
  <2> QED BY <2>1, <2>2, <2>3, <2>4, <2>5 DEF CallSteps
<1>5. CASE TakeBarrier
  <2>1. CASE loader = Head1.call
    <3>1. loader \in Calls \cup {NoCall} /\ pc' = [pc EXCEPT ![loader] = "scanned"]
      BY <1>5, <2>1 DEF TakeBarrier, WriterInv, CacheTypes
    <3>2. loader # NoCall => pc[loader] \in {"scanning", "scanned"}
      BY DEF WriterInv, HistoryKnown, LoaderBusy
    <3> QED BY <1>1, <3>1, <3>2, CallAssumption DEF Early
  <2> QED BY <1>2, <1>5, <2>1 DEF TakeBarrier
<1>6. CASE TakeBatch \/ Rename \/ AppendEntries \/ Sync \/ BatchAppend
  BY <1>2, <1>6 DEF TakeBatch, Rename, AppendEntries, Sync, BatchAppend
<1>7. CASE TakeSingle \/ TakeMulti \/ TakeRecover \/ RetrySync \/ TakeShutdown
  BY <1>2, <1>3, <1>7 DEF TakeSingle, TakeMulti, TakeRecover, RetrySync, TakeShutdown, AnswerOne
<1>8. CASE Stage \/ Backup \/ Undo \/ Finish \/ BatchSync
  BY <1>2, <1>3, <1>8 DEF Stage, Backup, Undo, Finish, BatchSync, Abort, AnswerOne
<1>9. CASE DaemonDies
  BY <1>1, <1>9 DEF DaemonDies, Early
<1>10. CASE AskShutdown \/ ShutdownTimesOut \/ Replace \/ UNCHANGED vars
  BY <1>2, <1>10 DEF AskShutdown, ShutdownTimesOut, Replace, vars
<1> QED BY <1>4, <1>5, <1>6, <1>7, <1>8, <1>9, <1>10 DEF Next, WriterLoop, Take, Transact

LEMMA AheadNarrows ==
  ASSUME WriterInv, [Next]_vars, NEW c \in Calls, Ahead(c)'
  PROVE Ahead(c)
<1>0. QueueOK
  BY DEF WriterInv, CommandsOK
<1>1. CASE pc'[c] \in Early
  BY <1>1, EarlyNarrows DEF Ahead
<1>2. CASE Queued(c)'
  <2>1. PICK k \in DOMAIN queue' : queue'[k].call = c
    BY <1>2 DEF Queued
  <2>2. ASSUME NEW m \in Nat, Moves(m) PROVE Queued(c)
    BY <2>1, <2>2 DEF Moves, Queued
  <2>3. ASSUME NEW d \in Calls, Enqueues(d) PROVE Ahead(c)
    <3>1. PICK op \in Kinds \cup {"barrier"} : queue' = Append(queue, [op |-> op, call |-> d])
      BY <2>3 DEF Enqueues
    <3>2. queue'[k] = [op |-> op, call |-> d] \/ (k \in DOMAIN queue /\ queue'[k] = queue[k])
      BY <1>0, <3>1, AppendedLast
    <3> QED BY <2>1, <2>3, <3>2 DEF Enqueues, Ahead, Queued, Early
  <2>4. ASSUME AskShutdown PROVE Queued(c)
    <3>1. queue' = Append(queue, [op |-> "shutdown", call |-> NoCall])
      BY <2>4 DEF AskShutdown
    <3>2. queue'[k] = [op |-> "shutdown", call |-> NoCall] \/ (k \in DOMAIN queue /\ queue'[k] = queue[k])
      BY <1>0, <3>1, AppendedLast
    <3> QED BY <2>1, <3>2, CallAssumption DEF Queued
  <2> QED BY <2>2, <2>3, <2>4, QueueEvolves DEF Ahead
<1> QED BY <1>1, <1>2 DEF Ahead

(***************************************************************************)
(* The shutdown.                                                           *)
(***************************************************************************)
LEMMA ShutdownLastStep ==
  ASSUME WriterInv, ShutdownLast, [Next]_vars
  PROVE ShutdownLast'
<1>0. QueueOK
  BY DEF WriterInv, CommandsOK
<1>1. ASSUME NEW c \in before' PROVE c \in Calls /\ ~(pc'[c] \in Early)
  <2>1. CASE before' = before \/ before' = {}
    <3>1. c \in Calls /\ ~(pc[c] \in Early)
      BY <1>1, <2>1 DEF ShutdownLast
    <3> QED BY <3>1, EarlyNarrows
  <2>2. CASE AskShutdown
    BY <1>1, <2>2 DEF AskShutdown, Early
  <2> QED BY <2>1, <2>2, QueueEvolves
<1>2. ASSUME NEW j \in DOMAIN queue', NEW k \in DOMAIN queue', queue'[j].op = "shutdown", j < k
      PROVE queue'[k].call \notin before'
  <2>1. ASSUME NEW m \in Nat, Moves(m), before' = before \/ before' = {}
        PROVE queue'[k].call \notin before'
    <3>1. /\ j + m \in DOMAIN queue /\ queue'[j] = queue[j + m]
          /\ k + m \in DOMAIN queue /\ queue'[k] = queue[k + m]
      BY <2>1 DEF Moves
    <3>2. queue' \in Seq(Command)
      BY StepKeeps DEF WriterInv, CommandsOK, QueueOK
    <3>3. j \in Nat /\ k \in Nat
      BY <3>2
    <3>4. j + m < k + m
      BY <1>2, <2>1, <3>3
    <3>5. queue[k + m].call \notin before
      BY <1>2, <3>1, <3>4 DEF ShutdownLast
    <3> QED BY <2>1, <3>1, <3>5
  <2>2. ASSUME NEW c \in Calls, Enqueues(c), before' = before
        PROVE queue'[k].call \notin before'
    <3>1. PICK op \in Kinds \cup {"barrier"} : queue' = Append(queue, [op |-> op, call |-> c])
      BY <2>2 DEF Enqueues
    <3>2. op # "shutdown"
      BY DEF Kinds
    <3>3. /\ \A i \in DOMAIN queue' : \/ i \in DOMAIN queue /\ queue'[i] = queue[i]
                                      \/ i = Len(queue) + 1 /\ queue'[i] = [op |-> op, call |-> c]
      BY <1>0, <3>1, AppendedLast
    <3>4. j \in DOMAIN queue /\ queue'[j] = queue[j]
      BY <1>2, <3>2, <3>3
    <3>5. CASE k \in DOMAIN queue /\ queue'[k] = queue[k]
      BY <1>2, <2>2, <3>4, <3>5 DEF ShutdownLast
    <3>6. CASE queue'[k] = [op |-> op, call |-> c]
      <4>1. pc[c] \in Early
        BY <2>2 DEF Enqueues, Early
      <4> QED BY <2>2, <3>6, <4>1 DEF ShutdownLast
    <3> QED BY <3>3, <3>5, <3>6
  <2>3. CASE AskShutdown
    <3>1. /\ queue' = Append(queue, [op |-> "shutdown", call |-> NoCall])
          /\ \A i \in DOMAIN queue : queue[i].op # "shutdown"
      BY <2>3 DEF AskShutdown
    <3>2. /\ Len(queue) \in Nat
          /\ \A i \in DOMAIN queue' : \/ i \in DOMAIN queue /\ queue'[i] = queue[i]
                                      \/ i = Len(queue) + 1
          /\ \A i \in DOMAIN queue' : i \in Nat /\ i <= Len(queue) + 1
      BY <1>0, <3>1, AppendedLast
    <3>3. j = Len(queue) + 1
      BY <1>2, <3>1, <3>2
    <3>4. k <= j /\ j \in Nat /\ k \in Nat
      BY <3>2, <3>3
    <3> QED BY <1>2, <3>4
  <2> QED BY <2>1, <2>2, <2>3, QueueEvolves
<1> QED BY <1>1, <1>2 DEF ShutdownLast

LEMMA CleanStep ==
  ASSUME WriterInv, ShutdownLast, [Next]_vars, outcome' = "clean", outcome # "clean"
  PROVE cmd = Idle /\ \A k \in DOMAIN queue : queue[k].call \notin before
<1>1. CASE TakeShutdown
  <2>1. cmd = Idle /\ queue # <<>> /\ queue[1].op = "shutdown"
    BY <1>1 DEF TakeShutdown, Ready, Head1
  <2>2. queue \in Seq(Command)
    BY DEF WriterInv, CommandsOK, QueueOK
  <2>3. 1 \in DOMAIN queue /\ \A k \in DOMAIN queue : k = 1 \/ 1 < k
    BY <2>1, <2>2
  <2>4. queue[1].call \notin Calls
    <3>1. queue[1] \in Command
      BY <2>2, <2>3
    <3> QED BY <2>1, <3>1, CallAssumption DEF Command, Kinds
  <2>5. queue[1].call \notin before
    BY <2>4 DEF ShutdownLast
  <2> QED BY <2>1, <2>3, <2>5 DEF ShutdownLast
<1>2. CASE \E c \in Calls : CallSteps(c) \/ Refuse(c) \/ Drop(c)
  BY <1>2 DEF CallSteps, Refuse, Drop, StartRecovery, MergeHistory, Admit, CacheAppend, WriterGone
<1>3. CASE TakeBarrier \/ TakeBatch \/ TakeSingle \/ TakeMulti \/ TakeRecover \/ RetrySync
  BY <1>3 DEF TakeBarrier, TakeBatch, TakeSingle, TakeMulti, TakeRecover, RetrySync
<1>4. CASE Transact \/ BatchAppend \/ BatchSync
  BY <1>4 DEF Transact, Stage, Backup, Rename, Undo, AppendEntries, Sync, Finish, BatchAppend, BatchSync
<1>5. CASE AskShutdown \/ ShutdownTimesOut \/ DaemonDies \/ Replace \/ UNCHANGED vars
  BY <1>5 DEF AskShutdown, ShutdownTimesOut, DaemonDies, Replace, vars
<1> QED BY <1>1, <1>2, <1>3, <1>4, <1>5 DEF Next, WriterLoop, Take

(***************************************************************************)
(* The commands in the writer's hands: it goes on with what it has, ends   *)
(* it, or takes from the queue.                                            *)
(***************************************************************************)
Takes ==
    /\ cmd = Idle
    /\ \A c \in Calls : InHand(c)' => Queued(c)
    /\ UNCHANGED <<events, disk, installed, excused, ledger, ino>>
TakesOne(c) ==
    /\ Takes /\ Queued(c)
    /\ cmd' = [op |-> "stage", calls |-> <<c>>, i |-> 1, old |-> <<>>, bad |-> {}]
GoesOnWith ==
    Stage \/ Backup \/ Rename \/ Undo \/ AppendEntries \/ Sync \/ Finish \/ BatchAppend \/ BatchSync

LEMMA TakenOne ==
  ASSUME WriterInv, TakeSingle \/ TakeMulti
  PROVE cmd' = cmd \/ \E c \in Calls : Kind[c] \in {"single", "multi"} /\ TakesOne(c)
<1>1. PICK c : c = Head1.call
  OBVIOUS
<1>2. /\ cmd = Idle /\ queue # <<>> /\ Head1.op \in {"single", "multi"}
      /\ UNCHANGED <<events, disk, installed, excused, ledger, ino>>
  BY DEF TakeSingle, TakeMulti, Ready
<1>3. c \in Calls /\ Kind[c] \in {"single", "multi"} /\ Queued(c)
  BY <1>1, <1>2, HeadTyped DEF Head1, Kinds, Queued
<1>4. CASE cmd' = [op |-> "stage", calls |-> <<c>>, i |-> 1, old |-> <<>>, bad |-> {}]
  <2>1. \A d \in Calls : InHand(d)' => d = c
    BY <1>4 DEF InHand
  <2> QED BY <1>2, <1>3, <1>4, <2>1 DEF Takes, TakesOne
<1> QED BY <1>1, <1>4 DEF TakeSingle, TakeMulti

LEMMA TakenBatch ==
  ASSUME WriterInv, TakeBatch
  PROVE Takes /\ cmd'.op = "batch"
<1>0. QueueOK
  BY DEF WriterInv, CommandsOK
<1>1. PICK n \in 1..Len(queue) :
         cmd' = [op |-> "batch", calls |-> [k \in 1..n |-> queue[k].call],
                 i |-> 1, old |-> <<>>, bad |-> {}]
  BY DEF TakeBatch
<1>2. \A k \in 1..n : k \in DOMAIN queue
  <2>1. queue \in Seq(Command)
    BY <1>0 DEF QueueOK
  <2> DEFINE len == Len(queue)
  <2>2. len \in Nat /\ DOMAIN queue = 1..len /\ n \in 1..len
    BY <2>1
  <2> HIDE DEF len
  <2> QED BY <2>2
<1>3. \A c \in Calls : InHand(c)' => Queued(c)
  BY <1>1, <1>2 DEF InHand, Queued
<1> QED BY <1>1, <1>3 DEF TakeBatch, Ready, Takes

LEMMA HandEvolves ==
  ASSUME WriterInv, [Next]_vars
  PROVE \/ UNCHANGED <<cmd, disk, installed>> /\ (excused' = excused \/ Replace)
        \/ TakeBatch
        \/ \E c \in Calls : Kind[c] \in {"single", "multi"} /\ TakesOne(c)
        \/ GoesOnWith
        \/ DaemonDies
<1>1. CASE \E c \in Calls : CallSteps(c) \/ Refuse(c) \/ Drop(c)
  BY <1>1 DEF CallSteps, Refuse, Drop, StartRecovery, MergeHistory, Admit, CacheAppend, WriterGone
<1>2. CASE TakeBarrier \/ TakeRecover \/ RetrySync \/ TakeShutdown
  BY <1>2 DEF TakeBarrier, TakeRecover, RetrySync, TakeShutdown
<1>3. CASE TakeSingle \/ TakeMulti
  <2>1. UNCHANGED <<disk, installed, excused>>
    BY <1>3 DEF TakeSingle, TakeMulti
  <2> QED BY <1>3, <2>1, TakenOne
<1>4. CASE AskShutdown \/ ShutdownTimesOut \/ Replace \/ UNCHANGED vars
  BY <1>4 DEF AskShutdown, ShutdownTimesOut, Replace, vars
<1> QED BY <1>1, <1>2, <1>3, <1>4 DEF Next, WriterLoop, Take, Transact, GoesOnWith

LEMMA HandNarrows ==
  ASSUME WriterInv, [Next]_vars, NEW c \in Calls, InHand(c)'
  PROVE InHand(c) \/ Queued(c)
<1>1. CASE UNCHANGED cmd
  BY <1>1 DEF InHand
<1>2. CASE TakeBatch \/ \E d \in Calls : TakesOne(d)
  BY <1>2, TakenBatch DEF TakesOne, Takes
<1>3. CASE cmd' = Idle
  BY <1>3, HandEmpty
<1>4. CASE GoesOnWith
  <2>1. cmd' = Idle \/ (cmd.op # "idle" /\ cmd'.calls = cmd.calls)
    <3>1. cmd = [op |-> cmd.op, calls |-> cmd.calls, i |-> cmd.i, old |-> cmd.old, bad |-> cmd.bad]
      BY DEF WriterInv, CommandsOK, HandOK
    <3>2. CASE Stage \/ Backup \/ Undo
      BY <3>1, <3>2 DEF Stage, Backup, Undo, Running, Abort
    <3>3. CASE Rename \/ AppendEntries \/ Sync
      BY <3>1, <3>3 DEF Rename, AppendEntries, Sync, Running
    <3>4. CASE BatchAppend
      BY <3>1, <3>4 DEF BatchAppend, Running
    <3> QED BY <1>4, <3>2, <3>3, <3>4 DEF GoesOnWith, Finish, BatchSync
  <2> QED BY <1>3, <2>1 DEF InHand
<1>5. CASE DaemonDies
  BY <1>3, <1>5 DEF DaemonDies
<1> QED BY <1>1, <1>2, <1>4, <1>5, HandEvolves

LEMMA UnfinishedNarrows ==
  ASSUME WriterInv, [Next]_vars, NEW c \in Calls, Unfinished(c)'
  PROVE Unfinished(c)
BY AheadNarrows, HandNarrows DEF Unfinished, Ahead

LEMMA InHandNotAhead ==
  ASSUME WriterInv, NEW c \in Calls, InHand(c)
  PROVE ~Ahead(c)
BY DEF WriterInv, CommandsOK, HandOK, Ahead, Early

(***************************************************************************)
(* The events.                                                             *)
(***************************************************************************)
UncertainKinds ==
    \A r \in Requests :
        /\ cache[r].dur = "uncertain" => Kind[cache[r].tx] = "single"
        /\ multi[r].dur = "uncertain" => Kind[multi[r].tx] = "multi"

LEMMA DurableStill ==
  ASSUME WriterInv, [Next]_vars, NEW c, DurableCall(c)
  PROVE DurableCall(c)'
BY DurableStays, SyncedKeptAlways, StepKeeps DEF WriterInv

(* A step that announces nothing and owes nothing new. *)
LEMMA NoEvent ==
  ASSUME WriterInv, EventsOnce, [Next]_vars, events' = events, UncertainKinds',
         \A c \in Calls : Uncertain(c)' => Uncertain(c)
  PROVE EventsOnce'
<1>1. \A c \in Calls : Uncertain(c)' => ~Unfinished(c)'
  BY UnfinishedNarrows DEF EventsOnce
<1>2. \A c \in Calls : events[c] = 1 => DurableCall(c)' /\ ~Unfinished(c)' /\ ~Uncertain(c)'
  BY DurableStill, UnfinishedNarrows DEF EventsOnce
<1> QED BY <1>1, <1>2 DEF EventsOnce, UncertainKinds

LEMMA CachesStill ==
  ASSUME WriterInv, EventsOnce, [Next]_vars, UNCHANGED <<events, cache, multi>>
  PROVE EventsOnce'
<1>1. UncertainKinds' /\ \A c \in Calls : Uncertain(c)' => Uncertain(c)
  BY DEF EventsOnce, UncertainKinds, Uncertain, Owed
<1> QED BY <1>1, NoEvent

(* What a step writes to the caches is durable. *)
LEMMA CachesSettle ==
  ASSUME WriterInv, EventsOnce, [Next]_vars, events' = events,
         \A r \in Requests : /\ cache'[r] = cache[r] \/ cache'[r].dur = "durable"
                             /\ multi'[r] = multi[r] \/ multi'[r].dur = "durable"
  PROVE EventsOnce'
<1>1. UncertainKinds' /\ \A c \in Calls : Uncertain(c)' => Uncertain(c)
  BY DEF EventsOnce, UncertainKinds, Uncertain, Owed
<1> QED BY <1>1, NoEvent

LEMMA FinishEvents ==
  ASSUME WriterInv, EventsOnce, [Next]_vars, Finish
  PROVE EventsOnce'
<1>1. PICK c : c = Cur
  OBVIOUS
<1>2. /\ c \in Calls /\ Kind[c] \in {"single", "multi"} /\ InHand(c) /\ ~Ahead(c)
      /\ cmd.op \in {"durable", "uncertain"}
  <2>1. cmd.op \in {"durable", "uncertain"}
    BY DEF Finish, Running
  <2> QED BY <1>1, <2>1, Working, InHandNotAhead
<1>3. PICK m : m = [tx |-> c, ident |-> IdentOf[c], named |-> Named[c], dur |-> cmd.op]
  OBVIOUS
<1>4. /\ IF Kind[c] = "multi"
         THEN /\ multi' = [multi EXCEPT ![ReqOf[c]] = m]
              /\ cache' = IF cmd.op = "durable"
                          THEN [cache EXCEPT ![ReqOf[c]] = OfEntry(m)]
                          ELSE cache
         ELSE /\ cache' = [cache EXCEPT ![ReqOf[c]] = m]
              /\ UNCHANGED multi
      /\ events' = IF cmd.op = "durable" THEN [events EXCEPT ![c] = @ + 1] ELSE events
      /\ cmd' = Idle
  BY <1>1, <1>3 DEF Finish, GroupKnown
<1>5. ~Unfinished(c)'
  <2>1. ~Ahead(c)'
    BY <1>2, AheadNarrows
  <2> QED BY <1>4, <2>1, HandEmpty DEF Unfinished
<1>6. Unfinished(c) /\ events[c] = 0 /\ ~Uncertain(c)
  <2>1. Unfinished(c)
    BY <1>2 DEF Unfinished
  <2> QED BY <1>2, <2>1 DEF EventsOnce
<1>7. /\ ReqOf[c] \in Requests
      /\ cache \in [Requests -> Cached \cup {Missing}] /\ multi \in [Requests -> Cached \cup {Missing}]
  BY <1>2, CallAssumption DEF WriterInv, CacheTypes
<1>8. m.tx = c /\ m.dur = cmd.op /\ OfEntry(m).dur = "durable"
  BY <1>3 DEF OfEntry
<1>9. \A r \in Requests : r # ReqOf[c] => cache'[r] = cache[r] /\ multi'[r] = multi[r]
  BY <1>4, <1>7
<1>10. /\ Kind[c] = "multi" => /\ multi'[ReqOf[c]] = m
                               /\ \/ cache'[ReqOf[c]] = cache[ReqOf[c]]
                                  \/ cache'[ReqOf[c]].dur = "durable"
       /\ Kind[c] # "multi" => cache'[ReqOf[c]] = m /\ multi'[ReqOf[c]] = multi[ReqOf[c]]
  BY <1>2, <1>4, <1>7, <1>8
<1>11. UncertainKinds'
  BY <1>2, <1>8, <1>9, <1>10 DEF EventsOnce, UncertainKinds
<1>12. ASSUME NEW d \in Calls, Uncertain(d)' PROVE Uncertain(d) \/ (d = c /\ cmd.op = "uncertain")
  <2>1. PICK r \in Requests : Owed(cache[r], d, "single")' \/ Owed(multi[r], d, "multi")'
    BY <1>12 DEF Uncertain
  <2>2. CASE r # ReqOf[c]
    BY <1>9, <2>1, <2>2 DEF Uncertain, Owed
  <2>3. CASE r = ReqOf[c]
    BY <1>2, <1>8, <1>10, <2>1, <2>3 DEF Uncertain, Owed
  <2> QED BY <2>2, <2>3
<1>13. \A d \in Calls : Uncertain(d)' => ~Unfinished(d)'
  BY <1>5, <1>12, UnfinishedNarrows DEF EventsOnce
<1>14. CASE cmd.op = "uncertain"
  <2>1. events' = events
    BY <1>4, <1>14
  <2>2. ASSUME NEW d \in Calls, events[d] = 1
        PROVE DurableCall(d)' /\ ~Unfinished(d)' /\ ~Uncertain(d)'
    BY <1>6, <1>12, <2>2, DurableStill, UnfinishedNarrows DEF EventsOnce
  <2> QED BY <1>11, <1>13, <2>1, <2>2 DEF EventsOnce, UncertainKinds
<1>15. CASE cmd.op = "durable"
  <2>1. events \in [Calls -> {0, 1}]
    BY DEF EventsOnce
  <2>2. events' \in [Calls -> {0, 1}] /\ \A d \in Calls : d # c => events'[d] = events[d]
    BY <1>2, <1>4, <1>6, <1>15, <2>1
  <2>3. DurableCall(c)' /\ ~Uncertain(c)'
    <3>1. DurableCall(c)
      BY <1>1, <1>15 DEF WriterInv, DurableKnown, HandDurable
    <3> QED BY <1>2, <1>6, <1>12, <1>15, <3>1, DurableStill
  <2>4. ASSUME NEW d \in Calls, events'[d] = 1
        PROVE DurableCall(d)' /\ ~Unfinished(d)' /\ ~Uncertain(d)'
    <3>1. CASE d = c
      BY <1>5, <2>3, <3>1
    <3>2. CASE d # c
      BY <1>12, <2>2, <2>4, <3>2, DurableStill, UnfinishedNarrows DEF EventsOnce
    <3> QED BY <3>1, <3>2
  <2> QED BY <1>11, <1>13, <2>2, <2>4 DEF EventsOnce, UncertainKinds
<1> QED BY <1>2, <1>14, <1>15

(* The retried sync pays what is owed, and announces it. *)
LEMMA RetrySyncEvents ==
  ASSUME WriterInv, EventsOnce, [Next]_vars, RetrySync
  PROVE EventsOnce'
<1>0. BooksOK'
  BY StepKeeps DEF WriterInv
<1>1. PICK x : x = queue[1]
  OBVIOUS
<1>2. /\ queue # <<>> /\ x.op \in {"single", "multi", "recover"} /\ UNCHANGED <<ino, handle>>
      /\ Lookup(x.call) = "pending"
  BY <1>1 DEF RetrySync, Head1
<1>3. PICK c \in Calls : c = x.call /\ Kind[c] = x.op
  <2>1. x.op \in Kinds /\ x.op # "shutdown"
    BY <1>2 DEF Kinds
  <2> QED BY <1>1, <1>2, <2>1, HeadTyped
<1>4. PICK r \in Requests : r = ReqOf[c]
  BY CallAssumption
<1>5. PICK m : m = IF Kind[c] = "multi" THEN multi[r] ELSE cache[r]
  OBVIOUS
<1>6. /\ m # Missing /\ m.dur = "uncertain" /\ m.tx \in Calls
      /\ Kind[m.tx] = IF Kind[c] = "multi" THEN "multi" ELSE "single"
  <2>1. m # Missing /\ m.dur = "uncertain"
    <3>1. CASE Kind[c] = "multi"
      BY <1>2, <1>3, <1>4, <1>5, <3>1 DEF Lookup, LookupMulti
    <3>2. CASE Kind[c] \in {"single", "recover"}
      BY <1>2, <1>3, <1>4, <1>5, <3>2 DEF Lookup, LookupSingle
    <3> QED BY <1>2, <1>3, <3>1, <3>2
  <2>2. m \in Cached
    BY <1>5, <2>1 DEF WriterInv, CacheTypes
  <2> QED BY <1>5, <2>1, <2>2 DEF Cached, EventsOnce
<1>7. PICK t \in Calls : t = m.tx
  BY <1>6
<1>8. Uncertain(t) /\ ~Unfinished(t) /\ events[t] = 0 /\ ReqOf[t] = r
  <2>1. Owed(cache[r], t, "single") \/ Owed(multi[r], t, "multi")
    BY <1>5, <1>6, <1>7 DEF Owed
  <2>2. Uncertain(t)
    BY <2>1 DEF Uncertain
  <2>3. ReqOf[t] = r
    BY <1>5, <1>6, <1>7 DEF WriterInv, DurableKnown, CachesDurable
  <2> QED BY <2>2, <2>3 DEF EventsOnce
<1>9. CASE UNCHANGED <<events, cache, multi>>
  BY <1>9, CachesStill
<1>10. CASE /\ Retained(t) /\ ledger' = Synced(handle)
            /\ IF Kind[c] = "multi"
               THEN /\ multi' = [multi EXCEPT ![r].dur = "durable"]
                    /\ cache' = GroupKnown(r, [m EXCEPT !.dur = "durable"])
               ELSE /\ cache' = [cache EXCEPT ![r].dur = "durable"]
                    /\ UNCHANGED multi
            /\ events' = [events EXCEPT ![t] = @ + 1]
  <2>1. DurableCall(t)'
    <3>1. InHandle(t)
      BY <1>10 DEF Retained, InHandle, Entries
    <3> QED BY <1>0, <1>2, <1>10, <3>1, SyncedIsDurable
  <2>2. /\ cache \in [Requests -> Cached \cup {Missing}] /\ multi \in [Requests -> Cached \cup {Missing}]
        /\ m \in Cached
    <3>1. cache \in [Requests -> Cached \cup {Missing}] /\ multi \in [Requests -> Cached \cup {Missing}]
      BY DEF WriterInv, CacheTypes
    <3> QED BY <1>5, <1>6, <3>1
  <2>3. [m EXCEPT !.dur = "durable"].dur = "durable"
        /\ OfEntry([m EXCEPT !.dur = "durable"]).dur = "durable"
    BY <2>2 DEF Cached, OfEntry
  <2>4. \A q \in Requests : q # r => cache'[q] = cache[q] /\ multi'[q] = multi[q]
    BY <1>10, <2>2 DEF GroupKnown
  <2>5. /\ cache'[r].dur = "durable"
        /\ Kind[c] = "multi" => multi'[r].dur = "durable"
        /\ Kind[c] # "multi" => multi'[r] = multi[r]
    <3>1. CASE Kind[c] = "multi"
      <4>1. multi'[r] = [m EXCEPT !.dur = "durable"]
        BY <1>5, <1>10, <2>2, <3>1
      <4>2. cache'[r] = OfEntry([m EXCEPT !.dur = "durable"])
        BY <1>10, <2>2, <2>3, <3>1 DEF GroupKnown
      <4> QED BY <2>3, <3>1, <4>1, <4>2
    <3>2. CASE Kind[c] # "multi"
      <4>1. cache'[r] = [m EXCEPT !.dur = "durable"] /\ multi'[r] = multi[r]
        BY <1>5, <1>10, <2>2, <3>2
      <4> QED BY <2>3, <3>2, <4>1
    <3> QED BY <3>1, <3>2
  <2>6. UncertainKinds'
    BY <2>4, <2>5 DEF EventsOnce, UncertainKinds
  <2>7. ASSUME NEW d \in Calls, Uncertain(d)' PROVE Uncertain(d) /\ d # t
    <3>1. PICK q \in Requests : Owed(cache[q], d, "single")' \/ Owed(multi[q], d, "multi")'
      BY <2>7 DEF Uncertain
    <3>2. CASE q # r
      <4>1. Owed(cache[q], d, "single") \/ Owed(multi[q], d, "multi")
        BY <2>4, <3>1, <3>2 DEF Owed
      <4>2. ReqOf[d] = q
        BY <4>1 DEF Owed, WriterInv, DurableKnown, CachesDurable
      <4> QED BY <1>8, <3>2, <4>1, <4>2 DEF Uncertain
    <3>3. CASE q = r
      <4>1. Kind[c] # "multi" /\ Owed(multi[r], d, "multi")
        BY <2>5, <3>1, <3>3 DEF Owed
      <4>2. Kind[d] = "multi" /\ Kind[t] = "single"
        BY <1>6, <1>7, <4>1 DEF Owed
      <4> QED BY <4>1, <4>2 DEF Uncertain
    <3> QED BY <3>2, <3>3
  <2>8. events \in [Calls -> {0, 1}]
    BY DEF EventsOnce
  <2>9. events' \in [Calls -> {0, 1}] /\ \A d \in Calls : d # t => events'[d] = events[d]
    BY <1>8, <1>10, <2>8
  <2>10. \A d \in Calls : Uncertain(d)' => ~Unfinished(d)'
    BY <2>7, UnfinishedNarrows DEF EventsOnce
  <2>11. ASSUME NEW d \in Calls, events'[d] = 1
         PROVE DurableCall(d)' /\ ~Unfinished(d)' /\ ~Uncertain(d)'
    <3>1. CASE d = t
      BY <1>8, <2>1, <2>7, <3>1, UnfinishedNarrows
    <3>2. CASE d # t
      BY <2>7, <2>9, <2>11, <3>2, DurableStill, UnfinishedNarrows DEF EventsOnce
    <3> QED BY <3>1, <3>2
  <2> QED BY <2>6, <2>9, <2>10, <2>11 DEF EventsOnce, UncertainKinds
<1> QED BY <1>1, <1>3, <1>4, <1>5, <1>7, <1>9, <1>10 DEF RetrySync, Head1

(* One sync makes the written entries of a batch durable, and each is announced. *)
LEMMA BatchSyncEvents ==
  ASSUME WriterInv, EventsOnce, [Next]_vars, BatchSync
  PROVE EventsOnce'
<1> DEFINE all == Entries(cmd.calls)
<1>0. BooksOK'
  BY StepKeeps DEF WriterInv
<1>1. /\ cmd.op = "batch" /\ cmd.i > Len(cmd.calls) /\ cmd' = Idle
      /\ UNCHANGED <<cache, multi, ino, handle>>
  BY DEF BatchSync, Running
<1>2. cmd.calls \in Seq(Calls) /\ cmd.i \in Int
  BY DEF WriterInv, CommandsOK, HandOK
<1>3. ASSUME NEW c \in Calls, c \in all PROVE InHand(c) /\ (c \notin cmd.bad => InHandle(c))
  <2>1. PICK k \in DOMAIN cmd.calls : cmd.calls[k] = c
    BY <1>3 DEF Entries
  <2>2. k < cmd.i
    BY <1>1, <1>2
  <2> QED BY <1>1, <2>1, <2>2 DEF InHand, WriterInv, DurableKnown, HandDurable
<1> HIDE DEF all
<1>4. UncertainKinds' /\ \A c \in Calls : Uncertain(c)' => Uncertain(c)
  BY <1>1 DEF EventsOnce, UncertainKinds, Uncertain, Owed
<1>5. CASE UNCHANGED events
  BY <1>4, <1>5, NoEvent
<1>6. CASE /\ ledger' = IF all = cmd.bad THEN ledger ELSE Synced(handle)
           /\ events' = [c \in Calls |-> IF c \in all \ cmd.bad THEN events[c] + 1 ELSE events[c]]
  <2>1. ASSUME NEW c \in Calls, c \in all \ cmd.bad
        PROVE events[c] = 0 /\ ~Uncertain(c) /\ ~Unfinished(c)' /\ DurableCall(c)'
    <3>1. InHand(c) /\ InHandle(c) /\ all # cmd.bad
      BY <1>3, <2>1
    <3>2. Unfinished(c)
      BY <3>1 DEF Unfinished
    <3>3. ~Ahead(c)' /\ ~InHand(c)'
      BY <1>1, <3>1, InHandNotAhead, AheadNarrows, HandEmpty
    <3>4. DurableCall(c)'
      BY <1>0, <1>1, <1>6, <3>1, SyncedIsDurable
    <3> QED BY <3>2, <3>3, <3>4 DEF EventsOnce, Unfinished
  <2>2. events \in [Calls -> {0, 1}]
    BY DEF EventsOnce
  <2>3. events' \in [Calls -> {0, 1}]
        /\ \A c \in Calls : events'[c] = events[c] \/ c \in all \ cmd.bad
    BY <1>6, <2>1, <2>2
  <2>4. \A c \in Calls : Uncertain(c)' => ~Unfinished(c)'
    BY <1>4, UnfinishedNarrows DEF EventsOnce
  <2>5. ASSUME NEW c \in Calls, events'[c] = 1
        PROVE DurableCall(c)' /\ ~Unfinished(c)' /\ ~Uncertain(c)'
    <3>1. CASE c \in all \ cmd.bad
      BY <1>4, <2>1, <3>1
    <3>2. CASE events'[c] = events[c]
      BY <1>4, <2>5, <3>2, DurableStill, UnfinishedNarrows DEF EventsOnce
    <3> QED BY <2>3, <3>1, <3>2
  <2> QED BY <1>4, <2>3, <2>4, <2>5 DEF EventsOnce, UncertainKinds
<1> QED BY <1>5, <1>6 DEF BatchSync, all

LEMMA EventsOnceStep ==
  ASSUME WriterInv, EventsOnce, [Next]_vars
  PROVE EventsOnce'
<1>1. CASE \E c \in Calls : CallSteps(c) \/ Refuse(c) \/ Drop(c)
  <2>1. PICK c \in Calls : CallSteps(c) \/ Refuse(c) \/ Drop(c)
    BY <1>1
  <2>2. CASE MergeHistory(c) \/ CacheAppend(c)
    <3>1. events' = events /\ multi' = multi
      BY <2>2 DEF MergeHistory, CacheAppend
    <3>2. \A r \in Requests : cache'[r] = cache[r] \/ cache'[r].dur = "durable"
      <4>1. CASE CacheAppend(c)
        BY <4>1 DEF CacheAppend, WriterInv, CacheTypes
      <4>2. CASE MergeHistory(c)
        BY <4>2 DEF MergeHistory, ReplayOf
      <4> QED BY <2>2, <4>1, <4>2
    <3> QED BY <3>1, <3>2, CachesSettle
  <2>3. CASE UNCHANGED <<events, cache, multi>>
    BY <2>3, CachesStill
  <2> QED BY <2>1, <2>2, <2>3 DEF CallSteps, Refuse, Drop, StartRecovery, Admit, WriterGone
<1>2. CASE TakeBarrier \/ TakeBatch \/ TakeSingle \/ TakeMulti \/ TakeRecover \/ TakeShutdown
  BY <1>2, CachesStill DEF TakeBarrier, TakeBatch, TakeSingle, TakeMulti, TakeRecover, TakeShutdown
<1>3. CASE Stage \/ Backup \/ Rename \/ Undo \/ AppendEntries \/ Sync \/ BatchAppend
  BY <1>3, CachesStill DEF Stage, Backup, Rename, Undo, AppendEntries, Sync, BatchAppend
<1>4. CASE DaemonDies
  <2>1. events' = events /\ \A r \in Requests : cache'[r] = Missing /\ multi'[r] = Missing
    BY <1>4 DEF DaemonDies
  <2> QED BY <2>1, CachesSettle DEF Missing
<1>5. CASE AskShutdown \/ ShutdownTimesOut \/ Replace \/ UNCHANGED vars
  BY <1>5, CachesStill DEF AskShutdown, ShutdownTimesOut, Replace, vars
<1> QED BY <1>1, <1>2, <1>3, <1>4, <1>5, FinishEvents, RetrySyncEvents, BatchSyncEvents
        DEF Next, WriterLoop, Take, Transact

(***************************************************************************)
(* The ledger: it tells of a transaction from its append on, unless a      *)
(* death or a replaced file takes the entry, which excuses the call.       *)
(***************************************************************************)
Records(d) ==
    /\ Journalled(d)' => Journalled(d)
    /\ Journalled(d) => Journalled(d)' \/ d \in excused'
    /\ Tells(d)' => Tells(d)

LEMMA JournalledAt ==
  ASSUME NEW d
  PROVE Journalled(d) <=> \E k \in DOMAIN ledger[ino].log : ledger[ino].log[k] = [call |-> d, part |-> 1]
BY DEF Journalled, Entries

LEMMA JournalledTells ==
  ASSUME BooksOK, NEW d, Journalled(d)
  PROVE Tells(d)
<1>1. PICK k \in DOMAIN ledger[ino].log : ledger[ino].log[k] = [call |-> d, part |-> 1]
  BY DEF Journalled, Entries
<1>2. ino \in 1..MaxInode /\ ledger[ino].log[k].call = d
  BY <1>1 DEF BooksOK
<1> QED BY <1>2 DEF Tells

LEMMA LogsRecord ==
  ASSUME BooksOK, ino' = ino, \A m \in 1..MaxInode : ledger'[m].log = ledger[m].log, NEW d
  PROVE Records(d)
<1>1. ino \in 1..MaxInode
  BY DEF BooksOK
<1> QED BY <1>1 DEF Records, Journalled, Tells

LEMMA WrittenRecord ==
  ASSUME BooksOK, NEW n \in 1..ino, NEW s \in Seq(Entry), ledger' = Written(n, s),
         ino' = ino, handle' \in 0..ino, NEW d, \A j \in DOMAIN s : s[j].call # d
  PROVE Records(d)
<1>1. /\ \A m \in 1..MaxInode : \A k \in DOMAIN ledger'[m].log :
            \/ k \in DOMAIN ledger[m].log /\ ledger'[m].log[k] = ledger[m].log[k]
            \/ \E j \in DOMAIN s : ledger'[m].log[k] = s[j]
      /\ \A m \in 1..MaxInode : \A k \in DOMAIN ledger[m].log :
            k \in DOMAIN ledger'[m].log /\ ledger'[m].log[k] = ledger[m].log[k]
  BY WrittenKeeps
<1>2. ino \in 1..MaxInode
  BY DEF BooksOK
<1>3. Journalled(d)' => Journalled(d)
  <2>1. ASSUME NEW k \in DOMAIN ledger'[ino].log, ledger'[ino].log[k] = [call |-> d, part |-> 1]
        PROVE k \in DOMAIN ledger[ino].log /\ ledger[ino].log[k] = [call |-> d, part |-> 1]
    <3>1. ledger'[ino].log[k].call = d
      BY <2>1
    <3> QED BY <1>1, <1>2, <2>1, <3>1
  <2> QED BY <2>1 DEF Journalled, Entries
<1>4. Journalled(d) => Journalled(d)'
  BY <1>1, <1>2 DEF Journalled, Entries
<1>5. Tells(d)' => Tells(d)
  BY <1>1 DEF Tells
<1> QED BY <1>3, <1>4, <1>5 DEF Records

LEMMA DeathRecord ==
  ASSUME WriterInv, DaemonDies, NEW d \in Calls
  PROVE Records(d)
<1> DEFINE log == ledger[ino].log
<1>1. PICK n \in ledger[ino].synced..Len(log) :
         /\ ledger' = [ledger EXCEPT ![ino].log = SubSeq(@, 1, n)]
         /\ {e.call : e \in Entries(SubSeq(log, n + 1, Len(log)))} \subseteq excused'
  BY DEF DaemonDies
<1>2. ino' = ino /\ handle' = 0 /\ BooksOK /\ ino \in 1..MaxInode
  BY LogTyped DEF DaemonDies, WriterInv
<1>3. /\ DOMAIN ledger'[ino].log = 1..n
      /\ \A k \in 1..n : ledger'[ino].log[k] = log[k]
      /\ \A m \in 1..MaxInode : m # ino => ledger'[m] = ledger[m]
  BY <1>1, <1>2, DeathKeeps
<1>4. log \in Seq(Entry) /\ n \in Nat /\ n <= Len(log)
  BY <1>1, <1>2 DEF BooksOK
<1> HIDE DEF log
<1>5. DOMAIN log = 1..Len(log) /\ \A k \in 1..n : k \in DOMAIN log
  BY <1>4
<1>6. Tells(d)' => Tells(d)
  BY <1>2, <1>3, <1>5 DEF Tells, log
<1>7. Journalled(d)' => Journalled(d)
  BY <1>2, <1>3, <1>5 DEF Journalled, Entries, log
<1>8. ASSUME Journalled(d), d \notin excused' PROVE Journalled(d)'
  <2>1. PICK k \in DOMAIN log : log[k] = [call |-> d, part |-> 1]
    BY <1>8 DEF Journalled, Entries, log
  <2>2. CASE k \in 1..n
    BY <1>2, <1>3, <2>1, <2>2 DEF Journalled, Entries
  <2>3. CASE k > n
    <3> DEFINE tail == SubSeq(log, n + 1, Len(log))
    <3>1. /\ k - n \in DOMAIN tail /\ tail[k - n] = log[k]
      BY <1>4, <1>5, <2>3
    <3>2. log[k] \in Entries(tail) /\ log[k].call = d
      BY <2>1, <3>1 DEF Entries
    <3> QED BY <1>1, <1>8, <3>2
  <2> QED BY <1>4, <1>5, <2>2, <2>3
<1> QED BY <1>6, <1>7, <1>8 DEF Records

LEMMA ReplaceRecord ==
  ASSUME WriterInv, Replace, NEW d \in Calls
  PROVE Records(d)
<1> DEFINE log == ledger[ino].log
<1>1. /\ ino < MaxInode /\ ino' = ino + 1 /\ handle' = handle /\ BooksOK /\ ino \in 1..MaxInode
      /\ ino + 1 \in 1..MaxInode
  <2>1. ino < MaxInode /\ ino' = ino + 1 /\ handle' = handle /\ BooksOK /\ ino \in 1..MaxInode
    BY LogTyped DEF Replace, WriterInv
  <2> QED BY <2>1, WriterBounds
<1>2. PICK n \in {0, Len(log)} :
         /\ ledger' = [ledger EXCEPT ![ino + 1] = [log |-> SubSeq(log, 1, n), synced |-> n]]
         /\ {log[k].call : k \in (n + 1)..Len(log)} \subseteq excused'
  BY DEF Replace
<1>3. /\ DOMAIN ledger'[ino'].log = 1..n
      /\ \A k \in 1..n : k \in DOMAIN log /\ ledger'[ino'].log[k] = log[k]
  BY <1>1, <1>2, ReplaceKeeps
<1>4. \A m \in 1..MaxInode : m # ino + 1 => ledger'[m] = ledger[m]
  BY <1>1, <1>2 DEF BooksOK
<1>5. log \in Seq(Entry) /\ DOMAIN log = 1..Len(log) /\ Len(log) \in Nat
  BY <1>1, LogTyped DEF BooksOK
<1>6. Journalled(d)' => Journalled(d)
  BY <1>1, <1>3 DEF Journalled, Entries
<1>7. ASSUME Tells(d)' PROVE Tells(d)
  <2>1. PICK m \in 1..MaxInode : \E k \in DOMAIN ledger'[m].log : ledger'[m].log[k].call = d
    BY <1>7 DEF Tells
  <2>2. CASE m = ino + 1
    BY <1>1, <1>3, <2>1, <2>2 DEF Tells
  <2>3. CASE m # ino + 1
    BY <1>4, <2>1, <2>3 DEF Tells
  <2> QED BY <2>2, <2>3
<1>8. ASSUME Journalled(d), d \notin excused' PROVE Journalled(d)'
  <2>1. PICK k \in DOMAIN log : log[k] = [call |-> d, part |-> 1]
    BY <1>8 DEF Journalled, Entries
  <2>2. CASE k \in 1..n
    BY <1>3, <2>1, <2>2 DEF Journalled, Entries
  <2>3. CASE ~(k \in 1..n)
    <3>1. k \in (n + 1)..Len(log)
      BY <1>5, <2>3
    <3>2. log[k].call = d
      BY <2>1
    <3> QED BY <1>2, <1>8, <3>1, <3>2
  <2> QED BY <2>2, <2>3
<1> QED BY <1>6, <1>7, <1>8 DEF Records

LEMMA AppendEntriesRecord ==
  ASSUME WriterInv, AppendEntries, NEW d, d # Cur
  PROVE Records(d)
<1>1. PICK c : c = Cur
  OBVIOUS
<1>2. c \in Calls /\ ino' = ino /\ handle' = ino
  BY <1>1, Working DEF AppendEntries, Running
<1>3. EntriesOf(c) \in Seq(Entry) /\ Len(EntriesOf(c)) = Parts(c) /\ Parts(c) \in {1, 2}
      /\ \A k \in DOMAIN EntriesOf(c) : EntriesOf(c)[k].call = c
  BY <1>2, EntriesTyped DEF Parts
<1>4. BooksOK /\ ino \in 1..ino /\ handle' \in 0..ino
  BY <1>2 DEF WriterInv, BooksOK
<1>5. CASE ledger' = Written(ino, EntriesOf(c))
  BY <1>1, <1>2, <1>3, <1>4, <1>5, WrittenRecord
<1>6. ASSUME NEW n \in 0..(Parts(c) - 1), ledger' = Written(ino, SubSeq(EntriesOf(c), 1, n))
      PROVE Records(d)
  <2> DEFINE u == SubSeq(EntriesOf(c), 1, n)
  <2>1. n \in Nat /\ n <= Len(EntriesOf(c))
    BY <1>3
  <2>2. u \in Seq(Entry) /\ \A j \in DOMAIN u : u[j].call = c
    BY <1>3, <2>1
  <2>3. ledger' = Written(ino, u)
    BY <1>6
  <2> HIDE DEF u
  <2> QED BY <1>1, <1>2, <1>4, <2>2, <2>3, WrittenRecord
<1> QED BY <1>1, <1>5, <1>6 DEF AppendEntries

LEMMA BatchAppendRecord ==
  ASSUME WriterInv, BatchAppend, NEW d, Kind[d] # "append"
  PROVE Records(d)
<1>1. /\ cmd.op = "batch" /\ cmd.i <= Len(cmd.calls)
      /\ handle' = (IF handle = 0 THEN ino ELSE handle) /\ ino' = ino
  BY DEF BatchAppend, Running
<1>2. /\ cmd.calls \in Seq(Calls) /\ cmd.i \in Int /\ cmd.i >= 1
      /\ \A k \in DOMAIN cmd.calls : Kind[cmd.calls[k]] = "append"
  BY <1>1 DEF WriterInv, CommandsOK, HandOK
<1>3. PICK c \in Calls : c = cmd.calls[cmd.i] /\ Kind[c] = "append"
  BY <1>1, <1>2
<1>4. BooksOK /\ handle' \in 1..ino /\ handle' \in 0..ino
  BY <1>1 DEF WriterInv, BooksOK
<1>5. EntriesOf(c) \in Seq(Entry) /\ \A k \in DOMAIN EntriesOf(c) : EntriesOf(c)[k].call = c
  BY EntriesTyped
<1>6. CASE ledger' = Written(handle', EntriesOf(c))
  <2>1. \A k \in DOMAIN EntriesOf(c) : EntriesOf(c)[k].call # d
    BY <1>3, <1>5
  <2>2. PICK n \in 1..ino : n = handle'
    BY <1>4
  <2>3. ledger' = Written(n, EntriesOf(c))
    BY <1>6, <2>2
  <2> QED BY <1>1, <1>4, <1>5, <2>1, <2>3, WrittenRecord
<1>7. CASE UNCHANGED ledger
  BY <1>1, <1>4, <1>7, LogsRecord
<1> QED BY <1>3, <1>6, <1>7 DEF BatchAppend

LEMMA RecordsKept ==
  ASSUME WriterInv, [Next]_vars, NEW d \in Calls, Kind[d] # "append",
         AppendEntries => d # Cur
  PROVE Records(d)
<1>0. BooksOK
  BY DEF WriterInv
<1>1. CASE UNCHANGED <<ledger, ino>>
  BY <1>0, <1>1, LogsRecord
<1>2. CASE \E c \in Calls : CallSteps(c) \/ Refuse(c) \/ Drop(c)
  BY <1>1, <1>2 DEF CallSteps, Refuse, Drop, StartRecovery, MergeHistory, Admit, CacheAppend, WriterGone
<1>3. CASE TakeBarrier \/ RetrySync \/ Sync \/ BatchSync
  <2>1. ino' = ino /\ handle' = handle
        /\ \/ UNCHANGED ledger
           \/ ledger' = Synced(ino)
           \/ ledger' = Synced(handle)
    BY <1>3 DEF TakeBarrier, RetrySync, Sync, BatchSync
  <2>2. ino \in 0..ino /\ handle \in 0..ino
    BY <1>0 DEF BooksOK
  <2>3. CASE ledger' = Synced(ino) \/ ledger' = Synced(handle)
    <3>1. \A m \in 1..MaxInode : ledger'[m].log = ledger[m].log
      BY <1>0, <2>1, <2>2, <2>3, SyncedBooks
    <3> QED BY <1>0, <2>1, <3>1, LogsRecord
  <2> QED BY <1>1, <2>1, <2>3
<1>4. CASE TakeBatch \/ TakeSingle \/ TakeMulti \/ TakeRecover \/ TakeShutdown
  BY <1>1, <1>4 DEF TakeBatch, TakeSingle, TakeMulti, TakeRecover, TakeShutdown
<1>5. CASE Stage \/ Backup \/ Rename \/ Undo \/ Finish
  BY <1>1, <1>5 DEF Stage, Backup, Rename, Undo, Finish
<1>6. CASE AskShutdown \/ ShutdownTimesOut \/ UNCHANGED vars
  BY <1>1, <1>6 DEF AskShutdown, ShutdownTimesOut, vars
<1> QED BY <1>2, <1>3, <1>4, <1>5, <1>6, AppendEntriesRecord, BatchAppendRecord, DeathRecord,
        ReplaceRecord DEF Next, WriterLoop, Take, Transact

(***************************************************************************)
(* The node files.                                                         *)
(***************************************************************************)
LEMMA ExcusedGrows ==
  ASSUME [Next]_vars PROVE excused \subseteq excused'
<1>1. CASE \E c \in Calls : CallSteps(c) \/ Refuse(c) \/ Drop(c)
  BY <1>1 DEF CallSteps, Refuse, Drop, StartRecovery, MergeHistory, Admit, CacheAppend, WriterGone
<1>2. CASE Take
  BY <1>2 DEF Take, TakeBarrier, TakeBatch, TakeSingle, TakeMulti, TakeRecover, RetrySync, TakeShutdown
<1>3. CASE Transact \/ BatchAppend \/ BatchSync
  BY <1>3 DEF Transact, Stage, Backup, Rename, Undo, AppendEntries, Sync, Finish, BatchAppend, BatchSync
<1>4. CASE DaemonDies
  BY <1>4 DEF DaemonDies
<1>5. CASE Replace
  BY <1>5 DEF Replace
<1>6. CASE AskShutdown \/ ShutdownTimesOut \/ UNCHANGED vars
  BY <1>6 DEF AskShutdown, ShutdownTimesOut, vars
<1> QED BY <1>1, <1>2, <1>3, <1>4, <1>5, <1>6 DEF Next, WriterLoop

LEMMA FilesStep ==
  ASSUME [Next]_vars
  PROVE Rename \/ Undo \/ UNCHANGED <<disk, installed>>
<1>1. CASE \E c \in Calls : CallSteps(c) \/ Refuse(c) \/ Drop(c)
  BY <1>1 DEF CallSteps, Refuse, Drop, StartRecovery, MergeHistory, Admit, CacheAppend, WriterGone
<1>2. CASE Take
  BY <1>2 DEF Take, TakeBarrier, TakeBatch, TakeSingle, TakeMulti, TakeRecover, RetrySync, TakeShutdown
<1>3. CASE Transact \/ BatchAppend \/ BatchSync
  BY <1>3 DEF Transact, Stage, Backup, AppendEntries, Sync, Finish, BatchAppend, BatchSync
<1>4. CASE DaemonDies \/ Replace \/ AskShutdown \/ ShutdownTimesOut \/ UNCHANGED vars
  BY <1>4 DEF DaemonDies, Replace, AskShutdown, ShutdownTimesOut, vars
<1> QED BY <1>1, <1>2, <1>3, <1>4 DEF Next, WriterLoop

(* The transaction in the writer's hands and where it is. *)
LEMMA AtWork ==
  ASSUME WriterInv, FilesWhole, cmd.op \notin {"idle", "batch"}, NEW c, c = Cur
  PROVE /\ c \in Calls /\ Kind[c] \in {"single", "multi"} /\ ~Ahead(c)
        /\ \A d : InHand(d) <=> d = c
        /\ cmd = [op |-> cmd.op, calls |-> cmd.calls, i |-> cmd.i, old |-> cmd.old, bad |-> cmd.bad]
        /\ Rewrites[c] \in Seq(Files) /\ Len(Rewrites[c]) \in Nat
        /\ \A k \in 1..Len(Rewrites[c]) : Rewrites[c][k] \in Files
        /\ Progress(c) /\ PutsBack(c) /\ HalfDone(c)
<1>1. /\ c \in Calls /\ Kind[c] \in {"single", "multi"} /\ \A d : InHand(d) <=> d = c
      /\ cmd = [op |-> cmd.op, calls |-> cmd.calls, i |-> cmd.i, old |-> cmd.old, bad |-> cmd.bad]
  BY Working
<1>2. ~Ahead(c)
  BY <1>1, InHandNotAhead
<1>3. Rewrites[c] \in Seq(Files)
  BY <1>1, CallAssumption
<1>4. Len(Rewrites[c]) \in Nat /\ \A k \in 1..Len(Rewrites[c]) : Rewrites[c][k] \in Files
  BY <1>3
<1> QED BY <1>1, <1>2, <1>3, <1>4 DEF FilesWhole, Transacts

LEMMA RenameFiles ==
  ASSUME WriterInv, FilesWhole, Rename, NEW c, c = Cur
  PROVE /\ cmd.op = "rename" /\ cmd.op \notin {"idle", "batch"}
        /\ \/ UNCHANGED <<disk, installed>>
           \/ /\ cmd.i \in 1..Len(Rewrites[c])
              /\ disk' = [disk EXCEPT ![Rewrites[c][cmd.i]] = c]
              /\ installed' = installed \cup {<<c, Rewrites[c][cmd.i]>>}
<1>1. cmd.op = "rename"
  BY DEF Rename, Running
<1>2. Progress(c) /\ Len(Rewrites[c]) \in Nat
  BY <1>1, AtWork
<1>3. cmd.i \in Nat /\ cmd.i >= 1
  BY <1>1, <1>2 DEF Progress
<1>4. CASE cmd.i <= Last /\ disk' = [disk EXCEPT ![Target] = Cur]
           /\ installed' = installed \cup {<<Cur, Target>>}
  BY <1>1, <1>2, <1>3, <1>4 DEF Last, Target
<1> QED BY <1>1, <1>4 DEF Rename

LEMMA UndoFiles ==
  ASSUME WriterInv, FilesWhole, Undo, NEW c, c = Cur
  PROVE /\ cmd.op = "undo" /\ cmd.op \notin {"idle", "batch"}
        /\ \/ UNCHANGED <<disk, installed>>
           \/ /\ cmd.i \in 1..Len(Rewrites[c]) /\ cmd.i \in DOMAIN cmd.old
              /\ disk' = [disk EXCEPT ![Rewrites[c][cmd.i]] = cmd.old[cmd.i]]
              /\ installed' = installed \ {<<c, Rewrites[c][cmd.i]>>}
              /\ cmd.old[cmd.i] \in Calls \cup Files \cup {NoCall}
<1>1. cmd.op = "undo"
  BY DEF Undo, Running
<1>2. Progress(c) /\ Len(Rewrites[c]) \in Nat
  BY <1>1, AtWork
<1>3. /\ cmd.i \in 0..Len(Rewrites[c]) /\ Len(cmd.old) = Len(Rewrites[c])
      /\ cmd.old \in Seq(Calls \cup Files \cup {NoCall})
  BY <1>1, <1>2 DEF Progress
<1>4. CASE cmd.i # 0 /\ disk' = [disk EXCEPT ![Target] = cmd.old[cmd.i]]
           /\ installed' = installed \ {<<Cur, Target>>}
  <2>1. cmd.i \in 1..Len(Rewrites[c])
    BY <1>2, <1>3, <1>4
  <2>2. cmd.i \in DOMAIN cmd.old /\ cmd.old[cmd.i] \in Calls \cup Files \cup {NoCall}
    BY <1>3, <2>1
  <2> QED BY <1>1, <1>4, <2>1, <2>2 DEF Target
<1> QED BY <1>1, <1>4 DEF Undo, AllUndone

(* A file shows a new call by a rename, and an old one again by an undo. *)
LEMMA ShowsNext ==
  ASSUME WriterInv, FilesWhole, [Next]_vars, NEW d \in Calls, Shows(d)'
  PROVE \/ Shows(d)
        \/ InHand(d) /\ Kind[d] \in {"single", "multi"}
        \/ Kind[d] \in {"single", "multi"} /\ ~Ahead(d) /\ (Journalled(d) \/ d \in excused)
<1>1. PICK c : c = Cur
  OBVIOUS
<1>2. PICK f \in Files : disk'[f] = d
  BY DEF Shows
<1>3. CASE disk' = disk
  BY <1>2, <1>3 DEF Shows
<1>4. disk \in [Files -> Calls \cup Files \cup {NoCall}]
  BY DEF FilesWhole, DiskOK
<1>5. CASE Rename
  <2>1. CASE disk' = [disk EXCEPT ![Rewrites[c][cmd.i]] = c]
    <3>1. disk'[f] = disk[f] \/ d = c
      BY <1>2, <1>4, <2>1
    <3>2. InHand(c) /\ Kind[c] \in {"single", "multi"}
      BY <1>1, <1>5, RenameFiles, AtWork
    <3> QED BY <1>2, <3>1, <3>2 DEF Shows
  <2> QED BY <1>1, <1>3, <1>5, <2>1, RenameFiles
<1>6. CASE Undo
  <2>1. CASE /\ cmd.i \in DOMAIN cmd.old
             /\ disk' = [disk EXCEPT ![Rewrites[c][cmd.i]] = cmd.old[cmd.i]]
    <3>1. disk'[f] = disk[f] \/ d = cmd.old[cmd.i]
      BY <1>2, <1>4, <2>1
    <3>2. PutsBack(c)
      BY <1>1, <1>6, UndoFiles, AtWork
    <3>3. d = cmd.old[cmd.i] => Kind[d] \in {"single", "multi"} /\ ~Ahead(d)
                                /\ (Journalled(d) \/ d \in excused)
      BY <2>1, <3>2 DEF PutsBack
    <3> QED BY <1>2, <3>1, <3>3 DEF Shows
  <2> QED BY <1>1, <1>3, <1>6, <2>1, UndoFiles
<1> QED BY <1>3, <1>5, <1>6, FilesStep

LEMMA DiskStep ==
  ASSUME WriterInv, FilesWhole, [Next]_vars
  PROVE DiskOK'
<1>1. PICK c : c = Cur
  OBVIOUS
<1>2. disk \in [Files -> Calls \cup Files \cup {NoCall}]
  BY DEF FilesWhole, DiskOK
<1>3. disk' \in [Files -> Calls \cup Files \cup {NoCall}]
  <2>1. CASE Rename
    <3>1. c \in Calls
      BY <1>1, <2>1, RenameFiles, AtWork
    <3> QED BY <1>1, <1>2, <2>1, <3>1, RenameFiles
  <2>2. CASE Undo
    BY <1>1, <1>2, <2>2, UndoFiles
  <2> QED BY <1>2, <2>1, <2>2, FilesStep
<1>4. \A d \in Calls : Shows(d)' => Kind[d] \in {"single", "multi"}
  BY ShowsNext DEF FilesWhole, DiskOK
<1> QED BY <1>3, <1>4 DEF DiskOK

LEMMA RecordsOthers ==
  ASSUME WriterInv, [Next]_vars, NEW d \in Calls, Kind[d] # "append", ~InHand(d)
  PROVE Records(d)
<1>1. AppendEntries => d # Cur
  BY Working DEF AppendEntries, Running
<1> QED BY <1>1, RecordsKept

LEMMA UntouchedStep ==
  ASSUME WriterInv, FilesWhole, [Next]_vars
  PROVE Untouched'
<1>1. ASSUME NEW c \in Calls, Kind[c] \in {"single", "multi"}, Ahead(c)'
      PROVE ~Tells(c)' /\ ~Shows(c)'
  <2>1. Ahead(c) /\ ~InHand(c)
    BY <1>1, AheadNarrows, InHandNotAhead
  <2>2. ~Tells(c) /\ ~Shows(c)
    BY <1>1, <2>1 DEF FilesWhole, Untouched
  <2>3. Records(c)
    BY <1>1, <2>1, RecordsOthers
  <2> QED BY <2>1, <2>2, <2>3, ShowsNext DEF Records
<1> QED BY <1>1 DEF Untouched

(* Files and ledger stay in agreement about a call nobody works on. *)
LEMMA AgreeStays ==
  ASSUME WriterInv, FilesWhole, [Next]_vars, NEW c \in Calls, Kind[c] \in {"single", "multi"},
         ~InHand(c), c \notin excused'
  PROVE Agree(c)'
<1>1. PICK d : d = Cur
  OBVIOUS
<1>2. c \notin excused
  BY ExcusedGrows
<1>3. Agree(c) /\ Records(c)
  BY <1>2, RecordsOthers DEF FilesWhole, Agreed
<1>4. Shows(c)' => Journalled(c)'
  <2>1. Shows(c)' => Journalled(c)
    BY <1>2, <1>3, ShowsNext DEF Agree
  <2> QED BY <1>3, <2>1 DEF Records
<1>5. \A f : <<c, f>> \in installed => <<c, f>> \in installed'
  <2>1. CASE Undo
    <3>1. c # d
      BY <1>1, <2>1, UndoFiles, AtWork
    <3> QED BY <1>1, <2>1, <3>1, UndoFiles
  <2>2. CASE Rename
    BY <1>1, <2>2, RenameFiles
  <2> QED BY <2>1, <2>2, FilesStep
<1> QED BY <1>3, <1>4, <1>5 DEF Agree, Records

(* A transaction that has not begun to rename, or is rolled back, left nothing. *)
LEMMA LeavesNothing ==
  ASSUME BooksOK, NEW c, ~Tells(c), ~Shows(c)
  PROVE Agree(c)
BY JournalledTells DEF Agree

LEMMA EndedAgrees ==
  ASSUME WriterInv, FilesWhole, cmd.op \notin {"idle", "batch"}, NEW c, c = Cur, c \notin excused,
         cmd.op \in {"stage", "backup"} \cup AfterAppend \/ (cmd.op = "undo" /\ cmd.i = 0)
  PROVE /\ Agree(c)
        /\ cmd.op \notin AfterAppend => ~Tells(c) /\ ~Shows(c)
<1>1. BooksOK /\ HalfDone(c) /\ Rewrites[c] \in Seq(Files)
  BY AtWork DEF WriterInv
<1>2. CASE cmd.op \in {"stage", "backup"}
  <2>1. ~Tells(c) /\ ~Shows(c)
    BY <1>1, <1>2 DEF HalfDone
  <2> QED BY <1>1, <1>2, <2>1, LeavesNothing DEF AfterAppend
<1>3. CASE cmd.op = "undo" /\ cmd.i = 0
  <2>1. ~Tells(c) /\ ShowsUpTo(c, 0)
    BY <1>1, <1>3 DEF HalfDone
  <2>2. ~Shows(c)
    BY <2>1 DEF ShowsUpTo, Shows
  <2> QED BY <1>1, <1>3, <2>1, <2>2, LeavesNothing DEF AfterAppend
<1>4. CASE cmd.op \in AfterAppend
  <2>1. Journalled(c) /\ InstalledUpTo(c, Len(Rewrites[c]))
    BY <1>1, <1>4 DEF HalfDone
  <2>2. DOMAIN Rewrites[c] = 1..Len(Rewrites[c])
    BY <1>1
  <2> QED BY <1>4, <2>1, <2>2 DEF Agree, InstalledUpTo
<1> QED BY <1>2, <1>3, <1>4

(* The steps that end the command of a transaction. *)
LEMMA Ending ==
  ASSUME WriterInv, [Next]_vars, NEW c, c = Cur, InHand(c), cmd.op # "batch", ~InHand(c)'
  PROVE \/ /\ Stage \/ Backup \/ (Undo /\ cmd.i = 0) \/ Finish
           /\ UNCHANGED <<ledger, ino, disk, installed, excused>>
        \/ DaemonDies /\ UNCHANGED <<disk, installed>>
<1>0. /\ cmd.op # "idle" /\ cmd.calls \in Seq(Calls)
      /\ cmd = [op |-> cmd.op, calls |-> cmd.calls, i |-> cmd.i, old |-> cmd.old, bad |-> cmd.bad]
  BY DEF InHand, WriterInv, CommandsOK, HandOK
<1>1. cmd'.calls = cmd.calls => cmd'.op = "idle"
  BY DEF InHand
<1>2. CASE UNCHANGED cmd
  BY <1>0, <1>1, <1>2
<1>3. CASE TakeBatch \/ \E d \in Calls : TakesOne(d)
  <2>1. cmd = Idle
    BY <1>3, TakenBatch DEF TakesOne, Takes
  <2> QED BY <1>0, <2>1 DEF Idle
<1>4. CASE Stage
  <2>1. ~(cmd' = [cmd EXCEPT !.op = "backup", !.i = 1]) /\ ~(cmd' = [cmd EXCEPT !.i = @ + 1])
    BY <1>0, <1>1
  <2> QED BY <1>4, <2>1 DEF Stage
<1>5. CASE Backup
  <2>1. /\ ~(cmd' = [cmd EXCEPT !.op = "rename", !.i = 1])
        /\ ~(cmd' = [cmd EXCEPT !.i = @ + 1, !.old = Append(@, disk[Target])])
    BY <1>0, <1>1
  <2> QED BY <1>5, <2>1 DEF Backup
<1>6. CASE Undo
  <2>1. ~(cmd' = [cmd EXCEPT !.i = @ - 1])
    BY <1>0, <1>1
  <2> QED BY <1>6, <2>1 DEF Undo, AllUndone
<1>7. CASE Rename \/ AppendEntries \/ Sync
  <2>1. /\ ~(cmd' = [cmd EXCEPT !.op = "append", !.i = 1]) /\ ~(cmd' = [cmd EXCEPT !.i = @ + 1])
        /\ ~(cmd' = [cmd EXCEPT !.op = "undo", !.i = @ - 1]) /\ ~(cmd' = [cmd EXCEPT !.op = "sync"])
        /\ ~(cmd' = [cmd EXCEPT !.op = "undo", !.i = Last]) /\ ~(cmd' = [cmd EXCEPT !.op = "durable"])
        /\ ~(cmd' = [cmd EXCEPT !.op = "uncertain"])
    BY <1>0, <1>1
  <2> QED BY <1>7, <2>1 DEF Rename, AppendEntries, Sync
<1>8. CASE Finish \/ DaemonDies
  BY <1>8 DEF Finish, DaemonDies
<1>9. CASE BatchAppend \/ BatchSync
  BY <1>9 DEF BatchAppend, BatchSync, Running
<1> QED BY <1>2, <1>3, <1>4, <1>5, <1>6, <1>7, <1>8, <1>9, HandEvolves DEF GoesOnWith

LEMMA EndingAgrees ==
  ASSUME WriterInv, FilesWhole, [Next]_vars, NEW c \in Calls, Kind[c] \in {"single", "multi"},
         InHand(c), ~InHand(c)', c \notin excused'
  PROVE Agree(c)'
<1>0. BooksOK /\ BooksOK'
  BY StepKeeps DEF WriterInv
<1>1. cmd.op \notin {"idle", "batch"}
  BY DEF InHand, WriterInv, CommandsOK, HandOK
<1>2. c = Cur /\ c \notin excused
  <2>1. \A d : d = Cur => (InHand(c) <=> c = d)
    BY <1>1, AtWork
  <2> QED BY <2>1, ExcusedGrows
<1>3. CASE Agree(c) /\ UNCHANGED <<ledger, ino, disk, installed>>
  BY <1>3 DEF Agree, Shows, Journalled
<1>4. CASE /\ Stage \/ Backup \/ (Undo /\ cmd.i = 0) \/ Finish
           /\ UNCHANGED <<ledger, ino, disk, installed, excused>>
  <2>1. cmd.op \in {"stage", "backup"} \cup AfterAppend \/ (cmd.op = "undo" /\ cmd.i = 0)
    BY <1>4 DEF Stage, Backup, Finish, Undo, Running, AfterAppend
  <2>2. Agree(c)
    BY <1>1, <1>2, <2>1, EndedAgrees
  <2> QED BY <1>3, <1>4, <2>2
<1>5. CASE DaemonDies
  <2>1. UNCHANGED <<disk, installed>> /\ Records(c)
    BY <1>5, DeathRecord DEF DaemonDies
  <2>2. cmd.op \notin {"rename", "append", "undo"}
    BY <1>2, <1>5 DEF DaemonDies
  <2>3. cmd.op \in {"stage", "backup"} \cup AfterAppend
    <3>1. cmd.op \in Ops
      BY DEF WriterInv, CommandsOK, HandOK
    <3> QED BY <1>1, <2>2, <3>1 DEF Ops, BeforeAppend
  <2>4. Agree(c)
    BY <1>1, <1>2, <2>3, EndedAgrees
  <2>5. Shows(c)' => Shows(c)
    BY <2>1 DEF Shows
  <2> QED BY <2>1, <2>4, <2>5 DEF Agree, Records
<1> QED BY <1>1, <1>2, <1>4, <1>5, Ending

LEMMA AgreedStep ==
  ASSUME WriterInv, FilesWhole, [Next]_vars
  PROVE Agreed'
<1>1. ASSUME NEW c \in Calls, ~InHand(c)', c \notin excused' PROVE Agree(c)'
  <2>1. CASE Kind[c] \in {"single", "multi"}
    BY <1>1, <2>1, AgreeStays, EndingAgrees
  <2>2. CASE Kind[c] \in {"append", "recover"}
    <3>1. ~Shows(c)'
      BY <2>2, DiskStep DEF DiskOK
    <3>2. Rewrites[c] = <<>>
      BY <2>2, CallAssumption
    <3> QED BY <3>1, <3>2 DEF Agree
  <2> QED BY <2>1, <2>2, CallAssumption DEF Kinds
<1> QED BY <1>1 DEF Agreed

(***************************************************************************)
(* The transaction in the writer's hands, step by step.                    *)
(***************************************************************************)
Going(c) == Progress(c) /\ PutsBack(c) /\ HalfDone(c)

LEMMA PutsBackStays ==
  ASSUME WriterInv, FilesWhole, [Next]_vars, cmd.op \notin {"idle", "batch"}, NEW c, c = Cur,
         cmd'.old = cmd.old
  PROVE PutsBack(c)'
<1>1. PutsBack(c) /\ \A d : InHand(d) <=> d = c
  BY AtWork
<1>2. ASSUME NEW k \in DOMAIN cmd.old, NEW d \in Calls, d = cmd.old[k]
      PROVE /\ d # c /\ Kind[d] \in {"single", "multi"} /\ ~Ahead(d)'
            /\ Journalled(d)' \/ d \in excused'
  <2>1. d # c /\ Kind[d] \in {"single", "multi"} /\ ~Ahead(d) /\ (Journalled(d) \/ d \in excused)
    BY <1>1, <1>2 DEF PutsBack
  <2>2. Records(d)
    BY <1>1, <2>1, RecordsOthers
  <2> QED BY <2>1, <2>2, AheadNarrows, ExcusedGrows DEF Records
<1> QED BY <1>2 DEF PutsBack

(* Meanwhile only calls come and go, and the ledger file may be replaced. *)
LEMMA Rests ==
  ASSUME WriterInv, FilesWhole, [Next]_vars, UNCHANGED <<cmd, disk, installed>>,
         NEW c \in Calls, Transacts(c)'
  PROVE Going(c)'
<1>1. cmd.op \notin {"idle", "batch"} /\ c = Cur
  BY DEF Transacts, Cur
<1>2. Progress(c) /\ HalfDone(c) /\ Kind[c] \in {"single", "multi"}
  BY <1>1, AtWork
<1>3. PutsBack(c)'
  BY <1>1, PutsBackStays
<1>4. Records(c)
  <2>1. ~AppendEntries
    BY <1>1, Working DEF AppendEntries, Running
  <2> QED BY <1>2, <2>1, RecordsKept
<1>5. Progress(c)'
  BY <1>2 DEF Progress
<1>6. HalfDone(c)'
  BY <1>2, <1>4, ExcusedGrows DEF HalfDone, Records, Shows, ShowsUpTo, InstalledUpTo
<1> QED BY <1>3, <1>5, <1>6 DEF Going

LEMMA Begins ==
  ASSUME WriterInv, FilesWhole, NEW c \in Calls, Kind[c] \in {"single", "multi"}, TakesOne(c),
         NEW d \in Calls, Transacts(d)'
  PROVE Going(d)'
<1>1. /\ cmd' = [op |-> "stage", calls |-> <<c>>, i |-> 1, old |-> <<>>, bad |-> {}]
      /\ UNCHANGED <<disk, installed, excused, ledger, ino>> /\ Queued(c)
  BY DEF TakesOne, Takes
<1>2. d = c
  BY <1>1 DEF Transacts, Cur
<1>3. ~Tells(c) /\ ~Shows(c)
  BY <1>1 DEF FilesWhole, Untouched, Ahead
<1>4. ~Tells(c)' /\ ~Shows(c)'
  BY <1>1, <1>3 DEF Tells, Shows
<1>5. Len(Rewrites[c]) \in Nat
  <2>1. Rewrites[c] \in Seq(Files)
    BY CallAssumption
  <2> QED BY <2>1
<1>6. cmd'.op = "stage" /\ cmd'.i = 1 /\ cmd'.old = <<>>
  BY <1>1
<1>7. 1 \in 1..(Len(Rewrites[c]) + 1) /\ <<>> \in Seq(Calls \cup Files \cup {NoCall})
  BY <1>5
<1>8. Progress(c)'
  BY <1>6, <1>7 DEF Progress
<1>9. PutsBack(c)' /\ HalfDone(c)'
  BY <1>4, <1>6 DEF PutsBack, HalfDone, AfterAppend
<1> QED BY <1>2, <1>8, <1>9 DEF Going

LEMMA StageGoes ==
  ASSUME WriterInv, FilesWhole, [Next]_vars, Stage, NEW c \in Calls, Transacts(c)'
  PROVE Going(c)'
<1>1. PICK d : d = Cur
  OBVIOUS
<1>2. cmd.op = "stage" /\ cmd.op \notin {"idle", "batch"}
      /\ UNCHANGED <<ledger, ino, disk, installed, excused>>
  BY DEF Stage, Running
<1>3. /\ cmd = [op |-> cmd.op, calls |-> cmd.calls, i |-> cmd.i, old |-> cmd.old, bad |-> cmd.bad]
      /\ Progress(d) /\ HalfDone(d) /\ Len(Rewrites[d]) \in Nat /\ d \in Calls
  BY <1>1, <1>2, AtWork
<1>4. PICK n \in Nat : n = Len(Rewrites[d])
  BY <1>3
<1>5. cmd.i \in 1..(n + 1) /\ cmd.old = <<>> /\ ~Tells(d) /\ ~Shows(d)
  BY <1>2, <1>3, <1>4 DEF Progress, HalfDone
<1>6. cmd' # Idle
  BY DEF Transacts, Idle
<1>7. \/ cmd' = [cmd EXCEPT !.op = "backup", !.i = 1]
      \/ cmd' = [cmd EXCEPT !.i = @ + 1] /\ cmd.i <= n
  BY <1>1, <1>4, <1>6 DEF Stage, Last, Abort
<1>8. /\ cmd'.calls = cmd.calls /\ cmd'.old = cmd.old /\ cmd'.op \in {"stage", "backup"}
      /\ cmd'.op = "stage" => cmd'.i \in 1..(n + 1)
      /\ cmd'.op = "backup" => cmd'.i = 1
  <2>1. CASE cmd' = [cmd EXCEPT !.op = "backup", !.i = 1]
    BY <1>3, <2>1
  <2>2. CASE cmd' = [cmd EXCEPT !.i = @ + 1] /\ cmd.i <= n
    <3>1. cmd.i + 1 \in 1..(n + 1)
      BY <1>5, <2>2
    <3>2. cmd' = [cmd EXCEPT !.i = cmd.i + 1]
      BY <2>2
    <3> QED BY <1>2, <1>3, <3>1, <3>2
  <2> QED BY <1>7, <2>1, <2>2
<1>9. c = d
  BY <1>1, <1>8 DEF Transacts, Cur
<1>10. PutsBack(c)'
  BY <1>1, <1>2, <1>8, <1>9, PutsBackStays
<1>11. Progress(c)'
  <2>1. cmd.old \in Seq(Calls \cup Files \cup {NoCall})
    BY <1>3 DEF Progress
  <2>2. Len(<<>>) = 0 /\ 1 \in 1..(n + 1) /\ 1 - 1 = 0
    OBVIOUS
  <2> QED BY <1>4, <1>5, <1>8, <1>9, <2>1, <2>2 DEF Progress
<1>12. ~Tells(c)' /\ ~Shows(c)'
  BY <1>2, <1>5, <1>9 DEF Tells, Shows
<1>13. HalfDone(c)'
  BY <1>8, <1>12 DEF HalfDone, AfterAppend
<1> QED BY <1>10, <1>11, <1>13 DEF Going

LEMMA BackupGoes ==
  ASSUME WriterInv, FilesWhole, [Next]_vars, Backup, NEW c \in Calls, Transacts(c)'
  PROVE Going(c)'
<1>1. PICK d : d = Cur
  OBVIOUS
<1>2. cmd.op = "backup" /\ cmd.op \notin {"idle", "batch"}
      /\ UNCHANGED <<ledger, ino, disk, installed, excused>>
  BY DEF Backup, Running
<1>3. /\ cmd = [op |-> cmd.op, calls |-> cmd.calls, i |-> cmd.i, old |-> cmd.old, bad |-> cmd.bad]
      /\ Progress(d) /\ HalfDone(d) /\ Len(Rewrites[d]) \in Nat /\ d \in Calls
      /\ \A k \in 1..Len(Rewrites[d]) : Rewrites[d][k] \in Files
      /\ \A e : InHand(e) <=> e = d
  BY <1>1, <1>2, AtWork
<1>4. PICK n \in Nat : n = Len(Rewrites[d])
  BY <1>3
<1>5. /\ cmd.i \in 1..(n + 1) /\ cmd.old \in Seq(Calls \cup Files \cup {NoCall})
      /\ Len(cmd.old) = cmd.i - 1 /\ ~Tells(d) /\ ~Shows(d)
  BY <1>2, <1>3, <1>4 DEF Progress, HalfDone
<1>6. cmd' # Idle
  BY DEF Transacts, Idle
<1>7. \/ cmd' = [cmd EXCEPT !.op = "rename", !.i = 1] /\ cmd.i > n
      \/ cmd' = [cmd EXCEPT !.i = @ + 1, !.old = Append(@, disk[Target])] /\ cmd.i <= n
  BY <1>1, <1>4, <1>6 DEF Backup, Last, Abort
<1>8. cmd'.calls = cmd.calls
  BY <1>3, <1>7
<1>9. c = d
  BY <1>1, <1>8 DEF Transacts, Cur
<1>10. ~Tells(c)' /\ ~Shows(c)'
  BY <1>2, <1>5, <1>9 DEF Tells, Shows
<1>11. CASE cmd' = [cmd EXCEPT !.op = "rename", !.i = 1] /\ cmd.i > n
  <2>1. cmd'.op = "rename" /\ cmd'.i = 1 /\ cmd'.old = cmd.old
    BY <1>3, <1>11
  <2>2. PutsBack(c)'
    BY <1>1, <1>2, <1>9, <2>1, PutsBackStays
  <2>3. Len(cmd.old) = n /\ 1 \in 1..(n + 1) /\ 1 - 1 = 0
    BY <1>5, <1>11
  <2>4. Progress(c)'
    BY <1>4, <1>5, <1>9, <2>1, <2>3 DEF Progress
  <2>5. HalfDone(c)'
    BY <1>10, <2>1, <2>3 DEF HalfDone, ShowsUpTo, InstalledUpTo, Shows, AfterAppend
  <2> QED BY <2>2, <2>4, <2>5 DEF Going
<1>12. CASE cmd' = [cmd EXCEPT !.i = @ + 1, !.old = Append(@, disk[Target])] /\ cmd.i <= n
  <2>1. PICK f \in Files : f = Target
    <3>1. cmd.i \in 1..Len(Rewrites[d])
      BY <1>4, <1>5, <1>12
    <3> QED BY <1>1, <1>3, <3>1 DEF Target
  <2>2. PICK x \in Calls \cup Files \cup {NoCall} : x = disk[f]
    BY DEF FilesWhole, DiskOK
  <2>3. PICK i \in Int : i = cmd.i
    BY <1>5
  <2>4. cmd'.op = "backup" /\ cmd'.i = i + 1 /\ cmd'.old = Append(cmd.old, x)
    <3>1. cmd' = [cmd EXCEPT !.i = i + 1, !.old = Append(cmd.old, x)]
      BY <1>12, <2>1, <2>2, <2>3
    <3> QED BY <1>2, <1>3, <3>1
  <2>5. /\ Append(cmd.old, x) \in Seq(Calls \cup Files \cup {NoCall})
        /\ Len(Append(cmd.old, x)) = i
        /\ \A k \in DOMAIN Append(cmd.old, x) :
              Append(cmd.old, x)[k] = x \/ (k \in DOMAIN cmd.old /\ Append(cmd.old, x)[k] = cmd.old[k])
    <3> DEFINE old == cmd.old
               X == Calls \cup Files \cup {NoCall}
    <3>1. old \in Seq(X) /\ x \in X /\ Len(old) = i - 1
      BY <1>5, <2>3
    <3> HIDE DEF old, X
    <3>2. /\ Append(old, x) \in Seq(X) /\ Len(Append(old, x)) = i
          /\ \A k \in DOMAIN Append(old, x) :
                Append(old, x)[k] = x \/ (k \in DOMAIN old /\ Append(old, x)[k] = old[k])
      BY <3>1
    <3> QED BY <3>2 DEF old, X
  <2>6. i + 1 \in 1..(n + 1) /\ i + 1 - 1 = i
    BY <1>5, <1>12, <2>3
  <2>7. Progress(c)'
    BY <1>4, <1>9, <2>4, <2>5, <2>6 DEF Progress
  <2>8. HalfDone(c)'
    BY <1>10, <2>4 DEF HalfDone, AfterAppend
  <2>9. ASSUME NEW e \in Calls, e = x \/ \E k \in DOMAIN cmd.old : e = cmd.old[k]
        PROVE /\ e # c /\ Kind[e] \in {"single", "multi"} /\ ~Ahead(e)'
              /\ Journalled(e)' \/ e \in excused'
    <3>1. /\ e # c /\ Kind[e] \in {"single", "multi"} /\ ~Ahead(e)
          /\ Journalled(e) \/ e \in excused
      <4>1. CASE e = x
        <5>1. Shows(e)
          BY <2>2, <4>1 DEF Shows
        <5>2. e # d /\ ~InHand(e)
          BY <1>3, <1>5, <5>1
        <5>3. Kind[e] \in {"single", "multi"}
          BY <5>1 DEF FilesWhole, DiskOK
        <5>4. ~Ahead(e)
          BY <5>1, <5>3 DEF FilesWhole, Untouched
        <5>5. Journalled(e) \/ e \in excused
          BY <5>1, <5>2 DEF FilesWhole, Agreed, Agree
        <5> QED BY <1>9, <5>2, <5>3, <5>4, <5>5
      <4>2. CASE \E k \in DOMAIN cmd.old : e = cmd.old[k]
        <5>1. PutsBack(d)
          BY <1>1, <1>2, AtWork
        <5> QED BY <1>9, <4>2, <5>1 DEF PutsBack
      <4> QED BY <2>9, <4>1, <4>2
    <3>2. Records(e)
      BY <1>3, <1>9, <3>1, RecordsOthers
    <3> QED BY <3>1, <3>2, AheadNarrows, ExcusedGrows DEF Records
  <2>10. PutsBack(c)'
    BY <2>4, <2>5, <2>9 DEF PutsBack
  <2> QED BY <2>7, <2>8, <2>10 DEF Going
<1> QED BY <1>7, <1>11, <1>12

LEMMA RenameGoes ==
  ASSUME WriterInv, FilesWhole, [Next]_vars, Rename, NEW c \in Calls, Transacts(c)'
  PROVE Going(c)'
<1>1. PICK d : d = Cur
  OBVIOUS
<1>2. cmd.op = "rename" /\ cmd.op \notin {"idle", "batch"} /\ UNCHANGED <<ledger, ino, excused>>
  BY DEF Rename, Running
<1>3. /\ cmd = [op |-> cmd.op, calls |-> cmd.calls, i |-> cmd.i, old |-> cmd.old, bad |-> cmd.bad]
      /\ Progress(d) /\ HalfDone(d) /\ Len(Rewrites[d]) \in Nat /\ d \in Calls
      /\ \A k \in 1..Len(Rewrites[d]) : Rewrites[d][k] \in Files
  BY <1>1, <1>2, AtWork
<1>4. PICK n \in Nat : n = Len(Rewrites[d])
  BY <1>3
<1>5. /\ cmd.i \in 1..(n + 1) /\ Len(cmd.old) = n /\ cmd.old \in Seq(Calls \cup Files \cup {NoCall})
      /\ d \notin excused => ~Tells(d) /\ ShowsUpTo(d, cmd.i - 1) /\ InstalledUpTo(d, cmd.i - 1)
  BY <1>2, <1>3, <1>4 DEF Progress, HalfDone
<1>6. PICK i \in Int : i = cmd.i
  BY <1>5
<1>7. disk \in [Files -> Calls \cup Files \cup {NoCall}]
  BY DEF FilesWhole, DiskOK
<1>8. cmd'.calls = cmd.calls /\ cmd'.old = cmd.old
  BY <1>3 DEF Rename
<1>9. c = d
  BY <1>1, <1>8 DEF Transacts, Cur
<1>10. PutsBack(c)'
  BY <1>1, <1>2, <1>8, <1>9, PutsBackStays
<1>11. d \notin excused => ~Tells(d)'
  BY <1>2, <1>5 DEF Tells
<1>12. CASE cmd.i > n /\ cmd' = [cmd EXCEPT !.op = "append", !.i = 1] /\ UNCHANGED <<disk, installed>>
  <2>1. cmd'.op = "append" /\ cmd.i - 1 = n
    BY <1>3, <1>5, <1>12
  <2>2. Progress(c)'
    BY <1>4, <1>5, <1>8, <1>9, <2>1 DEF Progress
  <2>3. d \notin excused => ShowsUpTo(d, n)' /\ InstalledUpTo(d, n)'
    BY <1>5, <1>12, <2>1 DEF ShowsUpTo, InstalledUpTo
  <2>4. HalfDone(c)'
    BY <1>2, <1>4, <1>9, <1>11, <2>1, <2>3 DEF HalfDone, AfterAppend
  <2> QED BY <1>10, <2>2, <2>4 DEF Going
<1>13. CASE /\ cmd.i <= n /\ cmd' = [cmd EXCEPT !.i = @ + 1]
            /\ disk' = [disk EXCEPT ![Target] = Cur] /\ installed' = installed \cup {<<Cur, Target>>}
  <2>1. i \in 1..n /\ i + 1 \in 1..(n + 1) /\ i + 1 - 1 = i
    BY <1>5, <1>6, <1>13
  <2>2. PICK f \in Files : f = Target /\ f = Rewrites[d][i]
    BY <1>1, <1>3, <1>4, <1>6, <2>1 DEF Target
  <2>3. cmd'.op = "rename" /\ cmd'.i = i + 1
    <3>1. cmd' = [cmd EXCEPT !.i = i + 1]
      BY <1>6, <1>13
    <3> QED BY <1>2, <1>3, <3>1
  <2>4. disk' = [disk EXCEPT ![f] = d] /\ installed' = installed \cup {<<d, f>>}
    BY <1>1, <1>13, <2>2
  <2>5. Progress(c)'
    BY <1>4, <1>5, <1>8, <1>9, <2>1, <2>3 DEF Progress
  <2>6. \A k \in 1..i : k = i \/ k \in 1..(i - 1)
    BY <2>1
  <2>7. \A k \in 1..(i - 1) : k \in 1..i
    BY <2>1
  <2>8. ASSUME d \notin excused PROVE ShowsUpTo(d, i)' /\ InstalledUpTo(d, i)'
    <3>1. ShowsUpTo(d, i - 1) /\ InstalledUpTo(d, i - 1)
      BY <1>5, <1>6, <2>8
    <3>2. ASSUME NEW g \in Files, disk'[g] = d PROVE \E k \in 1..i : g = Rewrites[d][k]
      <4>1. CASE g = f
        BY <2>1, <2>2, <4>1
      <4>2. CASE g # f
        <5>1. disk[g] = d
          BY <1>7, <2>4, <3>2, <4>2
        <5> QED BY <2>7, <3>1, <5>1 DEF ShowsUpTo
      <4> QED BY <4>1, <4>2
    <3>3. ASSUME NEW k \in 1..i PROVE <<d, Rewrites[d][k]>> \in installed'
      BY <2>2, <2>4, <2>6, <3>1 DEF InstalledUpTo
    <3> QED BY <3>2, <3>3 DEF ShowsUpTo, InstalledUpTo
  <2>9. HalfDone(c)'
    BY <1>2, <1>9, <1>11, <2>1, <2>3, <2>8 DEF HalfDone, AfterAppend
  <2> QED BY <1>10, <2>5, <2>9 DEF Going
<1>14. CASE /\ cmd.i <= n /\ cmd' = [cmd EXCEPT !.op = "undo", !.i = @ - 1]
            /\ UNCHANGED <<disk, installed>>
  <2>1. i - 1 \in 0..n
    BY <1>5, <1>6, <1>14
  <2>2. cmd'.op = "undo" /\ cmd'.i = i - 1
    <3>1. cmd' = [cmd EXCEPT !.op = "undo", !.i = i - 1]
      BY <1>6, <1>14
    <3> QED BY <1>3, <3>1
  <2>3. Progress(c)'
    BY <1>4, <1>5, <1>8, <1>9, <2>1, <2>2 DEF Progress
  <2>4. d \notin excused => ShowsUpTo(d, i - 1)'
    BY <1>5, <1>6, <1>14 DEF ShowsUpTo
  <2>5. HalfDone(c)'
    BY <1>2, <1>9, <1>11, <2>2, <2>4 DEF HalfDone, AfterAppend
  <2> QED BY <1>10, <2>3, <2>5 DEF Going
<1> QED BY <1>1, <1>4, <1>12, <1>13, <1>14 DEF Rename, Last

LEMMA UndoGoes ==
  ASSUME WriterInv, FilesWhole, [Next]_vars, Undo, NEW c \in Calls, Transacts(c)'
  PROVE Going(c)'
<1>1. PICK d : d = Cur
  OBVIOUS
<1>2. cmd.op = "undo" /\ cmd.op \notin {"idle", "batch"} /\ UNCHANGED <<ledger, ino>>
  BY DEF Undo, Running
<1>3. /\ cmd = [op |-> cmd.op, calls |-> cmd.calls, i |-> cmd.i, old |-> cmd.old, bad |-> cmd.bad]
      /\ Progress(d) /\ PutsBack(d) /\ HalfDone(d) /\ Len(Rewrites[d]) \in Nat /\ d \in Calls
      /\ \A k \in 1..Len(Rewrites[d]) : Rewrites[d][k] \in Files
  BY <1>1, <1>2, AtWork
<1>4. PICK n \in Nat : n = Len(Rewrites[d])
  BY <1>3
<1>5. /\ cmd.i \in 0..n /\ Len(cmd.old) = n /\ cmd.old \in Seq(Calls \cup Files \cup {NoCall})
      /\ d \notin excused => ~Tells(d) /\ ShowsUpTo(d, cmd.i)
  BY <1>2, <1>3, <1>4 DEF Progress, HalfDone
<1>6. PICK i \in Int : i = cmd.i
  BY <1>5
<1>7. disk \in [Files -> Calls \cup Files \cup {NoCall}]
  BY DEF FilesWhole, DiskOK
<1>8. cmd' # Idle
  BY DEF Transacts, Idle
<1>9. /\ i # 0 /\ cmd' = [cmd EXCEPT !.i = i - 1]
      /\ \/ /\ disk' = [disk EXCEPT ![Target] = cmd.old[i]]
            /\ excused' = excused
         \/ excused' = excused \cup {d}
  BY <1>1, <1>6, <1>8 DEF Undo, AllUndone, Abort
<1>10. cmd'.calls = cmd.calls /\ cmd'.old = cmd.old /\ cmd'.op = "undo" /\ cmd'.i = i - 1
  BY <1>2, <1>3, <1>9
<1>11. c = d
  BY <1>1, <1>10 DEF Transacts, Cur
<1>12. PutsBack(c)'
  BY <1>1, <1>2, <1>10, <1>11, PutsBackStays
<1>13. i \in 1..n /\ i - 1 \in 0..n
  BY <1>5, <1>6, <1>9
<1>14. Progress(c)'
  BY <1>4, <1>5, <1>10, <1>11, <1>13 DEF Progress
<1>15. ASSUME d \notin excused', disk' = [disk EXCEPT ![Target] = cmd.old[i]], excused' = excused
       PROVE ~Tells(d)' /\ ShowsUpTo(d, i - 1)'
  <2>1. ~Tells(d) /\ ShowsUpTo(d, i)
    BY <1>5, <1>6, <1>15
  <2>2. PICK f \in Files : f = Target /\ f = Rewrites[d][i]
    BY <1>1, <1>3, <1>4, <1>6, <1>13 DEF Target
  <2>3. cmd.old[i] # d
    <3>1. i \in DOMAIN cmd.old
      BY <1>5, <1>13
    <3> QED BY <1>3, <3>1 DEF PutsBack
  <2>4. ASSUME NEW g \in Files, disk'[g] = d PROVE \E k \in 1..(i - 1) : g = Rewrites[d][k]
    <3>1. g # f /\ disk[g] = d
      BY <1>7, <1>15, <2>2, <2>3, <2>4
    <3>2. PICK k \in 1..i : g = Rewrites[d][k]
      BY <2>1, <3>1 DEF ShowsUpTo
    <3>3. k # i
      BY <2>2, <3>1, <3>2
    <3>4. k \in 1..(i - 1)
      BY <1>13, <3>2, <3>3
    <3> QED BY <3>2, <3>4
  <2>5. ~Tells(d)'
    BY <1>2, <2>1 DEF Tells
  <2> QED BY <2>4, <2>5 DEF ShowsUpTo
<1>16. d \notin excused' => ~Tells(d)' /\ ShowsUpTo(d, i - 1)'
  BY <1>9, <1>15
<1>17. HalfDone(c)'
  BY <1>10, <1>11, <1>16 DEF HalfDone, AfterAppend
<1> QED BY <1>12, <1>14, <1>17 DEF Going

LEMMA SyncGoes ==
  ASSUME WriterInv, FilesWhole, [Next]_vars, Sync, NEW c \in Calls, Transacts(c)'
  PROVE Going(c)'
<1>1. PICK d : d = Cur
  OBVIOUS
<1>2. cmd.op = "sync" /\ cmd.op \notin {"idle", "batch"} /\ UNCHANGED <<disk, installed, excused>>
  BY DEF Sync, Running
<1>3. /\ cmd = [op |-> cmd.op, calls |-> cmd.calls, i |-> cmd.i, old |-> cmd.old, bad |-> cmd.bad]
      /\ Progress(d) /\ HalfDone(d) /\ d \in Calls /\ Kind[d] \in {"single", "multi"}
  BY <1>1, <1>2, AtWork
<1>4. /\ cmd'.calls = cmd.calls /\ cmd'.old = cmd.old /\ cmd'.i = cmd.i
      /\ cmd'.op \in {"durable", "uncertain"}
  BY <1>3 DEF Sync
<1>5. c = d
  BY <1>1, <1>4 DEF Transacts, Cur
<1>6. PutsBack(c)'
  BY <1>1, <1>2, <1>4, <1>5, PutsBackStays
<1>7. Progress(c)'
  BY <1>3, <1>4, <1>5 DEF Progress
<1>8. d \notin excused => Journalled(d)' /\ InstalledUpTo(d, Len(Rewrites[d]))'
  <2>1. Records(d)
    <3>1. ~AppendEntries
      BY <1>2 DEF AppendEntries, Running
    <3> QED BY <1>3, <3>1, RecordsKept
  <2>2. d \notin excused => Journalled(d) /\ InstalledUpTo(d, Len(Rewrites[d]))
    BY <1>2, <1>3 DEF HalfDone, AfterAppend
  <2> QED BY <1>2, <2>1, <2>2 DEF Records, InstalledUpTo
<1>9. HalfDone(c)'
  BY <1>2, <1>4, <1>5, <1>8 DEF HalfDone
<1> QED BY <1>6, <1>7, <1>9 DEF Going

LEMMA AppendGoes ==
  ASSUME WriterInv, FilesWhole, [Next]_vars, AppendEntries, NEW c \in Calls, Transacts(c)'
  PROVE Going(c)'
<1>1. PICK d : d = Cur
  OBVIOUS
<1>2. /\ cmd.op = "append" /\ cmd.op \notin {"idle", "batch"} /\ UNCHANGED <<ino, disk, installed>>
      /\ handle' = ino
  BY DEF AppendEntries, Running
<1>3. /\ cmd = [op |-> cmd.op, calls |-> cmd.calls, i |-> cmd.i, old |-> cmd.old, bad |-> cmd.bad]
      /\ Progress(d) /\ HalfDone(d) /\ d \in Calls /\ Len(Rewrites[d]) \in Nat
  BY <1>1, <1>2, AtWork
<1>4. PICK n \in Nat : n = Len(Rewrites[d])
  BY <1>3
<1>5. /\ cmd.old \in Seq(Calls \cup Files \cup {NoCall}) /\ Len(cmd.old) = n
      /\ d \notin excused => ~Tells(d) /\ ShowsUpTo(d, n) /\ InstalledUpTo(d, n)
  BY <1>2, <1>3, <1>4 DEF Progress, HalfDone
<1>6. BooksOK /\ ino \in 1..ino /\ handle' \in 0..ino
  BY <1>2 DEF WriterInv, BooksOK
<1>7. CASE ledger' = Written(ino, EntriesOf(d)) /\ cmd' = [cmd EXCEPT !.op = "sync"]
           /\ UNCHANGED excused
  <2>1. cmd'.op = "sync" /\ cmd'.calls = cmd.calls /\ cmd'.old = cmd.old
    BY <1>3, <1>7
  <2>2. c = d
    BY <1>1, <2>1 DEF Transacts, Cur
  <2>3. PutsBack(c)' /\ Progress(c)'
    BY <1>1, <1>2, <1>5, <2>1, <2>2, PutsBackStays DEF Progress
  <2>4. EntriesOf(d) \in Seq(Entry) /\ Len(EntriesOf(d)) >= 1 /\ Len(EntriesOf(d)) = Parts(d)
    BY <1>3, EntriesTyped
  <2>5. 1 \in DOMAIN EntriesOf(d) /\ EntriesOf(d)[1] = [call |-> d, part |-> 1]
    <3>1. 1 \in 1..Parts(d)
      BY DEF Parts
    <3> QED BY <3>1 DEF EntriesOf
  <2>6. \E k \in DOMAIN ledger'[ino].log : ledger'[ino].log[k] = EntriesOf(d)[1]
    BY <1>2, <1>6, <1>7, <2>4, <2>5, WrittenKeeps
  <2>7. Journalled(d)'
    BY <1>2, <2>5, <2>6 DEF Journalled, Entries
  <2>8. d \notin excused => InstalledUpTo(d, n)'
    BY <1>2, <1>5 DEF InstalledUpTo
  <2>9. HalfDone(c)'
    BY <1>4, <1>7, <2>1, <2>2, <2>7, <2>8 DEF HalfDone
  <2> QED BY <2>3, <2>9 DEF Going
<1>8. ASSUME NEW m \in 0..(Parts(d) - 1), ledger' = Written(ino, SubSeq(EntriesOf(d), 1, m)),
             excused' = (IF m > 0 THEN excused \cup {d} ELSE excused),
             cmd' = [cmd EXCEPT !.op = "undo", !.i = n]
      PROVE Going(c)'
  <2>1. cmd'.op = "undo" /\ cmd'.calls = cmd.calls /\ cmd'.old = cmd.old /\ cmd'.i = n
    BY <1>3, <1>8
  <2>2. c = d
    BY <1>1, <2>1 DEF Transacts, Cur
  <2>3. n \in 0..n
    OBVIOUS
  <2>4. PutsBack(c)' /\ Progress(c)'
    BY <1>1, <1>2, <1>4, <1>5, <2>1, <2>2, <2>3, PutsBackStays DEF Progress
  <2>5. d \notin excused' => ShowsUpTo(d, n)'
    BY <1>2, <1>5, <1>8 DEF ShowsUpTo
  <2>6. ASSUME d \notin excused' PROVE ~Tells(d)'
    <3>1. m = 0 /\ d \notin excused
      BY <1>8, <2>6
    <3> DEFINE u == SubSeq(EntriesOf(d), 1, m)
    <3>2. u = <<>>
      <4> DEFINE e == EntriesOf(d)
      <4>1. e \in Seq(Entry)
        BY <1>3, EntriesTyped
      <4> HIDE DEF e
      <4>2. SubSeq(e, 1, 0) = <<>>
        BY <4>1
      <4> QED BY <3>1, <4>2 DEF e
    <3>3. ledger' = Written(ino, u)
      BY <1>8
    <3> HIDE DEF u
    <3>4. u \in Seq(Entry) /\ \A j \in DOMAIN u : u[j].call # d
      <4>1. <<>> \in Seq(Entry) /\ DOMAIN <<>> = {}
        OBVIOUS
      <4> QED BY <3>2, <4>1
    <3>5. Records(d)
      BY <1>2, <1>6, <3>3, <3>4, WrittenRecord
    <3> QED BY <1>5, <3>1, <3>5 DEF Records
  <2>7. HalfDone(c)'
    BY <2>1, <2>2, <2>5, <2>6 DEF HalfDone, AfterAppend
  <2> QED BY <2>4, <2>7 DEF Going
<1> QED BY <1>1, <1>4, <1>7, <1>8 DEF AppendEntries, Last

LEMMA GoingStep ==
  ASSUME WriterInv, FilesWhole, [Next]_vars, NEW c \in Calls, Transacts(c)'
  PROVE Going(c)'
<1>1. CASE UNCHANGED <<cmd, disk, installed>>
  BY <1>1, Rests
<1>2. CASE TakeBatch
  BY <1>2, TakenBatch DEF Transacts
<1>3. CASE \E d \in Calls : Kind[d] \in {"single", "multi"} /\ TakesOne(d)
  BY <1>3, Begins
<1>4. CASE Finish \/ BatchSync \/ DaemonDies
  <2>1. cmd' = Idle
    BY <1>4 DEF Finish, BatchSync, DaemonDies
  <2> QED BY <2>1 DEF Transacts, Idle
<1>5. CASE BatchAppend
  <2>1. cmd.op = "batch"
        /\ cmd = [op |-> cmd.op, calls |-> cmd.calls, i |-> cmd.i, old |-> cmd.old, bad |-> cmd.bad]
    BY <1>5 DEF BatchAppend, Running, WriterInv, CommandsOK, HandOK
  <2>2. cmd'.op = "batch"
    BY <1>5, <2>1 DEF BatchAppend
  <2> QED BY <2>2 DEF Transacts
<1> QED BY <1>1, <1>2, <1>3, <1>4, <1>5, HandEvolves, StageGoes, BackupGoes, RenameGoes, UndoGoes,
        AppendGoes, SyncGoes DEF GoesOnWith

LEMMA FilesWholeStep ==
  ASSUME WriterInv, FilesWhole, [Next]_vars
  PROVE FilesWhole'
<1>1. \A c \in Calls : Transacts(c)' => Progress(c)' /\ PutsBack(c)' /\ HalfDone(c)'
  BY GoingStep DEF Going
<1> QED BY <1>1, DiskStep, UntouchedStep, AgreedStep DEF FilesWhole

(***************************************************************************)
(* The types of the rest.                                                  *)
(***************************************************************************)
Sidecars == {"tmp", "bak"} \X Files \X Requests
RestTyped ==
    /\ sidecar \subseteq Sidecars /\ installed \subseteq Calls \X Files /\ excused \subseteq Calls
    /\ up \in BOOLEAN /\ outcome \in {"none", "clean", "timed_out"}
Core == EventsOnce /\ ShutdownLast /\ FilesWhole /\ RestTyped

LEMMA SidecarStep ==
  ASSUME WriterInv, FilesWhole, sidecar \subseteq Sidecars, [Next]_vars
  PROVE sidecar' \subseteq Sidecars
<1>1. CASE sidecar' \subseteq sidecar
  BY <1>1
<1>2. CASE Stage \/ Backup
  <2>1. PICK c : c = Cur
    OBVIOUS
  <2>2. /\ cmd.op \in {"stage", "backup"} /\ cmd.op \notin {"idle", "batch"}
    BY <1>2 DEF Stage, Backup, Running
  <2>3. /\ c \in Calls /\ Progress(c) /\ Len(Rewrites[c]) \in Nat
        /\ \A k \in 1..Len(Rewrites[c]) : Rewrites[c][k] \in Files
    BY <2>1, <2>2, AtWork
  <2>4. ASSUME cmd.i <= Last PROVE Tmp(Target) \in Sidecars /\ Bak(Target) \in Sidecars
    <3>1. cmd.i \in 1..Len(Rewrites[c])
      BY <2>1, <2>2, <2>3, <2>4 DEF Progress, Last
    <3>2. Target \in Files /\ ReqOf[Cur] \in Requests
      BY <2>1, <2>3, <3>1, CallAssumption DEF Target
    <3> QED BY <3>2 DEF Tmp, Bak, Sidecars
  <2>5. \/ sidecar' \subseteq sidecar
        \/ cmd.i <= Last /\ sidecar' = sidecar \cup {Tmp(Target)}
        \/ cmd.i <= Last /\ sidecar' = sidecar \cup {Bak(Target)}
    BY <1>2 DEF Stage, Backup, Abort, CleanUp
  <2> QED BY <2>4, <2>5
<1>3. CASE Rename \/ Undo \/ Finish
  BY <1>1, <1>3 DEF Rename, Undo, Finish, Abort, CleanUp
<1>4. CASE \E c \in Calls : CallSteps(c) \/ Refuse(c) \/ Drop(c)
  BY <1>1, <1>4 DEF CallSteps, Refuse, Drop, StartRecovery, MergeHistory, Admit, CacheAppend, WriterGone
<1>5. CASE Take
  BY <1>1, <1>5 DEF Take, TakeBarrier, TakeBatch, TakeSingle, TakeMulti, TakeRecover, RetrySync, TakeShutdown
<1>6. CASE AppendEntries \/ Sync \/ BatchAppend \/ BatchSync
  BY <1>1, <1>6 DEF AppendEntries, Sync, BatchAppend, BatchSync
<1>7. CASE DaemonDies \/ Replace \/ AskShutdown \/ ShutdownTimesOut \/ UNCHANGED vars
  BY <1>1, <1>7 DEF DaemonDies, Replace, AskShutdown, ShutdownTimesOut, vars
<1> QED BY <1>2, <1>3, <1>4, <1>5, <1>6, <1>7 DEF Next, WriterLoop, Transact

LEMMA InstalledStep ==
  ASSUME WriterInv, FilesWhole, installed \subseteq Calls \X Files, [Next]_vars
  PROVE installed' \subseteq Calls \X Files
<1>1. PICK c : c = Cur
  OBVIOUS
<1>2. CASE Rename
  <2>1. c \in Calls /\ \A k \in 1..Len(Rewrites[c]) : Rewrites[c][k] \in Files
    BY <1>1, <1>2, RenameFiles, AtWork
  <2> QED BY <1>1, <1>2, <2>1, RenameFiles
<1>3. CASE Undo
  BY <1>1, <1>3, UndoFiles
<1> QED BY <1>2, <1>3, FilesStep

LEMMA ExcusedStep ==
  ASSUME WriterInv, excused \subseteq Calls, [Next]_vars
  PROVE excused' \subseteq Calls
<1>1. CASE excused' = excused
  BY <1>1
<1>2. cmd.op \notin {"idle", "batch"} => Cur \in Calls
  BY Working
<1>3. CASE Undo \/ AppendEntries
  <2>1. Cur \in Calls
    BY <1>2, <1>3 DEF Undo, AppendEntries, Running
  <2>2. excused' = excused \/ excused' = excused \cup {Cur}
    BY <1>3 DEF Undo, AppendEntries
  <2> QED BY <2>1, <2>2
<1>4. CASE DaemonDies
  <2> DEFINE log == ledger[ino].log
  <2>1. PICK n \in ledger[ino].synced..Len(log) :
           excused' = excused \cup {e.call : e \in Entries(SubSeq(log, n + 1, Len(log)))} \cup
                         (IF cmd.op \in {"rename", "append", "undo"} THEN {Cur} ELSE {})
    BY <1>4 DEF DaemonDies
  <2>2. log \in Seq(Entry) /\ n \in Nat
    BY <2>1 DEF WriterInv, BooksOK
  <2> HIDE DEF log
  <2>3. SubSeq(log, n + 1, Len(log)) \in Seq(Entry)
    BY <2>2
  <2>4. \A e \in Entries(SubSeq(log, n + 1, Len(log))) : e \in Entry
    BY <2>3 DEF Entries
  <2>5. \A e \in Entry : e.call \in Calls
    BY DEF Entry
  <2> QED BY <1>2, <2>1, <2>4, <2>5
<1>5. CASE Replace
  <2>1. PICK n \in {0, Len(ledger[ino].log)} :
           excused' = excused \cup {ledger[ino].log[k].call : k \in (n + 1)..Len(ledger[ino].log)}
    BY <1>5 DEF Replace
  <2>2. /\ DOMAIN ledger[ino].log = 1..Len(ledger[ino].log) /\ Len(ledger[ino].log) \in Nat
        /\ \A k \in DOMAIN ledger[ino].log : ledger[ino].log[k].call \in Calls
    BY LogTyped DEF WriterInv
  <2>3. \A k \in (n + 1)..Len(ledger[ino].log) : k \in DOMAIN ledger[ino].log
    BY <2>1, <2>2
  <2> QED BY <2>1, <2>2, <2>3
<1>6. CASE \E c \in Calls : CallSteps(c) \/ Refuse(c) \/ Drop(c)
  BY <1>1, <1>6 DEF CallSteps, Refuse, Drop, StartRecovery, MergeHistory, Admit, CacheAppend, WriterGone
<1>7. CASE Take
  BY <1>1, <1>7 DEF Take, TakeBarrier, TakeBatch, TakeSingle, TakeMulti, TakeRecover, RetrySync, TakeShutdown
<1>8. CASE Stage \/ Backup \/ Rename \/ Sync \/ Finish \/ BatchAppend \/ BatchSync
  BY <1>1, <1>8 DEF Stage, Backup, Rename, Sync, Finish, BatchAppend, BatchSync
<1>9. CASE AskShutdown \/ ShutdownTimesOut \/ UNCHANGED vars
  BY <1>1, <1>9 DEF AskShutdown, ShutdownTimesOut, vars
<1> QED BY <1>3, <1>4, <1>5, <1>6, <1>7, <1>8, <1>9 DEF Next, WriterLoop, Transact

LEMMA EndingTyped ==
  ASSUME up \in BOOLEAN, outcome \in {"none", "clean", "timed_out"}, [Next]_vars
  PROVE up' \in BOOLEAN /\ outcome' \in {"none", "clean", "timed_out"}
<1>1. CASE \E c \in Calls : CallSteps(c) \/ Refuse(c) \/ Drop(c)
  BY <1>1 DEF CallSteps, Refuse, Drop, StartRecovery, MergeHistory, Admit, CacheAppend, WriterGone
<1>2. CASE Take
  BY <1>2 DEF Take, TakeBarrier, TakeBatch, TakeSingle, TakeMulti, TakeRecover, RetrySync, TakeShutdown
<1>3. CASE Transact \/ BatchAppend \/ BatchSync
  BY <1>3 DEF Transact, Stage, Backup, Rename, Undo, AppendEntries, Sync, Finish, BatchAppend, BatchSync
<1>4. CASE DaemonDies \/ Replace \/ AskShutdown \/ ShutdownTimesOut \/ UNCHANGED vars
  BY <1>4 DEF DaemonDies, Replace, AskShutdown, ShutdownTimesOut, vars
<1> QED BY <1>1, <1>2, <1>3, <1>4 DEF Next, WriterLoop

(***************************************************************************)
(* The theorems.                                                           *)
(***************************************************************************)
LEMMA CoreStep ==
  ASSUME WriterInv, Core, [Next]_vars
  PROVE Core'
<1>1. EventsOnce' /\ ShutdownLast' /\ FilesWhole'
  BY EventsOnceStep, ShutdownLastStep, FilesWholeStep DEF Core
<1>2. RestTyped'
  BY SidecarStep, InstalledStep, ExcusedStep, EndingTyped DEF Core, RestTyped
<1> QED BY <1>1, <1>2 DEF Core

LEMMA CoreInit ==
  ASSUME Init
  PROVE Core
<1>1. /\ pc = [c \in Calls |-> "new"] /\ queue = <<>> /\ cmd = Idle
      /\ cache = [r \in Requests |-> Missing] /\ multi = [r \in Requests |-> Missing]
      /\ ledger = [n \in 1..MaxInode |-> [log |-> <<>>, synced |-> 0]] /\ ino = 1
      /\ disk = [f \in Files |-> IF f \in Existing THEN f ELSE NoCall]
      /\ sidecar = {} /\ installed = {} /\ up = TRUE /\ outcome = "none" /\ before = {}
      /\ events = [c \in Calls |-> 0] /\ excused = {}
  BY DEF Init
<1>2. \A c \in Calls : ~Shows(c)
  <2>1. \A f \in Files : disk[f] \notin Calls
    BY <1>1, CallAssumption
  <2> QED BY <2>1 DEF Shows
<1>3. \A c \in Calls : ~Tells(c) /\ ~Journalled(c)
  <2>1. ino \in 1..MaxInode
    BY <1>1, WriterBounds
  <2> QED BY <1>1, <2>1 DEF Tells, Journalled, Entries
<1>4. EventsOnce
  <2>1. \A r \in Requests : cache[r].dur = "durable" /\ multi[r].dur = "durable"
    BY <1>1 DEF Missing
  <2>2. \A c \in Calls : ~Uncertain(c)
    BY <2>1 DEF Uncertain, Owed
  <2> QED BY <1>1, <2>1, <2>2 DEF EventsOnce
<1>5. ShutdownLast
  BY <1>1 DEF ShutdownLast
<1>6. FilesWhole
  <2>1. DiskOK
    BY <1>1, <1>2 DEF DiskOK
  <2>2. Untouched /\ Agreed
    BY <1>2, <1>3 DEF Untouched, Agreed, Agree
  <2>3. \A c \in Calls : ~Transacts(c)
    BY <1>1 DEF Transacts, Idle
  <2> QED BY <2>1, <2>2, <2>3 DEF FilesWhole
<1>7. RestTyped
  BY <1>1 DEF RestTyped
<1> QED BY <1>4, <1>5, <1>6, <1>7 DEF Core

LEMMA CoreAlways == Spec => [](WriterInv /\ Core)
<1>1. Init => WriterInv /\ Core
  BY InitHolds, CoreInit
<1>2. WriterInv /\ Core /\ [Next]_vars => (WriterInv /\ Core)'
  BY StepKeeps, CoreStep
<1> QED BY <1>1, <1>2, PTL DEF Spec

LEMMA CoreTyped ==
  ASSUME WriterInv, Core
  PROVE TypeOK
<1>1. /\ pc \in [Calls -> {"new", "scanning", "scanned", "waiting", "answered", "done", "dropped"}]
      /\ reply \in [Calls -> {"none", "ok", "conflict", "uncertain", "failed", "absent"}]
  BY DEF WriterInv, CommandsOK, CallsOK
<1>2. queue \in Seq([op : Kinds \cup {"barrier"}, call : Calls]
                    \cup {[op |-> "shutdown", call |-> NoCall]})
  <2>1. queue \in Seq(Command)
    BY DEF WriterInv, CommandsOK, QueueOK
  <2>2. [op : {"shutdown"}, call : {NoCall}] = {[op |-> "shutdown", call |-> NoCall]}
    <3>1. \A x \in [op : {"shutdown"}, call : {NoCall}] : x = [op |-> x.op, call |-> x.call]
      OBVIOUS
    <3>2. \A x \in [op : {"shutdown"}, call : {NoCall}] : x.op = "shutdown" /\ x.call = NoCall
      OBVIOUS
    <3>3. [op |-> "shutdown", call |-> NoCall] \in [op : {"shutdown"}, call : {NoCall}]
      OBVIOUS
    <3> QED BY <3>1, <3>2, <3>3
  <2>3. Command = [op : Kinds \cup {"barrier"}, call : Calls]
                  \cup {[op |-> "shutdown", call |-> NoCall]}
    BY <2>2 DEF Command
  <2> QED BY <2>1, <2>3
<1>3. cmd.op \in {"idle", "stage", "backup", "rename", "undo", "append", "sync", "durable",
                  "uncertain", "batch"}
  BY DEF WriterInv, CommandsOK, HandOK, Ops, BeforeAppend, AfterAppend
<1>4. /\ cache \in [Requests -> Cached \cup {Missing}] /\ multi \in [Requests -> Cached \cup {Missing}]
      /\ loaded \in BOOLEAN /\ loader \in Calls \cup {NoCall} /\ found \subseteq Entry
  BY DEF WriterInv, CacheTypes
<1>5. /\ ledger \in [1..MaxInode -> [log : Seq(Entry), synced : Nat]]
      /\ \A n \in 1..MaxInode : ledger[n].synced <= Len(ledger[n].log)
      /\ ino \in 1..MaxInode /\ handle \in 0..MaxInode
  <2>1. BooksOK
    BY DEF WriterInv
  <2>2. handle \in 0..ino /\ ino \in 1..MaxInode
    BY <2>1 DEF BooksOK
  <2>3. handle \in 0..MaxInode
    BY <2>2, WriterBounds
  <2> QED BY <2>1, <2>2, <2>3 DEF BooksOK
<1>6. /\ disk \in [Files -> Calls \cup Files \cup {NoCall}]
      /\ before \subseteq Calls
  BY DEF Core, FilesWhole, DiskOK, ShutdownLast
<1>7. /\ sidecar \subseteq {"tmp", "bak"} \X Files \X Requests
      /\ up \in BOOLEAN /\ outcome \in {"none", "clean", "timed_out"}
      /\ installed \subseteq Calls \X Files /\ excused \subseteq Calls
  BY DEF Core, RestTyped, Sidecars
<1> QED BY <1>1, <1>2, <1>3, <1>4, <1>5, <1>6, <1>7 DEF TypeOK

(* The invariant of the effects: what was announced, what the files show of every     *)
(* transaction wherever it stands, and what is in the queue in front of a shutdown.   *)
THEOREM EffectsInvariant == Spec => []EffectsInv
<1>1. WriterInv /\ Core => EffectsInv
  BY CoreTyped DEF Core, EffectsInv
<1> QED BY <1>1, CoreAlways, PTL

(* Subscribers hear of an entry at most once and never of one a crash could take,     *)
(* whether its first sync succeeds, a later one, or that of its batch.                *)
THEOREM AnnouncesOnce == Spec => []EventsHonest
<1>1. Core => EventsHonest
  <2> SUFFICES ASSUME Core, NEW c \in Calls
               PROVE events[c] <= 1 /\ (events[c] = 1 => DurableEntry(ReqOf[c]))
    BY DEF EventsHonest
  <2>1. events[c] \in {0, 1} /\ (events[c] = 1 => DurableCall(c))
    BY DEF Core, EventsOnce
  <2> QED BY <2>1 DEF DurableCall, DurableEntry
<1> QED BY <1>1, CoreAlways, PTL

(* The node files and the ledger agree about every transaction that is not in the     *)
(* middle of its command, but for the half-done work the code cannot undo.            *)
THEOREM FilesAgree == Spec => []AllOrNothing
<1>1. Core => AllOrNothing
  <2> SUFFICES ASSUME Core, NEW c \in Calls, NotInProgress(c), c \notin excused
               PROVE /\ (\E f \in Files : disk[f] = c) => Journalled(c)
                     /\ Journalled(c) =>
                           \A k \in DOMAIN Rewrites[c] : <<c, Rewrites[c][k]>> \in installed
    BY DEF AllOrNothing
  <2>1. ~InHand(c)
    BY DEF NotInProgress, InHand, Idle, Entries
  <2> QED BY <2>1 DEF Core, FilesWhole, Agreed, Agree, Shows
<1> QED BY <1>1, CoreAlways, PTL

(* When the writer reports a clean end it holds and leaves behind no command that was *)
(* accepted before the shutdown was asked for.                                        *)
THEOREM CleanEndIsComplete == Spec => CleanIsComplete
<1>1. WriterInv /\ Core /\ [Next]_vars =>
        [outcome' = "clean" /\ outcome # "clean" =>
           cmd = Idle /\ \A k \in DOMAIN queue : queue[k].call \notin before]_vars
  BY CleanStep DEF Core
<1> QED BY <1>1, CoreAlways, PTL DEF Spec, CleanIsComplete
=============================================================================
