----------------------------- MODULE WriterProofs -----------------------------
(***************************************************************************)
(* Proofs about Writer, for any calls, request ids, files and bounds: the  *)
(* invariant WriterInv is inductive, so a single transaction is applied    *)
(* once and what is acknowledged is durable.                               *)
(***************************************************************************)
EXTENDS Writer, TLAPS

USE DEF memory, files, books, ending

(***************************************************************************)
(* The ledger files.                                                       *)
(***************************************************************************)
LEMMA EntriesTyped ==
  ASSUME NEW c \in Calls
  PROVE /\ EntriesOf(c) \in Seq(Entry)
        /\ \A k \in DOMAIN EntriesOf(c) : EntriesOf(c)[k].call = c
        /\ Len(EntriesOf(c)) = Parts(c) /\ Len(EntriesOf(c)) >= 1
<1>1. Parts(c) \in {1, 2}
  BY DEF Parts
<1>2. \A k \in 1..Parts(c) : [call |-> c, part |-> k] \in Entry
  BY <1>1 DEF Entry
<1>3. EntriesOf(c) \in [1..Parts(c) -> Entry]
  BY <1>2 DEF EntriesOf
<1>4. EntriesOf(c) \in Seq(Entry)
  BY <1>1, <1>3
<1>5. Len(EntriesOf(c)) = Parts(c)
  BY <1>1, <1>3, <1>4
<1> QED BY <1>1, <1>4, <1>5 DEF EntriesOf

LEMMA Concat ==
  ASSUME NEW S, NEW a \in Seq(S), NEW b \in Seq(S)
  PROVE /\ a \o b \in Seq(S) /\ Len(a \o b) = Len(a) + Len(b)
        /\ Len(a) \in Nat /\ Len(b) \in Nat
        /\ DOMAIN a = 1..Len(a) /\ DOMAIN b = 1..Len(b)
        /\ DOMAIN (a \o b) = 1..(Len(a) + Len(b))
        /\ \A k \in 1..Len(a) : (a \o b)[k] = a[k]
        /\ \A k \in 1..Len(b) : (a \o b)[Len(a) + k] = b[k]
OBVIOUS

LEMMA LogTyped ==
  ASSUME BooksOK
  PROVE /\ ino \in 1..MaxInode
        /\ \A n \in 1..MaxInode :
              /\ DOMAIN ledger[n].log = 1..Len(ledger[n].log) /\ Len(ledger[n].log) \in Nat
              /\ \A k \in DOMAIN ledger[n].log :
                    ledger[n].log[k] \in Entry /\ ledger[n].log[k].call \in Calls
        /\ \A k \in DOMAIN ledger[ino].log :
              ledger[ino].log[k] \in Entry /\ ledger[ino].log[k].call \in Calls
<1>1. ASSUME NEW n \in 1..MaxInode
      PROVE /\ DOMAIN ledger[n].log = 1..Len(ledger[n].log) /\ Len(ledger[n].log) \in Nat
            /\ \A k \in DOMAIN ledger[n].log : ledger[n].log[k] \in Entry
  <2>1. ledger[n].log \in Seq(Entry)
    BY DEF BooksOK
  <2> QED BY <2>1
<1>2. \A e \in Entry : e.call \in Calls
  BY DEF Entry
<1>3. ino \in 1..MaxInode
  BY DEF BooksOK
<1> QED BY <1>1, <1>2, <1>3

(* A sync: every log stays, and more of one is synced. *)
LEMMA SyncedBooks ==
  ASSUME BooksOK, NEW n \in 0..ino, ledger' = Synced(n), ino' = ino, handle' \in 0..ino
  PROVE /\ BooksOK'
        /\ \A m \in 1..MaxInode : /\ ledger'[m].log = ledger[m].log
                                  /\ ledger[m].synced <= ledger'[m].synced
        /\ n # 0 => ledger'[n].synced = Len(ledger[n].log)
<1>1. ino \in 1..MaxInode /\ n \in 0..MaxInode
  BY WriterBounds DEF BooksOK
<1>2. ASSUME NEW m \in 1..MaxInode
      PROVE /\ ledger'[m] \in [log : Seq(Entry), synced : Nat]
            /\ ledger'[m].log = ledger[m].log
            /\ ledger[m].synced <= ledger'[m].synced
            /\ ledger'[m].synced <= Len(ledger'[m].log)
            /\ m = n => ledger'[m].synced = Len(ledger[m].log)
            /\ m > ino => ledger'[m].synced = 0
  <2>1. /\ ledger[m] \in [log : Seq(Entry), synced : Nat]
        /\ ledger[m].synced <= Len(ledger[m].log) /\ Len(ledger[m].log) \in Nat
        /\ m > ino => ledger[m].synced = 0
    BY <1>1 DEF BooksOK
  <2>2. CASE m = n
    <3>1. ledger'[m] = [ledger[m] EXCEPT !.synced = Len(ledger[m].log)]
      BY <2>2 DEF Synced, BooksOK
    <3> QED BY <1>1, <2>1, <2>2, <3>1
  <2>3. CASE m # n
    <3>1. ledger'[m] = ledger[m]
      BY <2>3 DEF Synced, BooksOK
    <3> QED BY <2>1, <2>3, <3>1
  <2> QED BY <2>2, <2>3
<1>3. ledger' \in [1..MaxInode -> [log : Seq(Entry), synced : Nat]]
  BY <1>2 DEF Synced, BooksOK
<1>4. \A m \in (ino + 1)..MaxInode : ledger'[m].synced = 0
  BY <1>1, <1>2
<1>5. BooksOK'
  BY <1>1, <1>2, <1>3, <1>4 DEF BooksOK
<1> QED BY <1>1, <1>2, <1>5

(* An append: one log grows. *)
LEMMA WrittenBooks ==
  ASSUME BooksOK, NEW n \in 1..ino, NEW s \in Seq(Entry), ledger' = Written(n, s),
         ino' = ino, handle' \in 0..ino
  PROVE /\ BooksOK'
        /\ \A m \in 1..MaxInode :
              /\ m # n => ledger'[m].log = ledger[m].log
              /\ ledger'[m].synced = ledger[m].synced
        /\ ledger'[n].log = ledger[n].log \o s
<1>1. ino \in 1..MaxInode /\ n \in 1..MaxInode
  BY WriterBounds DEF BooksOK
<1>2. ASSUME NEW m \in 1..MaxInode
      PROVE /\ ledger'[m] \in [log : Seq(Entry), synced : Nat]
            /\ m # n => ledger'[m].log = ledger[m].log
            /\ m = n => ledger'[m].log = ledger[m].log \o s
            /\ ledger'[m].synced = ledger[m].synced
            /\ ledger'[m].synced <= Len(ledger'[m].log)
            /\ m > ino => ledger'[m].synced = 0
  <2>1. /\ ledger[m] \in [log : Seq(Entry), synced : Nat]
        /\ ledger[m].synced <= Len(ledger[m].log) /\ Len(ledger[m].log) \in Nat
        /\ m > ino => ledger[m].synced = 0
    BY <1>1 DEF BooksOK
  <2>2. CASE m = n
    <3>1. ledger'[m] = [ledger[m] EXCEPT !.log = @ \o s]
      BY <2>2 DEF Written, BooksOK
    <3>2. /\ ledger[m].log \o s \in Seq(Entry)
          /\ Len(ledger[m].log \o s) = Len(ledger[m].log) + Len(s) /\ Len(s) \in Nat
      BY <2>1, Concat
    <3>3. ledger'[m].log = ledger[m].log \o s /\ ledger'[m].synced = ledger[m].synced
          /\ ledger'[m] \in [log : Seq(Entry), synced : Nat]
      BY <2>1, <3>1, <3>2
    <3>4. Len(ledger'[m].log) = Len(ledger[m].log) + Len(s)
      BY <3>2, <3>3
    <3>5. ledger'[m].synced <= Len(ledger'[m].log)
      BY <2>1, <3>2, <3>3, <3>4
    <3> QED BY <1>1, <2>1, <2>2, <3>3, <3>5
  <2>3. CASE m # n
    <3>1. ledger'[m] = ledger[m]
      BY <2>3 DEF Written, BooksOK
    <3> QED BY <2>1, <2>3, <3>1
  <2> QED BY <2>2, <2>3
<1>3. ledger' \in [1..MaxInode -> [log : Seq(Entry), synced : Nat]]
  BY <1>2 DEF Written, BooksOK
<1>4. \A m \in (ino + 1)..MaxInode : ledger'[m].synced = 0
  BY <1>1, <1>2
<1>5. BooksOK'
  BY <1>1, <1>2, <1>3, <1>4 DEF BooksOK
<1> QED BY <1>1, <1>2, <1>5

(* What no step of any actor does to a ledger: forget what was synced. *)
SyncedKept ==
    \A n \in 1..MaxInode : \A k \in 1..ledger[n].synced :
        k <= ledger'[n].synced /\ ledger'[n].log[k] = ledger[n].log[k]

LEMMA DurableStays ==
  ASSUME BooksOK, BooksOK', SyncedKept, NEW c, DurableCall(c)
  PROVE DurableCall(c)'
<1>1. PICK n \in 1..MaxInode : \E k \in 1..ledger[n].synced : ledger[n].log[k].call = c
  BY DEF DurableCall
<1>2. PICK k \in 1..ledger[n].synced : ledger[n].log[k].call = c
  BY <1>1
<1>3. k \in 1..ledger'[n].synced /\ ledger'[n].log[k].call = c
  BY <1>2 DEF SyncedKept, BooksOK
<1> QED BY <1>3 DEF DurableCall

(* What only the append of a single transaction does: tell of a new one. *)
NoNewSingle ==
    /\ \A k \in DOMAIN ledger'[ino'].log : Kind[ledger'[ino'].log[k].call] = "single" =>
          k \in DOMAIN ledger[ino].log /\ ledger'[ino'].log[k] = ledger[ino].log[k]
    /\ \A c \in Calls : Kind[c] = "single" /\ Tells(c)' => Tells(c)

LEMMA SameLogs ==
  ASSUME BooksOK, BooksOK', ino' = ino,
         \A m \in 1..MaxInode : /\ ledger'[m].log = ledger[m].log
                                /\ ledger[m].synced <= ledger'[m].synced
  PROVE SyncedKept /\ NoNewSingle
<1>1. SyncedKept
  BY DEF SyncedKept, BooksOK
<1>2. NoNewSingle
  BY DEF NoNewSingle, Tells, BooksOK
<1> QED BY <1>1, <1>2

LEMMA SyncedStep ==
  ASSUME BooksOK, NEW n \in 0..ino, ledger' = Synced(n), ino' = ino, handle' \in 0..ino
  PROVE BooksOK' /\ SyncedKept /\ NoNewSingle
BY SyncedBooks, SameLogs

LEMMA UnchangedBooks ==
  ASSUME BooksOK, UNCHANGED <<ledger, ino>>, handle' \in 0..ino
  PROVE BooksOK' /\ SyncedKept /\ NoNewSingle
<1>1. BooksOK'
  BY DEF BooksOK
<1>2. \A m \in 1..MaxInode : ledger[m].synced <= ledger'[m].synced
  BY DEF BooksOK
<1> QED BY <1>1, <1>2, SameLogs

LEMMA WrittenKeeps ==
  ASSUME BooksOK, NEW n \in 1..ino, NEW s \in Seq(Entry), ledger' = Written(n, s),
         ino' = ino, handle' \in 0..ino
  PROVE /\ BooksOK' /\ SyncedKept
        /\ \A m \in 1..MaxInode : \A k \in DOMAIN ledger'[m].log :
              \/ k \in DOMAIN ledger[m].log /\ ledger'[m].log[k] = ledger[m].log[k]
              \/ m = n /\ k > Len(ledger[m].log) /\ \E j \in DOMAIN s : ledger'[m].log[k] = s[j]
        /\ \A m \in 1..MaxInode : \A k \in DOMAIN ledger[m].log :
              k \in DOMAIN ledger'[m].log /\ ledger'[m].log[k] = ledger[m].log[k]
        /\ \A j \in DOMAIN s : LET k == Len(ledger[n].log) + j IN
              k \in DOMAIN ledger'[n].log /\ ledger'[n].log[k] = s[j]
<1> DEFINE old == ledger[n].log
           new == ledger'[n].log
<1>1. /\ BooksOK' /\ new = old \o s
      /\ \A m \in 1..MaxInode : /\ m # n => ledger'[m].log = ledger[m].log
                                /\ ledger'[m].synced = ledger[m].synced
  BY WrittenBooks
<1>2. \A m \in 1..MaxInode :
         /\ ledger[m].log \in Seq(Entry) /\ ledger[m].synced \in Nat
         /\ ledger[m].synced <= Len(ledger[m].log) /\ Len(ledger[m].log) \in Nat
         /\ DOMAIN ledger[m].log = 1..Len(ledger[m].log)
  BY DEF BooksOK
<1>3. n \in 1..MaxInode
  BY WriterBounds DEF BooksOK
<1>4. /\ old \in Seq(Entry) /\ Len(old) \in Nat /\ Len(s) \in Nat
      /\ DOMAIN old = 1..Len(old) /\ DOMAIN s = 1..Len(s)
      /\ DOMAIN new = 1..(Len(old) + Len(s))
      /\ \A k \in 1..Len(old) : new[k] = old[k]
      /\ \A j \in 1..Len(s) : new[Len(old) + j] = s[j]
  <2>1. old \in Seq(Entry)
    BY <1>2, <1>3
  <2> HIDE DEF old, new
  <2>2. /\ Len(old) \in Nat /\ Len(s) \in Nat
        /\ DOMAIN old = 1..Len(old) /\ DOMAIN s = 1..Len(s)
        /\ DOMAIN (old \o s) = 1..(Len(old) + Len(s))
        /\ \A k \in 1..Len(old) : (old \o s)[k] = old[k]
        /\ \A j \in 1..Len(s) : (old \o s)[Len(old) + j] = s[j]
    BY <2>1, Concat
  <2> QED BY <1>1, <2>1, <2>2
<1> HIDE DEF old, new
<1>5. ASSUME NEW k \in DOMAIN old PROVE k \in DOMAIN new /\ new[k] = old[k]
  BY <1>4
<1>6. ASSUME NEW m \in 1..MaxInode, NEW k \in DOMAIN ledger[m].log
      PROVE k \in DOMAIN ledger'[m].log /\ ledger'[m].log[k] = ledger[m].log[k]
  BY <1>1, <1>5 DEF old, new
<1>7. SyncedKept
  <2> SUFFICES ASSUME NEW m \in 1..MaxInode, NEW k \in 1..ledger[m].synced
               PROVE k <= ledger'[m].synced /\ ledger'[m].log[k] = ledger[m].log[k]
    BY DEF SyncedKept
  <2>1. k \in DOMAIN ledger[m].log
    BY <1>2
  <2> QED BY <1>1, <1>2, <1>6, <2>1
<1>8. ASSUME NEW k \in DOMAIN new
      PROVE \/ k \in DOMAIN old /\ new[k] = old[k]
            \/ k > Len(old) /\ \E j \in DOMAIN s : new[k] = s[j]
  <2>1. CASE k <= Len(old)
    BY <1>4, <2>1
  <2>2. CASE k > Len(old)
    <3>1. k - Len(old) \in 1..Len(s) /\ k = Len(old) + (k - Len(old))
      BY <1>4, <2>2
    <3> QED BY <1>4, <2>2, <3>1
  <2> QED BY <1>4, <2>1, <2>2
<1>9. ASSUME NEW m \in 1..MaxInode, NEW k \in DOMAIN ledger'[m].log
      PROVE \/ k \in DOMAIN ledger[m].log /\ ledger'[m].log[k] = ledger[m].log[k]
            \/ m = n /\ k > Len(ledger[m].log) /\ \E j \in DOMAIN s : ledger'[m].log[k] = s[j]
  BY <1>1, <1>8 DEF old, new
<1>10. ASSUME NEW j \in DOMAIN s
       PROVE /\ Len(old) + j \in DOMAIN new
             /\ new[Len(old) + j] = s[j]
  BY <1>4
<1> QED BY <1>1, <1>6, <1>7, <1>9, <1>10 DEF old, new

LEMMA WrittenOthers ==
  ASSUME BooksOK, NEW n \in 1..ino, NEW s \in Seq(Entry), ledger' = Written(n, s),
         ino' = ino, handle' \in 0..ino, \A j \in DOMAIN s : Kind[s[j].call] # "single"
  PROVE NoNewSingle
<1>1. \A m \in 1..MaxInode : \A k \in DOMAIN ledger'[m].log :
         Kind[ledger'[m].log[k].call] = "single" =>
            k \in DOMAIN ledger[m].log /\ ledger'[m].log[k] = ledger[m].log[k]
  BY WrittenKeeps
<1>2. ino \in 1..MaxInode
  BY DEF BooksOK
<1> QED BY <1>1, <1>2 DEF NoNewSingle, Tells

(* A machine that goes down loses the end of a log, at most from what was synced. *)
LEMMA DeathKeeps ==
  ASSUME BooksOK, NEW n \in ledger[ino].synced..Len(ledger[ino].log),
         ledger' = [ledger EXCEPT ![ino].log = SubSeq(@, 1, n)], ino' = ino, handle' = 0
  PROVE /\ BooksOK' /\ SyncedKept /\ NoNewSingle
        /\ ledger'[ino].synced = ledger[ino].synced
        /\ DOMAIN ledger'[ino].log = 1..n
        /\ \A k \in 1..n : ledger'[ino].log[k] = ledger[ino].log[k]
        /\ \A m \in 1..MaxInode : m # ino => ledger'[m] = ledger[m]
<1> DEFINE old == ledger[ino].log
<1>1. ino \in 1..MaxInode /\ ledger[ino] \in [log : Seq(Entry), synced : Nat]
  BY DEF BooksOK
<1>2. n \in Nat /\ n <= Len(old) /\ old \in Seq(Entry) /\ ledger[ino].synced <= n
  BY <1>1 DEF BooksOK
<1>3. /\ SubSeq(old, 1, n) \in Seq(Entry) /\ Len(SubSeq(old, 1, n)) = n
      /\ DOMAIN SubSeq(old, 1, n) = 1..n /\ DOMAIN old = 1..Len(old)
      /\ \A k \in 1..n : SubSeq(old, 1, n)[k] = old[k]
  <2> HIDE DEF old
  <2> QED BY <1>2
<1>4. /\ ledger'[ino] = [ledger[ino] EXCEPT !.log = SubSeq(old, 1, n)]
      /\ \A m \in 1..MaxInode : m # ino => ledger'[m] = ledger[m]
  BY <1>1 DEF BooksOK
<1>5. /\ ledger'[ino].log = SubSeq(old, 1, n) /\ ledger'[ino].synced = ledger[ino].synced
      /\ ledger'[ino] \in [log : Seq(Entry), synced : Nat]
  <2> DEFINE cut == SubSeq(old, 1, n)
  <2>1. cut \in Seq(Entry) /\ ledger'[ino] = [ledger[ino] EXCEPT !.log = cut]
    BY <1>3, <1>4
  <2> HIDE DEF cut
  <2>2. /\ ledger'[ino].log = cut /\ ledger'[ino].synced = ledger[ino].synced
        /\ ledger'[ino] \in [log : Seq(Entry), synced : Nat]
    BY <1>1, <2>1
  <2> QED BY <2>2 DEF cut
<1>6. ledger' \in [1..MaxInode -> [log : Seq(Entry), synced : Nat]]
  BY <1>4, <1>5 DEF BooksOK
<1>7. BooksOK'
  BY <1>1, <1>2, <1>3, <1>4, <1>5, <1>6 DEF BooksOK
<1>8. \A m \in 1..MaxInode : \A k \in DOMAIN ledger'[m].log :
         k \in DOMAIN ledger[m].log /\ ledger'[m].log[k] = ledger[m].log[k]
  BY <1>2, <1>3, <1>4, <1>5
<1>9. NoNewSingle
  BY <1>1, <1>8 DEF NoNewSingle, Tells
<1>10. SyncedKept
  <2> SUFFICES ASSUME NEW m \in 1..MaxInode, NEW k \in 1..ledger[m].synced
               PROVE k <= ledger'[m].synced /\ ledger'[m].log[k] = ledger[m].log[k]
    BY DEF SyncedKept
  <2>1. CASE m = ino
    BY <1>1, <1>2, <1>3, <1>5, <2>1
  <2>2. CASE m # ino
    BY <1>4, <2>2 DEF BooksOK
  <2> QED BY <2>1, <2>2
<1> QED BY <1>3, <1>4, <1>5, <1>7, <1>9, <1>10

(* A file that takes the path: what it has was in the old one, and is on disk. *)
LEMMA ReplaceKeeps ==
  ASSUME BooksOK, NEW n \in {0, Len(ledger[ino].log)}, ino < MaxInode, ino' = ino + 1,
         ledger' = [ledger EXCEPT ![ino + 1] = [log |-> SubSeq(ledger[ino].log, 1, n),
                                                synced |-> n]],
         handle' = handle
  PROVE /\ BooksOK' /\ SyncedKept /\ NoNewSingle
        /\ DOMAIN ledger'[ino'].log = 1..n /\ ledger'[ino'].synced = n
        /\ \A k \in 1..n : k \in DOMAIN ledger[ino].log
                           /\ ledger'[ino'].log[k] = ledger[ino].log[k]
        /\ \A m \in 1..ino : ledger'[m] = ledger[m]
<1> DEFINE old == ledger[ino].log
<1>1. ino \in 1..MaxInode /\ ino + 1 \in 1..MaxInode /\ MaxInode \in Nat
      /\ ledger[ino] \in [log : Seq(Entry), synced : Nat]
  <2>1. ino \in 1..MaxInode /\ MaxInode \in Nat
        /\ ledger[ino] \in [log : Seq(Entry), synced : Nat]
    BY WriterBounds DEF BooksOK
  <2> QED BY <2>1
<1>2. n \in Nat /\ n <= Len(old) /\ old \in Seq(Entry) /\ Len(old) \in Nat
  <2>1. old \in Seq(Entry)
    BY <1>1
  <2> HIDE DEF old
  <2>2. Len(old) \in Nat
    BY <2>1
  <2>3. n = 0 \/ n = Len(old)
    BY DEF old
  <2> QED BY <2>1, <2>2, <2>3
<1>3. /\ SubSeq(old, 1, n) \in Seq(Entry) /\ Len(SubSeq(old, 1, n)) = n
      /\ DOMAIN SubSeq(old, 1, n) = 1..n /\ DOMAIN old = 1..Len(old)
      /\ \A k \in 1..n : SubSeq(old, 1, n)[k] = old[k]
  <2> HIDE DEF old
  <2> QED BY <1>2
<1>4. /\ ledger'[ino + 1] = [log |-> SubSeq(old, 1, n), synced |-> n]
      /\ \A m \in 1..MaxInode : m # ino + 1 => ledger'[m] = ledger[m]
  BY <1>1 DEF BooksOK
<1>5. /\ ledger'[ino + 1].log = SubSeq(old, 1, n) /\ ledger'[ino + 1].synced = n
      /\ ledger'[ino + 1] \in [log : Seq(Entry), synced : Nat]
  BY <1>2, <1>3, <1>4
<1>6. ledger' \in [1..MaxInode -> [log : Seq(Entry), synced : Nat]]
  BY <1>4, <1>5 DEF BooksOK
<1>7. \A m \in (ino + 2)..MaxInode : ledger'[m].synced = 0
  BY <1>1, <1>4 DEF BooksOK
<1>8. BooksOK'
  <2>1. \A m \in 1..MaxInode : ledger'[m].synced <= Len(ledger'[m].log)
    BY <1>2, <1>3, <1>4, <1>5 DEF BooksOK
  <2>2. handle' \in 0..ino'
    BY <1>1 DEF BooksOK
  <2>3. \A m \in (ino' + 1)..MaxInode : ledger'[m].synced = 0
    BY <1>1, <1>7
  <2> QED BY <1>1, <1>6, <2>1, <2>2, <2>3 DEF BooksOK
<1>9. \A m \in 1..MaxInode : \A k \in DOMAIN ledger'[m].log :
         \/ m = ino + 1 /\ k \in DOMAIN old /\ ledger'[m].log[k] = old[k]
         \/ m # ino + 1 /\ k \in DOMAIN ledger[m].log /\ ledger'[m].log[k] = ledger[m].log[k]
  BY <1>1, <1>2, <1>3, <1>4, <1>5
<1>10. NoNewSingle
  BY <1>1, <1>9 DEF NoNewSingle, Tells
<1>11. SyncedKept
  <2> SUFFICES ASSUME NEW m \in 1..MaxInode, NEW k \in 1..ledger[m].synced
               PROVE k <= ledger'[m].synced /\ ledger'[m].log[k] = ledger[m].log[k]
    BY DEF SyncedKept
  <2>1. m # ino + 1
    BY <1>1 DEF BooksOK
  <2> QED BY <1>4, <2>1 DEF BooksOK
<1> QED BY <1>1, <1>2, <1>3, <1>4, <1>5, <1>8, <1>10, <1>11

(***************************************************************************)
(* The queue, the command in hand, and the calls.                          *)
(***************************************************************************)
(* What a call in the queue may become while it is there. *)
Bears(c) == pc'[c] = pc[c] \/ pc'[c] = "dropped"
NowExpects(q) ==
    /\ q.op \in Kinds => Kind[q.call] = q.op /\ pc'[q.call] \in {"waiting", "dropped"}
    /\ q.op = "barrier" => pc'[q.call] \in {"scanning", "dropped"}

LEMMA QueuedTyped ==
  ASSUME QueueOK
  PROVE /\ \A k \in DOMAIN queue :
              /\ queue[k] \in Command
              /\ queue[k].op = "shutdown" \/ queue[k].call \in Calls
              /\ queue[k].op # "shutdown" => queue[k].op \in Kinds \cup {"barrier"}
        /\ \A c \in Calls : Queued(c) => pc[c] \in {"waiting", "scanning", "dropped"}
<1>1. \A k \in DOMAIN queue : queue[k] \in Command
  BY DEF QueueOK
<1>2. ASSUME NEW k \in DOMAIN queue
      PROVE /\ queue[k].op = "shutdown" \/ queue[k].call \in Calls
            /\ queue[k].op # "shutdown" => queue[k].op \in Kinds \cup {"barrier"}
            /\ queue[k].op = "shutdown" => queue[k].call = NoCall
  BY <1>1 DEF Command, Kinds
<1>3. ASSUME NEW c \in Calls, Queued(c)
      PROVE pc[c] \in {"waiting", "scanning", "dropped"}
  <2>1. PICK k \in DOMAIN queue : queue[k].call = c
    BY <1>3 DEF Queued
  <2>2. queue[k].op \in Kinds \cup {"barrier"}
    BY <1>2, <2>1, CallAssumption
  <2>3. Expects(queue[k])
    BY DEF QueueOK
  <2> QED BY <2>1, <2>2, <2>3 DEF Expects
<1> QED BY <1>1, <1>2, <1>3

LEMMA ExpectsStill ==
  ASSUME NEW q, Expects(q), Bears(q.call) PROVE NowExpects(q)
BY DEF Expects, NowExpects, Bears

LEMMA QueueNow ==
  ASSUME queue' \in Seq(Command), \A k \in DOMAIN queue' : NowExpects(queue'[k]),
         \A j, k \in DOMAIN queue' : queue'[j].call = queue'[k].call => j = k
  PROVE QueueOK'
BY DEF QueueOK, Expects, NowExpects

LEMMA QueueSame ==
  ASSUME QueueOK, queue' = queue, \A c \in Calls : Queued(c) => Bears(c)
  PROVE QueueOK' /\ \A c : Queued(c)' <=> Queued(c)
<1>1. ASSUME NEW k \in DOMAIN queue PROVE NowExpects(queue[k])
  <2>1. CASE queue[k].op = "shutdown"
    BY <2>1 DEF NowExpects, Kinds
  <2>2. CASE queue[k].call \in Calls
    BY <2>2, ExpectsStill DEF Queued, QueueOK
  <2> QED BY <2>1, <2>2, QueuedTyped
<1>2. QueueOK'
  BY <1>1, QueueNow DEF QueueOK
<1> QED BY <1>2 DEF Queued

LEMMA QueueTail ==
  ASSUME QueueOK, queue # <<>>, queue' = Tail(queue), NEW x, x = queue[1],
         \A c \in Calls : c # x.call => Bears(c)
  PROVE /\ QueueOK' /\ ~Queued(x.call)'
        /\ \A c : Queued(c)' => Queued(c)
        /\ \A k \in DOMAIN queue' : \E j \in DOMAIN queue : queue'[k] = queue[j]
        /\ x \in Command /\ Expects(x) /\ Queued(x.call)
<1>1. /\ queue' \in Seq(Command) /\ 1 \in DOMAIN queue
      /\ \A k \in DOMAIN queue' : k + 1 \in DOMAIN queue /\ k + 1 # 1 /\ queue'[k] = queue[k + 1]
  BY DEF QueueOK
<1>2. ASSUME NEW k \in DOMAIN queue'
      PROVE NowExpects(queue'[k]) /\ queue'[k].call # x.call
  <2>1. queue'[k] = queue[k + 1] /\ k + 1 \in DOMAIN queue /\ queue[k + 1].call # x.call
    BY <1>1 DEF QueueOK
  <2>2. Expects(queue[k + 1])
    BY <2>1 DEF QueueOK
  <2>3. CASE queue[k + 1].op = "shutdown"
    BY <2>1, <2>3 DEF NowExpects, Kinds
  <2>4. CASE queue[k + 1].call \in Calls
    BY <2>1, <2>2, <2>4, ExpectsStill
  <2> QED BY <2>1, <2>3, <2>4, QueuedTyped
<1>3. \A j, k \in DOMAIN queue' : queue'[j].call = queue'[k].call => j = k
  <2> SUFFICES ASSUME NEW j \in DOMAIN queue', NEW k \in DOMAIN queue',
                      queue'[j].call = queue'[k].call
               PROVE j = k
    OBVIOUS
  <2>1. j + 1 = k + 1
    BY <1>1 DEF QueueOK
  <2>2. j \in Nat /\ k \in Nat
    BY <1>1
  <2> QED BY <2>1, <2>2
<1>4. QueueOK'
  BY <1>1, <1>2, <1>3, QueueNow
<1>5. ~Queued(x.call)' /\ \A c : Queued(c)' => Queued(c)
  BY <1>1, <1>2 DEF Queued
<1> QED BY <1>1, <1>4, <1>5 DEF Queued, QueueOK

LEMMA QueueAppend ==
  ASSUME QueueOK, NEW x \in Command, ~Queued(x.call), queue' = Append(queue, x),
         \A c \in Calls : Queued(c) => Bears(c), NowExpects(x)
  PROVE QueueOK' /\ \A c : Queued(c)' <=> (Queued(c) \/ c = x.call)
<1>1. /\ queue' \in Seq(Command) /\ Len(queue) \in Nat /\ DOMAIN queue = 1..Len(queue)
      /\ DOMAIN queue' = 1..(Len(queue) + 1)
      /\ \A k \in DOMAIN queue : queue'[k] = queue[k]
      /\ queue'[Len(queue) + 1] = x
  BY DEF QueueOK
<1>2. ASSUME NEW k \in DOMAIN queue PROVE NowExpects(queue[k])
  <2>1. CASE queue[k].op = "shutdown"
    BY <2>1 DEF NowExpects, Kinds
  <2>2. CASE queue[k].call \in Calls
    BY <2>2, ExpectsStill DEF Queued, QueueOK
  <2> QED BY <2>1, <2>2, QueuedTyped
<1>3. \A k \in DOMAIN queue' : k \in DOMAIN queue \/ k = Len(queue) + 1
  <2> DEFINE n == Len(queue)
  <2>1. n \in Nat /\ DOMAIN queue = 1..n /\ DOMAIN queue' = 1..(n + 1)
    BY <1>1
  <2> HIDE DEF n
  <2>2. \A k \in 1..(n + 1) : k \in 1..n \/ k = n + 1
    BY <2>1
  <2> QED BY <2>1, <2>2 DEF n
<1>4. \A k \in DOMAIN queue' : NowExpects(queue'[k])
  BY <1>1, <1>2, <1>3
<1>5. \A j, k \in DOMAIN queue' : queue'[j].call = queue'[k].call => j = k
  BY <1>1, <1>3 DEF QueueOK, Queued
<1>6. QueueOK'
  BY <1>1, <1>4, <1>5, QueueNow
<1>7. Len(queue) + 1 \in DOMAIN queue' /\ \A k \in DOMAIN queue : k \in DOMAIN queue'
  BY <1>1
<1> QED BY <1>1, <1>3, <1>6, <1>7 DEF Queued

LEMMA QueueClear ==
  ASSUME queue' = <<>> PROVE QueueOK' /\ \A c : ~Queued(c)'
BY DEF QueueOK, Queued

(* An answer ends the calls it is for, unless their requests are gone. *)
LEMMA Answering ==
  ASSUME CallsOK, NEW cs, NEW v, Answer(cs, v),
         \A c \in cs : v[c] \in {"ok", "conflict", "uncertain", "failed", "absent"}
  PROVE /\ CallsOK'
        /\ \A c \in Calls : c \notin cs \/ pc[c] = "dropped"
              => pc'[c] = pc[c] /\ reply'[c] = reply[c]
        /\ \A c \in Calls : c \in cs /\ pc[c] # "dropped"
              => pc'[c] \in {"answered", "done"} /\ reply'[c] = v[c]
        /\ \A c \in Calls : pc'[c] = "answered" /\ pc[c] # "answered"
              => c \in cs /\ v[c] = "ok" /\ Kind[c] = "append" /\ pc[c] = "waiting"
BY DEF Answer, CallsOK

LEMMA AnsweringOne ==
  ASSUME CallsOK, NEW c \in Calls, NEW v \in {"ok", "conflict", "uncertain", "failed", "absent"},
         AnswerOne(c, v)
  PROVE /\ CallsOK'
        /\ \A d \in Calls : d # c \/ pc[d] = "dropped" => pc'[d] = pc[d] /\ reply'[d] = reply[d]
        /\ pc[c] # "dropped" => pc'[c] \in {"answered", "done"} /\ reply'[c] = v
        /\ \A d \in Calls : pc'[d] = "answered" /\ pc[d] # "answered"
              => d = c /\ v = "ok" /\ Kind[c] = "append" /\ pc[c] = "waiting"
BY Answering DEF AnswerOne

LEMMA HandSame ==
  ASSUME HandOK, cmd' = cmd,
         \A c \in Calls : InHand(c) => ~Queued(c)' /\ Bears(c)
  PROVE HandOK' /\ \A c : InHand(c)' <=> InHand(c)
BY DEF HandOK, InHand, Cur, Bears

(* A transaction goes on. *)
LEMMA HandNext ==
  ASSUME HandOK, cmd.op \notin {"idle", "batch"}, NEW o \in Ops \ {"idle", "batch"},
         cmd'.op = o, cmd'.calls = cmd.calls, cmd'.i \in Int,
         cmd' = [op |-> cmd'.op, calls |-> cmd'.calls, i |-> cmd'.i, old |-> cmd'.old,
                 bad |-> cmd'.bad],
         \A c \in Calls : InHand(c) => ~Queued(c)' /\ Bears(c)
  PROVE HandOK' /\ Cur' = Cur
BY DEF HandOK, InHand, Cur, Bears

LEMMA HandEmpty ==
  ASSUME cmd' = Idle PROVE HandOK' /\ \A c : ~InHand(c)'
BY DEF HandOK, InHand, Idle, Ops

(* A transaction is taken from the queue. *)
LEMMA HandTakes ==
  ASSUME NEW c \in Calls, Kind[c] \in {"single", "multi"}, ~Queued(c)',
         pc'[c] \in {"waiting", "dropped"},
         cmd' = [op |-> "stage", calls |-> <<c>>, i |-> 1, old |-> <<>>, bad |-> {}]
  PROVE HandOK' /\ Cur' = c /\ (cmd.op # "idle")'
BY DEF HandOK, InHand, Cur, Ops, BeforeAppend

(***************************************************************************)
(* What a step has to leave alone to keep each part of the invariant.      *)
(***************************************************************************)
ToDo(c) == Kind[c] = "single" /\ (pc[c] \in Early \/ Queued(c) \/ ToAppend(c))

LEMMA FreshKept ==
  ASSUME Fresh, NoNewSingle, \A c \in Calls : ToDo(c)' => ToDo(c)
  PROVE Fresh'
BY DEF Fresh, NoNewSingle, ToDo, Early

LEMMA AppliedKept ==
  ASSUME AppliedOnce, NoNewSingle
  PROVE AppliedOnce'
BY DEF AppliedOnce, NoNewSingle, IsSingle, ReqAt

LEMMA LoadFirstKept ==
  ASSUME LoadFirst, loaded' = loaded, loader' \in {loader, NoCall},
         loaded \/ cmd'.op \in {cmd.op, "idle"},
         loaded \/ \A k \in DOMAIN queue' :
                      \/ queue'[k].op \in {"append", "barrier", "shutdown"}
                      \/ \E j \in DOMAIN queue : queue'[k] = queue[j]
  PROVE LoadFirst'
BY DEF LoadFirst

LEMMA FoundAllKept ==
  ASSUME FoundAll, NoNewSingle,
         \A c \in Calls : pc'[c] = "scanned"
            => pc[c] = "scanned" /\ (c = loader => loader' = loader /\ found' = found)
  PROVE FoundAll'
BY DEF FoundAll, NoNewSingle, IsSingle

LEMMA CacheCompleteKept ==
  ASSUME CacheComplete, NoNewSingle, loaded' = loaded,
         \A r \in Requests : cache[r] # Missing => cache'[r] # Missing,
         cmd.op \in AfterAppend /\ Kind[Cur] = "single" =>
            \/ cmd'.op \in AfterAppend /\ Cur' = Cur
            \/ cache'[ReqOf[Cur]] # Missing,
         BooksOK, BooksOK'
  PROVE CacheComplete'
<1>1. ASSUME loaded, NEW k \in DOMAIN ledger'[ino'].log, IsSingle(ino, k)'
      PROVE \/ cache'[ReqOf[ledger'[ino'].log[k].call]] # Missing
            \/ cmd'.op \in AfterAppend /\ Cur' = ledger'[ino'].log[k].call
  <2>1. /\ k \in DOMAIN ledger[ino].log /\ ledger'[ino'].log[k] = ledger[ino].log[k]
        /\ IsSingle(ino, k)
    BY <1>1 DEF NoNewSingle, IsSingle
  <2>2. ledger[ino].log[k].call \in Calls
    BY <2>1, LogTyped
  <2>3. /\ Kind[ledger[ino].log[k].call] = "single"
        /\ \/ cache[ReqOf[ledger[ino].log[k].call]] # Missing
           \/ cmd.op \in AfterAppend /\ Cur = ledger[ino].log[k].call
    BY <1>1, <2>1 DEF CacheComplete, ReqAt, IsSingle
  <2>4. ReqOf[ledger[ino].log[k].call] \in Requests
    BY <2>2, CallAssumption
  <2> QED BY <2>1, <2>3, <2>4
<1> QED BY <1>1 DEF CacheComplete, ReqAt

LEMMA NextIsNewKept ==
  ASSUME NextIsNew, NoNewSingle,
         cmd'.op \in BeforeAppend => cmd.op \in BeforeAppend /\ Cur' = Cur
  PROVE NextIsNew'
BY DEF NextIsNew, NoNewSingle, IsSingle, ReqAt

LEMMA CachesKept ==
  ASSUME CachesDurable, BooksOK, BooksOK', SyncedKept,
         \A r \in Requests : cache'[r] \in {cache[r], Missing} /\ multi'[r] \in {multi[r], Missing}
  PROVE CachesDurable'
<1>1. ASSUME NEW r \in Requests
      PROVE /\ cache'[r] # Missing =>
                  /\ ReqOf[cache'[r].tx] = r
                  /\ cache'[r].dur = "durable" => DurableCall(cache[r].tx)'
            /\ multi'[r] # Missing =>
                  /\ ReqOf[multi'[r].tx] = r
                  /\ multi'[r].dur = "durable" => DurableCall(multi[r].tx)'
  <2> DEFINE x == cache[r].tx
             y == multi[r].tx
  <2>1. PICK a : a = cache'[r].tx
    OBVIOUS
  <2>2. PICK b : b = multi'[r].tx
    OBVIOUS
  <2>3. cache'[r] # Missing =>
           /\ ReqOf[a] = r
           /\ cache'[r].dur = "durable" => DurableCall(a)
    BY <2>1 DEF CachesDurable
  <2>4. multi'[r] # Missing =>
           /\ ReqOf[b] = r
           /\ multi'[r].dur = "durable" => DurableCall(b)
    BY <2>2 DEF CachesDurable
  <2>5. DurableCall(a) => DurableCall(a)'
    BY DurableStays
  <2>6. DurableCall(b) => DurableCall(b)'
    BY DurableStays
  <2> QED BY <2>1, <2>2, <2>3, <2>4, <2>5, <2>6
<1> QED BY <1>1 DEF CachesDurable

LEMMA FoundKept ==
  ASSUME FoundDurable, BooksOK, BooksOK', SyncedKept, found' \subseteq found
  PROVE FoundDurable'
BY DurableStays DEF FoundDurable

LEMMA HandIdle ==
  ASSUME cmd'.op \notin {"sync", "durable", "batch"}
  PROVE HandDurable'
BY DEF HandDurable

LEMMA HandDurableSame ==
  ASSUME HandDurable, HandOK, BooksOK, BooksOK', SyncedKept, cmd' = cmd, handle' = handle,
         handle # 0 => ledger'[handle].log = ledger[handle].log
  PROVE HandDurable'
<1>1. \A c : InHandle(c) => InHandle(c)'
  BY DEF InHandle
<1>2. \A c : DurableCall(c) => DurableCall(c)'
  BY DurableStays
<1>3. cmd'.op = "sync" => InHandle(Cur)'
  <2> DEFINE x == Cur
  <2>1. PICK c : c = Cur
    OBVIOUS
  <2>2. Cur' = c
    BY <2>1 DEF Cur
  <2>3. cmd.op = "sync" => InHandle(c)'
    BY <1>1, <2>1 DEF HandDurable
  <2> QED BY <2>2, <2>3
<1>4. cmd'.op = "durable" => DurableCall(Cur)'
  <2>1. PICK c : c = Cur
    OBVIOUS
  <2>2. Cur' = c
    BY <2>1 DEF Cur
  <2>3. cmd.op = "durable" => DurableCall(c)'
    BY <1>2, <2>1 DEF HandDurable
  <2> QED BY <2>2, <2>3
<1>5. ASSUME cmd'.op = "batch", NEW k \in DOMAIN cmd'.calls, k < cmd'.i,
             cmd'.calls[k] \notin cmd'.bad
      PROVE InHandle(cmd.calls[k])'
  <2>1. PICK c : c = cmd.calls[k]
    OBVIOUS
  <2>2. InHandle(c)' /\ c = cmd'.calls[k]
    BY <1>1, <1>5, <2>1 DEF HandDurable
  <2> QED BY <2>2
<1> QED BY <1>3, <1>4, <1>5 DEF HandDurable

LEMMA RepliesKept ==
  ASSUME RepliesDurable, BooksOK, BooksOK', SyncedKept,
         \A c \in Calls : pc'[c] = "answered" => pc[c] = "answered" \/ DurableCall(c)',
         \A c \in Calls : reply'[c] = "ok" =>
            reply[c] = "ok" \/ \E d \in Calls : ReqOf[d] = ReqOf[c] /\ DurableCall(d)'
  PROVE RepliesDurable'
BY DurableStays DEF RepliesDurable

(***************************************************************************)
(* The steps of the calls.                                                 *)
(***************************************************************************)
LEMMA CacheStep ==
  ASSUME WriterInv, UNCHANGED <<cmd, ledger, ino, handle>>,
         CallsOK', QueueOK', CacheTypes', LoadFirst', LoaderBusy', FoundAll', CacheComplete',
         CachesDurable',
         found' \subseteq found,
         \A c \in Calls : InHand(c) => ~Queued(c)' /\ Bears(c),
         \A c \in Calls : ToDo(c)' => ToDo(c),
         \A c \in Calls : pc'[c] = "answered" => pc[c] = "answered",
         \A c \in Calls : reply'[c] = "ok" =>
            reply[c] = "ok" \/ \E d \in Calls : ReqOf[d] = ReqOf[c] /\ DurableCall(d)
  PROVE WriterInv'
<1>1. BooksOK' /\ SyncedKept /\ NoNewSingle
  <2>1. BooksOK /\ handle' \in 0..ino
    BY DEF WriterInv, BooksOK
  <2> QED BY <2>1, UnchangedBooks
<1>2. HandOK'
  BY HandSame DEF WriterInv, CommandsOK
<1>3. Fresh'
  BY <1>1, FreshKept DEF WriterInv
<1>4. NextIsNew'
  <2>1. Cur' = Cur /\ cmd'.op = cmd.op
    BY DEF Cur
  <2> QED BY <1>1, <2>1, NextIsNewKept DEF WriterInv, HistoryKnown
<1>5. FoundDurable'
  BY <1>1, FoundKept DEF WriterInv, DurableKnown
<1>6. HandDurable'
  BY <1>1, HandDurableSame DEF WriterInv, DurableKnown, CommandsOK
<1>7. RepliesDurable'
  <2>1. \A d : DurableCall(d) => DurableCall(d)'
    BY <1>1, DurableStays DEF WriterInv
  <2> QED BY <1>1, <2>1, RepliesKept DEF WriterInv, DurableKnown
<1>8. AppliedOnce'
  BY <1>1, AppliedKept DEF WriterInv
<1> QED BY <1>1, <1>2, <1>3, <1>4, <1>5, <1>6, <1>7, <1>8
        DEF WriterInv, CommandsOK, HistoryKnown, DurableKnown

LEMMA CallStep ==
  ASSUME WriterInv, UNCHANGED <<cmd, cache, multi, loaded, ledger, ino, handle>>,
         CallsOK', QueueOK', LoadFirst', LoaderBusy', FoundAll',
         loader' \in Calls \cup {NoCall}, found' \subseteq found,
         \A c \in Calls : InHand(c) => ~Queued(c)' /\ Bears(c),
         \A c \in Calls : ToDo(c)' => ToDo(c),
         \A c \in Calls : pc'[c] = "answered" => pc[c] = "answered",
         \A c \in Calls : reply'[c] = "ok" =>
            reply[c] = "ok" \/ \E d \in Calls : ReqOf[d] = ReqOf[c] /\ DurableCall(d)
  PROVE WriterInv'
<1>1. BooksOK' /\ SyncedKept /\ NoNewSingle
  <2>1. BooksOK /\ handle' \in 0..ino
    BY DEF WriterInv, BooksOK
  <2> QED BY <2>1, UnchangedBooks
<1>2. CacheTypes'
  BY DEF WriterInv, CacheTypes
<1>3. CacheComplete'
  <2>1. Cur' = Cur /\ cmd'.op = cmd.op
    BY DEF Cur
  <2> QED BY <1>1, <2>1, CacheCompleteKept DEF WriterInv, HistoryKnown
<1>4. CachesDurable'
  BY <1>1, CachesKept DEF WriterInv, DurableKnown
<1> QED BY <1>2, <1>3, <1>4, CacheStep

(* What a call that is new is not: in the queue, or in the writer's hands. *)
LEMMA NotBusy ==
  ASSUME WriterInv
  PROVE \A c \in Calls :
           /\ pc[c] \in {"new", "scanned", "answered", "done"} => ~Queued(c)
           /\ Queued(c) => pc[c] \in {"waiting", "scanning", "dropped"}
           /\ InHand(c) => pc[c] \in {"waiting", "dropped"} /\ ~Queued(c)
           /\ cmd.op \in BeforeAppend /\ Cur = c => InHand(c)
<1>1. \A c \in Calls : Queued(c) => pc[c] \in {"waiting", "scanning", "dropped"}
  BY QueuedTyped DEF WriterInv, CommandsOK
<1>2. \A c \in Calls : InHand(c) => pc[c] \in {"waiting", "dropped"} /\ ~Queued(c)
  BY DEF WriterInv, CommandsOK, HandOK
<1>3. ASSUME cmd.op \in BeforeAppend PROVE InHand(Cur)
  <2>1. cmd.op \notin {"idle", "batch"}
    BY <1>3 DEF BeforeAppend
  <2>2. Len(cmd.calls) = 1 /\ cmd.calls \in Seq(Calls)
    BY <2>1 DEF WriterInv, CommandsOK, HandOK
  <2>3. 1 \in DOMAIN cmd.calls
    BY <2>2
  <2> QED BY <2>1, <2>3 DEF InHand, Cur
<1> QED BY <1>1, <1>2, <1>3

(* A call that has no command is answered. *)
LEMMA AnswerNew ==
  ASSUME WriterInv, NEW c \in Calls, pc[c] \in {"new", "scanned"},
         NEW v \in {"ok", "conflict", "uncertain", "failed", "absent"}, AnswerOne(c, v),
         UNCHANGED <<queue, cmd>>
  PROVE /\ CallsOK' /\ QueueOK'
        /\ \A d \in Calls : InHand(d) => ~Queued(d)' /\ Bears(d)
        /\ \A d \in Calls : ToDo(d)' => ToDo(d)
        /\ \A d \in Calls : d # c => pc'[d] = pc[d]
        /\ pc'[c] = "done"
        /\ \A d \in Calls : reply'[d] = reply[d] \/ (d = c /\ reply'[d] = v)
        /\ \A d \in Calls : pc'[d] = "answered" => pc[d] = "answered"
        /\ \A d : Queued(d)' <=> Queued(d)
<1>1. /\ CallsOK'
      /\ \A d \in Calls : d # c => pc'[d] = pc[d] /\ reply'[d] = reply[d]
      /\ pc'[c] \in {"answered", "done"} /\ reply'[c] = v
      /\ \A d \in Calls : pc'[d] = "answered" /\ pc[d] # "answered" => pc[c] = "waiting"
  BY AnsweringOne DEF WriterInv, CommandsOK
<1>2. pc'[c] = "done"
  BY <1>1
<1>3. \A d \in Calls : Queued(d) \/ InHand(d) => d # c /\ Bears(d)
  BY <1>1, NotBusy DEF Bears
<1>4. QueueOK' /\ \A d : Queued(d)' <=> Queued(d)
  BY <1>3, QueueSame DEF WriterInv, CommandsOK
<1>5. \A d \in Calls : InHand(d) => ~Queued(d)'
  BY <1>4, NotBusy
<1>6. ASSUME NEW d \in Calls, ToDo(d)' PROVE ToDo(d)
  <2>1. ToAppend(d)' => ToAppend(d)
    BY DEF ToAppend, Cur
  <2> QED BY <1>1, <1>2, <1>4, <1>6, <2>1 DEF ToDo, Early
<1>7. \A d \in Calls : reply'[d] = reply[d] \/ (d = c /\ reply'[d] = v)
  BY <1>1
<1>8. \A d \in Calls : pc'[d] = "answered" => pc[d] = "answered"
  BY <1>1
<1> QED BY <1>1, <1>2, <1>3, <1>4, <1>5, <1>6, <1>7, <1>8

LEMMA RefuseStep ==
  ASSUME WriterInv, NEW c \in Calls, Refuse(c) \/ WriterGone(c)
  PROVE WriterInv'
<1>1. /\ pc[c] = "new" /\ AnswerOne(c, "failed")
      /\ UNCHANGED <<queue, cmd, cache, multi, loaded, loader, found, ledger, ino, handle>>
  BY DEF Refuse, WriterGone
<1>2. LoadFirst'
  BY <1>1 DEF WriterInv, HistoryKnown, LoadFirst
<1>3. BooksOK' /\ SyncedKept /\ NoNewSingle
  <2>1. BooksOK /\ handle' \in 0..ino
    BY <1>1 DEF WriterInv, BooksOK
  <2> QED BY <1>1, <2>1, UnchangedBooks
<1>4. FoundAll'
  <2>1. \A d \in Calls : pc'[d] = "scanned" => pc[d] = "scanned"
    BY <1>1, AnswerNew
  <2> QED BY <1>1, <1>3, <2>1, FoundAllKept DEF WriterInv, HistoryKnown
<1>5. loader' \in Calls \cup {NoCall} /\ found' \subseteq found
  BY <1>1 DEF WriterInv, CacheTypes
<1>6. LoaderBusy'
  <2>1. \A d \in Calls : pc[d] \in {"scanning", "scanned"} => pc'[d] = pc[d]
    BY <1>1, AnswerNew
  <2> QED BY <1>1, <2>1 DEF WriterInv, HistoryKnown, LoaderBusy, CacheTypes
<1> QED BY <1>1, <1>2, <1>4, <1>5, <1>6, AnswerNew, CallStep

LEMMA StartRecoveryStep ==
  ASSUME WriterInv, NEW c \in Calls, StartRecovery(c)
  PROVE WriterInv'
<1>1. /\ pc[c] = "new" /\ loaded = FALSE /\ loader = NoCall /\ loader' = c
      /\ pc' = [pc EXCEPT ![c] = "scanning"]
      /\ queue' = Append(queue, [op |-> "barrier", call |-> c])
      /\ UNCHANGED <<reply, cmd, cache, multi, loaded, found, ledger, ino, handle>>
  BY DEF StartRecovery, Enqueue, WriterInv, CacheTypes
<1> DEFINE x == [op |-> "barrier", call |-> c]
<1>2. x \in Command /\ x.op = "barrier" /\ x.call = c
  BY DEF Command
<1>3. /\ CallsOK' /\ pc'[c] = "scanning" /\ \A d \in Calls : d # c => pc'[d] = pc[d]
  BY <1>1 DEF WriterInv, CommandsOK, CallsOK
<1>4. NowExpects(x)
  BY <1>2, <1>3 DEF NowExpects, Kinds
<1> HIDE DEF x
<1>5. ~Queued(c) /\ ~InHand(c) /\ \A d \in Calls : Queued(d) \/ InHand(d) => Bears(d)
  BY <1>1, <1>3, NotBusy DEF Bears
<1>6. QueueOK' /\ \A d : Queued(d)' <=> (Queued(d) \/ d = c)
  <2>1. QueueOK /\ queue' = Append(queue, x)
    BY <1>1 DEF WriterInv, CommandsOK, x
  <2> QED BY <2>1, <1>2, <1>4, <1>5, QueueAppend
<1>7. LoadFirst'
  <2>1. \A k \in DOMAIN queue' : (k \in DOMAIN queue /\ queue'[k] = queue[k]) \/ queue'[k] = x
    <3>1. queue \in Seq(Command) /\ queue' = Append(queue, x)
      BY <1>1 DEF WriterInv, CommandsOK, QueueOK, x
    <3> QED BY <3>1, <1>2
  <2> QED BY <1>1, <1>2, <2>1 DEF WriterInv, HistoryKnown, LoadFirst
<1>8. FoundAll'
  <2>1. \A d \in Calls : pc[d] # "scanned"
    BY <1>1, CallAssumption DEF WriterInv, HistoryKnown, FoundAll
  <2> QED BY <1>3, <2>1 DEF FoundAll
<1>9. \A d \in Calls : InHand(d) => ~Queued(d)' /\ Bears(d)
  BY <1>5, <1>6, NotBusy
<1>10. ASSUME NEW d \in Calls, ToDo(d)' PROVE ToDo(d)
  <2>1. ToAppend(d)' => ToAppend(d)
    BY <1>1 DEF ToAppend, Cur
  <2> QED BY <1>1, <1>3, <1>6, <1>10, <2>1 DEF ToDo, Early
<1>11. \A d \in Calls : /\ pc'[d] = "answered" => pc[d] = "answered"
                        /\ reply'[d] = reply[d]
  BY <1>1, <1>3
<1>12. LoaderBusy'
  BY <1>1, <1>3 DEF LoaderBusy
<1> QED BY <1>1, <1>3, <1>6, <1>7, <1>8, <1>9, <1>10, <1>11, <1>12, CallStep

(* What a look-up says is in the cache. *)
LEMMA LookupOk ==
  ASSUME CacheTypes, CachesDurable, NEW c \in Calls, Lookup(c) = "ok"
  PROVE \E d \in Calls : ReqOf[d] = ReqOf[c] /\ DurableCall(d)
<1> DEFINE m == IF Kind[c] = "multi" THEN multi[ReqOf[c]] ELSE cache[ReqOf[c]]
<1>1. ReqOf[c] \in Requests
  BY CallAssumption
<1>2. m \in Cached \cup {Missing} /\ m # Missing /\ m.dur # "uncertain"
  BY <1>1 DEF CacheTypes, Lookup, LookupAppend, LookupMulti, LookupSingle
<1>3. m.tx \in Calls /\ m.dur = "durable"
  BY <1>2 DEF Cached
<1>4. ReqOf[m.tx] = ReqOf[c] /\ DurableCall(m.tx)
  BY <1>1, <1>2, <1>3 DEF CachesDurable
<1> QED BY <1>3, <1>4

LEMMA LookupTyped ==
  ASSUME NEW c \in Calls
  PROVE /\ Lookup(c) \in {"miss", "conflict", "pending", "ok"}
        /\ Kind[c] # "multi" /\ cache[ReqOf[c]] = Missing <=> Kind[c] # "multi" /\ Lookup(c) = "miss"
BY DEF Lookup, LookupAppend, LookupMulti, LookupSingle

LEMMA AdmitStep ==
  ASSUME WriterInv, NEW c \in Calls, Admit(c)
  PROVE WriterInv'
<1>1. /\ pc[c] = "new" /\ (Semantic(c) => loaded)
      /\ UNCHANGED <<cmd, cache, multi, loaded, loader, found, ledger, ino, handle>>
  BY DEF Admit
<1>2. BooksOK' /\ SyncedKept /\ NoNewSingle
  <2>1. BooksOK /\ handle' \in 0..ino
    BY <1>1 DEF WriterInv, BooksOK
  <2> QED BY <1>1, <2>1, UnchangedBooks
<1>3. loader' \in Calls \cup {NoCall} /\ found' \subseteq found
  BY <1>1 DEF WriterInv, CacheTypes
<1>4. ASSUME UNCHANGED queue, NEW v \in {"ok", "conflict", "absent"}, AnswerOne(c, v),
             v = "ok" => Lookup(c) = "ok"
      PROVE WriterInv'
  <2>1. LoadFirst'
    BY <1>1, <1>4 DEF WriterInv, HistoryKnown, LoadFirst
  <2>2. FoundAll'
    <3>1. \A d \in Calls : pc'[d] = "scanned" => pc[d] = "scanned"
      BY <1>1, <1>4, AnswerNew
    <3> QED BY <1>1, <1>2, <3>1, FoundAllKept DEF WriterInv, HistoryKnown
  <2>3. v = "ok" => \E d \in Calls : ReqOf[d] = ReqOf[c] /\ DurableCall(d)
    BY <1>4, LookupOk DEF WriterInv, DurableKnown
  <2>4. /\ CallsOK' /\ QueueOK'
        /\ \A d \in Calls : InHand(d) => ~Queued(d)' /\ Bears(d)
        /\ \A d \in Calls : ToDo(d)' => ToDo(d)
        /\ \A d \in Calls : reply'[d] = reply[d] \/ (d = c /\ reply'[d] = v)
        /\ \A d \in Calls : pc'[d] = "answered" => pc[d] = "answered"
    BY <1>1, <1>4, AnswerNew
  <2>5. LoaderBusy'
    <3>1. \A d \in Calls : pc[d] \in {"scanning", "scanned"} => pc'[d] = pc[d]
      BY <1>1, <1>4, AnswerNew
    <3> QED BY <1>1, <3>1 DEF WriterInv, HistoryKnown, LoaderBusy, CacheTypes
  <2> QED BY <1>1, <1>3, <2>1, <2>2, <2>3, <2>4, <2>5, CallStep
<1>5. ASSUME pc' = [pc EXCEPT ![c] = "waiting"], Enqueue(c, Kind[c]), UNCHANGED reply
      PROVE WriterInv'
  <2> DEFINE x == [op |-> Kind[c], call |-> c]
  <2>1. /\ x \in Command /\ x.op = Kind[c] /\ x.call = c /\ Kind[c] \in Kinds
        /\ queue' = Append(queue, x)
    BY <1>5, CallAssumption DEF Command, Enqueue
  <2>2. CallsOK' /\ pc'[c] = "waiting" /\ \A d \in Calls : d # c => pc'[d] = pc[d]
    BY <1>1, <1>5 DEF WriterInv, CommandsOK, CallsOK
  <2>3. NowExpects(x)
    BY <2>1, <2>2 DEF NowExpects, Kinds
  <2> HIDE DEF x
  <2>4. ~Queued(c) /\ ~InHand(c) /\ \A d \in Calls : Queued(d) \/ InHand(d) => Bears(d)
    BY <1>1, <2>2, NotBusy DEF Bears
  <2>5. QueueOK' /\ \A d : Queued(d)' <=> (Queued(d) \/ d = c)
    <3>1. QueueOK
      BY DEF WriterInv, CommandsOK
    <3> QED BY <2>1, <2>3, <2>4, <3>1, QueueAppend
  <2>6. LoadFirst'
    <3>1. \A k \in DOMAIN queue' : (k \in DOMAIN queue /\ queue'[k] = queue[k]) \/ queue'[k] = x
      <4>1. queue \in Seq(Command)
        BY DEF WriterInv, CommandsOK, QueueOK
      <4> QED BY <4>1, <2>1
    <3>2. loaded \/ x.op = "append"
      BY <1>1, <2>1 DEF Semantic
    <3> QED BY <1>1, <3>1, <3>2 DEF WriterInv, HistoryKnown, LoadFirst
  <2>7. FoundAll'
    <3>1. \A d \in Calls : pc'[d] = "scanned" => pc[d] = "scanned"
      BY <2>2
    <3> QED BY <1>1, <1>2, <3>1, FoundAllKept DEF WriterInv, HistoryKnown
  <2>8. \A d \in Calls : InHand(d) => ~Queued(d)' /\ Bears(d)
    BY <2>4, <2>5, NotBusy
  <2>9. ASSUME NEW d \in Calls, ToDo(d)' PROVE ToDo(d)
    <3>1. ToAppend(d)' => ToAppend(d)
      BY <1>1 DEF ToAppend, Cur
    <3>2. CASE d = c
      BY <1>1, <2>9, <3>2 DEF ToDo, Early
    <3>3. CASE d # c
      BY <2>2, <2>5, <2>9, <3>1, <3>3 DEF ToDo, Early
    <3> QED BY <3>2, <3>3
  <2>10. \A d \in Calls : /\ pc'[d] = "answered" => pc[d] = "answered"
                          /\ reply'[d] = reply[d]
    BY <1>5, <2>2
  <2>11. LoaderBusy'
    <3>1. \A d \in Calls : pc[d] \in {"scanning", "scanned"} => pc'[d] = pc[d]
      BY <1>1, <2>2
    <3> QED BY <1>1, <3>1 DEF WriterInv, HistoryKnown, LoaderBusy, CacheTypes
  <2> QED BY <1>1, <1>3, <2>2, <2>5, <2>6, <2>7, <2>8, <2>9, <2>10, <2>11, CallStep
<1> QED BY <1>4, <1>5 DEF Admit

LEMMA MergeHistoryStep ==
  ASSUME WriterInv, NEW c \in Calls, MergeHistory(c)
  PROVE WriterInv'
<1>1. /\ pc[c] = "scanned" /\ loader' = NoCall /\ found' = {}
      /\ UNCHANGED <<queue, cmd, multi, ledger, ino, handle>>
  BY DEF MergeHistory
<1>2. /\ c = loader /\ loaded = FALSE
      /\ \A d \in Calls : pc[d] = "scanned" => d = c
      /\ \A k \in DOMAIN ledger[ino].log : IsSingle(ino, k) => ledger[ino].log[k] \in found
  BY <1>1, CallAssumption
     DEF WriterInv, HistoryKnown, FoundAll, LoadFirst, CacheTypes
<1>3. found' \subseteq found /\ loader' \in Calls \cup {NoCall} /\ found' \subseteq Entry
  BY <1>1
<1>4. CASE AnswerOne(c, "failed") /\ UNCHANGED <<cache, loaded>>
  <2>1. LoadFirst'
    BY <1>1, <1>4 DEF WriterInv, HistoryKnown, LoadFirst
  <2>2. /\ CallsOK' /\ QueueOK'
        /\ \A d \in Calls : InHand(d) => ~Queued(d)' /\ Bears(d)
        /\ \A d \in Calls : ToDo(d)' => ToDo(d)
        /\ \A d \in Calls : d # c => pc'[d] = pc[d]
        /\ pc'[c] = "done"
        /\ \A d \in Calls : reply'[d] = reply[d] \/ (d = c /\ reply'[d] = "failed")
        /\ \A d \in Calls : pc'[d] = "answered" => pc[d] = "answered"
    BY <1>1, <1>4, AnswerNew
  <2>3. FoundAll'
    BY <1>2, <2>2 DEF FoundAll
  <2>4. LoaderBusy'
    BY <1>1 DEF LoaderBusy
  <2> QED BY <1>1, <1>3, <1>4, <2>1, <2>2, <2>3, <2>4, CallStep
<1>5. CASE /\ cache' = [r \in Requests |->
                          IF cache[r] = Missing /\ Recovered(r) # {}
                          THEN ReplayOf(CHOOSE d \in Recovered(r) : TRUE) ELSE cache[r]]
           /\ loaded' = TRUE /\ pc' = [pc EXCEPT ![c] = "new"] /\ UNCHANGED reply
  <2>1. LoadFirst'
    BY <1>1, <1>5 DEF LoadFirst
  <2>2. /\ CallsOK' /\ pc'[c] = "new" /\ \A d \in Calls : d # c => pc'[d] = pc[d]
    BY <1>1, <1>5 DEF WriterInv, CommandsOK, CallsOK
  <2>3. FoundAll'
    BY <1>2, <2>2 DEF FoundAll
  <2>4. \A d \in Calls : Queued(d) \/ InHand(d) => Bears(d)
    BY <1>1, <2>2, NotBusy DEF Bears
  <2>5. QueueOK' /\ \A d : Queued(d)' <=> Queued(d)
    BY <1>1, <2>4, QueueSame DEF WriterInv, CommandsOK
  <2>6. \A d \in Calls : InHand(d) => ~Queued(d)' /\ Bears(d)
    BY <2>4, <2>5, NotBusy
  <2>7. ASSUME NEW d \in Calls, ToDo(d)' PROVE ToDo(d)
    <3>1. ToAppend(d)' => ToAppend(d)
      BY <1>1 DEF ToAppend, Cur
    <3> QED BY <1>1, <2>2, <2>5, <2>7, <3>1 DEF ToDo, Early
  <2>8. \A d \in Calls : /\ pc'[d] = "answered" => pc[d] = "answered"
                         /\ reply'[d] = reply[d]
    BY <1>5, <2>2
  <2>9. \A d \in Calls : /\ ReplayOf(d) \in Cached /\ ReplayOf(d) # Missing
                         /\ ReplayOf(d).tx = d
    BY CallAssumption DEF ReplayOf, Cached, Missing
  <2>10. ASSUME NEW r \in Requests
         PROVE \/ cache'[r] = cache[r]
               \/ \E d \in Recovered(r) : cache'[r] = ReplayOf(d)
    BY <1>5
  <2>11. ASSUME NEW r \in Requests, NEW d \in Recovered(r)
         PROVE /\ d \in Calls /\ ReqOf[d] = r /\ DurableCall(d)
    <3>1. PICK e \in found : ReqOf[e.call] = r /\ e.call = d
      BY DEF Recovered
    <3>2. e \in Entry /\ DurableCall(d)
      BY <3>1 DEF WriterInv, CacheTypes, DurableKnown, FoundDurable
    <3> QED BY <3>1, <3>2 DEF Entry
  <2>12. CacheTypes'
    <3>1. cache' \in [Requests -> Cached \cup {Missing}]
      <4>1. \A r \in Requests : cache[r] \in Cached \cup {Missing}
        BY DEF WriterInv, CacheTypes
      <4>2. \A r \in Requests : cache'[r] \in Cached \cup {Missing}
        BY <2>9, <2>10, <2>11, <4>1
      <4> QED BY <1>5, <4>2
    <3> QED BY <1>1, <1>3, <1>5, <3>1 DEF WriterInv, CacheTypes
  <2>13. BooksOK' /\ SyncedKept
    <3>1. BooksOK /\ handle' \in 0..ino
      BY <1>1 DEF WriterInv, BooksOK
    <3> QED BY <1>1, <3>1, UnchangedBooks
  <2>14. CachesDurable'
    <3>1. \A d : DurableCall(d)' <=> DurableCall(d)
      BY <1>1 DEF DurableCall
    <3> SUFFICES ASSUME NEW r \in Requests
                 PROVE /\ cache'[r] # Missing =>
                             /\ ReqOf[cache'[r].tx] = r
                             /\ cache'[r].dur = "durable" => DurableCall(cache[r].tx)'
                       /\ multi'[r] # Missing =>
                             /\ ReqOf[multi'[r].tx] = r
                             /\ multi'[r].dur = "durable" => DurableCall(multi[r].tx)'
      BY DEF CachesDurable
    <3>2. PICK a : a = cache'[r].tx
      OBVIOUS
    <3>3. PICK b : b = multi'[r].tx
      OBVIOUS
    <3>4. multi'[r] # Missing => ReqOf[b] = r /\ (multi'[r].dur = "durable" => DurableCall(b))
      BY <1>1, <3>3 DEF WriterInv, DurableKnown, CachesDurable
    <3>5. cache'[r] # Missing => ReqOf[a] = r /\ (cache'[r].dur = "durable" => DurableCall(a))
      <4>1. CASE cache'[r] = cache[r]
        BY <3>2, <4>1 DEF WriterInv, DurableKnown, CachesDurable
      <4>2. CASE \E d \in Recovered(r) : cache'[r] = ReplayOf(d)
        BY <2>9, <2>11, <3>2, <4>2
      <4> QED BY <2>10, <4>1, <4>2
    <3> QED BY <3>1, <3>2, <3>3, <3>4, <3>5
  <2>15. CacheComplete'
    <3> SUFFICES ASSUME NEW k \in DOMAIN ledger[ino].log, IsSingle(ino, k)
                 PROVE cache'[ReqAt(ino, k)] # Missing
      BY <1>1 DEF CacheComplete, IsSingle, ReqAt
    <3> DEFINE r == ReqAt(ino, k)
    <3>1. ledger[ino].log[k] \in found /\ ledger[ino].log[k].call \in Calls
      BY <1>2, LogTyped DEF WriterInv
    <3>2. r \in Requests /\ ledger[ino].log[k].call \in Recovered(r)
      BY <3>1, CallAssumption DEF ReqAt, Recovered
    <3> HIDE DEF r
    <3>3. cache'[r] # Missing
      <4>1. CASE cache[r] = Missing
        <5>1. cache'[r] = ReplayOf(CHOOSE d \in Recovered(r) : TRUE)
          BY <1>5, <3>2, <4>1
        <5>2. (CHOOSE d \in Recovered(r) : TRUE) \in Recovered(r)
          BY <3>2
        <5> QED BY <2>9, <2>11, <3>2, <5>1, <5>2
      <4>2. CASE cache[r] # Missing
        BY <1>5, <3>2, <4>2
      <4> QED BY <4>1, <4>2
    <3> QED BY <3>3 DEF r
  <2>16. LoaderBusy'
    BY <1>1 DEF LoaderBusy
  <2> QED BY <1>1, <1>3, <2>1, <2>2, <2>3, <2>5, <2>6, <2>7, <2>8, <2>12, <2>14, <2>15, <2>16,
             CacheStep
<1> QED BY <1>4, <1>5 DEF MergeHistory

LEMMA CacheAppendStep ==
  ASSUME WriterInv, NEW c \in Calls, CacheAppend(c)
  PROVE WriterInv'
<1> DEFINE m == [tx |-> c, ident |-> NoIdent, named |-> FALSE, dur |-> "durable"]
<1>1. /\ pc[c] = "answered" /\ pc' = [pc EXCEPT ![c] = "done"]
      /\ cache' = [cache EXCEPT ![ReqOf[c]] = m]
      /\ UNCHANGED <<reply, queue, cmd, multi, loaded, loader, found, ledger, ino, handle>>
  BY DEF CacheAppend
<1>2. m \in Cached /\ m # Missing /\ m.tx = c /\ ReqOf[c] \in Requests
  BY CallAssumption DEF Cached, Missing
<1> HIDE DEF m
<1>3. \A r \in Requests : cache'[r] = IF r = ReqOf[c] THEN m ELSE cache[r]
  BY <1>1 DEF WriterInv, CacheTypes
<1>4. LoadFirst'
  BY <1>1 DEF WriterInv, HistoryKnown, LoadFirst
<1>5. /\ CallsOK' /\ pc'[c] = "done" /\ \A d \in Calls : d # c => pc'[d] = pc[d]
  BY <1>1 DEF WriterInv, CommandsOK, CallsOK
<1>6. BooksOK' /\ SyncedKept /\ NoNewSingle
  <2>1. BooksOK /\ handle' \in 0..ino
    BY <1>1 DEF WriterInv, BooksOK
  <2> QED BY <1>1, <2>1, UnchangedBooks
<1>7. FoundAll'
  <2>1. \A d \in Calls : pc'[d] = "scanned" => pc[d] = "scanned"
    BY <1>5
  <2> QED BY <1>1, <1>6, <2>1, FoundAllKept DEF WriterInv, HistoryKnown
<1>8. \A d \in Calls : Queued(d) \/ InHand(d) => Bears(d)
  BY <1>1, <1>5, NotBusy DEF Bears
<1>9. QueueOK' /\ \A d : Queued(d)' <=> Queued(d)
  BY <1>1, <1>8, QueueSame DEF WriterInv, CommandsOK
<1>10. \A d \in Calls : InHand(d) => ~Queued(d)' /\ Bears(d)
  BY <1>8, <1>9, NotBusy
<1>11. ASSUME NEW d \in Calls, ToDo(d)' PROVE ToDo(d)
  <2>1. ToAppend(d)' => ToAppend(d)
    BY <1>1 DEF ToAppend, Cur
  <2> QED BY <1>1, <1>5, <1>9, <1>11, <2>1 DEF ToDo, Early
<1>12. \A d \in Calls : /\ pc'[d] = "answered" => pc[d] = "answered"
                        /\ reply'[d] = reply[d]
  BY <1>1, <1>5
<1>13. CacheTypes'
  <2>1. cache' \in [Requests -> Cached \cup {Missing}]
    BY <1>1, <1>2 DEF WriterInv, CacheTypes
  <2> QED BY <1>1, <2>1 DEF WriterInv, CacheTypes
<1>14. CacheComplete'
  <2>1. Cur' = Cur /\ cmd'.op = cmd.op
    BY <1>1 DEF Cur
  <2>2. \A r \in Requests : cache[r] # Missing => cache'[r] # Missing
    BY <1>2, <1>3
  <2> QED BY <1>1, <1>6, <2>1, <2>2, CacheCompleteKept DEF WriterInv, HistoryKnown
<1>15. CachesDurable'
  <2>1. \A d : DurableCall(d)' <=> DurableCall(d)
    BY <1>1 DEF DurableCall
  <2>2. DurableCall(c)
    BY <1>1 DEF WriterInv, DurableKnown, RepliesDurable
  <2> SUFFICES ASSUME NEW r \in Requests
               PROVE /\ cache'[r] # Missing =>
                           /\ ReqOf[cache'[r].tx] = r
                           /\ cache'[r].dur = "durable" => DurableCall(cache[r].tx)'
                     /\ multi'[r] # Missing =>
                           /\ ReqOf[multi'[r].tx] = r
                           /\ multi'[r].dur = "durable" => DurableCall(multi[r].tx)'
    BY DEF CachesDurable
  <2>3. PICK a : a = cache'[r].tx
    OBVIOUS
  <2>4. PICK b : b = multi'[r].tx
    OBVIOUS
  <2>5. multi'[r] # Missing => ReqOf[b] = r /\ (multi'[r].dur = "durable" => DurableCall(b))
    BY <1>1, <2>4 DEF WriterInv, DurableKnown, CachesDurable
  <2>6. cache'[r] # Missing => ReqOf[a] = r /\ (cache'[r].dur = "durable" => DurableCall(a))
    BY <1>2, <1>3, <2>2, <2>3 DEF WriterInv, DurableKnown, CachesDurable
  <2> QED BY <2>1, <2>3, <2>4, <2>5, <2>6
<1>16. found' \subseteq found
  BY <1>1
<1>17. LoaderBusy'
  <2>1. \A d \in Calls : pc[d] \in {"scanning", "scanned"} => pc'[d] = pc[d]
    BY <1>1, <1>5
  <2> QED BY <1>1, <2>1 DEF WriterInv, HistoryKnown, LoaderBusy, CacheTypes
<1> QED BY <1>1, <1>4, <1>5, <1>7, <1>9, <1>10, <1>11, <1>12, <1>13, <1>14, <1>15, <1>16, <1>17,
           CacheStep

LEMMA DropStep ==
  ASSUME WriterInv, NEW c \in Calls, Drop(c)
  PROVE WriterInv'
<1>1. /\ pc[c] \in {"scanning", "scanned", "waiting", "answered"}
      /\ pc' = [pc EXCEPT ![c] = "dropped"]
      /\ loader' \in {loader, NoCall} /\ (loader # c => loader' = loader /\ found' = found)
      /\ loader = c => loader' = NoCall
      /\ found' \subseteq found
      /\ UNCHANGED <<reply, queue, cmd, cache, multi, loaded, ledger, ino, handle>>
  BY DEF Drop
<1>2. loader' \in Calls \cup {NoCall}
  BY <1>1 DEF WriterInv, CacheTypes
<1>3. LoadFirst'
  BY <1>1 DEF WriterInv, HistoryKnown, LoadFirst
<1>4. /\ CallsOK' /\ pc'[c] = "dropped" /\ \A d \in Calls : d # c => pc'[d] = pc[d]
  BY <1>1 DEF WriterInv, CommandsOK, CallsOK
<1>5. BooksOK' /\ SyncedKept /\ NoNewSingle
  <2>1. BooksOK /\ handle' \in 0..ino
    BY <1>1 DEF WriterInv, BooksOK
  <2> QED BY <1>1, <2>1, UnchangedBooks
<1>6. FoundAll'
  <2>1. \A d \in Calls : pc'[d] = "scanned" => d # c /\ pc[d] = "scanned"
    BY <1>4
  <2> QED BY <1>1, <1>5, <2>1, FoundAllKept DEF WriterInv, HistoryKnown
<1>7. \A d \in Calls : Bears(d)
  BY <1>4 DEF Bears
<1>8. QueueOK' /\ \A d : Queued(d)' <=> Queued(d)
  BY <1>1, <1>7, QueueSame DEF WriterInv, CommandsOK
<1>9. \A d \in Calls : InHand(d) => ~Queued(d)' /\ Bears(d)
  BY <1>7, <1>8, NotBusy
<1>10. ASSUME NEW d \in Calls, ToDo(d)' PROVE ToDo(d)
  <2>1. ToAppend(d)' => ToAppend(d)
    BY <1>1 DEF ToAppend, Cur
  <2> QED BY <1>4, <1>8, <1>10, <2>1 DEF ToDo, Early
<1>11. \A d \in Calls : /\ pc'[d] = "answered" => pc[d] = "answered"
                        /\ reply'[d] = reply[d]
  BY <1>1, <1>4
<1>12. LoaderBusy'
  BY <1>1, <1>4 DEF WriterInv, HistoryKnown, LoaderBusy, CacheTypes
<1> QED BY <1>1, <1>2, <1>3, <1>4, <1>6, <1>8, <1>9, <1>10, <1>11, <1>12, CallStep

LEMMA AskShutdownStep ==
  ASSUME WriterInv, AskShutdown
  PROVE WriterInv'
<1> DEFINE x == [op |-> "shutdown", call |-> NoCall]
<1>1. /\ queue' = Append(queue, x) /\ \A k \in DOMAIN queue : queue[k].op # "shutdown"
      /\ UNCHANGED <<pc, reply, cmd, cache, multi, loaded, loader, found, ledger, ino, handle>>
  BY DEF AskShutdown
<1>2. x \in Command /\ x.op = "shutdown" /\ x.call = NoCall /\ NowExpects(x)
  BY DEF Command, NowExpects, Kinds
<1> HIDE DEF x
<1>3. ~Queued(NoCall)
  <2>1. \A k \in DOMAIN queue : queue[k].call \in Calls
    BY <1>1, QueuedTyped DEF WriterInv, CommandsOK
  <2> QED BY <2>1, CallAssumption DEF Queued
<1>4. CallsOK' /\ \A d \in Calls : Bears(d)
  BY <1>1 DEF WriterInv, CommandsOK, CallsOK, Bears
<1>5. QueueOK' /\ \A d : Queued(d)' <=> (Queued(d) \/ d = NoCall)
  BY <1>1, <1>2, <1>3, <1>4, QueueAppend DEF WriterInv, CommandsOK
<1>6. LoadFirst'
  <2>1. \A k \in DOMAIN queue' : (k \in DOMAIN queue /\ queue'[k] = queue[k]) \/ queue'[k] = x
    <3>1. queue \in Seq(Command)
      BY DEF WriterInv, CommandsOK, QueueOK
    <3> QED BY <1>1, <1>2, <3>1
  <2> QED BY <1>1, <1>2, <2>1 DEF WriterInv, HistoryKnown, LoadFirst
<1>7. FoundAll'
  BY <1>1 DEF WriterInv, HistoryKnown, FoundAll, IsSingle
<1>8. \A d \in Calls : InHand(d) => ~Queued(d)' /\ Bears(d)
  BY <1>4, <1>5, NotBusy, CallAssumption
<1>9. ASSUME NEW d \in Calls, ToDo(d)' PROVE ToDo(d)
  <2>1. ToAppend(d)' => ToAppend(d)
    BY <1>1 DEF ToAppend, Cur
  <2> QED BY <1>1, <1>5, <1>9, <2>1, CallAssumption DEF ToDo, Early
<1>10. loader' \in Calls \cup {NoCall} /\ found' \subseteq found
  BY <1>1 DEF WriterInv, CacheTypes
<1>11. LoaderBusy'
  BY <1>1 DEF WriterInv, HistoryKnown, LoaderBusy
<1> QED BY <1>1, <1>4, <1>5, <1>6, <1>7, <1>8, <1>9, <1>10, <1>11, CallStep

LEMMA StutterStep ==
  ASSUME WriterInv, ShutdownTimesOut \/ UNCHANGED vars
  PROVE WriterInv'
<1>1. UNCHANGED <<pc, reply, queue, cmd, cache, multi, loaded, loader, found, ledger, ino, handle>>
  BY DEF ShutdownTimesOut, vars
<1>2. /\ BooksOK' /\ CacheTypes' /\ AppliedOnce'
  BY <1>1 DEF WriterInv, BooksOK, CacheTypes, AppliedOnce, IsSingle, ReqAt
<1>3. CommandsOK'
  BY <1>1 DEF WriterInv, CommandsOK, CallsOK, QueueOK, HandOK, Expects, Queued, InHand, Cur
<1>4. Fresh'
  BY <1>1 DEF WriterInv, Fresh, Queued, ToAppend, Tells, Cur
<1>5. HistoryKnown'
  BY <1>1 DEF WriterInv, HistoryKnown, LoadFirst, LoaderBusy, FoundAll, CacheComplete,
              NextIsNew, IsSingle, ReqAt, Cur
<1>6. DurableKnown'
  BY <1>1 DEF WriterInv, DurableKnown, CachesDurable, FoundDurable, HandDurable, RepliesDurable,
              DurableCall, InHandle, Cur
<1> QED BY <1>2, <1>3, <1>4, <1>5, <1>6 DEF WriterInv

(***************************************************************************)
(* The writer takes a command.                                             *)
(***************************************************************************)
(* The command at the head is answered at once. *)
LEMMA AnswerTaken ==
  ASSUME WriterInv, cmd = Idle, queue # <<>>, NEW x, x = queue[1],
         x.op \in {"single", "multi", "recover"}, queue' = Tail(queue), cmd' = cmd,
         NEW v \in {"ok", "conflict", "uncertain", "failed", "absent"}, AnswerOne(x.call, v)
  PROVE /\ x.call \in Calls /\ Kind[x.call] = x.op
        /\ CommandsOK'
        /\ \A d \in Calls : ToDo(d)' => ToDo(d)
        /\ \A k \in DOMAIN queue' : \E j \in DOMAIN queue : queue'[k] = queue[j]
        /\ \A d \in Calls : pc'[d] \in {"scanned", "answered"} => pc'[d] = pc[d]
        /\ LoaderBusy /\ loader' = loader /\ loader \in Calls \cup {NoCall} => LoaderBusy'
        /\ \A d \in Calls : reply'[d] = reply[d] \/ (d = x.call /\ reply'[d] = v)
<1>1. x.op \in Kinds /\ x.op # "shutdown" /\ 1 \in DOMAIN queue
  <2>1. queue \in Seq(Command)
    BY DEF WriterInv, CommandsOK, QueueOK
  <2> QED BY <2>1 DEF Kinds
<1>2. x.call \in Calls
  BY <1>1, QueuedTyped DEF WriterInv, CommandsOK
<1>3. Expects(x)
  BY <1>1 DEF WriterInv, CommandsOK, QueueOK
<1>4. Kind[x.call] = x.op /\ pc[x.call] \in {"waiting", "dropped"}
  BY <1>1, <1>3 DEF Expects
<1>5. /\ CallsOK'
      /\ \A d \in Calls : d # x.call \/ pc[d] = "dropped" => pc'[d] = pc[d] /\ reply'[d] = reply[d]
      /\ pc[x.call] # "dropped" => pc'[x.call] \in {"answered", "done"} /\ reply'[x.call] = v
      /\ \A d \in Calls : pc'[d] = "answered" /\ pc[d] # "answered" => Kind[x.call] = "append"
  BY <1>2, AnsweringOne DEF WriterInv, CommandsOK
<1>6. \A d \in Calls : d # x.call => Bears(d)
  BY <1>5 DEF Bears
<1>7. /\ QueueOK' /\ ~Queued(x.call)' /\ \A d : Queued(d)' => Queued(d)
      /\ \A k \in DOMAIN queue' : \E j \in DOMAIN queue : queue'[k] = queue[j]
  BY <1>6, QueueTail DEF WriterInv, CommandsOK
<1>8. HandOK'
  BY HandEmpty
<1>9. \A d \in Calls : pc'[d] \in {"scanned", "answered"} => pc'[d] = pc[d]
  BY <1>4, <1>5
<1>10. \A d \in Calls : reply'[d] = reply[d] \/ (d = x.call /\ reply'[d] = v)
  BY <1>5
<1>11. ASSUME NEW d \in Calls, ToDo(d)' PROVE ToDo(d)
  <2>1. ~ToAppend(d)'
    BY DEF ToAppend, Idle, BeforeAppend
  <2>2. CASE d = x.call
    BY <1>4, <1>5, <1>7, <1>11, <2>1, <2>2 DEF ToDo, Early
  <2>3. CASE d # x.call
    BY <1>5, <1>7, <1>11, <2>1, <2>3 DEF ToDo, Early
  <2> QED BY <2>2, <2>3
<1>12. LoaderBusy /\ loader' = loader /\ loader \in Calls \cup {NoCall} => LoaderBusy'
  <2>1. \A d \in Calls : pc[d] \in {"scanning", "scanned"} => pc'[d] = pc[d]
    BY <1>4, <1>5
  <2> QED BY <2>1 DEF LoaderBusy
<1> QED BY <1>2, <1>4, <1>5, <1>7, <1>8, <1>9, <1>10, <1>11, <1>12 DEF CommandsOK

LEMMA AnswerTakenStep ==
  ASSUME WriterInv, cmd = Idle, queue # <<>>, NEW x, x = queue[1],
         x.op \in {"single", "multi", "recover"}, queue' = Tail(queue),
         NEW v \in {"ok", "conflict", "failed", "absent"}, AnswerOne(x.call, v),
         v = "ok" => Lookup(x.call) = "ok",
         UNCHANGED <<cmd, cache, multi, loaded, loader, found, ledger, ino, handle>>
  PROVE WriterInv'
<1>1. /\ x.call \in Calls /\ CommandsOK'
      /\ \A d \in Calls : ToDo(d)' => ToDo(d)
      /\ \A k \in DOMAIN queue' : \E j \in DOMAIN queue : queue'[k] = queue[j]
      /\ \A d \in Calls : pc'[d] \in {"scanned", "answered"} => pc'[d] = pc[d]
      /\ \A d \in Calls : reply'[d] = reply[d] \/ (d = x.call /\ reply'[d] = v)
  BY AnswerTaken
<1>2. v = "ok" => \E d \in Calls : ReqOf[d] = ReqOf[x.call] /\ DurableCall(d)
  BY <1>1, LookupOk DEF WriterInv, DurableKnown
<1>3. BooksOK' /\ SyncedKept /\ NoNewSingle
  <2>1. BooksOK /\ handle' \in 0..ino
    BY DEF WriterInv, BooksOK
  <2> QED BY <2>1, UnchangedBooks
<1>4. LoadFirst'
  <2>1. loader' \in {loader, NoCall} /\ cmd'.op \in {cmd.op, "idle"}
    OBVIOUS
  <2> QED BY <1>1, <2>1, LoadFirstKept DEF WriterInv, HistoryKnown
<1>5. FoundAll'
  <2>1. \A d \in Calls : pc'[d] = "scanned" => pc[d] = "scanned"
    BY <1>1
  <2> QED BY <1>3, <2>1, FoundAllKept DEF WriterInv, HistoryKnown
<1>6. loader' \in Calls \cup {NoCall} /\ found' \subseteq found
  BY DEF WriterInv, CacheTypes
<1>7. \A d \in Calls : ~InHand(d)
  BY DEF InHand, Idle
<1>8. \A d \in Calls : pc'[d] = "answered" => pc[d] = "answered"
  BY <1>1
<1>9. \A d \in Calls : reply'[d] = "ok" =>
         reply[d] = "ok" \/ \E e \in Calls : ReqOf[e] = ReqOf[d] /\ DurableCall(e)
  BY <1>1, <1>2
<1>10. CallsOK' /\ QueueOK'
  BY <1>1 DEF CommandsOK
<1>11. LoaderBusy'
  BY AnswerTaken DEF WriterInv, HistoryKnown, CacheTypes
<1> QED BY <1>1, <1>4, <1>5, <1>6, <1>7, <1>8, <1>9, <1>10, <1>11, CallStep

(* The command at the head is a transaction that is executed. *)
LEMMA TransactionTaken ==
  ASSUME WriterInv, cmd = Idle, queue # <<>>, NEW x, x = queue[1], x.op \in {"single", "multi"},
         queue' = Tail(queue), cache[ReqOf[x.call]] = Missing,
         cmd' = [op |-> "stage", calls |-> <<x.call>>, i |-> 1, old |-> <<>>, bad |-> {}],
         UNCHANGED <<pc, reply, cache, multi, loaded, loader, found, ledger, ino, handle>>
  PROVE WriterInv'
<1>1. x.op \in Kinds /\ x.op \notin {"shutdown", "append", "barrier"} /\ 1 \in DOMAIN queue
  <2>1. queue \in Seq(Command)
    BY DEF WriterInv, CommandsOK, QueueOK
  <2> QED BY <2>1 DEF Kinds
<1>2. x.call \in Calls
  BY <1>1, QueuedTyped DEF WriterInv, CommandsOK
<1>3. Expects(x)
  BY <1>1 DEF WriterInv, CommandsOK, QueueOK
<1>4. Kind[x.call] = x.op /\ pc[x.call] \in {"waiting", "dropped"}
  BY <1>1, <1>3 DEF Expects
<1>5. CallsOK' /\ \A d \in Calls : Bears(d)
  BY DEF WriterInv, CommandsOK, CallsOK, Bears
<1>6. /\ QueueOK' /\ ~Queued(x.call)' /\ (\A d : Queued(d)' => Queued(d)) /\ Queued(x.call)
      /\ \A k \in DOMAIN queue' : \E j \in DOMAIN queue : queue'[k] = queue[j]
  BY <1>5, QueueTail DEF WriterInv, CommandsOK
<1>7. HandOK' /\ Cur' = x.call
  <2>1. Kind[x.call] \in {"single", "multi"} /\ pc'[x.call] \in {"waiting", "dropped"}
    BY <1>4
  <2> QED BY <1>2, <1>6, <2>1, HandTakes
<1>8. cmd'.op = "stage" /\ cmd.op = "idle"
  BY DEF Idle
<1>9. loaded
  BY <1>1 DEF WriterInv, HistoryKnown, LoadFirst
<1>10. BooksOK' /\ SyncedKept /\ NoNewSingle
  <2>1. BooksOK /\ handle' \in 0..ino
    BY DEF WriterInv, BooksOK
  <2> QED BY <2>1, UnchangedBooks
<1>11. Fresh'
  <2>1. ASSUME NEW d \in Calls, ToDo(d)' PROVE ToDo(d)
    <3>1. ToAppend(d)' => d = x.call
      BY <1>7 DEF ToAppend
    <3> QED BY <1>6, <2>1, <3>1 DEF ToDo
  <2> QED BY <1>10, <2>1, FreshKept DEF WriterInv
<1>12. AppliedOnce'
  BY <1>10, AppliedKept DEF WriterInv
<1>13. LoadFirst'
  BY <1>9, LoadFirstKept DEF WriterInv, HistoryKnown
<1>14. FoundAll'
  BY <1>10, FoundAllKept DEF WriterInv, HistoryKnown
<1>15. CacheComplete'
  <2>1. cmd.op \notin AfterAppend
    BY <1>8 DEF AfterAppend
  <2> QED BY <1>10, <2>1, CacheCompleteKept DEF WriterInv, HistoryKnown
<1>16. NextIsNew'
  <2>1. \A k \in DOMAIN ledger[ino].log : IsSingle(ino, k) => cache[ReqAt(ino, k)] # Missing
    BY <1>8, <1>9 DEF WriterInv, HistoryKnown, CacheComplete, AfterAppend
  <2>2. \A k \in DOMAIN ledger[ino].log :
           ~(IsSingle(ino, k) /\ ReqAt(ino, k) = ReqOf[x.call])
    BY <2>1
  <2> QED BY <1>7, <2>2 DEF NextIsNew, IsSingle, ReqAt
<1>17. CachesDurable'
  BY <1>10, CachesKept DEF WriterInv, DurableKnown
<1>18. FoundDurable'
  BY <1>10, FoundKept DEF WriterInv, DurableKnown
<1>19. HandDurable'
  BY <1>8, HandIdle
<1>20. RepliesDurable'
  BY <1>10, RepliesKept DEF WriterInv, DurableKnown
<1>21. CacheTypes'
  BY DEF WriterInv, CacheTypes
<1>22. LoaderBusy'
  BY DEF WriterInv, HistoryKnown, LoaderBusy
<1> QED BY <1>5, <1>6, <1>7, <1>10, <1>11, <1>12, <1>13, <1>14, <1>15, <1>16, <1>17, <1>18,
           <1>19, <1>20, <1>21, <1>22
        DEF WriterInv, CommandsOK, HistoryKnown, DurableKnown

LEMMA TakeTransactionStep ==
  ASSUME WriterInv, TakeSingle \/ TakeMulti \/ TakeRecover
  PROVE WriterInv'
<1>1. PICK x : x = queue[1]
  OBVIOUS
<1>2. /\ cmd = Idle /\ queue # <<>> /\ queue' = Tail(queue)
      /\ x.op \in {"single", "multi", "recover"}
      /\ UNCHANGED <<cache, multi, loaded, loader, found, ledger, ino, handle>>
  BY <1>1 DEF TakeSingle, TakeMulti, TakeRecover, Ready, Head1
<1>3. x.call \in Calls /\ Kind[x.call] = x.op
  <2>1. 1 \in DOMAIN queue /\ Expects(queue[1])
    <3>1. queue \in Seq(Command)
      BY DEF WriterInv, CommandsOK, QueueOK
    <3>2. 1 \in DOMAIN queue
      BY <1>2, <3>1
    <3> QED BY <3>2 DEF WriterInv, CommandsOK, QueueOK
  <2>2. x.call \in Calls
    BY <1>1, <1>2, <2>1, QueuedTyped DEF WriterInv, CommandsOK
  <2> QED BY <1>1, <1>2, <2>1, <2>2 DEF Expects, Kinds
<1>4. Lookup(x.call) \in {"miss", "conflict", "pending", "ok"}
  BY <1>3, LookupTyped
<1>5. CASE /\ Lookup(x.call) = "miss" /\ cache[ReqOf[x.call]] = Missing
           /\ cmd' = [op |-> "stage", calls |-> <<x.call>>, i |-> 1, old |-> <<>>, bad |-> {}]
           /\ x.op \in {"single", "multi"} /\ UNCHANGED <<pc, reply>>
  BY <1>1, <1>2, <1>5, TransactionTaken
<1>6. CASE \E v \in {"ok", "conflict", "failed", "absent"} :
              /\ AnswerOne(x.call, v) /\ cmd' = cmd
              /\ v = "ok" => Lookup(x.call) = "ok"
  BY <1>1, <1>2, <1>6, AnswerTakenStep
<1>7. CASE TakeSingle
  <2>1. x.op = "single" /\ Lookup(x.call) # "pending"
        /\ IF Lookup(x.call) = "miss"
           THEN /\ cmd' = [op |-> "stage", calls |-> <<x.call>>, i |-> 1, old |-> <<>>, bad |-> {}]
                /\ UNCHANGED <<pc, reply>>
           ELSE AnswerOne(x.call, Lookup(x.call)) /\ UNCHANGED cmd
    BY <1>1, <1>7 DEF TakeSingle, Ready, Head1
  <2>2. Lookup(x.call) = "miss" => cache[ReqOf[x.call]] = Missing
    BY <1>3, <2>1, LookupTyped
  <2>3. CASE Lookup(x.call) = "miss"
    BY <1>5, <2>1, <2>2, <2>3
  <2>4. CASE Lookup(x.call) # "miss"
    BY <1>4, <1>6, <2>1, <2>4
  <2> QED BY <2>3, <2>4
<1>8. CASE TakeMulti
  <2>1. x.op = "multi" /\ Lookup(x.call) # "pending"
        /\ IF Lookup(x.call) = "miss" /\ cache[ReqOf[x.call]] = Missing
           THEN /\ cmd' = [op |-> "stage", calls |-> <<x.call>>, i |-> 1, old |-> <<>>, bad |-> {}]
                /\ UNCHANGED <<pc, reply>>
           ELSE /\ AnswerOne(x.call, IF Lookup(x.call) = "miss" THEN "failed" ELSE Lookup(x.call))
                /\ UNCHANGED cmd
    BY <1>1, <1>8 DEF TakeMulti, Ready, Head1
  <2>2. CASE Lookup(x.call) = "miss" /\ cache[ReqOf[x.call]] = Missing
    BY <1>5, <2>1, <2>2
  <2>3. CASE Lookup(x.call) = "miss" /\ cache[ReqOf[x.call]] # Missing
    BY <1>4, <1>6, <2>1, <2>3
  <2>4. CASE Lookup(x.call) # "miss"
    BY <1>4, <1>6, <2>1, <2>4
  <2> QED BY <2>2, <2>3, <2>4
<1>9. CASE TakeRecover
  <2>1. /\ Lookup(x.call) # "pending" /\ UNCHANGED cmd
        /\ AnswerOne(x.call, IF Lookup(x.call) = "miss" THEN "absent" ELSE Lookup(x.call))
    BY <1>1, <1>9 DEF TakeRecover, Ready, Head1
  <2>2. CASE Lookup(x.call) = "miss"
    BY <1>6, <2>1, <2>2
  <2>3. CASE Lookup(x.call) # "miss"
    BY <1>4, <1>6, <2>1, <2>3
  <2> QED BY <2>2, <2>3
<1> QED BY <1>7, <1>8, <1>9

LEMMA HeadTyped ==
  ASSUME WriterInv, queue # <<>>, NEW x, x = queue[1]
  PROVE /\ x \in Command /\ Expects(x) /\ 1 \in DOMAIN queue
        /\ x.op # "shutdown" => x.call \in Calls
        /\ x.op \in Kinds => Kind[x.call] = x.op /\ pc[x.call] \in {"waiting", "dropped"}
        /\ x.op = "barrier" => pc[x.call] \in {"scanning", "dropped"}
<1>1. queue \in Seq(Command)
  BY DEF WriterInv, CommandsOK, QueueOK
<1>2. 1 \in DOMAIN queue
  BY <1>1
<1>3. x \in Command /\ Expects(x)
  BY <1>2 DEF WriterInv, CommandsOK, QueueOK
<1>4. x.op # "shutdown" => x.call \in Calls
  BY <1>2, QueuedTyped DEF WriterInv, CommandsOK
<1> QED BY <1>2, <1>3, <1>4 DEF Expects

LEMMA TakeBarrierStep ==
  ASSUME WriterInv, TakeBarrier
  PROVE WriterInv'
<1>1. PICK x : x = queue[1]
  OBVIOUS
<1>2. /\ cmd = Idle /\ queue # <<>> /\ x.op = "barrier" /\ queue' = Tail(queue)
      /\ ledger' = Synced(ino)
      /\ UNCHANGED <<reply, cmd, cache, multi, loaded, loader, ino, handle>>
      /\ IF loader = x.call
         THEN /\ found' = {e \in Entries(ledger[ino].log) : Kind[e.call] = "single"}
              /\ pc' = [pc EXCEPT ![loader] = "scanned"]
         ELSE UNCHANGED <<found, pc>>
  BY <1>1 DEF TakeBarrier, Ready, Head1
<1>3. x.call \in Calls /\ pc[x.call] \in {"scanning", "dropped"}
  BY <1>1, <1>2, HeadTyped
<1>4. loader = x.call => pc[x.call] = "scanning"
  BY <1>3, CallAssumption DEF WriterInv, HistoryKnown, LoaderBusy
<1>5. /\ CallsOK'
      /\ \A d \in Calls : d # x.call => pc'[d] = pc[d]
      /\ pc'[x.call] = IF loader = x.call THEN "scanned" ELSE pc[x.call]
  BY <1>2, <1>3, <1>4 DEF WriterInv, CommandsOK, CallsOK
<1>6. /\ QueueOK' /\ ~Queued(x.call)' /\ \A d : Queued(d)' => Queued(d)
      /\ \A k \in DOMAIN queue' : \E j \in DOMAIN queue : queue'[k] = queue[j]
  <2>1. \A d \in Calls : d # x.call => Bears(d)
    BY <1>5 DEF Bears
  <2> QED BY <1>1, <1>2, <2>1, QueueTail DEF WriterInv, CommandsOK
<1>7. HandOK' /\ cmd'.op = "idle" /\ cmd.op = "idle"
  BY <1>2, HandEmpty DEF Idle
<1>8. /\ BooksOK' /\ SyncedKept /\ NoNewSingle
      /\ \A m \in 1..MaxInode : ledger'[m].log = ledger[m].log
      /\ ledger'[ino].synced = Len(ledger[ino].log)
  <2>1. BooksOK /\ ino \in 0..ino /\ handle' \in 0..ino /\ ino # 0
    BY <1>2 DEF WriterInv, BooksOK
  <2> QED BY <1>2, <2>1, SyncedStep, SyncedBooks
<1>9. Fresh'
  <2>1. ASSUME NEW d \in Calls, ToDo(d)' PROVE ToDo(d)
    <3>1. ~ToAppend(d)'
      BY <1>7 DEF ToAppend, BeforeAppend
    <3>2. CASE d = x.call
      BY <1>4, <1>5, <1>6, <2>1, <3>1, <3>2 DEF ToDo, Early
    <3>3. CASE d # x.call
      BY <1>5, <1>6, <2>1, <3>1, <3>3 DEF ToDo, Early
    <3> QED BY <3>2, <3>3
  <2> QED BY <1>8, <2>1, FreshKept DEF WriterInv
<1>10. AppliedOnce'
  BY <1>8, AppliedKept DEF WriterInv
<1>11. LoadFirst'
  BY <1>2, <1>6, <1>7, LoadFirstKept DEF WriterInv, HistoryKnown
<1>12. LoaderBusy'
  BY <1>2, <1>4, <1>5, CallAssumption DEF WriterInv, HistoryKnown, LoaderBusy, CacheTypes
<1>13. FoundAll'
  <2>1. CASE loader = x.call
    <3>1. \A d \in Calls : pc'[d] = "scanned" => d = loader
      BY <1>5, <2>1 DEF WriterInv, HistoryKnown, FoundAll
    <3>2. \A k \in DOMAIN ledger[ino].log : IsSingle(ino, k) => ledger[ino].log[k] \in found'
      BY <1>2, <2>1 DEF IsSingle, Entries
    <3>3. ledger'[ino].log = ledger[ino].log
      BY <1>8, LogTyped DEF WriterInv
    <3> QED BY <1>2, <3>1, <3>2, <3>3 DEF FoundAll, IsSingle
  <2>2. CASE loader # x.call
    <3>1. \A d \in Calls : pc'[d] = "scanned" => pc[d] = "scanned"
      BY <1>2, <2>2
    <3> QED BY <1>2, <1>8, <2>2, <3>1, FoundAllKept DEF WriterInv, HistoryKnown
  <2> QED BY <2>1, <2>2
<1>14. CacheComplete'
  <2>1. cmd.op \notin AfterAppend
    BY <1>7 DEF AfterAppend
  <2> QED BY <1>2, <1>8, <2>1, CacheCompleteKept DEF WriterInv, HistoryKnown
<1>15. NextIsNew'
  BY <1>7 DEF NextIsNew, BeforeAppend
<1>16. CachesDurable'
  BY <1>2, <1>8, CachesKept DEF WriterInv, DurableKnown
<1>17. FoundDurable'
  <2>1. CASE loader = x.call
    <3> SUFFICES ASSUME NEW e \in found' PROVE Kind[e.call] = "single" /\ DurableCall(e.call)'
      BY DEF FoundDurable
    <3>1. PICK k \in DOMAIN ledger[ino].log : ledger[ino].log[k] = e /\ Kind[e.call] = "single"
      BY <1>2, <2>1 DEF Entries
    <3>2. ino \in 1..MaxInode /\ k \in 1..ledger'[ino].synced /\ ledger'[ino].log[k] = e
      BY <1>8, <3>1, LogTyped DEF WriterInv
    <3>3. PICK c : c = e.call
      OBVIOUS
    <3>4. DurableCall(c)'
      BY <3>2, <3>3 DEF DurableCall
    <3> QED BY <3>1, <3>3, <3>4
  <2>2. CASE loader # x.call
    BY <1>2, <1>8, <2>2, FoundKept DEF WriterInv, DurableKnown
  <2> QED BY <2>1, <2>2
<1>18. HandDurable'
  BY <1>7, HandIdle
<1>19. RepliesDurable'
  <2>1. \A d \in Calls : pc'[d] = "answered" => pc[d] = "answered"
    BY <1>5
  <2> QED BY <1>2, <1>8, <2>1, RepliesKept DEF WriterInv, DurableKnown
<1>20. CacheTypes'
  <2>1. found' \subseteq Entry
    BY <1>2, LogTyped DEF WriterInv, CacheTypes, Entries
  <2> QED BY <1>2, <2>1 DEF WriterInv, CacheTypes
<1> QED BY <1>5, <1>6, <1>7, <1>8, <1>9, <1>10, <1>11, <1>12, <1>13, <1>14, <1>15, <1>16, <1>17,
           <1>18, <1>19, <1>20
        DEF WriterInv, CommandsOK, HistoryKnown, DurableKnown

LEMMA QueueSub ==
  ASSUME QueueOK, NEW n \in 1..Len(queue), queue' = SubSeq(queue, n + 1, Len(queue)),
         UNCHANGED pc
  PROVE /\ QueueOK' /\ \A d : Queued(d)' => Queued(d)
        /\ \A k \in DOMAIN queue' : \E j \in DOMAIN queue : queue'[k] = queue[j]
        /\ \A k \in 1..n : k \in DOMAIN queue /\ \A j \in DOMAIN queue' :
                              queue'[j].call # queue[k].call
<1> DEFINE len == Len(queue)
<1>1. /\ queue \in Seq(Command) /\ len \in Nat /\ n \in Nat /\ n <= len
      /\ DOMAIN queue = 1..len
  BY DEF QueueOK
<1>2. /\ queue' \in Seq(Command) /\ DOMAIN queue' = 1..(len - n)
      /\ \A k \in 1..(len - n) : queue'[k] = queue[n + k]
  <2>1. queue' = SubSeq(queue, n + 1, len)
    OBVIOUS
  <2> HIDE DEF len
  <2>2. \A i \in (n + 1)..len : queue[i] \in Command
    BY <1>1
  <2> QED BY <1>1, <2>1, <2>2
<1> HIDE DEF len
<1>3. ASSUME NEW k \in DOMAIN queue'
      PROVE /\ n + k \in DOMAIN queue /\ queue'[k] = queue[n + k] /\ k \in Nat
            /\ \A j \in 1..n : n + k # j /\ j \in DOMAIN queue
  BY <1>1, <1>2
<1>4. \A k \in DOMAIN queue' : NowExpects(queue'[k])
  <2>1. \A k \in DOMAIN queue : NowExpects(queue[k])
    BY DEF QueueOK, Expects, NowExpects
  <2> QED BY <1>3, <2>1
<1>5. ASSUME NEW j \in DOMAIN queue', NEW k \in DOMAIN queue', queue'[j].call = queue'[k].call
      PROVE j = k
  <2>1. n + j = n + k
    BY <1>3, <1>5 DEF QueueOK
  <2> QED BY <1>1, <1>3, <2>1
<1>6. QueueOK'
  BY <1>2, <1>4, <1>5, QueueNow
<1>7. \A k \in 1..n : k \in DOMAIN queue /\ \A j \in DOMAIN queue' :
                         queue'[j].call # queue[k].call
  <2>1. \A k \in 1..n : k \in DOMAIN queue
    BY <1>1
  <2> QED BY <1>3, <2>1 DEF QueueOK
<1> QED BY <1>3, <1>6, <1>7 DEF Queued

LEMMA TakeBatchStep ==
  ASSUME WriterInv, TakeBatch
  PROVE WriterInv'
<1>1. PICK n \in 1..Len(queue) :
         /\ \A k \in 1..n : queue[k].op = "append"
         /\ cmd' = [op |-> "batch", calls |-> [k \in 1..n |-> queue[k].call],
                    i |-> 1, old |-> <<>>, bad |-> {}]
         /\ queue' = SubSeq(queue, n + 1, Len(queue))
  BY DEF TakeBatch, WholeBatch
<1>2. /\ cmd = Idle /\ handle' \in {handle, 0}
      /\ UNCHANGED <<pc, reply, cache, multi, loaded, loader, found, ledger, ino>>
  BY DEF TakeBatch, Ready
<1>3. /\ QueueOK' /\ \A d : Queued(d)' => Queued(d)
      /\ \A k \in DOMAIN queue' : \E j \in DOMAIN queue : queue'[k] = queue[j]
      /\ \A k \in 1..n : k \in DOMAIN queue /\ \A j \in DOMAIN queue' :
                            queue'[j].call # queue[k].call
  BY <1>1, <1>2, QueueSub DEF WriterInv, CommandsOK
<1>4. ASSUME NEW k \in 1..n
      PROVE /\ queue[k].call \in Calls /\ Kind[queue[k].call] = "append"
            /\ pc[queue[k].call] \in {"waiting", "dropped"}
  <2>1. k \in DOMAIN queue /\ queue[k].op = "append" /\ Expects(queue[k])
    BY <1>1, <1>3 DEF WriterInv, CommandsOK, QueueOK
  <2>2. queue[k].call \in Calls
    BY <2>1, QueuedTyped DEF WriterInv, CommandsOK
  <2> QED BY <2>1, <2>2 DEF Expects, Kinds
<1> DEFINE s == [k \in 1..n |-> queue[k].call]
<1>5. /\ s \in Seq(Calls) /\ DOMAIN s = 1..n
      /\ \A k \in 1..n : /\ s[k] = queue[k].call /\ Kind[s[k]] = "append"
                         /\ pc[s[k]] \in {"waiting", "dropped"}
  <2>1. n \in Nat
    BY DEF WriterInv, CommandsOK, QueueOK
  <2> QED BY <1>4, <2>1
<1>6. /\ cmd'.op = "batch" /\ cmd'.calls = s /\ cmd'.i = 1 /\ cmd.op = "idle"
      /\ cmd' = [op |-> cmd'.op, calls |-> cmd'.calls, i |-> cmd'.i, old |-> cmd'.old,
                 bad |-> cmd'.bad]
  BY <1>1, <1>2 DEF Idle
<1> HIDE DEF s
<1>7. CallsOK'
  BY <1>2 DEF WriterInv, CommandsOK, CallsOK
<1>8. HandOK'
  <2>1. ASSUME NEW d \in Calls, InHand(d)' PROVE ~Queued(d)' /\ pc'[d] \in {"waiting", "dropped"}
    <3>1. PICK k \in 1..n : s[k] = d
      BY <1>5, <1>6, <2>1 DEF InHand
    <3> QED BY <1>2, <1>3, <1>5, <3>1 DEF Queued
  <2> QED BY <1>5, <1>6, <2>1 DEF HandOK, Ops
<1>9. BooksOK' /\ SyncedKept /\ NoNewSingle
  <2>1. BooksOK /\ handle' \in 0..ino
    BY <1>2 DEF WriterInv, BooksOK
  <2> QED BY <1>2, <2>1, UnchangedBooks
<1>10. Fresh'
  <2>1. ASSUME NEW d \in Calls, ToDo(d)' PROVE ToDo(d)
    <3>1. ~ToAppend(d)'
      BY <1>6 DEF ToAppend, BeforeAppend
    <3> QED BY <1>2, <1>3, <2>1, <3>1 DEF ToDo, Early
  <2> QED BY <1>9, <2>1, FreshKept DEF WriterInv
<1>11. AppliedOnce'
  BY <1>9, AppliedKept DEF WriterInv
<1>12. LoadFirst' /\ LoaderBusy'
  BY <1>2, <1>3, <1>6 DEF WriterInv, HistoryKnown, LoadFirst, LoaderBusy
<1>13. FoundAll'
  BY <1>2, <1>9, FoundAllKept DEF WriterInv, HistoryKnown
<1>14. CacheComplete'
  <2>1. cmd.op \notin AfterAppend
    BY <1>6 DEF AfterAppend
  <2> QED BY <1>2, <1>9, <2>1, CacheCompleteKept DEF WriterInv, HistoryKnown
<1>15. NextIsNew'
  BY <1>6 DEF NextIsNew, BeforeAppend
<1>16. CachesDurable'
  BY <1>2, <1>9, CachesKept DEF WriterInv, DurableKnown
<1>17. FoundDurable'
  BY <1>2, <1>9, FoundKept DEF WriterInv, DurableKnown
<1>18. HandDurable'
  <2>1. \A k \in 1..n : ~(k < 1)
    OBVIOUS
  <2> QED BY <1>5, <1>6, <2>1 DEF HandDurable
<1>19. RepliesDurable'
  BY <1>2, <1>9, RepliesKept DEF WriterInv, DurableKnown
<1>20. CacheTypes'
  BY <1>2 DEF WriterInv, CacheTypes
<1> QED BY <1>3, <1>7, <1>8, <1>9, <1>10, <1>11, <1>12, <1>13, <1>14, <1>15, <1>16, <1>17,
           <1>18, <1>19, <1>20
        DEF WriterInv, CommandsOK, HistoryKnown, DurableKnown

LEMMA TakeShutdownStep ==
  ASSUME WriterInv, TakeShutdown
  PROVE WriterInv'
<1>1. /\ cmd = Idle /\ handle' = 0 /\ queue' = <<>> /\ Answer(Behind, [c \in Behind |-> "failed"])
      /\ loader' = IF loader \in Behind THEN NoCall ELSE loader
      /\ UNCHANGED <<cmd, cache, multi, loaded, found, ledger, ino>>
  BY DEF TakeShutdown, Ready
<1>2. /\ CallsOK'
      /\ \A d \in Calls : d \notin Behind \/ pc[d] = "dropped" => pc'[d] = pc[d]
      /\ \A d \in Calls : d \in Behind /\ pc[d] # "dropped" => pc'[d] \in {"answered", "done"}
      /\ \A d \in Calls : pc'[d] = "answered" => pc[d] = "answered"
      /\ \A d \in Calls : reply'[d] = "ok" => reply[d] = "ok"
  <2> DEFINE v == [c \in Behind |-> "failed"]
  <2>1. \A c \in Behind : v[c] = "failed"
    OBVIOUS
  <2>2. Answer(Behind, v)
    BY <1>1
  <2> HIDE DEF v
  <2>3. /\ CallsOK'
        /\ \A c \in Calls : c \notin Behind \/ pc[c] = "dropped"
              => pc'[c] = pc[c] /\ reply'[c] = reply[c]
        /\ \A c \in Calls : c \in Behind /\ pc[c] # "dropped"
              => pc'[c] \in {"answered", "done"} /\ reply'[c] = v[c]
        /\ \A c \in Calls : pc'[c] = "answered" /\ pc[c] # "answered"
              => c \in Behind /\ v[c] = "ok"
    BY <2>1, <2>2, Answering DEF WriterInv, CommandsOK
  <2> QED BY <2>1, <2>3
<1>3. QueueOK' /\ \A d : ~Queued(d)'
  BY <1>1, QueueClear
<1>4. HandOK' /\ cmd'.op = "idle" /\ cmd.op = "idle"
  BY <1>1, HandEmpty DEF Idle
<1>5. BooksOK' /\ SyncedKept /\ NoNewSingle
  <2>1. BooksOK /\ handle' \in 0..ino
    BY <1>1 DEF WriterInv, BooksOK
  <2> QED BY <1>1, <2>1, UnchangedBooks
<1>6. Fresh'
  <2>1. ASSUME NEW d \in Calls, ToDo(d)' PROVE ToDo(d)
    <3>1. ~ToAppend(d)'
      BY <1>4 DEF ToAppend, BeforeAppend
    <3> QED BY <1>2, <1>3, <2>1, <3>1 DEF ToDo, Early
  <2> QED BY <1>5, <2>1, FreshKept DEF WriterInv
<1>7. AppliedOnce'
  BY <1>5, AppliedKept DEF WriterInv
<1>8. LoadFirst'
  BY <1>1, <1>4 DEF WriterInv, HistoryKnown, LoadFirst
<1>9. LoaderBusy'
  BY <1>1, <1>2 DEF WriterInv, HistoryKnown, LoaderBusy, CacheTypes
<1>10. FoundAll'
  <2>1. ASSUME NEW d \in Calls, pc'[d] = "scanned"
        PROVE pc[d] = "scanned" /\ (d = loader => loader' = loader /\ found' = found)
    <3>1. d \notin Behind \/ pc[d] = "dropped"
      BY <1>2, <2>1
    <3>2. pc[d] = "scanned" /\ d \notin Behind
      BY <1>2, <2>1, <3>1
    <3> QED BY <1>1, <3>2
  <2> QED BY <1>5, <2>1, FoundAllKept DEF WriterInv, HistoryKnown
<1>11. CacheComplete'
  <2>1. cmd.op \notin AfterAppend
    BY <1>4 DEF AfterAppend
  <2> QED BY <1>1, <1>5, <2>1, CacheCompleteKept DEF WriterInv, HistoryKnown
<1>12. NextIsNew'
  BY <1>4 DEF NextIsNew, BeforeAppend
<1>13. CachesDurable'
  BY <1>1, <1>5, CachesKept DEF WriterInv, DurableKnown
<1>14. FoundDurable'
  BY <1>1, <1>5, FoundKept DEF WriterInv, DurableKnown
<1>15. HandDurable'
  BY <1>4, HandIdle
<1>16. RepliesDurable'
  BY <1>2, <1>5, RepliesKept DEF WriterInv, DurableKnown
<1>17. CacheTypes'
  BY <1>1 DEF WriterInv, CacheTypes
<1> QED BY <1>2, <1>3, <1>4, <1>5, <1>6, <1>7, <1>8, <1>9, <1>10, <1>11, <1>12, <1>13, <1>14,
           <1>15, <1>16, <1>17
        DEF WriterInv, CommandsOK, HistoryKnown, DurableKnown

(* What singles know of a durable group. *)
LEMMA EntryCached ==
  ASSUME NEW m \in Cached, m.ident \in Idents
  PROVE /\ OfEntry(m) \in Cached /\ OfEntry(m).tx = m.tx /\ OfEntry(m).dur = "durable"
        /\ OfEntry(m).ident = EntryIdent[m.ident] /\ ~OfEntry(m).named
<1>1. EntryIdent[m.ident] \in Idents
  BY CallAssumption
<1> QED BY <1>1 DEF OfEntry, Cached

(* A pending sync is tried again. *)
LEMMA RetrySyncStep ==
  ASSUME WriterInv, RetrySync
  PROVE WriterInv'
<1>1. PICK x : x = queue[1]
  OBVIOUS
<1> DEFINE c == x.call
           r == ReqOf[c]
           m == IF Kind[c] = "multi" THEN multi[r] ELSE cache[r]
           one == [m EXCEPT !.dur = "durable"]
           group == OfEntry(one)
<1>2. /\ cmd = Idle /\ queue # <<>> /\ x.op \in {"single", "multi", "recover"}
      /\ Lookup(c) = "pending" /\ queue' = Tail(queue)
      /\ UNCHANGED <<cmd, loaded, loader, found, ino, handle>>
      /\ \/ /\ Retained(m.tx) /\ ledger' = Synced(handle)
            /\ IF Kind[c] = "multi"
               THEN /\ multi' = [multi EXCEPT ![r].dur = "durable"]
                    /\ cache' = GroupKnown(r, one)
               ELSE /\ cache' = [cache EXCEPT ![r].dur = "durable"] /\ UNCHANGED multi
            /\ AnswerOne(c, "ok")
         \/ /\ AnswerOne(c, "uncertain") /\ UNCHANGED <<ledger, cache, multi>>
  BY <1>1 DEF RetrySync, Head1
<1>3. c \in Calls /\ r \in Requests
  <2>1. x.op # "shutdown"
    BY <1>2
  <2> QED BY <1>1, <1>2, <2>1, HeadTyped, CallAssumption
<1>4. m \in Cached /\ m # Missing /\ m.tx \in Calls /\ ReqOf[m.tx] = r
  <2>1. m \in Cached \cup {Missing} /\ m # Missing
    BY <1>2, <1>3 DEF WriterInv, CacheTypes, Lookup, LookupSingle, LookupMulti, LookupAppend
  <2>2. m \in Cached
    BY <2>1
  <2>3. ReqOf[m.tx] = r
    BY <1>3, <2>1 DEF WriterInv, DurableKnown, CachesDurable
  <2> QED BY <2>1, <2>2, <2>3 DEF Cached
<1>id. Kind[c] = "multi" => one \in Cached /\ one.ident \in Idents /\ one.dur = "durable"
  <2>1. Kind[c] = "multi" => m.ident = IdentOf[c]
    BY <1>2 DEF Lookup, LookupMulti
  <2> QED BY <1>3, <1>4, <2>1, CallAssumption DEF Cached
<1>tx. PICK t : t = m.tx
  OBVIOUS
<1> HIDE DEF m, r, c, group, one
<1>5. ASSUME NEW g \in Cached PROVE g # Missing
  BY <1>5, CallAssumption DEF Cached, Missing
<1>6. /\ one \in Cached /\ one.tx = m.tx /\ one.dur = "durable"
      /\ Kind[c] = "multi" => group \in Cached /\ group.tx = m.tx /\ group.dur = "durable"
  <2>1. one \in Cached /\ one.tx = m.tx /\ one.dur = "durable"
    BY <1>4 DEF one, Cached
  <2> QED BY <1>id, <2>1, EntryCached DEF group
<1>7. ASSUME NEW v \in {"ok", "uncertain"}, AnswerOne(c, v)
      PROVE /\ CommandsOK'
            /\ \A d \in Calls : ToDo(d)' => ToDo(d)
            /\ \A k \in DOMAIN queue' : \E j \in DOMAIN queue : queue'[k] = queue[j]
            /\ \A d \in Calls : pc'[d] \in {"scanned", "answered"} => pc'[d] = pc[d]
            /\ LoaderBusy'
            /\ \A d \in Calls : reply'[d] = reply[d] \/ (d = c /\ reply'[d] = v)
  <2>1. AnswerOne(x.call, v) /\ cmd' = cmd /\ loader' = loader /\ loader \in Calls \cup {NoCall}
        /\ LoaderBusy
    BY <1>2, <1>7 DEF c, WriterInv, HistoryKnown, CacheTypes
  <2>2. v \in {"ok", "conflict", "uncertain", "failed", "absent"}
    OBVIOUS
  <2> QED BY <1>1, <1>2, <2>1, <2>2, AnswerTaken DEF c
<1>8. cmd'.op = "idle" /\ cmd.op = "idle"
  BY <1>2 DEF Idle
<1>9. ASSUME BooksOK', SyncedKept, NoNewSingle, CacheTypes', CachesDurable', NEW v,
             v \in {"ok", "uncertain"}, AnswerOne(c, v), v = "ok" => DurableCall(t)',
             \A q \in Requests : cache[q] # Missing => cache'[q] # Missing
      PROVE WriterInv'
  <2>1. Fresh'
    BY <1>7, <1>9, FreshKept DEF WriterInv
  <2>2. AppliedOnce'
    BY <1>9, AppliedKept DEF WriterInv
  <2>3. LoadFirst'
    BY <1>2, <1>7, <1>8, <1>9, LoadFirstKept DEF WriterInv, HistoryKnown
  <2>4. FoundAll'
    <3>1. \A d \in Calls : pc'[d] = "scanned" => pc[d] = "scanned"
      BY <1>7, <1>9
    <3> QED BY <1>2, <1>9, <3>1, FoundAllKept DEF WriterInv, HistoryKnown
  <2>5. CacheComplete'
    <3>1. cmd.op \notin AfterAppend
      BY <1>8 DEF AfterAppend
    <3> QED BY <1>2, <1>9, <3>1, CacheCompleteKept DEF WriterInv, HistoryKnown
  <2>6. NextIsNew'
    BY <1>8 DEF NextIsNew, BeforeAppend
  <2>7. FoundDurable'
    BY <1>2, <1>9, FoundKept DEF WriterInv, DurableKnown
  <2>8. HandDurable'
    BY <1>8, HandIdle
  <2>9. RepliesDurable'
    <3>1. v = "ok" => \E d \in Calls : ReqOf[d] = r /\ DurableCall(d)'
      BY <1>4, <1>tx, <1>9
    <3>2. \A d \in Calls : pc'[d] = "answered" => pc[d] = "answered"
      BY <1>7, <1>9
    <3>3. \A d \in Calls : reply'[d] = "ok" =>
             reply[d] = "ok" \/ \E e \in Calls : ReqOf[e] = ReqOf[d] /\ DurableCall(e)'
      BY <1>7, <1>9, <3>1 DEF r
    <3> QED BY <1>9, <3>2, <3>3, RepliesKept DEF WriterInv, DurableKnown
  <2> QED BY <1>7, <1>9, <2>1, <2>2, <2>3, <2>4, <2>5, <2>6, <2>7, <2>8, <2>9
          DEF WriterInv, HistoryKnown, DurableKnown
<1>10. CASE /\ Retained(m.tx) /\ ledger' = Synced(handle)
            /\ IF Kind[c] = "multi"
               THEN /\ multi' = [multi EXCEPT ![r].dur = "durable"]
                    /\ cache' = GroupKnown(r, one)
               ELSE /\ cache' = [cache EXCEPT ![r].dur = "durable"] /\ UNCHANGED multi
            /\ AnswerOne(c, "ok")
  <2>1. /\ BooksOK' /\ SyncedKept /\ NoNewSingle
        /\ \A n \in 1..MaxInode : ledger'[n].log = ledger[n].log
        /\ handle # 0 => ledger'[handle].synced = Len(ledger[handle].log)
    <3>1. BooksOK /\ handle \in 0..ino /\ handle' \in 0..ino /\ ino' = ino
      BY <1>2 DEF WriterInv, BooksOK
    <3> QED BY <1>10, <3>1, SyncedStep, SyncedBooks
  <2>2. DurableCall(t)'
    <3>1. /\ handle \in 1..MaxInode
          /\ [call |-> t, part |-> 1] \in Entries(ledger[handle].log)
      <4>1. handle # 0 /\ [call |-> t, part |-> 1] \in Entries(ledger[handle].log)
        BY <1>10, <1>tx DEF Retained
      <4>2. handle \in 0..ino /\ ino \in 1..MaxInode /\ MaxInode \in Nat
        BY WriterBounds DEF WriterInv, BooksOK
      <4> QED BY <4>1, <4>2
    <3>2. PICK k \in DOMAIN ledger[handle].log : ledger[handle].log[k] = [call |-> t, part |-> 1]
      BY <3>1 DEF Entries
    <3>3. /\ k \in 1..ledger'[handle].synced /\ ledger'[handle].log[k].call = t
      BY <2>1, <3>1, <3>2, LogTyped DEF WriterInv
    <3> QED BY <3>1, <3>3 DEF DurableCall
  <2>3. \A q \in Requests :
           /\ cache'[q] = IF q = r THEN (IF Kind[c] = "multi" THEN group ELSE one) ELSE cache[q]
           /\ multi'[q] = IF q = r /\ Kind[c] = "multi" THEN one ELSE multi[q]
    <3>1. cache \in [Requests -> Cached \cup {Missing}] /\ multi \in [Requests -> Cached \cup {Missing}]
      BY DEF WriterInv, CacheTypes
    <3>2. CASE Kind[c] = "multi"
      <4>1. m = multi[r]
        BY <3>2 DEF m
      <4>2. cache' = [cache EXCEPT ![r] = group]
        BY <1>6, <1>10, <3>2 DEF GroupKnown, group
      <4> QED BY <1>3, <1>10, <3>1, <3>2, <4>1, <4>2 DEF one
    <3>3. CASE Kind[c] # "multi"
      <4>1. m = cache[r]
        BY <3>3 DEF m
      <4> QED BY <1>3, <1>10, <3>1, <3>3, <4>1 DEF one
    <3> QED BY <3>2, <3>3
  <2>4. CacheTypes'
    <3>1. \A q \in Requests : /\ cache'[q] \in Cached \cup {Missing}
                              /\ multi'[q] \in Cached \cup {Missing}
      BY <1>6, <2>3 DEF WriterInv, CacheTypes
    <3>2. DOMAIN cache' = Requests /\ DOMAIN multi' = Requests
          /\ cache' = [q \in DOMAIN cache' |-> cache'[q]]
          /\ multi' = [q \in DOMAIN multi' |-> multi'[q]]
      BY <1>10 DEF WriterInv, CacheTypes, GroupKnown
    <3>3. cache' \in [Requests -> Cached \cup {Missing}] /\ multi' \in [Requests -> Cached \cup {Missing}]
      BY <3>1, <3>2
    <3> QED BY <1>2, <3>3 DEF WriterInv, CacheTypes
  <2>5. CachesDurable'
    <3> SUFFICES ASSUME NEW q \in Requests
                 PROVE /\ cache'[q] # Missing =>
                             /\ ReqOf[cache'[q].tx] = q
                             /\ cache'[q].dur = "durable" => DurableCall(cache[q].tx)'
                       /\ multi'[q] # Missing =>
                             /\ ReqOf[multi'[q].tx] = q
                             /\ multi'[q].dur = "durable" => DurableCall(multi[q].tx)'
      BY DEF CachesDurable
    <3>1. PICK a : a = cache'[q].tx
      OBVIOUS
    <3>2. PICK b : b = multi'[q].tx
      OBVIOUS
    <3>3. /\ a = t => DurableCall(a)'
          /\ b = t => DurableCall(b)'
          /\ DurableCall(a) => DurableCall(a)'
          /\ DurableCall(b) => DurableCall(b)'
      BY <2>1, <2>2, DurableStays DEF WriterInv
    <3>4. cache'[q] # Missing => ReqOf[a] = q /\ (cache'[q].dur = "durable" => DurableCall(a)')
      <4>1. CASE q = r
        BY <1>4, <1>6, <1>tx, <2>3, <3>1, <3>3, <4>1
      <4>2. CASE q # r
        BY <2>3, <3>1, <3>3, <4>2 DEF WriterInv, DurableKnown, CachesDurable
      <4> QED BY <4>1, <4>2
    <3>5. multi'[q] # Missing => ReqOf[b] = q /\ (multi'[q].dur = "durable" => DurableCall(b)')
      <4>1. CASE q = r /\ Kind[c] = "multi"
        BY <1>4, <1>6, <1>tx, <2>3, <3>2, <3>3, <4>1
      <4>2. CASE ~(q = r /\ Kind[c] = "multi")
        BY <2>3, <3>2, <3>3, <4>2 DEF WriterInv, DurableKnown, CachesDurable
      <4> QED BY <4>1, <4>2
    <3> QED BY <3>1, <3>2, <3>4, <3>5
  <2>6. \A q \in Requests : cache[q] # Missing => cache'[q] # Missing
    BY <1>5, <1>6, <2>3
  <2> QED BY <1>9, <1>10, <2>1, <2>2, <2>4, <2>5, <2>6
<1>11. CASE AnswerOne(c, "uncertain") /\ UNCHANGED <<ledger, cache, multi>>
  <2>1. BooksOK' /\ SyncedKept /\ NoNewSingle
    <3>1. BooksOK /\ handle' \in 0..ino /\ ino' = ino
      BY <1>2 DEF WriterInv, BooksOK
    <3> QED BY <1>11, <3>1, UnchangedBooks
  <2>2. CacheTypes'
    BY <1>2, <1>11 DEF WriterInv, CacheTypes
  <2>3. CachesDurable'
    BY <1>11, <2>1, CachesKept DEF WriterInv, DurableKnown
  <2> QED BY <1>9, <1>11, <2>1, <2>2, <2>3
<1> QED BY <1>2, <1>10, <1>11

(***************************************************************************)
(* The writer executes a transaction.                                      *)
(***************************************************************************)
LEMMA Working ==
  ASSUME WriterInv, cmd.op \notin {"idle", "batch"}
  PROVE /\ Cur \in Calls /\ Kind[Cur] \in {"single", "multi"} /\ loaded
        /\ pc[Cur] \in {"waiting", "dropped"} /\ ~Queued(Cur)
        /\ \A c : InHand(c) <=> c = Cur
        /\ cmd = [op |-> cmd.op, calls |-> cmd.calls, i |-> cmd.i, old |-> cmd.old, bad |-> cmd.bad]
        /\ cmd.i \in Int
<1>1. /\ cmd.calls \in Seq(Calls) /\ Len(cmd.calls) = 1 /\ Kind[Cur] \in {"single", "multi"}
      /\ cmd = [op |-> cmd.op, calls |-> cmd.calls, i |-> cmd.i, old |-> cmd.old, bad |-> cmd.bad]
      /\ cmd.i \in Int
  BY DEF WriterInv, CommandsOK, HandOK
<1>2. Cur \in Calls /\ \A c : InHand(c) <=> c = Cur
  BY <1>1 DEF InHand, Cur
<1>3. pc[Cur] \in {"waiting", "dropped"} /\ ~Queued(Cur)
  BY <1>2 DEF WriterInv, CommandsOK, HandOK
<1>4. loaded
  BY DEF WriterInv, HistoryKnown, LoadFirst
<1> QED BY <1>1, <1>2, <1>3, <1>4

(* The transaction goes on; nothing but the command, the files and the ledger changes. *)
LEMMA GoesOn ==
  ASSUME WriterInv, cmd.op \notin {"idle", "batch"}, NEW o \in Ops \ {"idle", "batch"},
         NEW i \in Int, NEW old, cmd' = [cmd EXCEPT !.op = o, !.i = i, !.old = old],
         UNCHANGED <<pc, reply, queue, cache, multi, loaded, loader, found, ino>>
  PROVE /\ CommandsOK' /\ CacheTypes' /\ LoadFirst' /\ LoaderBusy'
        /\ Cur' = Cur /\ cmd'.op = o
        /\ o \in BeforeAppend /\ cmd.op \in BeforeAppend
              => \A c \in Calls : ToDo(c)' => ToDo(c)
        /\ o \notin BeforeAppend => \A c \in Calls : ToDo(c)' => ToDo(c) /\ c # Cur
<1>1. /\ cmd'.op = o /\ cmd'.calls = cmd.calls /\ cmd'.i = i
      /\ cmd' = [op |-> cmd'.op, calls |-> cmd'.calls, i |-> cmd'.i, old |-> cmd'.old,
                 bad |-> cmd'.bad]
  BY Working
<1>2. CallsOK' /\ \A c \in Calls : Bears(c)
  BY DEF WriterInv, CommandsOK, CallsOK, Bears
<1>3. QueueOK' /\ \A c : Queued(c)' <=> Queued(c)
  BY <1>2, QueueSame DEF WriterInv, CommandsOK
<1>4. HandOK' /\ Cur' = Cur
  <2>1. \A c \in Calls : InHand(c) => ~Queued(c)' /\ Bears(c)
    BY <1>2, <1>3, NotBusy
  <2>2. cmd'.i \in Int
    BY <1>1
  <2> QED BY <1>1, <2>1, <2>2, HandNext DEF WriterInv, CommandsOK
<1>5. CacheTypes' /\ LoaderBusy'
  BY DEF WriterInv, CacheTypes, HistoryKnown, LoaderBusy
<1>6. LoadFirst'
  BY Working DEF WriterInv, HistoryKnown, LoadFirst
<1>7. \A c \in Calls : Kind[c] = "single" /\ (pc'[c] \in Early \/ Queued(c)') => ToDo(c) /\ c # Cur
  BY <1>3, Working DEF ToDo, Early
<1>8. \A c \in Calls : ToAppend(c)' <=> (o \in BeforeAppend /\ c = Cur)
  BY <1>1, <1>4 DEF ToAppend
<1>9. o \notin BeforeAppend => \A c \in Calls : ToDo(c)' => ToDo(c) /\ c # Cur
  BY <1>7, <1>8 DEF ToDo
<1>10. o \in BeforeAppend /\ cmd.op \in BeforeAppend => \A c \in Calls : ToDo(c)' => ToDo(c)
  BY <1>7, <1>8 DEF ToDo, ToAppend
<1> QED BY <1>1, <1>2, <1>3, <1>4, <1>5, <1>6, <1>9, <1>10 DEF CommandsOK

(* A step of a transaction that does not touch the ledger. *)
LEMMA GoesOnStep ==
  ASSUME WriterInv, cmd.op \in BeforeAppend \cup {"undo"},
         NEW o \in BeforeAppend \cup {"undo"}, o \in BeforeAppend => cmd.op \in BeforeAppend,
         NEW i \in Int, NEW old, cmd' = [cmd EXCEPT !.op = o, !.i = i, !.old = old],
         UNCHANGED <<pc, reply, queue, cache, multi, loaded, loader, found, ledger, ino, handle>>
  PROVE WriterInv'
<1>1. /\ cmd.op \notin {"idle", "batch"} /\ o \in Ops \ {"idle", "batch"}
      /\ cmd.op \notin AfterAppend /\ o \notin AfterAppend
  BY DEF BeforeAppend, AfterAppend, Ops
<1>2. /\ CommandsOK' /\ CacheTypes' /\ LoadFirst' /\ LoaderBusy'
      /\ Cur' = Cur /\ cmd'.op = o
      /\ \A c \in Calls : ToDo(c)' => ToDo(c)
  BY <1>1, GoesOn
<1>3. BooksOK' /\ SyncedKept /\ NoNewSingle
  <2>1. BooksOK /\ handle' \in 0..ino
    BY DEF WriterInv, BooksOK
  <2> QED BY <2>1, UnchangedBooks
<1>4. Fresh' /\ AppliedOnce'
  BY <1>2, <1>3, FreshKept, AppliedKept DEF WriterInv
<1>5. FoundAll'
  BY <1>3, FoundAllKept DEF WriterInv, HistoryKnown
<1>6. CacheComplete'
  BY <1>1, <1>3, CacheCompleteKept DEF WriterInv, HistoryKnown
<1>7. NextIsNew'
  BY <1>2, <1>3, NextIsNewKept DEF WriterInv, HistoryKnown
<1>8. CachesDurable' /\ FoundDurable'
  BY <1>3, CachesKept, FoundKept DEF WriterInv, DurableKnown
<1>9. HandDurable'
  BY <1>2, HandIdle DEF BeforeAppend
<1>10. RepliesDurable'
  BY <1>3, RepliesKept DEF WriterInv, DurableKnown
<1> QED BY <1>2, <1>3, <1>4, <1>5, <1>6, <1>7, <1>8, <1>9, <1>10
        DEF WriterInv, HistoryKnown, DurableKnown

(* The transaction ends with an answer. *)
LEMMA Ends ==
  ASSUME WriterInv, cmd.op \notin {"idle", "batch"}, NEW c, c = Cur,
         NEW v \in {"ok", "conflict", "uncertain", "failed", "absent"}, AnswerOne(c, v),
         cmd' = Idle, UNCHANGED <<queue, loaded, loader, found>>
  PROVE /\ CommandsOK' /\ LoadFirst' /\ LoaderBusy' /\ NextIsNew' /\ HandDurable'
        /\ \A d \in Calls : ToDo(d)' => ToDo(d)
        /\ \A d \in Calls : pc'[d] \in {"scanned", "answered"} => pc'[d] = pc[d]
        /\ \A d \in Calls : reply'[d] = reply[d] \/ (d = c /\ reply'[d] = v)
<1>1. c \in Calls /\ Kind[c] \in {"single", "multi"} /\ pc[c] \in {"waiting", "dropped"}
      /\ ~Queued(c) /\ loaded
  BY Working
<1>2. /\ CallsOK'
      /\ \A d \in Calls : d # c \/ pc[d] = "dropped" => pc'[d] = pc[d] /\ reply'[d] = reply[d]
      /\ pc[c] # "dropped" => pc'[c] \in {"answered", "done"} /\ reply'[c] = v
      /\ \A d \in Calls : pc'[d] = "answered" /\ pc[d] # "answered" => Kind[c] = "append"
  BY <1>1, AnsweringOne DEF WriterInv, CommandsOK
<1>3. QueueOK' /\ \A d : Queued(d)' <=> Queued(d)
  <2>1. \A d \in Calls : Queued(d) => Bears(d)
    BY <1>1, <1>2 DEF Bears
  <2> QED BY <2>1, QueueSame DEF WriterInv, CommandsOK
<1>4. HandOK' /\ cmd'.op = "idle"
  BY HandEmpty DEF Idle
<1>5. LoadFirst'
  BY <1>1 DEF WriterInv, HistoryKnown, LoadFirst
<1>6. LoaderBusy'
  <2>1. \A d \in Calls : pc[d] \in {"scanning", "scanned"} => pc'[d] = pc[d]
    BY <1>1, <1>2
  <2> QED BY <2>1 DEF WriterInv, HistoryKnown, LoaderBusy, CacheTypes
<1>7. NextIsNew' /\ HandDurable'
  BY <1>4, HandIdle DEF NextIsNew, BeforeAppend
<1>8. ASSUME NEW d \in Calls, ToDo(d)' PROVE ToDo(d)
  <2>1. ~ToAppend(d)'
    BY <1>4 DEF ToAppend, BeforeAppend
  <2>2. CASE d = c
    BY <1>1, <1>2, <1>3, <1>8, <2>1, <2>2 DEF ToDo, Early
  <2>3. CASE d # c
    BY <1>2, <1>3, <1>8, <2>1, <2>3 DEF ToDo, Early
  <2> QED BY <2>2, <2>3
<1>9. \A d \in Calls : pc'[d] \in {"scanned", "answered"} => pc'[d] = pc[d]
  BY <1>1, <1>2
<1>10. \A d \in Calls : reply'[d] = reply[d] \/ (d = c /\ reply'[d] = v)
  BY <1>2
<1> QED BY <1>2, <1>3, <1>4, <1>5, <1>6, <1>7, <1>8, <1>9, <1>10 DEF CommandsOK

LEMMA AbortStep ==
  ASSUME WriterInv, cmd.op \in BeforeAppend \cup {"undo"}, AnswerOne(Cur, "failed"), cmd' = Idle,
         UNCHANGED <<queue, cache, multi, loaded, loader, found, ledger, ino, handle>>
  PROVE WriterInv'
<1>1. cmd.op \notin {"idle", "batch"} /\ cmd.op \notin AfterAppend
  BY DEF BeforeAppend, AfterAppend
<1>2. PICK c : c = Cur
  OBVIOUS
<1>3. /\ CommandsOK' /\ LoadFirst' /\ LoaderBusy' /\ NextIsNew' /\ HandDurable'
      /\ \A d \in Calls : ToDo(d)' => ToDo(d)
      /\ \A d \in Calls : pc'[d] \in {"scanned", "answered"} => pc'[d] = pc[d]
      /\ \A d \in Calls : reply'[d] = reply[d] \/ (d = c /\ reply'[d] = "failed")
  BY <1>1, <1>2, Ends
<1>4. BooksOK' /\ SyncedKept /\ NoNewSingle
  <2>1. BooksOK /\ handle' \in 0..ino
    BY DEF WriterInv, BooksOK
  <2> QED BY <2>1, UnchangedBooks
<1>5. Fresh' /\ AppliedOnce'
  BY <1>3, <1>4, FreshKept, AppliedKept DEF WriterInv
<1>6. FoundAll'
  <2>1. \A d \in Calls : pc'[d] = "scanned" => pc[d] = "scanned"
    BY <1>3
  <2> QED BY <1>4, <2>1, FoundAllKept DEF WriterInv, HistoryKnown
<1>7. CacheComplete'
  BY <1>1, <1>4, CacheCompleteKept DEF WriterInv, HistoryKnown
<1>8. CachesDurable' /\ FoundDurable'
  BY <1>4, CachesKept, FoundKept DEF WriterInv, DurableKnown
<1>9. RepliesDurable'
  <2>1. \A d \in Calls : pc'[d] = "answered" => pc[d] = "answered"
    BY <1>3
  <2>2. \A d \in Calls : reply'[d] = "ok" => reply[d] = "ok"
    BY <1>3
  <2> QED BY <1>4, <2>1, <2>2, RepliesKept DEF WriterInv, DurableKnown
<1>10. CacheTypes'
  BY DEF WriterInv, CacheTypes
<1> QED BY <1>3, <1>4, <1>5, <1>6, <1>7, <1>8, <1>9, <1>10
        DEF WriterInv, HistoryKnown, DurableKnown

LEMMA RewriteStep ==
  ASSUME WriterInv, Stage \/ Backup \/ Rename \/ Undo
  PROVE WriterInv'
<1>1. /\ cmd.op \in BeforeAppend \cup {"undo"}
      /\ UNCHANGED <<queue, cache, multi, loaded, loader, found, ledger, ino, handle>>
  BY DEF Stage, Backup, Rename, Undo, Running, BeforeAppend
<1>2. /\ cmd = [op |-> cmd.op, calls |-> cmd.calls, i |-> cmd.i, old |-> cmd.old, bad |-> cmd.bad]
      /\ cmd.i \in Int
  <2>1. cmd.op \notin {"idle", "batch"}
    BY <1>1 DEF BeforeAppend
  <2> QED BY <2>1, Working
<1>3. CASE AnswerOne(Cur, "failed") /\ cmd' = Idle
  BY <1>1, <1>3, AbortStep
<1>4. ASSUME NEW o \in BeforeAppend \cup {"undo"}, o \in BeforeAppend => cmd.op \in BeforeAppend,
             NEW i \in Int, NEW old, cmd' = [cmd EXCEPT !.op = o, !.i = i, !.old = old],
             UNCHANGED <<pc, reply>>
      PROVE WriterInv'
  BY <1>1, <1>4, GoesOnStep
<1>5. ASSUME NEW o \in BeforeAppend \cup {"undo"}, o \in BeforeAppend => cmd.op \in BeforeAppend,
             NEW i \in Int, cmd' = [cmd EXCEPT !.op = o, !.i = i], UNCHANGED <<pc, reply>>
      PROVE WriterInv'
  <2>1. cmd' = [cmd EXCEPT !.op = o, !.i = i, !.old = cmd.old]
    BY <1>2, <1>5
  <2>2. PICK old : cmd' = [cmd EXCEPT !.op = o, !.i = i, !.old = old]
    BY <2>1
  <2> QED BY <1>4, <1>5, <2>2
<1>6. CASE Stage
  <2>1. cmd.op = "stage" /\ cmd.op \in BeforeAppend /\ "backup" \in BeforeAppend
    BY <1>6 DEF Stage, Running, BeforeAppend
  <2>2. \/ cmd' = [cmd EXCEPT !.op = "backup", !.i = 1] /\ UNCHANGED <<pc, reply>>
        \/ cmd' = [cmd EXCEPT !.i = @ + 1] /\ UNCHANGED <<pc, reply>>
        \/ AnswerOne(Cur, "failed") /\ cmd' = Idle
    BY <1>6 DEF Stage, Abort
  <2>3. CASE cmd' = [cmd EXCEPT !.i = @ + 1] /\ UNCHANGED <<pc, reply>>
    <3>1. cmd' = [cmd EXCEPT !.op = "stage", !.i = cmd.i + 1]
      BY <1>2, <2>1, <2>3
    <3>2. PICK i \in Int : i = cmd.i + 1
      BY <1>2
    <3> QED BY <1>5, <2>1, <2>3, <3>1, <3>2
  <2>4. CASE cmd' = [cmd EXCEPT !.op = "backup", !.i = 1] /\ UNCHANGED <<pc, reply>>
    <3>1. PICK o \in BeforeAppend : o = "backup"
      BY <2>1
    <3>2. PICK i \in Int : i = 1
      OBVIOUS
    <3>3. cmd' = [cmd EXCEPT !.op = o, !.i = i]
      BY <2>4, <3>1, <3>2
    <3> QED BY <1>5, <2>1, <2>4, <3>3
  <2> QED BY <1>3, <2>2, <2>3, <2>4
<1>7. CASE Backup
  <2>1. cmd.op = "backup" /\ cmd.op \in BeforeAppend /\ "rename" \in BeforeAppend
    BY <1>7 DEF Backup, Running, BeforeAppend
  <2>2. \/ cmd' = [cmd EXCEPT !.op = "rename", !.i = 1] /\ UNCHANGED <<pc, reply>>
        \/ /\ cmd' = [cmd EXCEPT !.i = @ + 1, !.old = Append(@, disk[Target])]
           /\ UNCHANGED <<pc, reply>>
        \/ AnswerOne(Cur, "failed") /\ cmd' = Idle
    BY <1>7 DEF Backup, Abort
  <2>3. CASE /\ cmd' = [cmd EXCEPT !.i = @ + 1, !.old = Append(@, disk[Target])]
             /\ UNCHANGED <<pc, reply>>
    <3>1. PICK i \in Int : i = cmd.i + 1
      BY <1>2
    <3>2. PICK old : old = Append(cmd.old, disk[Target])
      OBVIOUS
    <3>3. cmd' = [cmd EXCEPT !.op = "backup", !.i = i, !.old = old]
      BY <1>2, <2>1, <2>3, <3>1, <3>2
    <3> QED BY <1>4, <2>1, <2>3, <3>3
  <2>4. CASE cmd' = [cmd EXCEPT !.op = "rename", !.i = 1] /\ UNCHANGED <<pc, reply>>
    <3>1. PICK o \in BeforeAppend : o = "rename"
      BY <2>1
    <3>2. PICK i \in Int : i = 1
      OBVIOUS
    <3>3. cmd' = [cmd EXCEPT !.op = o, !.i = i]
      BY <2>4, <3>1, <3>2
    <3> QED BY <1>5, <2>1, <2>4, <3>3
  <2> QED BY <1>3, <2>2, <2>3, <2>4
<1>8. CASE Rename
  <2>1. cmd.op = "rename" /\ cmd.op \in BeforeAppend /\ "append" \in BeforeAppend
        /\ UNCHANGED <<pc, reply>> /\ "undo" \notin BeforeAppend
    BY <1>8 DEF Rename, Running, BeforeAppend
  <2>2. \/ cmd' = [cmd EXCEPT !.op = "append", !.i = 1]
        \/ cmd' = [cmd EXCEPT !.i = @ + 1]
        \/ cmd' = [cmd EXCEPT !.op = "undo", !.i = @ - 1]
    BY <1>8 DEF Rename
  <2>3. CASE cmd' = [cmd EXCEPT !.i = @ + 1]
    <3>1. cmd' = [cmd EXCEPT !.op = "rename", !.i = cmd.i + 1]
      BY <1>2, <2>1, <2>3
    <3>2. PICK i \in Int : i = cmd.i + 1
      BY <1>2
    <3> QED BY <1>5, <2>1, <3>1, <3>2
  <2>4. CASE cmd' = [cmd EXCEPT !.op = "undo", !.i = @ - 1]
    <3>1. PICK i \in Int : i = cmd.i - 1
      BY <1>2
    <3>2. cmd' = [cmd EXCEPT !.op = "undo", !.i = i]
      BY <1>2, <2>4, <3>1
    <3> QED BY <1>5, <2>1, <3>2
  <2>5. CASE cmd' = [cmd EXCEPT !.op = "append", !.i = 1]
    <3>1. PICK o \in BeforeAppend : o = "append"
      BY <2>1
    <3>2. PICK i \in Int : i = 1
      OBVIOUS
    <3>3. cmd' = [cmd EXCEPT !.op = o, !.i = i]
      BY <2>5, <3>1, <3>2
    <3> QED BY <1>5, <2>1, <2>5, <3>3
  <2> QED BY <2>2, <2>3, <2>4, <2>5
<1>9. CASE Undo
  <2>1. cmd.op = "undo" /\ "undo" \notin BeforeAppend
    BY <1>9 DEF Undo, Running, BeforeAppend
  <2>2. \/ cmd' = [cmd EXCEPT !.i = @ - 1] /\ UNCHANGED <<pc, reply>>
        \/ AnswerOne(Cur, "failed") /\ cmd' = Idle
    BY <1>9 DEF Undo, Abort
  <2>3. CASE cmd' = [cmd EXCEPT !.i = @ - 1] /\ UNCHANGED <<pc, reply>>
    <3>1. cmd' = [cmd EXCEPT !.op = "undo", !.i = cmd.i - 1]
      BY <1>2, <2>1, <2>3
    <3>2. PICK i \in Int : i = cmd.i - 1
      BY <1>2
    <3> QED BY <1>5, <2>1, <2>3, <3>1, <3>2
  <2> QED BY <1>3, <2>2, <2>3
<1> QED BY <1>6, <1>7, <1>8, <1>9

LEMMA Appended ==
  ASSUME WriterInv, cmd.op = "append", NEW c, c = Cur, NEW o \in {"sync", "undo"},
         NEW i \in Int, NEW old, cmd' = [cmd EXCEPT !.op = o, !.i = i, !.old = old],
         NEW s \in Seq(Entry), ledger' = Written(ino, s), \A j \in DOMAIN s : s[j].call = c,
         o = "sync" => 1 \in DOMAIN s, Kind[c] = "single" => DOMAIN s \subseteq {1},
         o = "undo" /\ Kind[c] = "single" => DOMAIN s = {},
         handle' = ino,
         UNCHANGED <<pc, reply, queue, cache, multi, loaded, loader, found, ino>>
  PROVE WriterInv'
<1>1. /\ c \in Calls /\ Kind[c] \in {"single", "multi"} /\ loaded
      /\ pc[c] \in {"waiting", "dropped"} /\ ~Queued(c)
  BY Working
<1>2. /\ CommandsOK' /\ CacheTypes' /\ LoadFirst' /\ LoaderBusy'
      /\ Cur' = c /\ cmd'.op = o
      /\ \A d \in Calls : ToDo(d)' => ToDo(d) /\ d # c
  <2>1. o \in Ops \ {"idle", "batch"} /\ o \notin BeforeAppend
    BY DEF Ops, BeforeAppend, AfterAppend
  <2> QED BY <2>1, GoesOn
<1>3. /\ BooksOK' /\ SyncedKept
      /\ \A m \in 1..MaxInode : \A k \in DOMAIN ledger'[m].log :
            \/ k \in DOMAIN ledger[m].log /\ ledger'[m].log[k] = ledger[m].log[k]
            \/ m = ino /\ k > Len(ledger[m].log) /\ \E j \in DOMAIN s : ledger'[m].log[k] = s[j]
      /\ \A j \in DOMAIN s : LET k == Len(ledger[ino].log) + j IN
            k \in DOMAIN ledger'[ino].log /\ ledger'[ino].log[k] = s[j]
  <2>1. BooksOK /\ ino \in 1..ino /\ handle' \in 0..ino
    BY DEF WriterInv, BooksOK
  <2> QED BY <2>1, WrittenKeeps
<1>4. FoundAll'
  <2>1. \A d \in Calls : pc[d] # "scanned"
    BY <1>1, CallAssumption DEF WriterInv, HistoryKnown, FoundAll, LoadFirst
  <2> QED BY <2>1 DEF FoundAll
<1>5. NextIsNew'
  BY <1>2 DEF NextIsNew, BeforeAppend
<1>6. CachesDurable' /\ FoundDurable'
  BY <1>3, CachesKept, FoundKept DEF WriterInv, DurableKnown
<1>7. RepliesDurable'
  BY <1>3, RepliesKept DEF WriterInv, DurableKnown
<1>8. HandDurable'
  <2>1. CASE o = "undo"
    BY <1>2, <2>1, HandIdle
  <2>2. CASE o = "sync"
    <3>1. PICK k \in DOMAIN ledger'[ino].log : ledger'[ino].log[k] = s[1]
      BY <1>3, <2>2
    <3>2. ledger'[ino].log[k].call = c /\ ino # 0
      BY <2>2, <3>1 DEF WriterInv, BooksOK
    <3>3. InHandle(c)'
      BY <3>1, <3>2 DEF InHandle
    <3>4. InHandle(Cur)'
      BY <1>2, <3>3 DEF InHandle
    <3> QED BY <1>2, <2>2, <3>4 DEF HandDurable
  <2> QED BY <2>1, <2>2
<1>9. CASE NoNewSingle
  <2>1. Fresh' /\ AppliedOnce'
    BY <1>2, <1>9, FreshKept, AppliedKept DEF WriterInv
  <2>2. CacheComplete'
    <3>1. cmd.op \notin AfterAppend
      BY DEF AfterAppend
    <3> QED BY <1>3, <1>9, <3>1, CacheCompleteKept DEF WriterInv, HistoryKnown
  <2> QED BY <1>2, <1>3, <1>4, <1>5, <1>6, <1>7, <1>8, <2>1, <2>2
          DEF WriterInv, HistoryKnown, DurableKnown
<1>10. CASE Kind[c] # "single" \/ DOMAIN s = {}
  <2>1. \A j \in DOMAIN s : Kind[s[j].call] # "single"
    BY <1>10
  <2>2. BooksOK /\ ino \in 1..ino /\ handle' \in 0..ino
    BY DEF WriterInv, BooksOK
  <2> QED BY <1>9, <2>1, <2>2, WrittenOthers
<1>11. CASE Kind[c] = "single" /\ o = "sync" /\ DOMAIN s = {1}
  <2>1. ASSUME NEW m \in 1..MaxInode, NEW k \in DOMAIN ledger'[m].log
        PROVE \/ k \in DOMAIN ledger[m].log /\ ledger'[m].log[k] = ledger[m].log[k]
              \/ m = ino /\ k = Len(ledger[m].log) + 1 /\ ledger'[m].log[k].call = c
    <3>1. CASE k \in DOMAIN ledger[m].log /\ ledger'[m].log[k] = ledger[m].log[k]
      BY <3>1
    <3>2. CASE m = ino /\ k > Len(ledger[m].log) /\ \E j \in DOMAIN s : ledger'[m].log[k] = s[j]
      <4>1. ledger'[m].log[k].call = c
        BY <3>2
      <4>2. k <= Len(ledger'[m].log) /\ k \in Nat
        BY <1>3, LogTyped DEF BooksOK
      <4>3. Len(ledger'[m].log) = Len(ledger[m].log) + 1 /\ Len(ledger[m].log) \in Nat
        <5> DEFINE l == ledger[ino].log
        <5>1. ledger'[ino].log = l \o s /\ l \in Seq(Entry)
          <6>1. BooksOK /\ ino \in 1..ino /\ handle' \in 0..ino /\ ino \in 1..MaxInode
            BY DEF WriterInv, BooksOK
          <6> QED BY <6>1, WrittenBooks DEF BooksOK
        <5> HIDE DEF l
        <5>2. Len(s) = 1
          BY <1>11
        <5>3. Len(l \o s) = Len(l) + Len(s) /\ Len(l) \in Nat
          BY <5>1, Concat
        <5> QED BY <3>2, <5>1, <5>2, <5>3 DEF l
      <4> QED BY <3>2, <4>1, <4>2, <4>3
    <3> QED BY <1>3, <3>1, <3>2
  <2>2. ino \in 1..MaxInode
    BY LogTyped DEF WriterInv
  <2>3. Fresh'
    <3>1. ASSUME NEW d \in Calls, ToDo(d)' PROVE ~Tells(d)'
      <4>1. ~Tells(d) /\ d # c
        BY <1>2, <3>1 DEF WriterInv, Fresh, ToDo, Early
      <4> QED BY <2>1, <4>1 DEF Tells
    <3> QED BY <3>1 DEF Fresh, ToDo, Early
  <2>4. \A k \in DOMAIN ledger[ino].log : ~(IsSingle(ino, k) /\ ReqAt(ino, k) = ReqOf[c])
    BY <1>11 DEF WriterInv, HistoryKnown, NextIsNew, BeforeAppend
  <2>5. AppliedOnce'
    <3> SUFFICES ASSUME NEW j \in DOMAIN ledger'[ino].log, NEW k \in DOMAIN ledger'[ino].log,
                        Kind[ledger'[ino].log[j].call] = "single",
                        Kind[ledger'[ino].log[k].call] = "single",
                        ReqOf[ledger'[ino].log[j].call] = ReqOf[ledger'[ino].log[k].call]
                 PROVE j = k
      BY DEF AppliedOnce, IsSingle, ReqAt
    <3>1. CASE j \in DOMAIN ledger[ino].log /\ ledger'[ino].log[j] = ledger[ino].log[j]
               /\ k \in DOMAIN ledger[ino].log /\ ledger'[ino].log[k] = ledger[ino].log[k]
      BY <3>1 DEF WriterInv, AppliedOnce, IsSingle, ReqAt
    <3>2. CASE j = Len(ledger[ino].log) + 1 /\ ledger'[ino].log[j].call = c
      BY <2>1, <2>2, <2>4, <3>2 DEF IsSingle, ReqAt
    <3>3. CASE k = Len(ledger[ino].log) + 1 /\ ledger'[ino].log[k].call = c
      BY <2>1, <2>2, <2>4, <3>3 DEF IsSingle, ReqAt
    <3> QED BY <2>1, <2>2, <3>1, <3>2, <3>3
  <2>6. CacheComplete'
    <3> SUFFICES ASSUME NEW k \in DOMAIN ledger'[ino].log, Kind[ledger'[ino].log[k].call] = "single"
                 PROVE \/ cache[ReqOf[ledger'[ino].log[k].call]] # Missing
                       \/ ledger'[ino].log[k].call = c
      BY <1>2, <1>11 DEF CacheComplete, IsSingle, ReqAt, AfterAppend
    <3>1. CASE k \in DOMAIN ledger[ino].log /\ ledger'[ino].log[k] = ledger[ino].log[k]
      BY <1>1, <3>1 DEF WriterInv, HistoryKnown, CacheComplete, IsSingle, ReqAt, AfterAppend
    <3> QED BY <2>1, <2>2, <3>1
  <2> QED BY <1>2, <1>3, <1>4, <1>5, <1>6, <1>7, <1>8, <2>3, <2>5, <2>6
          DEF WriterInv, HistoryKnown, DurableKnown
<1> QED BY <1>10, <1>11

LEMMA AppendEntriesStep ==
  ASSUME WriterInv, AppendEntries
  PROVE WriterInv'
<1>1. PICK c : c = Cur
  OBVIOUS
<1>2. /\ cmd.op = "append" /\ handle' = ino
      /\ UNCHANGED <<pc, reply, queue, cache, multi, loaded, loader, found, ino>>
  BY DEF AppendEntries, Running
<1>3. /\ c \in Calls /\ Kind[c] \in {"single", "multi"} /\ cmd.i \in Int
      /\ cmd = [op |-> cmd.op, calls |-> cmd.calls, i |-> cmd.i, old |-> cmd.old, bad |-> cmd.bad]
  BY <1>1, <1>2, Working
<1> DEFINE s == EntriesOf(c)
<1>4. /\ s \in Seq(Entry) /\ Len(s) = Parts(c) /\ DOMAIN s = 1..Parts(c)
      /\ \A j \in DOMAIN s : s[j].call = c
      /\ Parts(c) \in {1, 2} /\ (Kind[c] = "single" => Parts(c) = 1)
  <2>1. /\ s \in Seq(Entry) /\ Len(s) = Parts(c) /\ \A j \in DOMAIN s : s[j].call = c
    BY <1>3, EntriesTyped
  <2> HIDE DEF s
  <2>2. DOMAIN s = 1..Parts(c)
    BY <2>1
  <2> QED BY <2>1, <2>2 DEF Parts
<1>5. CASE ledger' = Written(ino, s) /\ cmd' = [cmd EXCEPT !.op = "sync"]
  <2>1. PICK o \in {"sync", "undo"} : o = "sync"
    OBVIOUS
  <2>2. PICK i \in Int : i = cmd.i
    BY <1>3
  <2>3. PICK old : old = cmd.old
    OBVIOUS
  <2>4. cmd' = [cmd EXCEPT !.op = o, !.i = i, !.old = old]
    BY <1>3, <1>5, <2>1, <2>2, <2>3
  <2>5. /\ o = "sync" => 1 \in DOMAIN s
        /\ Kind[c] = "single" => DOMAIN s \subseteq {1}
        /\ o = "undo" /\ Kind[c] = "single" => DOMAIN s = {}
    BY <1>4, <2>1
  <2>6. s \in Seq(Entry) /\ (\A j \in DOMAIN s : s[j].call = c) /\ ledger' = Written(ino, s)
    BY <1>4, <1>5
  <2> HIDE DEF s
  <2> QED BY <1>1, <1>2, <2>1, <2>4, <2>5, <2>6, Appended
<1>6. ASSUME NEW n \in 0..(Parts(c) - 1), ledger' = Written(ino, SubSeq(s, 1, n)),
             cmd' = [cmd EXCEPT !.op = "undo", !.i = Len(Rewrites[c])]
      PROVE WriterInv'
  <2> DEFINE u == SubSeq(s, 1, n)
  <2> HIDE DEF s
  <2>1. n \in Nat /\ n <= Len(s) /\ (Kind[c] = "single" => n = 0)
    BY <1>4
  <2>2. /\ u \in Seq(Entry) /\ DOMAIN u = 1..n /\ \A j \in DOMAIN u : u[j].call = c
    BY <1>4, <2>1
  <2>3. PICK o \in {"sync", "undo"} : o = "undo"
    OBVIOUS
  <2>4. PICK i \in Int : i = Len(Rewrites[c])
    <3>1. Rewrites[c] \in Seq(Files)
      BY <1>3, CallAssumption
    <3>2. Len(Rewrites[c]) \in Int
      BY <3>1
    <3> QED BY <3>2
  <2>5. PICK old : old = cmd.old
    OBVIOUS
  <2>6. cmd' = [cmd EXCEPT !.op = o, !.i = i, !.old = old]
    BY <1>3, <1>6, <2>3, <2>4, <2>5
  <2>7. Kind[c] = "single" => DOMAIN u = {} /\ DOMAIN u \subseteq {1}
    BY <2>1, <2>2
  <2>8. ledger' = Written(ino, u)
    BY <1>6
  <2> HIDE DEF u
  <2> QED BY <1>1, <1>2, <2>2, <2>3, <2>6, <2>7, <2>8, Appended
<1> QED BY <1>1, <1>5, <1>6 DEF AppendEntries, Last

LEMMA SyncStep ==
  ASSUME WriterInv, Sync
  PROVE WriterInv'
<1>1. PICK c : c = Cur
  OBVIOUS
<1>2. /\ cmd.op = "sync" /\ UNCHANGED <<pc, reply, queue, cache, multi, loaded, loader, found, ino, handle>>
      /\ \/ ledger' = Synced(handle) /\ cmd' = [cmd EXCEPT !.op = "durable"]
         \/ UNCHANGED ledger /\ cmd' = [cmd EXCEPT !.op = "uncertain"]
  BY DEF Sync, Running
<1>3. /\ c \in Calls /\ Kind[c] \in {"single", "multi"} /\ loaded /\ cmd.i \in Int
      /\ cmd = [op |-> cmd.op, calls |-> cmd.calls, i |-> cmd.i, old |-> cmd.old, bad |-> cmd.bad]
  BY <1>1, <1>2, Working
<1>4. PICK o \in {"durable", "uncertain"} :
         /\ cmd' = [cmd EXCEPT !.op = o]
         /\ o = "durable" => ledger' = Synced(handle)
         /\ o = "uncertain" => UNCHANGED ledger
  BY <1>2
<1>5. /\ CommandsOK' /\ CacheTypes' /\ LoadFirst' /\ LoaderBusy'
      /\ Cur' = c /\ cmd'.op = o
      /\ \A d \in Calls : ToDo(d)' => ToDo(d)
  <2>1. PICK i \in Int : i = cmd.i
    BY <1>3
  <2>2. PICK old : old = cmd.old
    OBVIOUS
  <2>3. cmd' = [cmd EXCEPT !.op = o, !.i = i, !.old = old]
    BY <1>3, <1>4, <2>1, <2>2
  <2>4. o \in Ops \ {"idle", "batch"} /\ o \notin BeforeAppend
    BY DEF Ops, BeforeAppend, AfterAppend
  <2> QED BY <1>1, <1>2, <2>3, <2>4, GoesOn
<1>6. /\ BooksOK' /\ SyncedKept /\ NoNewSingle
      /\ o = "durable" /\ handle # 0 =>
            ledger'[handle].log = ledger[handle].log
            /\ ledger'[handle].synced = Len(ledger[handle].log)
  <2>1. BooksOK /\ handle \in 0..ino /\ handle' \in 0..ino /\ ino' = ino /\ handle \in 0..MaxInode
    BY <1>2, WriterBounds DEF WriterInv, BooksOK
  <2>2. CASE o = "durable"
    <3>1. BooksOK' /\ SyncedKept /\ NoNewSingle
      BY <1>4, <2>1, <2>2, SyncedStep
    <3>2. /\ \A m \in 1..MaxInode : ledger'[m].log = ledger[m].log
          /\ handle # 0 => ledger'[handle].synced = Len(ledger[handle].log)
      BY <1>4, <2>1, <2>2, SyncedBooks
    <3> QED BY <2>1, <3>1, <3>2
  <2>3. CASE o = "uncertain"
    BY <1>4, <2>1, <2>3, UnchangedBooks
  <2> QED BY <2>2, <2>3
<1>7. Fresh' /\ AppliedOnce'
  BY <1>5, <1>6, FreshKept, AppliedKept DEF WriterInv
<1>8. FoundAll'
  BY <1>2, <1>6, FoundAllKept DEF WriterInv, HistoryKnown
<1>9. CacheComplete'
  <2>1. cmd'.op \in AfterAppend /\ Cur' = Cur
    BY <1>1, <1>5 DEF AfterAppend
  <2> QED BY <1>2, <1>6, <2>1, CacheCompleteKept DEF WriterInv, HistoryKnown
<1>10. NextIsNew'
  BY <1>5 DEF NextIsNew, BeforeAppend
<1>11. CachesDurable' /\ FoundDurable'
  BY <1>2, <1>6, CachesKept, FoundKept DEF WriterInv, DurableKnown
<1>12. RepliesDurable'
  BY <1>2, <1>6, RepliesKept DEF WriterInv, DurableKnown
<1>13. HandDurable'
  <2>1. CASE o = "uncertain"
    BY <1>5, <2>1, HandIdle
  <2>2. CASE o = "durable"
    <3>1. InHandle(c) /\ handle \in 1..MaxInode
      <4>1. InHandle(c)
        BY <1>1, <1>2 DEF WriterInv, DurableKnown, HandDurable
      <4>2. handle \in 0..ino /\ ino \in 1..MaxInode
        BY DEF WriterInv, BooksOK
      <4> QED BY <4>1, <4>2, WriterBounds DEF InHandle
    <3>2. PICK k \in DOMAIN ledger[handle].log : ledger[handle].log[k].call = c
      BY <3>1 DEF InHandle
    <3>3. k \in 1..ledger'[handle].synced /\ ledger'[handle].log[k].call = c
      BY <1>6, <2>2, <3>1, <3>2, LogTyped DEF WriterInv
    <3>4. DurableCall(c)'
      BY <3>1, <3>3 DEF DurableCall
    <3>5. DurableCall(Cur)'
      BY <1>5, <3>4 DEF DurableCall
    <3> QED BY <1>5, <2>2, <3>5 DEF HandDurable
  <2> QED BY <2>1, <2>2
<1> QED BY <1>5, <1>6, <1>7, <1>8, <1>9, <1>10, <1>11, <1>12, <1>13
        DEF WriterInv, HistoryKnown, DurableKnown

LEMMA FinishStep ==
  ASSUME WriterInv, Finish
  PROVE WriterInv'
<1>1. PICK c : c = Cur
  OBVIOUS
<1>2. PICK o \in {"durable", "uncertain"} : o = cmd.op
  BY DEF Finish, Running
<1> DEFINE m == [tx |-> c, ident |-> IdentOf[c], named |-> Named[c], dur |-> o]
           group == OfEntry(m)
           r == ReqOf[c]
<1>3. PICK v \in {"ok", "uncertain"} : v = IF o = "durable" THEN "ok" ELSE "uncertain"
  OBVIOUS
<1>4. /\ IF Kind[c] = "multi"
         THEN /\ multi' = [multi EXCEPT ![r] = m]
              /\ cache' = IF o = "durable" THEN [cache EXCEPT ![r] = group] ELSE cache
         ELSE cache' = [cache EXCEPT ![r] = m] /\ UNCHANGED multi
      /\ AnswerOne(c, v) /\ cmd' = Idle
      /\ UNCHANGED <<queue, loaded, loader, found, ledger, ino, handle>>
  BY <1>1, <1>2, <1>3 DEF Finish, GroupKnown
<1>5. c \in Calls /\ Kind[c] \in {"single", "multi"} /\ cmd.op \notin {"idle", "batch"}
      /\ r \in Requests
  BY <1>1, <1>2, Working, CallAssumption
<1>6. /\ m \in Cached /\ m.tx = c /\ m.dur = o /\ m # Missing
      /\ group \in Cached /\ group.tx = c /\ group.dur = "durable" /\ group # Missing
  <2>1. m \in Cached /\ m.ident \in Idents /\ m.tx = c /\ m.dur = o
    BY <1>5, CallAssumption DEF Cached
  <2>2. \A g \in Cached : g # Missing
    BY CallAssumption DEF Cached, Missing
  <2> QED BY <2>1, <2>2, EntryCached
<1> HIDE DEF m, group, r
<1>7. /\ CommandsOK' /\ LoadFirst' /\ LoaderBusy' /\ NextIsNew' /\ HandDurable'
      /\ \A d \in Calls : ToDo(d)' => ToDo(d)
      /\ \A d \in Calls : pc'[d] \in {"scanned", "answered"} => pc'[d] = pc[d]
      /\ \A d \in Calls : reply'[d] = reply[d] \/ (d = c /\ reply'[d] = v)
  BY <1>1, <1>4, <1>5, Ends
<1>8. BooksOK' /\ SyncedKept /\ NoNewSingle
  <2>1. BooksOK /\ handle' \in 0..ino
    BY <1>4 DEF WriterInv, BooksOK
  <2> QED BY <1>4, <2>1, UnchangedBooks
<1>9. Fresh' /\ AppliedOnce'
  BY <1>7, <1>8, FreshKept, AppliedKept DEF WriterInv
<1>10. FoundAll'
  <2>1. \A d \in Calls : pc'[d] = "scanned" => pc[d] = "scanned"
    BY <1>7
  <2> QED BY <1>4, <1>8, <2>1, FoundAllKept DEF WriterInv, HistoryKnown
<1>11. o = "durable" => DurableCall(c)
  BY <1>1, <1>2 DEF WriterInv, DurableKnown, HandDurable
<1>12. \A q \in Requests :
          /\ \/ cache'[q] \in {cache[q], m}
             \/ cache'[q] = group /\ o = "durable"
          /\ cache'[q] # cache[q] => q = r
          /\ multi'[q] \in {multi[q], m} /\ (multi'[q] # multi[q] => q = r)
          /\ Kind[c] = "single" /\ q = r => cache'[q] = m
  <2>1. cache \in [Requests -> Cached \cup {Missing}] /\ multi \in [Requests -> Cached \cup {Missing}]
    BY DEF WriterInv, CacheTypes
  <2> QED BY <1>4, <1>5, <2>1
<1>13. CacheTypes'
  <2>1. \A q \in Requests : /\ cache'[q] \in Cached \cup {Missing}
                            /\ multi'[q] \in Cached \cup {Missing}
    BY <1>6, <1>12 DEF WriterInv, CacheTypes
  <2>2. DOMAIN cache' = Requests /\ DOMAIN multi' = Requests
        /\ cache' = [q \in DOMAIN cache' |-> cache'[q]]
        /\ multi' = [q \in DOMAIN multi' |-> multi'[q]]
    BY <1>4 DEF WriterInv, CacheTypes
  <2>3. cache' \in [Requests -> Cached \cup {Missing}] /\ multi' \in [Requests -> Cached \cup {Missing}]
    BY <2>1, <2>2
  <2> QED BY <1>4, <2>3 DEF WriterInv, CacheTypes
<1>14. CacheComplete'
  <2>1. \A q \in Requests : cache[q] # Missing => cache'[q] # Missing
    BY <1>6, <1>12
  <2>2. Kind[Cur] = "single" => cache'[ReqOf[Cur]] # Missing
    BY <1>1, <1>5, <1>6, <1>12 DEF r
  <2> QED BY <1>4, <1>8, <2>1, <2>2, CacheCompleteKept DEF WriterInv, HistoryKnown
<1>15. CachesDurable'
  <2> SUFFICES ASSUME NEW q \in Requests
               PROVE /\ cache'[q] # Missing =>
                           /\ ReqOf[cache'[q].tx] = q
                           /\ cache'[q].dur = "durable" => DurableCall(cache[q].tx)'
                     /\ multi'[q] # Missing =>
                           /\ ReqOf[multi'[q].tx] = q
                           /\ multi'[q].dur = "durable" => DurableCall(multi[q].tx)'
    BY DEF CachesDurable
  <2>1. PICK a : a = cache'[q].tx
    OBVIOUS
  <2>2. PICK b : b = multi'[q].tx
    OBVIOUS
  <2>3. /\ DurableCall(a) => DurableCall(a)'
        /\ DurableCall(b) => DurableCall(b)'
    BY <1>8, DurableStays DEF WriterInv
  <2>4. ReqOf[c] = r
    BY DEF r
  <2>5. cache'[q] # Missing => ReqOf[a] = q /\ (cache'[q].dur = "durable" => DurableCall(a))
    <3>1. CASE cache'[q] = cache[q]
      BY <2>1, <3>1 DEF WriterInv, DurableKnown, CachesDurable
    <3>2. CASE (cache'[q] = m \/ (cache'[q] = group /\ o = "durable")) /\ q = r
      BY <1>6, <1>11, <2>1, <2>4, <3>2
    <3> QED BY <1>12, <3>1, <3>2
  <2>6. multi'[q] # Missing => ReqOf[b] = q /\ (multi'[q].dur = "durable" => DurableCall(b))
    <3>1. CASE multi'[q] = multi[q]
      BY <2>2, <3>1 DEF WriterInv, DurableKnown, CachesDurable
    <3>2. CASE multi'[q] = m /\ q = r
      BY <1>6, <1>11, <2>2, <2>4, <3>2
    <3> QED BY <1>12, <3>1, <3>2
  <2> QED BY <2>1, <2>2, <2>3, <2>5, <2>6
<1>16. FoundDurable'
  BY <1>4, <1>8, FoundKept DEF WriterInv, DurableKnown
<1>17. RepliesDurable'
  <2>1. \A d \in Calls : pc'[d] = "answered" => pc[d] = "answered"
    BY <1>7
  <2>2. o = "durable" => DurableCall(c)'
    BY <1>8, <1>11, DurableStays DEF WriterInv
  <2>3. \A d \in Calls : reply'[d] = "ok" =>
           reply[d] = "ok" \/ \E e \in Calls : ReqOf[e] = ReqOf[d] /\ DurableCall(e)'
    BY <1>3, <1>5, <1>7, <2>2
  <2> QED BY <1>8, <2>1, <2>3, RepliesKept DEF WriterInv, DurableKnown
<1> QED BY <1>7, <1>8, <1>9, <1>10, <1>13, <1>14, <1>15, <1>16, <1>17
        DEF WriterInv, HistoryKnown, DurableKnown

(***************************************************************************)
(* The writer executes a batch.                                            *)
(***************************************************************************)
LEMMA BatchAppendStep ==
  ASSUME WriterInv, BatchAppend
  PROVE WriterInv'
<1>1. /\ cmd.op = "batch" /\ cmd.i <= Len(cmd.calls)
      /\ handle' = IF handle = 0 THEN ino ELSE handle
      /\ UNCHANGED <<pc, reply, queue, cache, multi, loaded, loader, found, ino>>
  BY DEF BatchAppend, Running
<1>2. /\ cmd = [op |-> cmd.op, calls |-> cmd.calls, i |-> cmd.i, old |-> cmd.old, bad |-> cmd.bad]
      /\ cmd.calls \in Seq(Calls) /\ cmd.i \in Int /\ cmd.i >= 1
      /\ \A k \in DOMAIN cmd.calls : Kind[cmd.calls[k]] = "append"
  BY <1>1 DEF WriterInv, CommandsOK, HandOK
<1>3. PICK c \in Calls : c = cmd.calls[cmd.i] /\ Kind[c] = "append" /\ cmd.i \in DOMAIN cmd.calls
  BY <1>1, <1>2
<1>4. PICK n \in 1..ino : n = handle' /\ n \in 1..MaxInode /\ (handle # 0 => n = handle)
  <2>1. handle \in 0..ino /\ ino \in 1..MaxInode /\ MaxInode \in Nat
    BY WriterBounds DEF WriterInv, BooksOK
  <2>2. handle' \in 1..ino /\ handle' \in 1..MaxInode
    BY <1>1, <2>1
  <2> QED BY <1>1, <2>2
<1>5. PICK bad :
         /\ cmd' = [cmd EXCEPT !.i = @ + 1, !.bad = bad]
         /\ \/ ledger' = Written(n, EntriesOf(c)) /\ bad = cmd.bad
            \/ UNCHANGED ledger /\ bad = cmd.bad \cup {c}
  <2>1. CASE ledger' = Written(handle', EntriesOf(c)) /\ cmd' = [cmd EXCEPT !.i = @ + 1]
    BY <1>2, <1>4, <2>1
  <2>2. CASE cmd' = [cmd EXCEPT !.i = @ + 1, !.bad = @ \cup {c}] /\ UNCHANGED ledger
    BY <1>2, <2>2
  <2> QED BY <1>3, <2>1, <2>2 DEF BatchAppend
<1>6. /\ cmd'.op = "batch" /\ cmd'.calls = cmd.calls /\ cmd'.i = cmd.i + 1 /\ cmd'.bad = bad
      /\ cmd' = [op |-> cmd'.op, calls |-> cmd'.calls, i |-> cmd'.i, old |-> cmd'.old,
                 bad |-> cmd'.bad]
  BY <1>1, <1>2, <1>5
<1>7. /\ EntriesOf(c) \in Seq(Entry) /\ 1 \in DOMAIN EntriesOf(c)
      /\ \A k \in DOMAIN EntriesOf(c) : EntriesOf(c)[k].call = c
  BY EntriesTyped
<1>8. /\ BooksOK' /\ SyncedKept /\ NoNewSingle
      /\ \A d : InHandle(d) => InHandle(d)'
      /\ c \notin bad => InHandle(c)'
  <2>1. BooksOK /\ handle' \in 0..ino
    BY <1>4 DEF WriterInv, BooksOK
  <2>2. CASE ledger' = Written(n, EntriesOf(c)) /\ bad = cmd.bad
    <3>1. /\ BooksOK' /\ SyncedKept
          /\ \A k \in DOMAIN ledger[n].log :
                k \in DOMAIN ledger'[n].log /\ ledger'[n].log[k] = ledger[n].log[k]
          /\ \A j \in DOMAIN EntriesOf(c) : \E k \in DOMAIN ledger'[n].log :
                ledger'[n].log[k] = EntriesOf(c)[j]
      <4> DEFINE s == EntriesOf(c)
      <4>1. s \in Seq(Entry) /\ ledger' = Written(n, s) /\ ino' = ino
        BY <1>1, <1>7, <2>2
      <4> HIDE DEF s
      <4>2. /\ BooksOK' /\ SyncedKept
            /\ \A m \in 1..MaxInode : \A k \in DOMAIN ledger[m].log :
                  k \in DOMAIN ledger'[m].log /\ ledger'[m].log[k] = ledger[m].log[k]
            /\ \A j \in DOMAIN s : LET k == Len(ledger[n].log) + j IN
                  k \in DOMAIN ledger'[n].log /\ ledger'[n].log[k] = s[j]
        BY <2>1, <4>1, WrittenKeeps
      <4>3. \A j \in DOMAIN s : \E k \in DOMAIN ledger'[n].log : ledger'[n].log[k] = s[j]
        BY <4>2
      <4> QED BY <1>4, <4>2, <4>3 DEF s
    <3>2. NoNewSingle
      <4>1. \A j \in DOMAIN EntriesOf(c) : Kind[EntriesOf(c)[j].call] # "single"
        BY <1>3, <1>7
      <4> QED BY <1>1, <1>7, <2>1, <2>2, <4>1, WrittenOthers
    <3>3. InHandle(c)'
      <4>1. \E k \in DOMAIN ledger'[n].log : ledger'[n].log[k].call = c
        BY <1>7, <3>1
      <4> QED BY <1>4, <4>1 DEF InHandle
    <3>4. \A d : InHandle(d) => InHandle(d)'
      BY <1>4, <3>1 DEF InHandle
    <3> QED BY <3>1, <3>2, <3>3, <3>4
  <2>3. CASE UNCHANGED ledger /\ bad = cmd.bad \cup {c}
    <3>1. BooksOK' /\ SyncedKept /\ NoNewSingle
      BY <1>1, <2>1, <2>3, UnchangedBooks
    <3>2. \A d : InHandle(d) => InHandle(d)'
      BY <1>1, <2>3 DEF InHandle
    <3> QED BY <2>3, <3>1, <3>2
  <2> QED BY <1>5, <2>2, <2>3
<1>9. CallsOK' /\ \A d \in Calls : Bears(d)
  BY <1>1 DEF WriterInv, CommandsOK, CallsOK, Bears
<1>10. QueueOK' /\ \A d : Queued(d)' <=> Queued(d)
  BY <1>1, <1>9, QueueSame DEF WriterInv, CommandsOK
<1>11. HandOK'
  <2>1. \A d : InHand(d)' <=> InHand(d)
    BY <1>1, <1>6 DEF InHand
  <2>2. \A d \in Calls : InHand(d)' => ~Queued(d)' /\ pc'[d] \in {"waiting", "dropped"}
    BY <1>1, <1>10, <2>1, NotBusy
  <2>3. cmd'.i \in Int /\ cmd'.i >= 1
    BY <1>2, <1>6
  <2> QED BY <1>2, <1>6, <2>2, <2>3 DEF HandOK, Ops
<1>12. Fresh' /\ AppliedOnce'
  <2>1. ASSUME NEW d \in Calls, ToDo(d)' PROVE ToDo(d)
    <3>1. ~ToAppend(d)'
      BY <1>6 DEF ToAppend, BeforeAppend
    <3> QED BY <1>1, <1>10, <2>1, <3>1 DEF ToDo, Early
  <2> QED BY <1>8, <2>1, FreshKept, AppliedKept DEF WriterInv
<1>13. LoadFirst' /\ LoaderBusy'
  BY <1>1, <1>6 DEF WriterInv, HistoryKnown, LoadFirst, LoaderBusy
<1>14. FoundAll'
  BY <1>1, <1>8, FoundAllKept DEF WriterInv, HistoryKnown
<1>15. CacheComplete'
  <2>1. cmd.op \notin AfterAppend
    BY <1>1 DEF AfterAppend
  <2> QED BY <1>1, <1>8, <2>1, CacheCompleteKept DEF WriterInv, HistoryKnown
<1>16. NextIsNew'
  BY <1>6 DEF NextIsNew, BeforeAppend
<1>17. CachesDurable' /\ FoundDurable'
  BY <1>1, <1>8, CachesKept, FoundKept DEF WriterInv, DurableKnown
<1>18. HandDurable'
  <2> SUFFICES ASSUME NEW k \in DOMAIN cmd.calls, k < cmd.i + 1, cmd.calls[k] \notin bad
               PROVE InHandle(cmd.calls[k])'
    BY <1>6 DEF HandDurable
  <2>1. PICK d : d = cmd.calls[k]
    OBVIOUS
  <2>2. k \in Int /\ (k < cmd.i \/ k = cmd.i)
    BY <1>2
  <2>3. InHandle(d)'
    <3>1. CASE k = cmd.i
      BY <1>3, <1>8, <2>1, <3>1
    <3>2. CASE k < cmd.i
      <4>1. d \notin cmd.bad
        BY <1>5, <2>1
      <4>2. InHandle(d)
        BY <1>1, <2>1, <3>2, <4>1 DEF WriterInv, DurableKnown, HandDurable
      <4> QED BY <1>8, <4>2
    <3> QED BY <2>2, <3>1, <3>2
  <2>4. (cmd.calls[k])' = d
    BY <1>6, <2>1
  <2> QED BY <2>3, <2>4 DEF InHandle
<1>19. RepliesDurable'
  BY <1>1, <1>8, RepliesKept DEF WriterInv, DurableKnown
<1>20. CacheTypes'
  BY <1>1 DEF WriterInv, CacheTypes
<1> QED BY <1>8, <1>9, <1>10, <1>11, <1>12, <1>13, <1>14, <1>15, <1>16, <1>17, <1>18, <1>19, <1>20
        DEF WriterInv, CommandsOK, HistoryKnown, DurableKnown

LEMMA BatchSyncStep ==
  ASSUME WriterInv, BatchSync
  PROVE WriterInv'
<1> DEFINE all == Entries(cmd.calls)
<1>1. /\ cmd.op = "batch" /\ cmd.i > Len(cmd.calls) /\ cmd' = Idle
      /\ UNCHANGED <<queue, cache, multi, loaded, loader, found, ino, handle>>
  BY DEF BatchSync, Running
<1>2. /\ cmd.calls \in Seq(Calls) /\ cmd.i \in Int
      /\ \A k \in DOMAIN cmd.calls : Kind[cmd.calls[k]] = "append"
  BY <1>1 DEF WriterInv, CommandsOK, HandOK
<1>3. PICK v :
         /\ Answer(all, v) /\ \A c \in all : v[c] \in {"ok", "failed"}
         /\ \/ /\ ledger' = IF all = cmd.bad THEN ledger ELSE Synced(handle)
               /\ \A c \in all : v[c] = "ok" => c \notin cmd.bad
            \/ UNCHANGED ledger /\ \A c \in all : v[c] = "failed"
  <2> HIDE DEF all
  <2>1. CASE /\ ledger' = IF all = cmd.bad THEN ledger ELSE Synced(handle)
             /\ Answer(all, [c \in all |-> IF c \in cmd.bad THEN "failed" ELSE "ok"])
    <3> DEFINE w == [c \in all |-> IF c \in cmd.bad THEN "failed" ELSE "ok"]
    <3>1. \A c \in all : w[c] \in {"ok", "failed"} /\ (w[c] = "ok" => c \notin cmd.bad)
      OBVIOUS
    <3>2. Answer(all, w)
      BY <2>1
    <3> HIDE DEF w
    <3> QED BY <2>1, <3>1, <3>2
  <2>2. CASE Answer(all, [c \in all |-> "failed"]) /\ UNCHANGED ledger
    <3> DEFINE w == [c \in all |-> "failed"]
    <3>1. \A c \in all : w[c] = "failed"
      OBVIOUS
    <3>2. Answer(all, w)
      BY <2>2
    <3> HIDE DEF w
    <3> QED BY <2>2, <3>1, <3>2
  <2> QED BY <2>1, <2>2 DEF BatchSync, all
<1>4. ASSUME NEW c \in Calls, c \in all
      PROVE /\ InHand(c) /\ Kind[c] = "append" /\ ~Queued(c) /\ pc[c] \in {"waiting", "dropped"}
            /\ c \notin cmd.bad => InHandle(c)
  <2>1. PICK k \in DOMAIN cmd.calls : cmd.calls[k] = c
    BY <1>4 DEF Entries
  <2>2. InHand(c)
    BY <1>1, <2>1 DEF InHand
  <2>3. k < cmd.i
    BY <1>1, <1>2
  <2>4. c \notin cmd.bad => InHandle(c)
    BY <1>1, <2>1, <2>3 DEF WriterInv, DurableKnown, HandDurable
  <2> QED BY <1>2, <2>1, <2>2, <2>4, NotBusy
<1> HIDE DEF all
<1>5. /\ CallsOK'
      /\ \A c \in Calls : c \notin all \/ pc[c] = "dropped"
            => pc'[c] = pc[c] /\ reply'[c] = reply[c]
      /\ \A c \in Calls : c \in all /\ pc[c] # "dropped"
            => pc'[c] \in {"answered", "done"} /\ reply'[c] = v[c]
      /\ \A c \in Calls : pc'[c] = "answered" /\ pc[c] # "answered" => c \in all /\ v[c] = "ok"
  BY <1>3, Answering DEF WriterInv, CommandsOK
<1>6. QueueOK' /\ \A d : Queued(d)' <=> Queued(d)
  <2>1. \A d \in Calls : Queued(d) => Bears(d)
    BY <1>4, <1>5 DEF Bears
  <2> QED BY <1>1, <2>1, QueueSame DEF WriterInv, CommandsOK
<1>7. HandOK' /\ cmd'.op = "idle"
  BY <1>1, HandEmpty DEF Idle
<1>8. BooksOK' /\ SyncedKept /\ NoNewSingle
  <2>1. BooksOK /\ handle \in 0..ino /\ handle' \in 0..ino /\ ino' = ino
    BY <1>1 DEF WriterInv, BooksOK
  <2>2. CASE ledger' = Synced(handle)
    BY <2>1, <2>2, SyncedStep
  <2>3. CASE UNCHANGED ledger
    BY <2>1, <2>3, UnchangedBooks
  <2> QED BY <1>3, <2>2, <2>3
<1>9. Fresh' /\ AppliedOnce'
  <2>1. ASSUME NEW d \in Calls, ToDo(d)' PROVE ToDo(d)
    <3>1. ~ToAppend(d)'
      BY <1>7 DEF ToAppend, BeforeAppend
    <3> QED BY <1>5, <1>6, <2>1, <3>1 DEF ToDo, Early
  <2> QED BY <1>8, <2>1, FreshKept, AppliedKept DEF WriterInv
<1>10. LoadFirst'
  BY <1>1, <1>7 DEF WriterInv, HistoryKnown, LoadFirst
<1>11. LoaderBusy'
  <2>1. \A d \in Calls : pc[d] \in {"scanning", "scanned"} => pc'[d] = pc[d]
    BY <1>4, <1>5
  <2> QED BY <1>1, <2>1 DEF WriterInv, HistoryKnown, LoaderBusy, CacheTypes
<1>12. FoundAll'
  <2>1. \A d \in Calls : pc'[d] = "scanned" => pc[d] = "scanned"
    BY <1>5
  <2> QED BY <1>1, <1>8, <2>1, FoundAllKept DEF WriterInv, HistoryKnown
<1>13. CacheComplete'
  <2>1. cmd.op \notin AfterAppend
    BY <1>1 DEF AfterAppend
  <2> QED BY <1>1, <1>8, <2>1, CacheCompleteKept DEF WriterInv, HistoryKnown
<1>14. NextIsNew'
  BY <1>7 DEF NextIsNew, BeforeAppend
<1>15. CachesDurable' /\ FoundDurable'
  BY <1>1, <1>8, CachesKept, FoundKept DEF WriterInv, DurableKnown
<1>16. HandDurable'
  BY <1>7, HandIdle
<1>17. ASSUME NEW c \in Calls, c \in all, v[c] = "ok" PROVE DurableCall(c)'
  <2>1. InHandle(c) /\ c \notin cmd.bad /\ ledger' = Synced(handle)
    BY <1>3, <1>4, <1>17
  <2>2. handle \in 0..ino /\ handle \in 1..MaxInode /\ BooksOK /\ handle' \in 0..ino /\ ino' = ino
    <3>1. handle \in 0..ino /\ ino \in 1..MaxInode /\ handle # 0 /\ BooksOK
      BY <2>1 DEF WriterInv, BooksOK, InHandle
    <3> QED BY <1>1, <3>1, WriterBounds
  <2>3. ledger'[handle].log = ledger[handle].log /\ ledger'[handle].synced = Len(ledger[handle].log)
    <3>1. handle # 0
      BY <2>2
    <3> QED BY <2>1, <2>2, <3>1, SyncedBooks
  <2>4. PICK k \in DOMAIN ledger[handle].log : ledger[handle].log[k].call = c
    BY <2>1 DEF InHandle
  <2>5. k \in 1..ledger'[handle].synced /\ ledger'[handle].log[k].call = c
    BY <2>2, <2>3, <2>4, LogTyped
  <2> QED BY <2>2, <2>5 DEF DurableCall
<1>18. RepliesDurable'
  <2>1. \A d \in Calls : pc'[d] = "answered" => pc[d] = "answered" \/ DurableCall(d)'
    BY <1>5, <1>17
  <2>2. \A d \in Calls : reply'[d] = "ok" =>
           reply[d] = "ok" \/ \E e \in Calls : ReqOf[e] = ReqOf[d] /\ DurableCall(e)'
    BY <1>5, <1>17
  <2> QED BY <1>8, <2>1, <2>2, RepliesKept DEF WriterInv, DurableKnown
<1>19. CacheTypes'
  BY <1>1 DEF WriterInv, CacheTypes
<1> QED BY <1>5, <1>6, <1>7, <1>8, <1>9, <1>10, <1>11, <1>12, <1>13, <1>14, <1>15, <1>16, <1>18, <1>19
        DEF WriterInv, CommandsOK, HistoryKnown, DurableKnown

(***************************************************************************)
(* Deaths, and a file that is replaced.                                    *)
(***************************************************************************)
LEMMA DaemonDiesStep ==
  ASSUME WriterInv, DaemonDies
  PROVE WriterInv'
<1>1. /\ pc' = [c \in Calls |-> IF pc[c] \in {"new", "done"} THEN pc[c] ELSE "dropped"]
      /\ queue' = <<>> /\ cmd' = Idle /\ handle' = 0 /\ loaded' = FALSE /\ loader' = NoCall
      /\ found' = {} /\ cache' = [r \in Requests |-> Missing]
      /\ multi' = [r \in Requests |-> Missing] /\ UNCHANGED <<reply, ino>>
  BY DEF DaemonDies
<1>2. PICK n \in ledger[ino].synced..Len(ledger[ino].log) :
         ledger' = [ledger EXCEPT ![ino].log = SubSeq(@, 1, n)]
  BY DEF DaemonDies
<1>3. BooksOK' /\ SyncedKept /\ NoNewSingle
  <2>1. BooksOK
    BY DEF WriterInv
  <2> QED BY <1>1, <1>2, <2>1, DeathKeeps
<1>4. CallsOK'
  BY <1>1 DEF WriterInv, CommandsOK, CallsOK
<1>5. QueueOK' /\ (\A d : ~Queued(d)') /\ HandOK' /\ cmd'.op = "idle"
  BY <1>1, QueueClear, HandEmpty DEF Idle
<1>6. Fresh' /\ AppliedOnce'
  <2>1. ASSUME NEW d \in Calls, ToDo(d)' PROVE ToDo(d)
    <3>1. ~ToAppend(d)'
      BY <1>5 DEF ToAppend, BeforeAppend
    <3> QED BY <1>1, <1>5, <2>1, <3>1 DEF ToDo, Early
  <2> QED BY <1>3, <2>1, FreshKept, AppliedKept DEF WriterInv
<1>7. LoadFirst' /\ LoaderBusy' /\ FoundAll' /\ CacheComplete' /\ NextIsNew'
  BY <1>1, <1>5 DEF LoadFirst, LoaderBusy, FoundAll, CacheComplete, NextIsNew, BeforeAppend
<1>8. CachesDurable' /\ FoundDurable' /\ HandDurable'
  BY <1>1, <1>3, <1>5, CachesKept, FoundKept, HandIdle DEF WriterInv, DurableKnown
<1>9. RepliesDurable'
  BY <1>1, <1>3, RepliesKept DEF WriterInv, DurableKnown
<1>10. CacheTypes'
  BY <1>1 DEF CacheTypes
<1> QED BY <1>3, <1>4, <1>5, <1>6, <1>7, <1>8, <1>9, <1>10
        DEF WriterInv, CommandsOK, HistoryKnown, DurableKnown

LEMMA ReplaceStep ==
  ASSUME WriterInv, Replace
  PROVE WriterInv'
<1>1. /\ ino < MaxInode /\ ino' = ino + 1
      /\ UNCHANGED <<pc, reply, queue, cmd, cache, multi, loaded, loader, found, handle>>
  BY DEF Replace
<1>2. PICK n \in {0, Len(ledger[ino].log)} :
         ledger' = [ledger EXCEPT ![ino + 1] = [log |-> SubSeq(ledger[ino].log, 1, n), synced |-> n]]
  BY DEF Replace
<1>3. /\ BooksOK' /\ SyncedKept /\ NoNewSingle
      /\ \A m \in 1..ino : ledger'[m] = ledger[m]
  <2>1. BooksOK
    BY DEF WriterInv
  <2> QED BY <1>1, <1>2, <2>1, ReplaceKeeps
<1>4. CommandsOK'
  BY <1>1 DEF WriterInv, CommandsOK, CallsOK, QueueOK, HandOK, Expects, Queued, InHand, Cur
<1>5. Fresh' /\ AppliedOnce'
  <2>1. ASSUME NEW d \in Calls, ToDo(d)' PROVE ToDo(d)
    BY <1>1, <2>1 DEF ToDo, Early, Queued, ToAppend, Cur
  <2> QED BY <1>3, <2>1, FreshKept, AppliedKept DEF WriterInv
<1>6. LoadFirst' /\ LoaderBusy'
  BY <1>1 DEF WriterInv, HistoryKnown, LoadFirst, LoaderBusy
<1>7. FoundAll'
  BY <1>1, <1>3, FoundAllKept DEF WriterInv, HistoryKnown
<1>8. CacheComplete' /\ NextIsNew'
  <2>1. Cur' = Cur /\ cmd'.op = cmd.op
    BY <1>1 DEF Cur
  <2> QED BY <1>1, <1>3, <2>1, CacheCompleteKept, NextIsNewKept DEF WriterInv, HistoryKnown
<1>9. CachesDurable' /\ FoundDurable'
  BY <1>1, <1>3, CachesKept, FoundKept DEF WriterInv, DurableKnown
<1>10. HandDurable'
  <2>1. handle # 0 => ledger'[handle].log = ledger[handle].log
    BY <1>3 DEF WriterInv, BooksOK
  <2> QED BY <1>1, <1>3, <2>1, HandDurableSame DEF WriterInv, DurableKnown, CommandsOK
<1>11. RepliesDurable'
  BY <1>1, <1>3, RepliesKept DEF WriterInv, DurableKnown
<1>12. CacheTypes'
  BY <1>1 DEF WriterInv, CacheTypes
<1> QED BY <1>3, <1>4, <1>5, <1>6, <1>7, <1>8, <1>9, <1>10, <1>11, <1>12
        DEF WriterInv, HistoryKnown, DurableKnown

(***************************************************************************)
(* The theorems.                                                           *)
(***************************************************************************)
LEMMA InitHolds ==
  ASSUME Init
  PROVE WriterInv
<1>1. /\ pc = [c \in Calls |-> "new"] /\ reply = [c \in Calls |-> "none"]
      /\ queue = <<>> /\ cmd = Idle
      /\ cache = [r \in Requests |-> Missing] /\ multi = [r \in Requests |-> Missing]
      /\ loaded = FALSE /\ loader = NoCall /\ found = {}
      /\ ledger = [n \in 1..MaxInode |-> [log |-> <<>>, synced |-> 0]]
      /\ ino = 1 /\ handle = 0
  BY DEF Init
<1>2. BooksOK
  BY <1>1, WriterBounds DEF BooksOK
<1>3. CommandsOK
  BY <1>1 DEF CommandsOK, CallsOK, QueueOK, HandOK, InHand, Idle, Ops
<1>4. CacheTypes
  BY <1>1 DEF CacheTypes
<1>5. Fresh
  BY <1>1 DEF Fresh, Tells
<1>6. HistoryKnown
  BY <1>1 DEF HistoryKnown, LoadFirst, LoaderBusy, FoundAll, CacheComplete, NextIsNew, Idle,
              BeforeAppend
<1>7. DurableKnown
  BY <1>1 DEF DurableKnown, CachesDurable, FoundDurable, HandDurable, RepliesDurable, Idle
<1>8. AppliedOnce
  BY <1>1, WriterBounds DEF AppliedOnce
<1> QED BY <1>2, <1>3, <1>4, <1>5, <1>6, <1>7, <1>8 DEF WriterInv

LEMMA StepKeeps ==
  ASSUME WriterInv, [Next]_vars
  PROVE WriterInv'
<1>1. CASE \E c \in Calls : CallSteps(c) \/ Refuse(c) \/ Drop(c)
  BY <1>1, RefuseStep, StartRecoveryStep, MergeHistoryStep, AdmitStep, CacheAppendStep, DropStep
     DEF CallSteps
<1>2. CASE WriterLoop
  BY <1>2, TakeBarrierStep, TakeBatchStep, TakeTransactionStep, RetrySyncStep, TakeShutdownStep,
     RewriteStep, AppendEntriesStep, SyncStep, FinishStep, BatchAppendStep, BatchSyncStep
     DEF WriterLoop, Take, Transact
<1>3. CASE AskShutdown
  BY <1>3, AskShutdownStep
<1>4. CASE ShutdownTimesOut \/ UNCHANGED vars
  BY <1>4, StutterStep
<1>5. CASE DaemonDies
  BY <1>5, DaemonDiesStep
<1>6. CASE Replace
  BY <1>6, ReplaceStep
<1> QED BY <1>1, <1>2, <1>3, <1>4, <1>5, <1>6 DEF Next

(* The invariant: what is in the queue and in the writer's hands, what the caches  *)
(* know of the ledger, and what they take for durable, in every reachable state.   *)
THEOREM WriterInvariant == Spec => []WriterInv
<1>1. Init => WriterInv
  BY InitHolds
<1>2. WriterInv /\ [Next]_vars => WriterInv'
  BY StepKeeps
<1> QED BY <1>1, <1>2, PTL DEF Spec

(* A single transaction is in the ledger once, whoever asks for it again and whatever *)
(* fails, stops or replaces the file in between.                                      *)
THEOREM AppliesOnce == Spec => []AppliedOnce
<1>1. WriterInv => AppliedOnce
  BY DEF WriterInv
<1> QED BY <1>1, WriterInvariant, PTL

(* What a caller is told is ok is synced in a ledger file. *)
THEOREM AcknowledgesDurable == Spec => []AckDurable
<1>1. WriterInv => AckDurable
  <2> SUFFICES ASSUME WriterInv, NEW c \in Calls, reply[c] = "ok"
               PROVE DurableEntry(ReqOf[c])
    BY DEF AckDurable
  <2>1. PICK d \in Calls : ReqOf[d] = ReqOf[c] /\ DurableCall(d)
    BY DEF WriterInv, DurableKnown, RepliesDurable
  <2> QED BY <2>1 DEF DurableCall, DurableEntry
<1> QED BY <1>1, WriterInvariant, PTL
===============================================================================
