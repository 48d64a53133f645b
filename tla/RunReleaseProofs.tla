--------------------------- MODULE RunReleaseProofs ---------------------------
(***************************************************************************)
(* Proofs about RunRelease, for every set of callers, events and clocks,   *)
(* either kind of transport, with or without a watched pid, dropped        *)
(* requests and failing appends, and every bound.  ReleaseInv is           *)
(* inductive.  Types, debts and the end of the log are proved action by    *)
(* action, with the same numbering; what becomes of the outcome, about the *)
(* sections that touch it, the others being calm.                          *)
(***************************************************************************)
EXTENDS RunRelease, TLAPS

USE DEF driver, session

(* The state right after runs.insert satisfies the invariant. *)
LEMMA ReleaseInvInit == Init => ReleaseInv
<1> SUFFICES ASSUME Init PROVE ReleaseInv
  OBVIOUS
<1> USE BoundAssumption DEF Init
<1>1. rec \in RunRecord
  BY DEF RunRecord
<1>2. drain \in DrainTask /\ art \in Handler
  BY DEF DrainTask, Handler, ArtPcs, NoHandler
<1>3. rel \in [Role -> ReleaseCall]
  BY DEF ReleaseCall, RelPcs, Outcomes, Quiet
<1>4. queue \in Seq(Event) /\ tombs \in Seq(Tombstone) /\ sent \in 0..MaxEvents
  OBVIOUS
<1>5. TypeOK
  BY <1>1, <1>2, <1>3, <1>4 DEF TypeOK
<1>6. \A p \in Role : rel[p].pc = "idle"
  BY DEF Quiet
<1>7. OneTombstone /\ OneDebtor /\ JoinedDrain /\ ReleaseIsLast
  BY <1>6 DEF OneTombstone, OneDebtor, JoinedDrain, ReleaseIsLast, Resolving, NoHandler
<1>8. FailureKept
  BY DEF FailureKept, FailureStands, Failing
<1>9. OutcomeBacked
  BY <1>6 DEF OutcomeBacked, TerminalEventWins
<1> QED BY <1>5, <1>7, <1>8, <1>9 DEF ReleaseInv

(* The updates of a RunRecord that the critical sections make. *)
LEMMA RecordFlag ==
  ASSUME NEW r \in RunRecord, NEW b \in BOOLEAN
  PROVE /\ [r EXCEPT !.inMap = b] \in RunRecord
        /\ [r EXCEPT !.explicit = b] \in RunRecord
        /\ [r EXCEPT !.termShut = b] \in RunRecord
        /\ [r EXCEPT !.pidShut = b] \in RunRecord
        /\ [r EXCEPT !.cancel = b] \in RunRecord
        /\ [r EXCEPT !.pending = b] \in RunRecord
BY DEF RunRecord

LEMMA BegunRecord ==
  ASSUME NEW r \in RunRecord PROVE BeginExplicit(r) \in RunRecord
BY RecordFlag DEF BeginExplicit

LEMMA RecordDrain ==
  ASSUME NEW r \in RunRecord, NEW h \in {"dummy", "real"}
  PROVE [r EXCEPT !.drain = h] \in RunRecord
BY DEF RunRecord

LEMMA RecordRound ==
  ASSUME NEW r \in RunRecord, NEW l \in {"idle", "submit", "regenerate"},
         NEW n \in 1..MaxRounds, NEW d \in 0..MaxRounds
  PROVE [r EXCEPT !.life = l, !.round = n, !.decl = d] \in RunRecord
BY DEF RunRecord

LEMMA RecordDecl ==
  ASSUME NEW r \in RunRecord, NEW d \in 0..MaxRounds
  PROVE /\ [r EXCEPT !.life = "idle", !.decl = d] \in RunRecord
        /\ [r EXCEPT !.life = "idle"] \in RunRecord
BY DEF RunRecord

(* The updates of a caller of release_one. *)
LEMMA CallPc ==
  ASSUME NEW c \in ReleaseCall, NEW pc \in RelPcs
  PROVE [c EXCEPT !.pc = pc] \in ReleaseCall
BY DEF ReleaseCall

LEMMA CallOutcome ==
  ASSUME NEW c \in ReleaseCall, NEW pc \in RelPcs, NEW o \in Outcomes
  PROVE [c EXCEPT !.pc = pc, !.outcome = o] \in ReleaseCall
BY DEF ReleaseCall

LEMMA CallAsk ==
  ASSUME NEW c \in ReleaseCall, NEW pc \in RelPcs, NEW o \in Outcomes,
         NEW f \in BOOLEAN, NEW e \in BOOLEAN
  PROVE /\ [c EXCEPT !.pc = pc, !.outcome = o, !.fin = f, !.earned = e] \in ReleaseCall
        /\ [c EXCEPT !.pc = pc, !.fin = f, !.outcome = o, !.earned = e] \in ReleaseCall
BY DEF ReleaseCall

LEMMA CallJoin ==
  ASSUME NEW c \in ReleaseCall, NEW pc \in RelPcs, NEW j \in {"dummy", "real"},
         NEW e \in BOOLEAN
  PROVE [c EXCEPT !.pc = pc, !.join = j, !.earned = e] \in ReleaseCall
BY DEF ReleaseCall

(* A tombstone with typed parts keeps the log typed. *)
LEMMA TypedTombstone ==
  ASSUME tombs \in Seq(Tombstone), NEW o \in Outcomes, NEW f \in BOOLEAN,
         NEW by \in Role \cup {"drain", "deferred"}, NEW j \in BOOLEAN,
         NEW e \in BOOLEAN, NEW ok,
         AppendTombstone([outcome |-> o, fin |-> f, by |-> by, joined |-> j,
                          earned |-> e], ok)
  PROVE tombs' \in Seq(Tombstone)
<1>1. [outcome |-> o, fin |-> f, by |-> by, joined |-> j, earned |-> e] \in Tombstone
  BY DEF Tombstone
<1> QED BY <1>1 DEF AppendTombstone

(* A driver event leaves a record a record. *)
LEMMA AppliedRecord ==
  ASSUME NEW r \in RunRecord, NEW e PROVE ApplyDriverEvent(r, e) \in RunRecord
<1>1. SettledOutcome(r, e) \in {"none", "completed", "failed"}
  BY DEF SettledOutcome, TerminalOutcome, RunRecord
<1>2. /\ (r.ready \/ e = "ready") \in BOOLEAN
      /\ (r.work \/ CountsAsWork(e)) \in BOOLEAN
      /\ (r.terminal \/ e \in {"complete", "fail"}) \in BOOLEAN
  OBVIOUS
<1>3. ASSUME NEW o \in {"none", "completed", "failed"}, NEW x \in BOOLEAN,
             NEW y \in BOOLEAN, NEW z \in BOOLEAN
      PROVE [r EXCEPT !.outcome = o, !.ready = x, !.work = y, !.terminal = z] \in RunRecord
  BY DEF RunRecord
<1> QED BY <1>1, <1>2, <1>3, Zenon DEF ApplyDriverEvent

(* So does counting its turn. *)
LEMMA CountedRecord ==
  ASSUME NEW r \in RunRecord, NEW e PROVE CountTurn(r, e) \in RunRecord
<1>1. r.turns + 1 \in Nat /\ r.turns \in Nat
  BY DEF RunRecord
<1>2. (IF OverBudget(r, e) THEN "failed" ELSE r.outcome) \in {"none", "completed", "failed"}
  BY DEF RunRecord
<1> QED BY <1>1, <1>2 DEF CountTurn, RunRecord

(* resolve_terminal_release always names an outcome of the log. *)
LEMMA ResolvedOutcome ==
  ASSUME NEW r \in RunRecord
  PROVE Resolve(r).outcome \in Outcomes /\ Resolve(r).fin \in BOOLEAN
BY DEF Resolve, RunRecord, Outcomes

(* A party that releases nothing is a caller at rest. *)
LEMMA QuietCall == Quiet \in ReleaseCall
BY DEF Quiet, ReleaseCall, RelPcs, Outcomes

(* A round is declared or it is not. *)
LEMMA DeclaredBool ==
  ASSUME NEW r PROVE Declared(r) \in BOOLEAN
BY DEF Declared

(* Every critical section keeps the types. *)
LEMMA TypeStep ==
  ASSUME TypeOK, [Next]_vars PROVE TypeOK'
<1> USE BoundAssumption DEF TypeOK
<1>1. ASSUME NEW e \in Event, Emit(e) PROVE TypeOK'
  <2>1. queue' \in Seq(Event)
    BY <1>1 DEF Emit
  <2>2. sent' \in 0..MaxEvents
    BY <1>1 DEF Emit
  <2> QED BY <1>1, <2>1, <2>2 DEF Emit
<1>2. ASSUME StreamCloses PROVE TypeOK'
  BY <1>2 DEF StreamCloses
<1>3. ASSUME PidExits PROVE TypeOK'
  BY <1>3 DEF PidExits
<1>4. ASSUME InstallDrain PROVE TypeOK'
  <2>1. rec' \in RunRecord
    BY <1>4 DEF InstallDrain, RunRecord
  <2>2. acq' \in {"inserted", "installed", "done"}
    BY <1>4 DEF InstallDrain
  <2> QED BY <1>4, <2>1, <2>2 DEF InstallDrain
<1>5. ASSUME InstallWatcher PROVE TypeOK'
  <2>1. acq' \in {"inserted", "installed", "done"}
    BY <1>5 DEF InstallWatcher
  <2>2. watcher' \in {"off", "watching", "stopping", "done"}
    BY <1>5 DEF InstallWatcher
  <2> QED BY <1>5, <2>1, <2>2 DEF InstallWatcher
<1>6. ASSUME AcquireDropped PROVE TypeOK'
  BY <1>6 DEF AcquireDropped
<1>7. ASSUME DrainApply PROVE TypeOK'
  <2>1. rec' \in RunRecord
    BY <1>7, AppliedRecord DEF DrainApply, RunRecord
  <2>2. queue' \in Seq(Event)
    BY <1>7 DEF DrainApply
  <2>3. drain' \in DrainTask
    BY <1>7 DEF DrainApply, DrainTask
  <2>4. due' \in SUBSET Clock
    BY <1>7 DEF DrainApply
  <2>5. moved' \in BOOLEAN
    BY <1>7 DEF DrainApply
  <2> QED BY <1>7, <2>1, <2>2, <2>3, <2>4, <2>5 DEF DrainApply
<1>8. ASSUME DrainSettle PROVE TypeOK'
  <2>1. rec' \in RunRecord
    <3>1. CountTurn(rec, drain.evt) \in RunRecord
      BY CountedRecord
    <3>2. BeginExplicit(CountTurn(rec, drain.evt)) \in RunRecord
      BY <3>1, BegunRecord
    <3>3. /\ [BeginExplicit(CountTurn(rec, drain.evt)) EXCEPT !.termShut = TRUE] \in RunRecord
          /\ [CountTurn(rec, drain.evt) EXCEPT !.pending = TRUE] \in RunRecord
      BY <3>1, <3>2, RecordFlag
    <3> QED BY <1>8, <3>1, <3>3, Zenon DEF DrainSettle
  <2>2. drain' \in DrainTask
    BY <1>8 DEF DrainSettle, DrainTask
  <2> QED BY <1>8, <2>1, <2>2 DEF DrainSettle
<1>9. ASSUME DrainStop PROVE TypeOK'
  <2>1. drain' \in DrainTask
    BY <1>9 DEF DrainStop, StopProducer, DrainTask
  <2>2. sender' \in {"open", "stray", "closed"}
    BY <1>9 DEF DrainStop, StopProducer
  <2> QED BY <1>9, <2>1, <2>2 DEF DrainStop
<1>10. ASSUME DrainEnds PROVE TypeOK'
  <2>1. drain' \in DrainTask
    BY <1>10 DEF DrainEnds, DrainTask
  <2> QED BY <1>10, <2>1 DEF DrainEnds
<1>11. ASSUME DrainFinish PROVE TypeOK'
  <2>1. rec' \in RunRecord
    BY <1>11 DEF DrainFinish, RunRecord, TakesStreamEnd
  <2>2. drain' \in DrainTask
    BY <1>11 DEF DrainFinish, DrainTask
  <2> QED BY <1>11, <2>1, <2>2 DEF DrainFinish
<1>12. ASSUME NEW ok \in BOOLEAN, DrainAppend(ok) PROVE TypeOK'
  <2>1. drain' \in DrainTask
    BY <1>12 DEF DrainAppend, DrainTask
  <2>2. late' \in BOOLEAN
    BY <1>12 DEF DrainAppend
  <2>3. heard' \in SUBSET {"completed", "failed"}
    BY <1>12 DEF DrainAppend, TerminalOutcome
  <2> QED BY <1>12, <2>1, <2>2, <2>3 DEF DrainAppend
<1>13. ASSUME NEW ok \in BOOLEAN, DrainWrite(ok) PROVE TypeOK'
  <2>1. drain' \in DrainTask
    BY <1>13 DEF DrainWrite, AppendTombstone, AbortWatcher, DropControl, DrainTask
  <2>2. watcher' \in {"off", "watching", "stopping", "done"}
    BY <1>13 DEF DrainWrite, AppendTombstone, AbortWatcher, DropControl
  <2>3. sender' \in {"open", "stray", "closed"}
    BY <1>13 DEF DrainWrite, AppendTombstone, AbortWatcher, DropControl
  <2>4. tombs' \in Seq(Tombstone)
    BY <1>13, ResolvedOutcome, DeclaredBool, TypedTombstone DEF DrainWrite
  <2> QED BY <1>13, <2>1, <2>2, <2>3, <2>4 DEF DrainWrite, AppendTombstone
<1>14. ASSUME WatcherSees PROVE TypeOK'
  <2>1. rec' \in RunRecord
    <3>1. [BeginExplicit(rec) EXCEPT !.pidShut = TRUE] \in RunRecord
      BY BegunRecord, RecordFlag
    <3> QED BY <1>14, <3>1 DEF WatcherSees
  <2>2. watcher' \in {"off", "watching", "stopping", "done"}
    BY <1>14 DEF WatcherSees, BeginExplicit
  <2> QED BY <1>14, <2>1, <2>2 DEF WatcherSees
<1>15. ASSUME WatcherStop PROVE TypeOK'
  <2>1. watcher' \in {"off", "watching", "stopping", "done"}
    BY <1>15 DEF WatcherStop, StopProducer
  <2>2. sender' \in {"open", "stray", "closed"}
    BY <1>15 DEF WatcherStop, StopProducer
  <2> QED BY <1>15, <2>1, <2>2 DEF WatcherStop
<1>16. ASSUME NEW p \in Role, Request(p) PROVE TypeOK'
  <2>1. rel' \in [Role -> ReleaseCall]
    <3>1. rel[p] \in ReleaseCall /\ "ready" \in RelPcs
      BY DEF RelPcs
    <3>2. Asks(p).outcome \in Outcomes /\ Asks(p).fin \in BOOLEAN
      BY DEF Asks, Outcomes
    <3>3. [rel[p] EXCEPT !.pc = "ready", !.outcome = Asks(p).outcome, !.fin = Asks(p).fin,
                         !.earned = TRUE] \in ReleaseCall
      BY <3>1, <3>2, CallAsk
    <3> QED BY <1>16, <3>3 DEF Request
  <2> QED BY <1>16, <2>1 DEF Request
<1>17. ASSUME NEW p \in Role, ReleaseOne(p) PROVE TypeOK'
  <2>1. rec' \in RunRecord
    <3>1. [rec EXCEPT !.cancel = TRUE] \in RunRecord /\ [rec EXCEPT !.pending = TRUE] \in RunRecord
      BY RecordFlag
    <3>2. [BeginExplicit(rec) EXCEPT !.drain = "dummy"] \in RunRecord
      BY BegunRecord, RecordDrain
    <3>3. \/ rec' \in {rec, [rec EXCEPT !.cancel = TRUE], [rec EXCEPT !.pending = TRUE]}
          \/ rec' = [BeginExplicit(rec) EXCEPT !.drain = "dummy"]
      BY <1>17 DEF ReleaseOne
    <3> QED BY <3>1, <3>2, <3>3
  <2>2. rel' \in [Role -> ReleaseCall]
    <3>1. rel[p] \in ReleaseCall /\ "stopping" \in RelPcs /\ rec.drain \in {"dummy", "real"}
      BY DEF RelPcs, RunRecord
    <3>2. (rel[p].earned \/ Declared(rec)) \in BOOLEAN
      OBVIOUS
    <3>3. [rel[p] EXCEPT !.pc = "stopping", !.join = rec.drain,
                         !.earned = rel[p].earned \/ Declared(rec)] \in ReleaseCall
      BY <3>1, <3>2, CallJoin
    <3>4. CASE rec.inMap /\ rec.life = "idle" /\ ~rec.explicit
      <4>1. rel' = [rel EXCEPT ![p] = [rel[p] EXCEPT !.pc = "stopping", !.join = rec.drain,
                                        !.earned = rel[p].earned \/ Declared(rec)]]
        BY <1>17, <3>4 DEF ReleaseOne
      <4> QED BY <3>3, <4>1
    <3>5. CASE ~(rec.inMap /\ rec.life = "idle" /\ ~rec.explicit)
      BY <1>17, <3>5, QuietCall DEF ReleaseOne
    <3> QED BY <3>4, <3>5
  <2> QED BY <1>17, <2>1, <2>2 DEF ReleaseOne
<1>18. ASSUME NEW p \in Role, ReleaseStop(p) PROVE TypeOK'
  <2>1. rel' \in [Role -> ReleaseCall]
    BY <1>18 DEF ReleaseStop, StopProducer, AbortWatcher, ReleaseCall, RelPcs, Outcomes
  <2>2. sender' \in {"open", "stray", "closed"}
    BY <1>18 DEF ReleaseStop, StopProducer, AbortWatcher
  <2>3. watcher' \in {"off", "watching", "stopping", "done"}
    BY <1>18 DEF ReleaseStop, StopProducer, AbortWatcher
  <2> QED BY <1>18, <2>1, <2>2, <2>3 DEF ReleaseStop
<1>19. ASSUME NEW p \in Role, ReleaseRemove(p) PROVE TypeOK'
  <2>1. rec' \in RunRecord
    BY <1>19, RecordFlag DEF ReleaseRemove
  <2>2. rel' \in [Role -> ReleaseCall]
    <3>1. rel[p] \in ReleaseCall /\ "appending" \in RelPcs
      BY DEF RelPcs
    <3>2. FinalOutcome(rec, rel[p].outcome) \in Outcomes
      BY <3>1 DEF FinalOutcome, ReleaseCall, RunRecord, Outcomes
    <3>3. [rel[p] EXCEPT !.pc = "appending", !.outcome = FinalOutcome(rec, rel[p].outcome)]
             \in ReleaseCall
      BY <3>1, <3>2, CallOutcome
    <3>4. CASE rec.inMap
      BY <1>19, <3>3, <3>4 DEF ReleaseRemove
    <3>5. CASE ~rec.inMap
      BY <1>19, <3>5, QuietCall DEF ReleaseRemove
    <3> QED BY <3>4, <3>5
  <2> QED BY <1>19, <2>1, <2>2 DEF ReleaseRemove
<1>20. ASSUME NEW p \in Role, NEW ok \in BOOLEAN, ReleaseAppend(p, ok) PROVE TypeOK'
  <2>1. rel' \in [Role -> ReleaseCall]
    BY <1>20 DEF ReleaseAppend, AppendTombstone, Quiet, ReleaseCall, RelPcs, Outcomes
  <2>2. tombs' \in Seq(Tombstone)
    <3>1. rel[p].outcome \in Outcomes /\ rel[p].fin \in BOOLEAN /\ rel[p].earned \in BOOLEAN
      BY DEF ReleaseCall
    <3> QED BY <1>20, <3>1, TypedTombstone DEF ReleaseAppend
  <2> QED BY <1>20, <2>1, <2>2 DEF ReleaseAppend, AppendTombstone
<1>21. ASSUME NEW p \in Role, ReleaseDropped(p) PROVE TypeOK'
  <2>1. rel' \in [Role -> ReleaseCall]
    BY <1>21 DEF ReleaseDropped, DropControl, Quiet, ReleaseCall, RelPcs, Outcomes
  <2>2. sender' \in {"open", "stray", "closed"}
    BY <1>21 DEF ReleaseDropped, DropControl, Quiet
  <2> QED BY <1>21, <2>1, <2>2 DEF ReleaseDropped
<1>22. ASSUME NEW p \in Role, SweepPick(p) PROVE TypeOK'
  <2>1. rel' \in [Role -> ReleaseCall]
    <3>1. rel[p] \in ReleaseCall /\ {"probing", "condemned"} \subseteq RelPcs
      BY DEF RelPcs
    <3>2. /\ [rel[p] EXCEPT !.pc = "probing"] \in ReleaseCall
          /\ [rel[p] EXCEPT !.pc = "condemned"] \in ReleaseCall
      BY <3>1, CallPc
    <3> QED BY <1>22, <3>2 DEF SweepPick
  <2> QED BY <1>22, <2>1 DEF SweepPick
<1>23. ASSUME NEW p \in Role, SweepDeclared(p) PROVE TypeOK'
  <2>1. rel' \in [Role -> ReleaseCall]
    <3>1. rel[p] \in ReleaseCall /\ "ready" \in RelPcs
      BY DEF RelPcs
    <3> DEFINE declared == rec.inMap /\ Declared(rec)
               verdict == IF declared THEN "completed" ELSE "failed"
    <3>2. declared \in BOOLEAN /\ verdict \in Outcomes
      BY DEF Outcomes
    <3>3. rel' = [rel EXCEPT ![p] = [rel[p] EXCEPT !.pc = "ready", !.fin = declared,
                                       !.outcome = verdict, !.earned = FALSE]]
      BY <1>23, Zenon DEF SweepDeclared
    <3> HIDE DEF declared, verdict
    <3>4. [rel[p] EXCEPT !.pc = "ready", !.fin = declared, !.outcome = verdict,
                         !.earned = FALSE] \in ReleaseCall
      BY <3>1, <3>2, CallAsk
    <3> QED BY <3>3, <3>4
  <2> QED BY <1>23, <2>1 DEF SweepDeclared
<1>24. ASSUME NEW p \in Role, NEW b \in BOOLEAN, SweepProbed(p, b) PROVE TypeOK'
  <2>1. rel' \in [Role -> ReleaseCall]
    <3>1. rel[p] \in ReleaseCall /\ {"idle", "condemned"} \subseteq RelPcs
      BY DEF RelPcs
    <3>2. /\ [rel[p] EXCEPT !.pc = "idle"] \in ReleaseCall
          /\ [rel[p] EXCEPT !.pc = "condemned"] \in ReleaseCall
      BY <3>1, CallPc
    <3> QED BY <1>24, <3>2, QuietCall DEF SweepProbed
  <2>2. due' \in SUBSET Clock
    BY <1>24 DEF SweepProbed, Quiet
  <2>3. moved' \in BOOLEAN
    BY <1>24 DEF SweepProbed, Quiet
  <2> QED BY <1>24, <2>1, <2>2, <2>3 DEF SweepProbed
<1>25. ASSUME NEW c \in Clock, ClockExpires(c) PROVE TypeOK'
  BY <1>25 DEF ClockExpires
<1>26. ASSUME SendInput PROVE TypeOK'
  BY <1>26 DEF SendInput
<1>27. ASSUME SubmitBegin PROVE TypeOK'
  <2>1. rec' \in RunRecord
    BY <1>27 DEF SubmitBegin, RunRecord
  <2>2. art' \in Handler
    BY <1>27 DEF SubmitBegin, Handler, ArtPcs, RunRecord
  <2> QED BY <1>27, <2>1, <2>2 DEF SubmitBegin
<1>28. ASSUME NEW b \in BOOLEAN, SubmitEnds(b) PROVE TypeOK'
  <2>1. rec' \in RunRecord
    <3> DEFINE r == [rec EXCEPT !.life = "idle", !.decl = IF b THEN art.round ELSE 0]
    <3>1. (IF b THEN art.round ELSE 0) \in 0..MaxRounds
      BY DEF Handler
    <3>2. r \in RunRecord
      BY <3>1, RecordDecl
    <3>3. rec' \in {rec, r, [r EXCEPT !.inMap = FALSE]}
      BY <1>28, Zenon DEF SubmitEnds, TakeDeferred
    <3> HIDE DEF r
    <3> QED BY <3>2, <3>3, RecordFlag
  <2>2. art' \in Handler
    BY <1>28 DEF SubmitEnds, TakeDeferred, NoHandler, Handler, ArtPcs
  <2> QED BY <1>28, <2>1, <2>2 DEF SubmitEnds
<1>29. ASSUME SubmitRelease PROVE TypeOK'
  <2>1. rel' \in [Role -> ReleaseCall]
    <3>1. CASE "submit" \in Role
      <4>1. rel["submit"] \in ReleaseCall /\ "ready" \in RelPcs /\ "completed" \in Outcomes
        BY <3>1 DEF RelPcs, Outcomes
      <4>2. [rel["submit"] EXCEPT !.pc = "ready", !.outcome = "completed", !.fin = TRUE,
                                  !.earned = TRUE] \in ReleaseCall
        BY <4>1, CallAsk
      <4> QED BY <1>29, <3>1, <4>2 DEF SubmitRelease
    <3>2. CASE "submit" \notin Role
      BY <1>29, <3>2 DEF SubmitRelease
    <3> QED BY <3>1, <3>2
  <2>2. art' \in Handler
    BY <1>29 DEF SubmitRelease, NoHandler, Handler, ArtPcs
  <2> QED BY <1>29, <2>1, <2>2 DEF SubmitRelease
<1>30. ASSUME RegenBegin PROVE TypeOK'
  <2>1. rec' \in RunRecord
    <3>1. rec.round + 1 \in 1..MaxRounds
      BY <1>30 DEF RegenBegin, RunRecord
    <3>2. 0 \in 0..MaxRounds
      OBVIOUS
    <3>3. [rec EXCEPT !.life = "regenerate", !.round = rec.round + 1, !.decl = 0] \in RunRecord
      BY <3>1, <3>2, RecordRound
    <3> QED BY <1>30, <3>3 DEF RegenBegin
  <2>2. art' \in Handler
    BY <1>30 DEF RegenBegin, Handler, ArtPcs, RunRecord
  <2> QED BY <1>30, <2>1, <2>2 DEF RegenBegin
<1>31. ASSUME RegenAccepted PROVE TypeOK'
  <2>1. art' \in Handler
    BY <1>31 DEF RegenAccepted, Handler, ArtPcs
  <2>2. due' \in SUBSET Clock
    BY <1>31 DEF RegenAccepted
  <2> QED BY <1>31, <2>1, <2>2 DEF RegenAccepted
<1>32. ASSUME RegenEnds PROVE TypeOK'
  <2>1. rec' \in RunRecord
    <3> DEFINE r == [rec EXCEPT !.life = "idle"]
               s == [rec EXCEPT !.life = "idle", !.round = art.round, !.decl = art.decl]
    <3>1. art.round \in 1..MaxRounds /\ art.decl \in 0..MaxRounds
      BY DEF Handler
    <3>2. r \in RunRecord /\ s \in RunRecord
      BY <3>1, RecordDecl, RecordRound
    <3>3. rec' \in {rec, r, [r EXCEPT !.inMap = FALSE], s, [s EXCEPT !.inMap = FALSE]}
      BY <1>32 DEF RegenEnds, TakeDeferred
    <3> HIDE DEF r, s
    <3> QED BY <3>2, <3>3, RecordFlag
  <2>2. art' \in Handler
    BY <1>32 DEF RegenEnds, TakeDeferred, NoHandler, Handler, ArtPcs
  <2> QED BY <1>32, <2>1, <2>2 DEF RegenEnds
<1>33. ASSUME NEW ok \in BOOLEAN, DeferredWrite(ok) PROVE TypeOK'
  <2>1. watcher' \in {"off", "watching", "stopping", "done"}
    BY <1>33 DEF DeferredWrite, AppendTombstone, AbortWatcher, DropControl, NoHandler
  <2>2. sender' \in {"open", "stray", "closed"}
    BY <1>33 DEF DeferredWrite, AppendTombstone, AbortWatcher, DropControl, NoHandler
  <2>3. tombs' \in Seq(Tombstone)
    <3>1. PICK t : /\ t.outcome \in Outcomes /\ t.fin \in BOOLEAN
                   /\ AppendTombstone([outcome |-> t.outcome, fin |-> t.fin,
                        by |-> "deferred", joined |-> FALSE, earned |-> Declared(rec)], ok)
      <4>1. PICK t : /\ t \in {[outcome |-> "cancelled", fin |-> FALSE],
                               [outcome |-> "failed", fin |-> FALSE], Resolve(rec)}
                     /\ AppendTombstone([outcome |-> t.outcome, fin |-> t.fin,
                        by |-> "deferred", joined |-> FALSE, earned |-> Declared(rec)], ok)
        BY <1>33, Zenon DEF DeferredWrite
      <4>2. CASE t = Resolve(rec)
        BY <4>1, <4>2, ResolvedOutcome
      <4>3. CASE t # Resolve(rec)
        BY <4>1, <4>3 DEF Outcomes
      <4> QED BY <4>2, <4>3
    <3> QED BY <3>1, DeclaredBool, TypedTombstone
  <2>4. art' \in Handler
    BY <1>33 DEF DeferredWrite, AppendTombstone, AbortWatcher, DropControl, NoHandler, Handler, ArtPcs
  <2> QED BY <1>33, <2>1, <2>2, <2>3, <2>4 DEF DeferredWrite, AppendTombstone
<1>34. ASSUME ArtifactorDropped PROVE TypeOK'
  <2>1. art' \in Handler
    BY <1>34 DEF ArtifactorDropped, NoHandler, Handler, ArtPcs
  <2> QED BY <1>34, <2>1 DEF ArtifactorDropped
<1>35. CASE UNCHANGED vars
  BY <1>35 DEF vars
<1> HIDE DEF TypeOK
<1> QED
  BY <1>1, <1>2, <1>3, <1>4, <1>5, <1>6, <1>7, <1>8, <1>9, <1>10, <1>11, <1>12,
    <1>13, <1>14, <1>15, <1>16, <1>17, <1>18, <1>19, <1>20, <1>21, <1>22, <1>23,
    <1>24, <1>25, <1>26, <1>27, <1>28, <1>29, <1>30, <1>31, <1>32, <1>33, <1>34,
    <1>35
    DEF Next, DriverNext, AcquireNext, DrainNext, WatcherNext, ReleaseNext, SweepNext,
    ArtifactorNext

(* The first tombstone of a log, or none. *)
LEMMA FirstTombstone ==
  ASSUME NEW t, NEW ok, tombs = <<>>, AppendTombstone(t, ok)
  PROVE /\ Len(tombs') <= 1
        /\ \A i \in 1..Len(tombs') : tombs'[i] = t
        /\ late' = late
BY DEF AppendTombstone

(* One tombstone: every section that takes the record out of the map becomes the
   one debtor, and only a debtor writes. *)
LEMMA DebtStep ==
  ASSUME TypeOK, OneTombstone, OneDebtor, [Next]_vars PROVE OneTombstone' /\ OneDebtor'
<1> DEFINE Owed == OneTombstone /\ OneDebtor
<1> SUFFICES Owed'
  OBVIOUS
<1>0. rel \in [Role -> ReleaseCall] /\ rec \in RunRecord
  BY DEF TypeOK
<1> USE <1>0 DEF OneTombstone, OneDebtor, Resolving
<1>1. ASSUME NEW e \in Event, Emit(e) PROVE Owed'
  BY <1>1 DEF Emit
<1>2. ASSUME StreamCloses PROVE Owed'
  BY <1>2 DEF StreamCloses
<1>3. ASSUME PidExits PROVE Owed'
  BY <1>3 DEF PidExits
<1>4. ASSUME InstallDrain PROVE Owed'
  BY <1>4 DEF InstallDrain
<1>5. ASSUME InstallWatcher PROVE Owed'
  BY <1>5 DEF InstallWatcher
<1>6. ASSUME AcquireDropped PROVE Owed'
  BY <1>6 DEF AcquireDropped
<1>7. ASSUME DrainApply PROVE Owed'
  BY <1>7 DEF DrainApply
<1>8. ASSUME DrainSettle PROVE Owed'
  BY <1>8 DEF DrainSettle
<1>9. ASSUME DrainStop PROVE Owed'
  BY <1>9 DEF DrainStop, StopProducer
<1>10. ASSUME DrainEnds PROVE Owed'
  BY <1>10 DEF DrainEnds
<1>11. ASSUME DrainFinish PROVE Owed'
  <2>1. UNCHANGED <<rel, art, tombs, late>>
    BY <1>11 DEF DrainFinish
  <2>2. \/ drain'.pc = "done" /\ rec'.inMap = rec.inMap
        \/ drain'.pc = "writing" /\ rec.inMap /\ ~rec'.inMap
    BY <1>11 DEF DrainFinish, RunRecord, DrainTask, TypeOK
  <2> QED BY <2>1, <2>2
<1>12. ASSUME NEW ok \in BOOLEAN, DrainAppend(ok) PROVE Owed'
  BY <1>12 DEF DrainAppend
<1>13. ASSUME NEW ok \in BOOLEAN, DrainWrite(ok) PROVE Owed'
  BY <1>13 DEF DrainWrite, AppendTombstone, AbortWatcher, DropControl
<1>14. ASSUME WatcherSees PROVE Owed'
  BY <1>14 DEF WatcherSees, BeginExplicit
<1>15. ASSUME WatcherStop PROVE Owed'
  BY <1>15 DEF WatcherStop, StopProducer
<1>16. ASSUME NEW p \in Role, Request(p) PROVE Owed'
  BY <1>16 DEF Request, Asks
<1>17. ASSUME NEW p \in Role, ReleaseOne(p) PROVE Owed'
  <2>1. UNCHANGED <<drain, art, tombs, late>> /\ rec'.inMap = rec.inMap
    BY <1>17 DEF ReleaseOne, BeginExplicit, RunRecord
  <2>2. rel'[p].pc # "appending"
    <3>1. CASE rec.inMap /\ rec.life = "idle" /\ ~rec.explicit
      <4>1. rel' = [rel EXCEPT ![p] = [rel[p] EXCEPT !.pc = "stopping", !.join = rec.drain,
                                        !.earned = rel[p].earned \/ Declared(rec)]]
        BY <1>17, <3>1 DEF ReleaseOne
      <4> QED BY <4>1 DEF ReleaseCall
    <3>2. CASE ~(rec.inMap /\ rec.life = "idle" /\ ~rec.explicit)
      BY <1>17, <3>2 DEF ReleaseOne, Quiet
    <3> QED BY <3>1, <3>2
  <2>3. \A q \in Role \ {p} : rel'[q] = rel[q]
    BY <1>17 DEF ReleaseOne
  <2> QED BY <2>1, <2>2, <2>3
<1>18. ASSUME NEW p \in Role, ReleaseStop(p) PROVE Owed'
  BY <1>18 DEF ReleaseStop, StopProducer, AbortWatcher
<1>19. ASSUME NEW p \in Role, ReleaseRemove(p) PROVE Owed'
  <2>1. CASE rec.inMap
    <3>1. ~rec'.inMap /\ UNCHANGED <<drain, art, tombs, late>>
      BY <1>19, <2>1 DEF ReleaseRemove, RunRecord
    <3>2. \A q \in Role : rel'[q].pc = "appending" => rel[q].pc = "appending" \/ q = p
      BY <1>19, <2>1 DEF ReleaseRemove
    <3>3. \A q \in Role : rel[q].pc # "appending"
      BY <2>1
    <3> QED BY <2>1, <3>1, <3>2, <3>3
  <2>2. CASE ~rec.inMap
    <3>1. UNCHANGED <<rec, drain, art, tombs, late>>
      BY <1>19, <2>2 DEF ReleaseRemove
    <3>2. \A q \in Role : rel'[q].pc = "appending" => rel[q].pc = "appending"
      BY <1>19, <2>2 DEF ReleaseRemove, Quiet
    <3> QED BY <3>1, <3>2
  <2> QED BY <2>1, <2>2
<1>20. ASSUME NEW p \in Role, NEW ok \in BOOLEAN, ReleaseAppend(p, ok) PROVE Owed'
  BY <1>20 DEF ReleaseAppend, AppendTombstone, Quiet
<1>21. ASSUME NEW p \in Role, ReleaseDropped(p) PROVE Owed'
  BY <1>21 DEF ReleaseDropped, DropControl, Quiet
<1>22. ASSUME NEW p \in Role, SweepPick(p) PROVE Owed'
  BY <1>22 DEF SweepPick
<1>23. ASSUME NEW p \in Role, SweepDeclared(p) PROVE Owed'
  BY <1>23 DEF SweepDeclared
<1>24. ASSUME NEW p \in Role, NEW b \in BOOLEAN, SweepProbed(p, b) PROVE Owed'
  <2>1. UNCHANGED <<drain, art, tombs, late>> /\ rec'.inMap = rec.inMap
    BY <1>24 DEF SweepProbed, RunRecord
  <2>2. rel'[p].pc # "appending"
    BY <1>24 DEF SweepProbed, Quiet, ReleaseCall
  <2>3. \A q \in Role \ {p} : rel'[q] = rel[q]
    BY <1>24 DEF SweepProbed
  <2> QED BY <2>1, <2>2, <2>3
<1>25. ASSUME NEW c \in Clock, ClockExpires(c) PROVE Owed'
  BY <1>25 DEF ClockExpires
<1>26. ASSUME SendInput PROVE Owed'
  BY <1>26 DEF SendInput
<1>27. ASSUME SubmitBegin PROVE Owed'
  BY <1>27 DEF SubmitBegin
<1>28. ASSUME NEW b \in BOOLEAN, SubmitEnds(b) PROVE Owed'
  <2>1. UNCHANGED <<drain, rel, tombs, late>>
    BY <1>28 DEF SubmitEnds
  <2>2. CASE ~rec.inMap
    BY <1>28, <2>1, <2>2 DEF SubmitEnds, NoHandler
  <2>3. CASE rec.inMap /\ (rec.cancel \/ rec.pending)
    <3>1. ~rec'.inMap
      BY <1>28, <2>3 DEF SubmitEnds, TakeDeferred, RunRecord
    <3> QED BY <2>1, <2>3, <3>1
  <2>4. CASE rec.inMap /\ ~rec.cancel /\ ~rec.pending
    <3>1. rec'.inMap = rec.inMap
      BY <1>28, <2>4 DEF SubmitEnds, TakeDeferred, RunRecord
    <3>2. art'.pc \in {"idle", "submitted"}
      BY <1>28, <2>4 DEF SubmitEnds, TakeDeferred, NoHandler, RunRecord
    <3> QED BY <2>1, <2>4, <3>1, <3>2
  <2> QED BY <2>2, <2>3, <2>4
<1>29. ASSUME SubmitRelease PROVE Owed'
  BY <1>29 DEF SubmitRelease, NoHandler
<1>30. ASSUME RegenBegin PROVE Owed'
  BY <1>30 DEF RegenBegin
<1>31. ASSUME RegenAccepted PROVE Owed'
  BY <1>31 DEF RegenAccepted
<1>32. ASSUME RegenEnds PROVE Owed'
  <2>1. UNCHANGED <<drain, rel, tombs, late>>
    BY <1>32 DEF RegenEnds
  <2>2. CASE ~rec.inMap
    BY <1>32, <2>1, <2>2 DEF RegenEnds, NoHandler
  <2>3. CASE rec.inMap /\ (rec.cancel \/ rec.pending)
    <3>1. ~rec'.inMap
      BY <1>32, <2>3 DEF RegenEnds, TakeDeferred, RunRecord
    <3> QED BY <2>1, <2>3, <3>1
  <2>4. CASE rec.inMap /\ ~rec.cancel /\ ~rec.pending
    <3>1. rec'.inMap = rec.inMap
      BY <1>32, <2>4 DEF RegenEnds, TakeDeferred, RunRecord
    <3>2. art'.pc \in {"idle", "submitted"}
      BY <1>32, <2>4 DEF RegenEnds, TakeDeferred, NoHandler, RunRecord
    <3> QED BY <2>1, <2>4, <3>1, <3>2
  <2> QED BY <2>2, <2>3, <2>4
<1>33. ASSUME NEW ok \in BOOLEAN, DeferredWrite(ok) PROVE Owed'
  BY <1>33 DEF DeferredWrite, AppendTombstone, AbortWatcher, DropControl, NoHandler
<1>34. ASSUME ArtifactorDropped PROVE Owed'
  BY <1>34 DEF ArtifactorDropped, NoHandler
<1>35. CASE UNCHANGED vars
  BY <1>35 DEF vars
<1> HIDE DEF Owed, OneTombstone, OneDebtor, Resolving
<1> QED
  BY <1>1, <1>2, <1>3, <1>4, <1>5, <1>6, <1>7, <1>8, <1>9, <1>10, <1>11, <1>12,
    <1>13, <1>14, <1>15, <1>16, <1>17, <1>18, <1>19, <1>20, <1>21, <1>22, <1>23,
    <1>24, <1>25, <1>26, <1>27, <1>28, <1>29, <1>30, <1>31, <1>32, <1>33, <1>34,
    <1>35
    DEF Next, DriverNext, AcquireNext, DrainNext, WatcherNext, ReleaseNext, SweepNext,
    ArtifactorNext

(* The log behind a joined tombstone: such a tombstone finds the drain done, and
   it stays done. *)
LEMMA LateStep ==
  ASSUME TypeOK, OneTombstone, OneDebtor, JoinedDrain, ReleaseIsLast, [Next]_vars
  PROVE JoinedDrain' /\ ReleaseIsLast'
<1> DEFINE Kept == JoinedDrain /\ ReleaseIsLast
<1> SUFFICES Kept'
  OBVIOUS
<1>0. rel \in [Role -> ReleaseCall] /\ rec \in RunRecord /\ drain \in DrainTask
  BY DEF TypeOK
<1> USE <1>0 DEF OneTombstone, OneDebtor, JoinedDrain, ReleaseIsLast, Resolving
<1>1. ASSUME NEW e \in Event, Emit(e) PROVE Kept'
  BY <1>1 DEF Emit
<1>2. ASSUME StreamCloses PROVE Kept'
  BY <1>2 DEF StreamCloses
<1>3. ASSUME PidExits PROVE Kept'
  BY <1>3 DEF PidExits
<1>4. ASSUME InstallDrain PROVE Kept'
  BY <1>4 DEF InstallDrain
<1>5. ASSUME InstallWatcher PROVE Kept'
  BY <1>5 DEF InstallWatcher
<1>6. ASSUME AcquireDropped PROVE Kept'
  BY <1>6 DEF AcquireDropped
<1>7. ASSUME DrainApply PROVE Kept'
  BY <1>7 DEF DrainApply
<1>8. ASSUME DrainSettle PROVE Kept'
  BY <1>8 DEF DrainSettle
<1>9. ASSUME DrainStop PROVE Kept'
  BY <1>9 DEF DrainStop, StopProducer
<1>10. ASSUME DrainEnds PROVE Kept'
  BY <1>10 DEF DrainEnds
<1>11. ASSUME DrainFinish PROVE Kept'
  BY <1>11 DEF DrainFinish
<1>12. ASSUME NEW ok \in BOOLEAN, DrainAppend(ok) PROVE Kept'
  <2>1. UNCHANGED <<rel, tombs>> /\ drain.pc = "applied" /\ drain'.pc = "appended"
    BY <1>12 DEF DrainAppend, DrainTask
  <2>2. late' => late \/ tombs # <<>>
    BY <1>12 DEF DrainAppend
  <2>3. tombs # <<>> => \E i \in 1..Len(tombs) : ~tombs[i].joined
    <3>1. tombs # <<>> => 1 \in 1..Len(tombs)
      BY DEF TypeOK
    <3> QED BY <2>1, <3>1
  <2>4. \A i \in 1..Len(tombs) : ~tombs[i].joined
    BY <2>1
  <2>5. \A q \in Role : rel[q].pc = "appending" => rel[q].join # "real"
    BY <2>1
  <2> QED BY <2>1, <2>2, <2>3, <2>4, <2>5
<1>13. ASSUME NEW ok \in BOOLEAN, DrainWrite(ok) PROVE Kept'
  BY <1>13 DEF DrainWrite, AppendTombstone, AbortWatcher, DropControl
<1>14. ASSUME WatcherSees PROVE Kept'
  BY <1>14 DEF WatcherSees, BeginExplicit
<1>15. ASSUME WatcherStop PROVE Kept'
  BY <1>15 DEF WatcherStop, StopProducer
<1>16. ASSUME NEW p \in Role, Request(p) PROVE Kept'
  BY <1>16 DEF Request, Asks
<1>17. ASSUME NEW p \in Role, ReleaseOne(p) PROVE Kept'
  <2>1. UNCHANGED <<drain, art, tombs, late>> /\ rec'.inMap = rec.inMap
    BY <1>17 DEF ReleaseOne, BeginExplicit, RunRecord
  <2>2. rel'[p].pc # "appending"
    <3>1. CASE rec.inMap /\ rec.life = "idle" /\ ~rec.explicit
      <4>1. rel' = [rel EXCEPT ![p] = [rel[p] EXCEPT !.pc = "stopping", !.join = rec.drain,
                                        !.earned = rel[p].earned \/ Declared(rec)]]
        BY <1>17, <3>1 DEF ReleaseOne
      <4> QED BY <4>1 DEF ReleaseCall
    <3>2. CASE ~(rec.inMap /\ rec.life = "idle" /\ ~rec.explicit)
      BY <1>17, <3>2 DEF ReleaseOne, Quiet
    <3> QED BY <3>1, <3>2
  <2>3. \A q \in Role \ {p} : rel'[q] = rel[q]
    BY <1>17 DEF ReleaseOne
  <2> QED BY <2>1, <2>2, <2>3
<1>18. ASSUME NEW p \in Role, ReleaseStop(p) PROVE Kept'
  BY <1>18 DEF ReleaseStop, StopProducer, AbortWatcher
<1>19. ASSUME NEW p \in Role, ReleaseRemove(p) PROVE Kept'
  <2>1. UNCHANGED <<drain, tombs, late>>
    BY <1>19 DEF ReleaseRemove
  <2>2. rel'[p].pc = "appending" /\ rel'[p].join = "real" => drain.pc = "done"
    <3>1. CASE rec.inMap
      <4>1. rel[p].join = "real" => drain.pc = "done"
        BY <1>19 DEF ReleaseRemove
      <4>2. rel' = [rel EXCEPT ![p] = [rel[p] EXCEPT !.pc = "appending",
                                        !.outcome = FinalOutcome(rec, rel[p].outcome)]]
        BY <1>19, <3>1 DEF ReleaseRemove
      <4>3. rel'[p].join = rel[p].join
        BY <4>2 DEF ReleaseCall
      <4> QED BY <4>1, <4>3
    <3>2. CASE ~rec.inMap
      BY <1>19, <3>2 DEF ReleaseRemove, Quiet
    <3> QED BY <3>1, <3>2
  <2>3. \A q \in Role \ {p} : rel'[q] = rel[q]
    BY <1>19 DEF ReleaseRemove
  <2> QED BY <2>1, <2>2, <2>3
<1>20. ASSUME NEW p \in Role, NEW ok \in BOOLEAN, ReleaseAppend(p, ok) PROVE Kept'
  <2>1. tombs = <<>> /\ ~late /\ (rel[p].join = "real" => drain.pc = "done")
    BY <1>20 DEF ReleaseAppend
  <2> DEFINE t == [outcome |-> rel[p].outcome, fin |-> rel[p].fin, by |-> p,
                   joined |-> rel[p].join = "real", earned |-> rel[p].earned]
  <2>2. AppendTombstone(t, ok)
    BY <1>20 DEF ReleaseAppend
  <2>3. t.joined => drain.pc = "done"
    BY <2>1
  <2> HIDE DEF t
  <2>4. late' = late /\ \A i \in 1..Len(tombs') : tombs'[i] = t
    BY <2>1, <2>2, FirstTombstone
  <2>5. UNCHANGED drain /\ rel'[p].pc # "appending"
    BY <1>20 DEF ReleaseAppend, Quiet
  <2>6. \A q \in Role \ {p} : rel'[q] = rel[q]
    BY <1>20 DEF ReleaseAppend
  <2> QED BY <2>1, <2>3, <2>4, <2>5, <2>6
<1>21. ASSUME NEW p \in Role, ReleaseDropped(p) PROVE Kept'
  BY <1>21 DEF ReleaseDropped, DropControl, Quiet
<1>22. ASSUME NEW p \in Role, SweepPick(p) PROVE Kept'
  BY <1>22 DEF SweepPick
<1>23. ASSUME NEW p \in Role, SweepDeclared(p) PROVE Kept'
  BY <1>23 DEF SweepDeclared
<1>24. ASSUME NEW p \in Role, NEW b \in BOOLEAN, SweepProbed(p, b) PROVE Kept'
  <2>1. UNCHANGED <<drain, art, tombs, late>> /\ rec'.inMap = rec.inMap
    BY <1>24 DEF SweepProbed, RunRecord
  <2>2. rel'[p].pc # "appending"
    BY <1>24 DEF SweepProbed, Quiet, ReleaseCall
  <2>3. \A q \in Role \ {p} : rel'[q] = rel[q]
    BY <1>24 DEF SweepProbed
  <2> QED BY <2>1, <2>2, <2>3
<1>25. ASSUME NEW c \in Clock, ClockExpires(c) PROVE Kept'
  BY <1>25 DEF ClockExpires
<1>26. ASSUME SendInput PROVE Kept'
  BY <1>26 DEF SendInput
<1>27. ASSUME SubmitBegin PROVE Kept'
  BY <1>27 DEF SubmitBegin
<1>28. ASSUME NEW b \in BOOLEAN, SubmitEnds(b) PROVE Kept'
  BY <1>28 DEF SubmitEnds, TakeDeferred, NoHandler
<1>29. ASSUME SubmitRelease PROVE Kept'
  BY <1>29 DEF SubmitRelease, NoHandler
<1>30. ASSUME RegenBegin PROVE Kept'
  BY <1>30 DEF RegenBegin
<1>31. ASSUME RegenAccepted PROVE Kept'
  BY <1>31 DEF RegenAccepted
<1>32. ASSUME RegenEnds PROVE Kept'
  BY <1>32 DEF RegenEnds, TakeDeferred, NoHandler
<1>33. ASSUME NEW ok \in BOOLEAN, DeferredWrite(ok) PROVE Kept'
  BY <1>33 DEF DeferredWrite, AppendTombstone, AbortWatcher, DropControl, NoHandler
<1>34. ASSUME ArtifactorDropped PROVE Kept'
  BY <1>34 DEF ArtifactorDropped, NoHandler
<1>35. CASE UNCHANGED vars
  BY <1>35 DEF vars
<1> HIDE DEF Kept, OneTombstone, OneDebtor, JoinedDrain, ReleaseIsLast, Resolving
<1> QED
  BY <1>1, <1>2, <1>3, <1>4, <1>5, <1>6, <1>7, <1>8, <1>9, <1>10, <1>11, <1>12,
    <1>13, <1>14, <1>15, <1>16, <1>17, <1>18, <1>19, <1>20, <1>21, <1>22, <1>23,
    <1>24, <1>25, <1>26, <1>27, <1>28, <1>29, <1>30, <1>31, <1>32, <1>33, <1>34,
    <1>35
    DEF Next, DriverNext, AcquireNext, DrainNext, WatcherNext, ReleaseNext, SweepNext,
    ArtifactorNext

(* What the sections away from the drain and the tombstones leave alone. *)
Calm ==
    /\ UNCHANGED <<drain, heard, tombs>>
    /\ rec'.outcome = rec.outcome /\ rec'.turns = rec.turns /\ rec'.termShut = rec.termShut
    /\ rec.explicit => rec'.explicit
    /\ rec'.inMap => /\ rec.inMap
                     /\ rec.pending => rec'.pending
                     /\ rec'.pending => rec'.life # "idle"
    /\ ~rec.inMap => rec' = rec
    /\ \A p \in Role : rel'[p].pc = "appending" => rel'[p] = rel[p]

(* A section is calm, or it is one of the drain's, the removal of the record, or
   the append of a tombstone. *)
LEMMA CalmStep ==
  ASSUME TypeOK, FailureKept, [Next]_vars
  PROVE \/ Calm
        \/ DrainNext
        \/ \E p \in Role : ReleaseRemove(p) \/ \E ok \in BOOLEAN : ReleaseAppend(p, ok)
        \/ \E ok \in BOOLEAN : DeferredWrite(ok)
<1>0. /\ rel \in [Role -> ReleaseCall] /\ rec \in RunRecord
      /\ rec.inMap /\ rec.pending => rec.life # "idle"
  BY DEF TypeOK, FailureKept
<1> USE <1>0 DEF Calm
<1>1. ASSUME DriverNext PROVE Calm
  BY <1>1 DEF DriverNext, Emit, StreamCloses, PidExits
<1>2. ASSUME AcquireNext PROVE Calm
  BY <1>2 DEF AcquireNext, InstallDrain, InstallWatcher, AcquireDropped, RunRecord
<1>3. ASSUME WatcherNext PROVE Calm
  BY <1>3 DEF WatcherNext, WatcherSees, WatcherStop, StopProducer, BeginExplicit, RunRecord
<1>4. ASSUME NEW p \in Role, Request(p) PROVE Calm
  <2>1. rel'[p].pc = "ready" /\ \A q \in Role \ {p} : rel'[q] = rel[q]
    BY <1>4 DEF Request, ReleaseCall
  <2> QED BY <1>4, <2>1 DEF Request
<1>5. ASSUME NEW p \in Role, ReleaseOne(p) PROVE Calm
  <2>1. \A q \in Role \ {p} : rel'[q] = rel[q]
    BY <1>5 DEF ReleaseOne
  <2>2. UNCHANGED <<drain, heard, tombs>>
    BY <1>5 DEF ReleaseOne
  <2>3. CASE rec.inMap /\ rec.life = "idle" /\ ~rec.explicit
    <3>1. rel' = [rel EXCEPT ![p] = [rel[p] EXCEPT !.pc = "stopping", !.join = rec.drain,
                                        !.earned = rel[p].earned \/ Declared(rec)]]
      BY <1>5, <2>3 DEF ReleaseOne
    <3>2. rel'[p].pc = "stopping"
      BY <3>1 DEF ReleaseCall
    <3>3. rec' = [BeginExplicit(rec) EXCEPT !.drain = "dummy"]
      BY <1>5, <2>3 DEF ReleaseOne
    <3> QED BY <2>1, <2>2, <2>3, <3>2, <3>3 DEF BeginExplicit, RunRecord
  <2>4. CASE ~(rec.inMap /\ rec.life = "idle" /\ ~rec.explicit)
    <3>1. rel'[p].pc = "idle"
      BY <1>5, <2>4 DEF ReleaseOne, Quiet
    <3>2. \/ rec' = rec
          \/ /\ rec.inMap /\ rec.life # "idle"
             /\ rec' \in {[rec EXCEPT !.cancel = TRUE], [rec EXCEPT !.pending = TRUE]}
      BY <1>5, <2>4 DEF ReleaseOne
    <3> QED BY <2>1, <2>2, <3>1, <3>2 DEF RunRecord
  <2> QED BY <2>3, <2>4
<1>6. ASSUME NEW p \in Role, ReleaseStop(p) PROVE Calm
  <2>1. rel'[p].pc = "joining" /\ \A q \in Role \ {p} : rel'[q] = rel[q]
    BY <1>6 DEF ReleaseStop, ReleaseCall
  <2> QED BY <1>6, <2>1 DEF ReleaseStop
<1>7. ASSUME NEW p \in Role, ReleaseDropped(p) PROVE Calm
  <2>1. rel'[p].pc = "idle" /\ \A q \in Role \ {p} : rel'[q] = rel[q]
    BY <1>7 DEF ReleaseDropped, Quiet
  <2> QED BY <1>7, <2>1 DEF ReleaseDropped
<1>8. ASSUME NEW p \in Role, SweepNext(p) PROVE Calm
  <2> DEFINE Away == /\ rel'[p].pc # "appending"
                     /\ \A q \in Role \ {p} : rel'[q] = rel[q]
                     /\ UNCHANGED <<rec, drain, heard, tombs>>
  <2>1. Away
    <3>1. ASSUME SweepPick(p) PROVE Away
      BY <3>1 DEF SweepPick, ReleaseCall
    <3>2. ASSUME SweepDeclared(p) PROVE Away
      BY <3>2 DEF SweepDeclared, ReleaseCall
    <3>3. ASSUME NEW working \in BOOLEAN, SweepProbed(p, working) PROVE Away
      BY <3>3 DEF SweepProbed, ReleaseCall, Quiet
    <3> QED BY <1>8, <3>1, <3>2, <3>3 DEF SweepNext
  <2> QED BY <2>1
<1>9. ASSUME NEW c \in Clock, ClockExpires(c) PROVE Calm
  BY <1>9 DEF ClockExpires
<1>10. ASSUME SendInput PROVE Calm
  BY <1>10 DEF SendInput
<1>11. ASSUME SubmitBegin PROVE Calm
  BY <1>11 DEF SubmitBegin, RunRecord
<1>12. ASSUME RegenBegin PROVE Calm
  BY <1>12 DEF RegenBegin, RunRecord
<1>13. ASSUME ArtifactorDropped PROVE Calm
  BY <1>13 DEF ArtifactorDropped
<1>14. ASSUME NEW b \in BOOLEAN, SubmitEnds(b) PROVE Calm
  BY <1>14 DEF SubmitEnds, TakeDeferred, RunRecord
<1>15. ASSUME SubmitRelease PROVE Calm
  <2>1. \A q \in Role : rel'[q].pc = "appending" => rel'[q] = rel[q]
    BY <1>15 DEF SubmitRelease, ReleaseCall
  <2> QED BY <1>15, <2>1 DEF SubmitRelease
<1>16. ASSUME RegenAccepted PROVE Calm
  BY <1>16 DEF RegenAccepted
<1>17. ASSUME RegenEnds PROVE Calm
  BY <1>17 DEF RegenEnds, TakeDeferred, RunRecord
<1>18. CASE UNCHANGED vars
  BY <1>18 DEF vars
<1> HIDE DEF Calm
<1> QED
  BY <1>1, <1>2, <1>3, <1>4, <1>5, <1>6, <1>7, <1>8, <1>9, <1>10, <1>11, <1>12, <1>13,
     <1>14, <1>15, <1>16, <1>17, <1>18
  DEF Next, ReleaseNext, ArtifactorNext

(* What applying an event does to the parts of the record that the outcome of the
   run depends on. *)
LEMMA AppliedParts ==
  ASSUME NEW r \in RunRecord, NEW e
  PROVE /\ ApplyDriverEvent(r, e).outcome = SettledOutcome(r, e)
        /\ ApplyDriverEvent(r, e).inMap = r.inMap
        /\ ApplyDriverEvent(r, e).turns = r.turns
        /\ ApplyDriverEvent(r, e).termShut = r.termShut
        /\ ApplyDriverEvent(r, e).explicit = r.explicit
        /\ ApplyDriverEvent(r, e).pending = r.pending
        /\ ApplyDriverEvent(r, e).life = r.life
<1> DEFINE o == SettledOutcome(r, e)
           ready == r.ready \/ e = "ready"
           work == r.work \/ CountsAsWork(e)
           terminal == r.terminal \/ e \in {"complete", "fail"}
<1>1. ApplyDriverEvent(r, e) =
        [r EXCEPT !.outcome = o, !.ready = ready, !.work = work, !.terminal = terminal]
  BY Zenon DEF ApplyDriverEvent
<1>2. o = SettledOutcome(r, e)
  OBVIOUS
<1> HIDE DEF o, ready, work, terminal
<1> QED BY <1>1, <1>2 DEF RunRecord

(* The outcome the drain's tombstone takes from a record that failed. *)
LEMMA FailedResolve ==
  ASSUME NEW r, r.life = "idle", r.outcome = "failed", ~Resolve(r).fin
  PROVE Resolve(r).outcome = "failed"
BY DEF Resolve

(* What the drain decides behind an event: the record it leaves. *)
LEMMA SettledParts ==
  ASSUME TypeOK, DrainSettle
  PROVE LET e == drain.evt
            takes == TakesTerminal(rec, e)
        IN  /\ rec'.inMap = rec.inMap /\ rec'.life = rec.life
            /\ rec.inMap =>
                 /\ rec'.outcome = IF OverBudget(rec, e) THEN "failed" ELSE rec.outcome
                 /\ rec'.turns = IF e = "turn" THEN rec.turns + 1 ELSE rec.turns
                 /\ rec'.termShut = (rec.termShut \/ (takes /\ rec.life = "idle"))
                 /\ rec'.explicit = (rec.explicit \/ (takes /\ rec.life = "idle"))
                 /\ rec'.pending = (rec.pending \/ (takes /\ rec.life # "idle"))
            /\ ~rec.inMap => rec' = rec
            /\ drain'.pc \in {"recv", "stopping"}
            /\ UNCHANGED <<rel, heard, tombs>>
<1> DEFINE e == drain.evt
           takes == TakesTerminal(rec, e)
           r == CountTurn(rec, e)
<1>0. rec \in RunRecord /\ drain \in DrainTask
  BY DEF TypeOK
<1>1. /\ rec' = IF ~rec.inMap THEN rec
                ELSE IF takes /\ rec.life = "idle"
                THEN [BeginExplicit(r) EXCEPT !.termShut = TRUE]
                ELSE IF takes THEN [r EXCEPT !.pending = TRUE] ELSE r
      /\ drain'.pc \in {"recv", "stopping"} /\ UNCHANGED <<rel, heard, tombs>>
  BY <1>0 DEF DrainSettle, DrainTask
<1>2. r \in RunRecord
  BY <1>0, CountedRecord
<1>3. /\ r.inMap = rec.inMap /\ r.life = rec.life /\ r.termShut = rec.termShut
      /\ r.explicit = rec.explicit /\ r.pending = rec.pending
      /\ r.outcome = IF OverBudget(rec, e) THEN "failed" ELSE rec.outcome
      /\ r.turns = IF e = "turn" THEN rec.turns + 1 ELSE rec.turns
  BY <1>0 DEF CountTurn, RunRecord
<1>4. takes \in BOOLEAN
  BY <1>0 DEF TakesTerminal, RunRecord
<1> HIDE DEF r, takes, e
<1>5. \/ ~rec.inMap /\ rec' = rec
      \/ /\ rec.inMap /\ takes /\ rec.life = "idle"
         /\ rec' = [BeginExplicit(r) EXCEPT !.termShut = TRUE]
      \/ rec.inMap /\ takes /\ rec.life # "idle" /\ rec' = [r EXCEPT !.pending = TRUE]
      \/ rec.inMap /\ ~takes /\ rec' = r
  BY <1>1, <1>4
<1>6. ASSUME rec.inMap
      PROVE /\ rec'.inMap = rec.inMap /\ rec'.life = rec.life
            /\ rec'.outcome = r.outcome /\ rec'.turns = r.turns
            /\ rec'.termShut = (rec.termShut \/ (takes /\ rec.life = "idle"))
            /\ rec'.explicit = (rec.explicit \/ (takes /\ rec.life = "idle"))
            /\ rec'.pending = (rec.pending \/ (takes /\ rec.life # "idle"))
  <2>1. CASE takes /\ rec.life = "idle"
    <3>1. rec' = [BeginExplicit(r) EXCEPT !.termShut = TRUE]
      BY <1>5, <1>6, <2>1
    <3> QED BY <1>0, <1>2, <1>3, <2>1, <3>1 DEF BeginExplicit, RunRecord
  <2>2. CASE takes /\ rec.life # "idle"
    <3>1. rec' = [r EXCEPT !.pending = TRUE]
      BY <1>5, <1>6, <2>2
    <3> QED BY <1>0, <1>2, <1>3, <2>2, <3>1 DEF RunRecord
  <2>3. CASE ~takes
    BY <1>0, <1>3, <1>5, <1>6, <2>3 DEF RunRecord
  <2> QED BY <2>1, <2>2, <2>3
<1>7. ~rec.inMap => rec' = rec
  BY <1>5
<1> QED BY <1>1, <1>3, <1>6, <1>7 DEF e, takes

(* A logged failure stays the outcome of the record until the drain writes it. *)
LEMMA FailureStep ==
  ASSUME TypeOK, OneTombstone, OneDebtor, JoinedDrain, FailureKept, [Next]_vars
  PROVE FailureKept'
<1>0. rel \in [Role -> ReleaseCall] /\ rec \in RunRecord /\ drain \in DrainTask
  BY DEF TypeOK
<1> USE <1>0
(* The part about the log, when the log and what it speaks of stand still. *)
<1>1. ASSUME UNCHANGED <<heard, tombs>>, tombs # <<>> => rec'.termShut = rec.termShut
      PROVE FailureStands'
  <2>1. \A i \in 1..Len(tombs) : tombs # <<>>
    OBVIOUS
  <2> QED BY <1>1, <2>1 DEF FailureKept, FailureStands
<1>2. \A e : TerminalOutcome(e) = "failed" => e \in {"fail", "fatal"}
  BY DEF TerminalOutcome
<1>3. CASE Calm
  <2>1. FailureStands'
    BY <1>1, <1>3 DEF Calm
  <2> QED BY <1>3, <2>1 DEF Calm, FailureKept, Failing, OneDebtor
<1>4. CASE DrainApply
  <2>1. /\ UNCHANGED <<heard, tombs>> /\ drain.pc = "recv" /\ drain'.pc = "applied"
        /\ ~rec.inMap => rec' = rec
        /\ rec.inMap => rec' = ApplyDriverEvent(rec, drain'.evt)
    BY <1>4 DEF DrainApply
  <2>2. /\ rec'.termShut = rec.termShut /\ rec'.explicit = rec.explicit
        /\ rec'.pending = rec.pending /\ rec'.life = rec.life /\ rec'.inMap = rec.inMap
        /\ rec.inMap => rec'.outcome = SettledOutcome(rec, drain'.evt)
    BY <2>1, AppliedParts
  <2>3. FailureStands'
    BY <1>1, <2>1, <2>2
  <2>4. rec.inMap /\ TerminalOutcome(drain'.evt) = "failed" => rec'.outcome = "failed"
    BY <2>2 DEF SettledOutcome
  <2>5. rec.inMap /\ rec.outcome = "failed" /\ rec.termShut => rec'.outcome = "failed"
    BY <2>2 DEF SettledOutcome
  <2> QED BY <2>1, <2>2, <2>3, <2>4, <2>5 DEF FailureKept, Failing
<1>5. CASE DrainSettle
  <2> DEFINE e == drain.evt
             takes == TakesTerminal(rec, e)
  <2>1. /\ rec'.inMap = rec.inMap /\ rec'.life = rec.life
        /\ rec.inMap =>
             /\ rec'.outcome = IF OverBudget(rec, e) THEN "failed" ELSE rec.outcome
             /\ rec'.termShut = (rec.termShut \/ (takes /\ rec.life = "idle"))
             /\ rec'.explicit = (rec.explicit \/ (takes /\ rec.life = "idle"))
             /\ rec'.pending = (rec.pending \/ (takes /\ rec.life # "idle"))
        /\ ~rec.inMap => rec' = rec
        /\ drain'.pc \in {"recv", "stopping"}
        /\ UNCHANGED <<rel, heard, tombs>>
    BY <1>5, SettledParts
  <2>2. drain.pc = "appended"
    BY <1>5 DEF DrainSettle
  <2>3. ~rec.inMap \/ tombs = <<>>
    BY DEF OneTombstone
  <2>4. FailureStands'
    BY <1>1, <2>1, <2>3
  (* A failure that was just applied is taken, unless a release has begun. *)
  <2>5. rec.inMap /\ Failing => takes \/ rec.explicit
    <3>1. SUFFICES ASSUME rec.inMap, Failing PROVE takes \/ rec.explicit
      OBVIOUS
    <3>2. rec.outcome = "failed" /\ TerminalOutcome(e) = "failed"
      BY <3>1 DEF FailureKept, Failing
    <3>3. CountTurn(rec, e).outcome = "failed"
      BY <3>2 DEF CountTurn, RunRecord
    <3> QED BY <3>1, <3>2, <3>3 DEF TakesTerminal
  <2>6. takes => ~rec.explicit
    BY DEF TakesTerminal
  <2> HIDE DEF e, takes
  <2>7. rec.inMap =>
          /\ rec.pending => rec.life # "idle"
          /\ rec.outcome = "failed" => rec'.outcome = "failed"
          /\ "failed" \in heard =>
               \/ rec.outcome = "failed" /\ (rec.termShut \/ Failing)
               \/ rec.explicit /\ ~rec.termShut
               \/ rec.pending
          /\ rec.termShut => rec.explicit
    BY <2>1 DEF FailureKept
  <2>8. rec.inMap =>
          /\ rec'.pending => rec'.life # "idle"
          /\ rec'.termShut => rec'.explicit
          /\ "failed" \in heard =>
               \/ rec'.outcome = "failed" /\ rec'.termShut
               \/ rec'.explicit /\ ~rec'.termShut
               \/ rec'.pending
    BY <2>1, <2>5, <2>6, <2>7
  <2> QED BY <2>1, <2>4, <2>8 DEF FailureKept, Failing
<1>6. CASE DrainStop \/ DrainEnds
  <2>1. UNCHANGED <<rec, heard, tombs>> /\ drain.pc \in {"stopping", "recv"}
        /\ drain'.pc \in {"recv", "ending"}
    BY <1>6 DEF DrainStop, DrainEnds, DrainTask
  <2>2. FailureStands'
    BY <1>1, <2>1
  <2> QED BY <2>1, <2>2 DEF FailureKept, Failing
<1>7. CASE DrainFinish
  <2> DEFINE takes == rec.inMap /\ rec.life = "idle" /\ TakesStreamEnd(rec)
  <2>1. /\ UNCHANGED <<heard, tombs>> /\ drain.pc = "ending"
        /\ drain'.pc = IF takes THEN "writing" ELSE "done"
        /\ rec' = IF ~rec.inMap THEN rec
                  ELSE [rec EXCEPT !.ended = TRUE,
                                   !.pending = @ \/ rec.life # "idle",
                                   !.inMap = ~takes]
    BY <1>7 DEF DrainFinish, DrainTask
  <2>2. takes => rec.inMap /\ rec.life = "idle"
    OBVIOUS
  <2> HIDE DEF takes
  <2>3. /\ rec'.outcome = rec.outcome /\ rec'.termShut = rec.termShut
        /\ rec'.explicit = rec.explicit /\ rec'.life = rec.life
        /\ rec'.inMap => rec.inMap /\ ~takes
        /\ rec.inMap => rec'.pending = (rec.pending \/ rec.life # "idle")
    BY <2>1, <2>2 DEF RunRecord
  <2>4. FailureStands'
    BY <1>1, <2>1, <2>3
  <2> QED BY <2>1, <2>2, <2>3, <2>4 DEF FailureKept, Failing
<1>8. ASSUME NEW ok \in BOOLEAN, DrainAppend(ok) PROVE FailureKept'
  <2>1. /\ UNCHANGED <<rec, tombs>> /\ drain.pc = "applied" /\ drain'.pc = "appended"
        /\ drain'.evt = drain.evt
        /\ \/ heard' = heard
           \/ tombs = <<>> /\ heard' = heard \cup {TerminalOutcome(drain.evt)}
    BY <1>8 DEF DrainAppend, DrainTask
  <2>2. FailureStands'
    BY <1>1, <2>1 DEF FailureStands
  <2>3. Failing' <=> Failing
    BY <2>1 DEF Failing
  <2>4. "failed" \in heard' => "failed" \in heard \/ Failing
    BY <2>1 DEF Failing
  <2> QED BY <2>1, <2>2, <2>3, <2>4 DEF FailureKept
<1>9. ASSUME NEW ok \in BOOLEAN, DrainWrite(ok) PROVE FailureKept'
  <2> DEFINE t == [outcome |-> Resolve(rec).outcome, fin |-> Resolve(rec).fin,
                   by |-> "drain", joined |-> TRUE, earned |-> Declared(rec)]
  <2>1. /\ UNCHANGED <<rec, heard>> /\ drain.pc = "writing" /\ drain'.pc = "done"
        /\ AppendTombstone(t, ok)
    BY <1>9 DEF DrainWrite, AppendTombstone, DrainTask
  <2>2. tombs = <<>> /\ ~rec.inMap
    BY <2>1 DEF OneDebtor
  <2>3. \A i \in 1..Len(tombs') : tombs'[i] = t
    BY <2>1, <2>2, FirstTombstone
  <2>4. "failed" \in heard /\ rec.termShut /\ ~t.fin => t.outcome = "failed"
    BY <2>1, FailedResolve DEF FailureKept
  <2> HIDE DEF t
  <2>5. FailureStands'
    BY <2>1, <2>3, <2>4 DEF FailureStands
  <2> QED BY <2>1, <2>2, <2>5 DEF FailureKept, Failing
<1>10. ASSUME NEW p \in Role, ReleaseRemove(p) PROVE FailureKept'
  <2>1. UNCHANGED <<drain, heard, tombs>>
        /\ (rec' = rec \/ rec' = [rec EXCEPT !.inMap = FALSE])
    BY <1>10 DEF ReleaseRemove
  <2>2. FailureStands'
    BY <1>1, <2>1 DEF RunRecord
  <2> QED BY <2>1, <2>2 DEF FailureKept, Failing, OneDebtor, RunRecord
<1>11. ASSUME NEW p \in Role, NEW ok \in BOOLEAN, ReleaseAppend(p, ok)
       PROVE FailureKept'
  <2> DEFINE t == [outcome |-> rel[p].outcome, fin |-> rel[p].fin, by |-> p,
                   joined |-> rel[p].join = "real", earned |-> rel[p].earned]
  <2>1. UNCHANGED <<rec, drain, heard>> /\ tombs = <<>> /\ AppendTombstone(t, ok)
    BY <1>11 DEF ReleaseAppend, AppendTombstone, OneDebtor
  <2>2. t.by # "drain"
    BY RoleAssumption DEF AllRoles
  <2> HIDE DEF t
  <2>3. \A i \in 1..Len(tombs') : tombs'[i] = t
    BY <2>1, FirstTombstone
  <2>4. FailureStands'
    BY <2>2, <2>3 DEF FailureStands
  <2> QED BY <2>1, <2>4 DEF FailureKept, Failing
<1>12. ASSUME NEW ok \in BOOLEAN, DeferredWrite(ok) PROVE FailureKept'
  <2>1. UNCHANGED <<rec, drain, heard>> /\ tombs = <<>>
    BY <1>12 DEF DeferredWrite, AppendTombstone, OneDebtor, Resolving
  <2>2. PICK t : t.by = "deferred" /\ AppendTombstone(t, ok)
    BY <1>12, Zenon DEF DeferredWrite
  <2>3. \A i \in 1..Len(tombs') : tombs'[i] = t
    BY <2>1, <2>2, FirstTombstone
  <2>4. FailureStands'
    BY <2>2, <2>3 DEF FailureStands
  <2> QED BY <2>1, <2>4 DEF FailureKept, Failing
<1> QED
  BY <1>3, <1>4, <1>5, <1>6, <1>7, <1>8, <1>9, <1>10, <1>11, <1>12, CalmStep DEF DrainNext

(* The outcome the drain leaves in the record rests on what it logs, and a release
   that joined the drain takes it from there. *)
LEMMA BackedStep ==
  ASSUME TypeOK, OneTombstone, OneDebtor, JoinedDrain, FailureKept, ~LogFails,
         OutcomeBacked, [Next]_vars
  PROVE OutcomeBacked'
<1>0. /\ rel \in [Role -> ReleaseCall] /\ rec \in RunRecord /\ drain \in DrainTask
      /\ heard \subseteq {"completed", "failed"} /\ MaxIterations \in Nat
  BY BoundAssumption DEF TypeOK
<1> USE <1>0
<1> DEFINE Live == OutcomeBacked!1
           Carried == OutcomeBacked!2
<1>1. OutcomeBacked' <=> Live' /\ Carried' /\ TerminalEventWins'
  BY DEF OutcomeBacked
<1>2. Live /\ Carried /\ TerminalEventWins
  BY DEF OutcomeBacked
(* The log and a joined release, when nothing they speak of changes. *)
<1>3. ASSUME UNCHANGED <<heard, tombs>>, tombs # <<>> => rec'.turns = rec.turns
      PROVE TerminalEventWins'
  BY <1>2, <1>3 DEF TerminalEventWins
<1>4. ASSUME UNCHANGED <<heard, rel>>, ~rec.inMap => rec'.turns = rec.turns
      PROVE Carried'
  BY <1>2, <1>4 DEF Backed, OneDebtor
<1>5. CASE Calm
  <2>1. TerminalEventWins'
    BY <1>3, <1>5 DEF Calm
  <2>2. Carried'
    BY <1>2, <1>5 DEF Calm, Backed
  <2>3. Live'
    BY <1>2, <1>5 DEF Calm, Backed
  <2> QED BY <1>1, <2>1, <2>2, <2>3
<1>6. CASE DrainApply
  <2>1. /\ UNCHANGED <<heard, tombs, rel>> /\ drain.pc = "recv" /\ drain'.pc = "applied"
        /\ ~rec.inMap => rec' = rec
        /\ rec.inMap => rec' = ApplyDriverEvent(rec, drain'.evt)
    BY <1>6 DEF DrainApply
  <2>2. /\ rec'.turns = rec.turns /\ rec'.inMap = rec.inMap
        /\ rec.inMap => rec'.outcome = SettledOutcome(rec, drain'.evt)
    BY <2>1, AppliedParts
  <2>3. TerminalEventWins' /\ Carried'
    BY <1>3, <1>4, <2>1, <2>2
  <2>4. rec.inMap =>
          \/ rec'.outcome = rec.outcome
             /\ (TerminalOutcome(drain'.evt) # "none" => rec.outcome = "failed")
          \/ rec'.outcome = TerminalOutcome(drain'.evt) /\ rec'.outcome # "none"
    BY <2>2 DEF SettledOutcome
  <2>5. Live'
    BY <1>2, <2>1, <2>2, <2>4 DEF Backed
  <2> QED BY <1>1, <2>3, <2>5
<1>7. CASE DrainSettle
  <2>1. /\ rec'.inMap = rec.inMap
        /\ rec.inMap =>
             /\ rec'.outcome = IF OverBudget(rec, drain.evt) THEN "failed" ELSE rec.outcome
             /\ rec'.turns = IF drain.evt = "turn" THEN rec.turns + 1 ELSE rec.turns
        /\ ~rec.inMap => rec' = rec
        /\ drain'.pc \in {"recv", "stopping"} /\ drain.pc = "appended"
        /\ UNCHANGED <<rel, heard, tombs>>
    BY <1>7, SettledParts DEF DrainSettle
  <2>2. TerminalEventWins' /\ Carried'
    BY <1>3, <1>4, <2>1 DEF OneTombstone
  <2>3. rec.inMap =>
          \/ rec'.outcome = "failed" /\ rec'.turns > MaxIterations
          \/ rec'.outcome = rec.outcome /\ rec'.turns >= rec.turns
    <3>1. rec.turns \in Nat
      BY DEF RunRecord
    <3> QED BY <2>1, <3>1 DEF OverBudget
  <2>4. Live'
    <3>1. rec.turns \in Nat
      BY DEF RunRecord
    <3>2. rec.inMap /\ rec'.outcome = rec.outcome /\ rec'.outcome # "none" => Backed(rec.outcome)'
      BY <1>2, <2>1, <2>3, <3>1 DEF Backed
    <3>3. rec.inMap /\ rec'.outcome # "none" => Backed(rec.outcome)'
      BY <2>1, <2>3, <3>2 DEF Backed
    <3> QED BY <1>2, <2>1, <2>3, <3>3
  <2> QED BY <1>1, <2>2, <2>4
<1>8. CASE DrainStop \/ DrainEnds
  <2>1. UNCHANGED <<rec, rel, heard, tombs>> /\ drain.pc \in {"stopping", "recv"}
        /\ drain'.pc \in {"recv", "ending"}
    BY <1>8 DEF DrainStop, DrainEnds, DrainTask
  <2>2. TerminalEventWins' /\ Carried'
    BY <1>3, <1>4, <2>1
  <2>3. Live'
    BY <1>2, <2>1 DEF Backed
  <2> QED BY <1>1, <2>2, <2>3
<1>9. CASE DrainFinish
  <2>1. /\ UNCHANGED <<rel, heard, tombs>> /\ drain.pc = "ending"
        /\ drain'.pc \in {"writing", "done"}
        /\ rec'.outcome = rec.outcome /\ rec'.turns = rec.turns /\ (rec'.inMap => rec.inMap)
    BY <1>9 DEF DrainFinish, DrainTask, RunRecord
  <2>2. TerminalEventWins' /\ Carried'
    BY <1>3, <1>4, <2>1
  <2>3. Live'
    BY <1>2, <2>1 DEF Backed
  <2> QED BY <1>1, <2>2, <2>3
<1>10. ASSUME NEW ok \in BOOLEAN, DrainAppend(ok) PROVE OutcomeBacked'
  <2>1. /\ UNCHANGED <<rec, rel, tombs>> /\ drain.pc = "applied" /\ drain'.pc = "appended"
        /\ drain'.evt = drain.evt
        /\ heard' = IF TerminalOutcome(drain.evt) = "none" \/ tombs # <<>>
                    THEN heard ELSE heard \cup {TerminalOutcome(drain.evt)}
    BY <1>10 DEF DrainAppend, DrainTask
  (* Who joined the drain found it done, so nobody has. *)
  <2>2. /\ \A p \in Role : ~(rel[p].pc = "appending" /\ rel[p].join = "real")
        /\ \A i \in 1..Len(tombs) : ~tombs[i].joined
    BY <2>1 DEF JoinedDrain
  <2>3. TerminalEventWins' /\ Carried'
    BY <2>1, <2>2 DEF TerminalEventWins
  <2>4. rec.inMap => tombs = <<>>
    BY DEF OneTombstone
  <2>5. rec.inMap =>
          /\ rec.outcome = "none" => heard' = {}
          /\ rec.outcome # "none" => Backed(rec.outcome)'
    BY <1>2, <2>1, <2>4 DEF Backed
  <2> QED BY <1>1, <2>1, <2>3, <2>5
<1>11. ASSUME NEW ok \in BOOLEAN, DrainWrite(ok) PROVE OutcomeBacked'
  <2> DEFINE t == [outcome |-> Resolve(rec).outcome, fin |-> Resolve(rec).fin,
                   by |-> "drain", joined |-> TRUE, earned |-> Declared(rec)]
  <2>1. /\ UNCHANGED <<rec, rel, heard>> /\ AppendTombstone(t, ok)
        /\ tombs = <<>> /\ ~rec.inMap
    BY <1>11 DEF DrainWrite, AppendTombstone, OneDebtor
  <2>2. t.by \notin Role
    BY RoleAssumption DEF AllRoles
  <2> HIDE DEF t
  <2>3. \A i \in 1..Len(tombs') : tombs'[i] = t
    BY <2>1, FirstTombstone
  <2>4. TerminalEventWins'
    BY <2>2, <2>3 DEF TerminalEventWins
  <2>5. Carried'
    BY <1>4, <2>1
  <2> QED BY <1>1, <2>1, <2>4, <2>5
<1>12. ASSUME NEW p \in Role, ReleaseRemove(p) PROVE OutcomeBacked'
  <2>1. UNCHANGED <<drain, heard, tombs>> /\ (rel[p].join = "real" => drain.pc = "done")
        /\ (rec' = rec \/ rec' = [rec EXCEPT !.inMap = FALSE])
        /\ \A q \in Role \ {p} : rel'[q] = rel[q]
    BY <1>12 DEF ReleaseRemove
  <2>2. TerminalEventWins'
    BY <1>3, <2>1 DEF RunRecord
  <2>3. CASE rec.inMap
    <3>1. ~rec'.inMap /\ rec'.turns = rec.turns
      BY <1>12, <2>3 DEF ReleaseRemove, RunRecord
    <3>2. rel' = [rel EXCEPT ![p] = [rel[p] EXCEPT !.pc = "appending",
                                      !.outcome = FinalOutcome(rec, rel[p].outcome)]]
      BY <1>12, <2>3 DEF ReleaseRemove
    <3>3. rel'[p].join = rel[p].join /\ rel'[p].outcome = FinalOutcome(rec, rel[p].outcome)
      BY <3>2 DEF ReleaseCall
    <3>4. rel[p].join = "real" => heard = {} \/ Backed(rel'[p].outcome)
      BY <1>2, <2>1, <2>3, <3>3 DEF FinalOutcome
    <3>5. Carried'
      BY <1>2, <2>1, <3>1, <3>3, <3>4 DEF Backed
    <3> QED BY <1>1, <2>2, <3>1, <3>5
  <2>4. CASE ~rec.inMap
    <3>1. rec' = rec /\ rel'[p].pc = "idle"
      BY <1>12, <2>4 DEF ReleaseRemove, Quiet
    <3>2. Carried'
      BY <1>2, <2>1, <3>1 DEF Backed
    <3> QED BY <1>1, <2>2, <2>4, <3>1, <3>2
  <2> QED BY <2>3, <2>4
<1>13. ASSUME NEW p \in Role, NEW ok \in BOOLEAN, ReleaseAppend(p, ok)
       PROVE OutcomeBacked'
  <2> DEFINE t == [outcome |-> rel[p].outcome, fin |-> rel[p].fin, by |-> p,
                   joined |-> rel[p].join = "real", earned |-> rel[p].earned]
  <2>1. /\ UNCHANGED <<rec, drain, heard>> /\ tombs = <<>> /\ AppendTombstone(t, ok)
        /\ ~rec.inMap /\ rel[p].pc = "appending"
        /\ rel' = [rel EXCEPT ![p] = Quiet]
    BY <1>13 DEF ReleaseAppend, AppendTombstone, OneDebtor
  <2>2. t.joined => heard = {} \/ Backed(t.outcome)
    BY <1>2, <2>1
  <2> HIDE DEF t
  <2>3. \A i \in 1..Len(tombs') : tombs'[i] = t
    BY <2>1, FirstTombstone
  <2>4. TerminalEventWins'
    BY <2>1, <2>2, <2>3 DEF TerminalEventWins, Backed
  <2>5. Carried'
    BY <1>2, <2>1 DEF Backed, Quiet
  <2> QED BY <1>1, <2>1, <2>4, <2>5
<1>14. ASSUME NEW ok \in BOOLEAN, DeferredWrite(ok) PROVE OutcomeBacked'
  <2>1. UNCHANGED <<rec, rel, drain, heard>> /\ tombs = <<>> /\ ~rec.inMap
    BY <1>14 DEF DeferredWrite, AppendTombstone, OneDebtor, Resolving
  <2>2. PICK t : ~t.joined /\ AppendTombstone(t, ok)
    BY <1>14, Zenon DEF DeferredWrite
  <2>3. \A i \in 1..Len(tombs') : tombs'[i] = t
    BY <2>1, <2>2, FirstTombstone
  <2>4. TerminalEventWins'
    BY <2>2, <2>3 DEF TerminalEventWins
  <2>5. Carried'
    BY <1>4, <2>1
  <2> QED BY <1>1, <2>1, <2>4, <2>5
<1> HIDE DEF Live, Carried
<1> QED
  BY <1>5, <1>6, <1>7, <1>8, <1>9, <1>10, <1>11, <1>12, <1>13, <1>14, CalmStep
  DEF DrainNext

(* The invariant is inductive: it holds of every reachable state. *)
THEOREM ReleaseInvariance == Spec => []ReleaseInv
<1>1. ReleaseInv /\ [Next]_vars => ReleaseInv'
  <2> SUFFICES ASSUME ReleaseInv, [Next]_vars PROVE ReleaseInv'
    OBVIOUS
  <2>1. /\ TypeOK /\ OneTombstone /\ OneDebtor /\ JoinedDrain /\ ReleaseIsLast
        /\ FailureKept /\ (~LogFails => OutcomeBacked)
    BY DEF ReleaseInv
  <2>2. TypeOK'
    BY <2>1, TypeStep
  <2>3. OneTombstone' /\ OneDebtor'
    BY <2>1, DebtStep
  <2>4. JoinedDrain' /\ ReleaseIsLast'
    BY <2>1, LateStep
  <2>5. FailureKept'
    BY <2>1, FailureStep
  <2>6. ~LogFails => OutcomeBacked'
    BY <2>1, BackedStep
  <2> QED BY <2>2, <2>3, <2>4, <2>5, <2>6 DEF ReleaseInv
<1> QED BY <1>1, ReleaseInvInit, PTL DEF Spec

(* The types of the release code's state. *)
THEOREM ReleaseTypes == Spec => []TypeOK
<1>1. ReleaseInv => TypeOK
  BY DEF ReleaseInv
<1> QED BY <1>1, ReleaseInvariance, PTL

(* release_one, the drain, the watcher and the artifactor handlers together write
   at most one Lifecycle::Release, and none while the record is in the map. *)
THEOREM SingleTombstone == Spec => []OneTombstone
<1>1. ReleaseInv => OneTombstone
  BY DEF ReleaseInv
<1> QED BY <1>1, ReleaseInvariance, PTL

(* A driver event is never logged behind the tombstone of the drain, or of a
   release that joined the drain's own handle. *)
THEOREM TombstoneIsLast == Spec => []ReleaseIsLast
<1>1. ReleaseInv => ReleaseIsLast
  BY DEF ReleaseInv
<1> QED BY <1>1, ReleaseInvariance, PTL

(* A release that joined the drain never overrules the terminal events in the log
   ahead of its tombstone, nor a broken iteration budget: whoever asked for it, and
   whenever the event came.  Appends must not fail: an event that was applied and
   not logged leaves the log with another one. *)
THEOREM TerminalEventsWin ==
  ASSUME ~LogFails PROVE Spec => []TerminalEventWins
<1>1. ReleaseInv => TerminalEventWins
  BY DEF ReleaseInv, OutcomeBacked
<1> QED BY <1>1, ReleaseInvariance, PTL

(* A failure for which the drain shut the transport down is the outcome of the
   drain's own tombstone, whatever the driver acknowledges while it stops. *)
THEOREM FailuresStand == Spec => []FailureStands
<1>1. ReleaseInv => FailureStands
  BY DEF ReleaseInv, FailureKept
<1> QED BY <1>1, ReleaseInvariance, PTL

==============================================================================
