-------------------------- MODULE ProjectionProofs --------------------------
(***************************************************************************)
(* Proofs about Projection, for any number of requests, paths, scans and   *)
(* changes of the registration: the load state and the projection agree;   *)
(* nobody waits for the coordinator in vain; a refresh covers what was on  *)
(* disk when it was asked for; and the repair queue keeps its paths.       *)
(***************************************************************************)
EXTENDS Projection, FiniteSetTheorems, SequenceTheorems, TLAPS

LoadInv == project \in BOOLEAN /\ LoadHonest

\* Every record of a failure or a delay keeps the two in step
\* (record_project_load_failure, record_project_load_delay).
LEMMA RecordedHonest ==
    ASSUME LoadInv, NEW reg, NEW state, state # "ready"
    PROVE  project <=> Recorded(reg, state) = "ready"
<1>1. CASE Foreign(reg)
      BY <1>1 DEF LoadInv, LoadHonest, Recorded
<1>2. CASE ~Foreign(reg)
      BY <1>2 DEF Recorded
<1>. QED BY <1>1, <1>2

\* A changed registration leaves the load as it is.
LEMMA FailureRecordedHonest ==
    ASSUME LoadInv, NEW reg, NEW reply
    PROVE  project <=> FailureRecorded(reg, reply) = "ready"
<1>1. project <=> Recorded(reg, "failed") = "ready"
      BY RecordedHonest
<1>. QED BY <1>1 DEF FailureRecorded, LoadInv, LoadHonest

\* Steps of a request keep the projection and the load state in step.
LEMMA RequestHonest ==
    ASSUME LoadInv, NEW c, Request(c)
    PROVE  LoadInv'
<1>. USE DEF LoadInv, LoadHonest, snapshot
<1>1. CASE ReadPath(c)
      BY <1>1 DEF ReadPath
<1>2. CASE InstallTx(c)
      BY <1>2 DEF InstallTx
<1>3. CASE InstallNode(c)
  <2>1. project' = project /\ (load' = load \/ load' = "ready")
        BY <1>3 DEF InstallNode
  <2>2. ASSUME load' # load PROVE project
    <3>1. ~UNCHANGED <<shown, load>>
          BY <2>2
    <3>. QED BY <1>3, <3>1, Zenon DEF InstallNode
  <2>. QED BY <2>1, <2>2
<1>4. CASE PublishFailed(c) \/ PublishQueues(c) \/ TakeFailure(c)
      BY <1>4 DEF PublishFailed, PublishQueues, TakeFailure
<1>5. CASE RepairTakes(c) \/ RepairFailed(c) \/ RepairDone(c)
      BY <1>5 DEF RepairTakes, RepairFailed, RepairDone
<1>6. CASE MarkAttempt(c)
      BY <1>6 DEF MarkAttempt
<1>7. CASE RegisterRefresh(c) \/ RegisterLoad(c) \/ Resume(c)
      BY <1>7 DEF RegisterRefresh, RegisterLoad, Resume
<1>8. CASE LoadDelayed(c)
  <2>1. project' = project /\ load' = Recorded(call[c].reg, "delayed")
        BY <1>8 DEF LoadDelayed
  <2>2. project <=> Recorded(call[c].reg, "delayed") = "ready"
        BY RecordedHonest
  <2>. QED BY <2>1, <2>2
<1>9. CASE LoadFailed(c)
  <2>1. project' = project /\ load' = FailureRecorded(call[c].reg, call[c].reply)
        BY <1>9 DEF LoadFailed
  <2>2. project <=> FailureRecorded(call[c].reg, call[c].reply) = "ready"
        BY FailureRecordedHonest
  <2>. QED BY <2>1, <2>2
<1>. QED BY <1>1, <1>2, <1>3, <1>4, <1>5, <1>6, <1>7, <1>8, <1>9 DEF Request

\* Steps of the coordinator's worker and of its scan keep them in step.
LEMMA RefreshHonest ==
    ASSUME LoadInv, Refresh \/ ScanFails \/ ScanThreadExits
    PROVE  LoadInv'
<1>. USE DEF LoadInv, LoadHonest, snapshot
<1>1. CASE Capture \/ BeginScan \/ SeedScan \/ ScanEnds \/ ScanTimesOut
      BY <1>1 DEF Capture, BeginScan, SeedScan, ScanEnds, ScanTimesOut
<1>2. CASE \E p \in Path : ScanReads(p)
      BY <1>2 DEF ScanReads
<1>3. CASE \E hasProject \in BOOLEAN : Publish(hasProject)
  <2>1. PICK hasProject \in BOOLEAN : Publish(hasProject)
        BY <1>3
  <2>2. CASE board = worker.seed
    <3>1. project' = (project \/ hasProject)
          BY <2>1, <2>2 DEF Publish
    <3>2. load' = IF hasProject THEN "ready" ELSE load
          BY <2>1, <2>2 DEF Publish
    <3>. QED BY <3>1, <3>2, Zenon
  <2>3. CASE board # worker.seed
        BY <2>1, <2>3 DEF Publish
  <2>. QED BY <2>2, <2>3
<1>4. CASE WorkerRecords
  <2>1. project' = project /\ load' = FailureRecorded(worker.reg, worker.result)
        BY <1>4 DEF WorkerRecords
  <2>2. project <=> FailureRecorded(worker.reg, worker.result) = "ready"
        BY FailureRecordedHonest
  <2>. QED BY <2>1, <2>2
<1>5. CASE Settle
      BY <1>5 DEF Settle
<1>6. CASE ScanFails \/ ScanThreadExits
      BY <1>6 DEF ScanFails, ScanThreadExits
<1>. QED BY <1>1, <1>2, <1>3, <1>4, <1>5, <1>6 DEF Refresh

\* Every step of the daemon keeps them in step.
LEMMA NextHonest ==
    ASSUME LoadInv, [Next]_vars
    PROVE  LoadInv'
<1>. USE DEF LoadInv, LoadHonest, snapshot
<1>1. CASE \E c \in Writer, list \in WriteLists : Commit(c, list) \/ Retry(c, list)
      BY <1>1 DEF Commit, Retry
<1>2. CASE \E p \in Path : Edit(p)
      BY <1>2 DEF Edit
<1>3. CASE \E c \in Proc : Request(c)
      BY <1>3, RequestHonest
<1>4. CASE \E c \in Caller : RefreshBegin(c) \/ LoadTimesOut(c) \/ Drop(c)
      BY <1>4 DEF RefreshBegin, LoadTimesOut, Drop
<1>5. CASE \E c \in Caller : LoadBegin(c)
  <2>1. project' = project
        BY <1>5 DEF LoadBegin
  <2>2. load' = load \/ load' = "loading"
        BY <1>5 DEF LoadBegin
  <2>3. ASSUME load' # load PROVE ~(load = "ready" /\ project)
        BY <1>5, <2>3, Zenon DEF LoadBegin
  <2>. QED BY <2>1, <2>2, <2>3
<1>6. CASE Flushing
  <2>1. UNCHANGED snapshot
        BY <1>6, Zenon DEF Flushing, FlushFailed, Flush
  <2>. QED BY <2>1
<1>7. CASE Refresh \/ ScanFails \/ ScanThreadExits
      BY <1>7, RefreshHonest
<1>8. CASE BoardChanges
      BY <1>8 DEF BoardChanges
<1>9. CASE UNCHANGED vars
      BY <1>9 DEF vars
<1>. QED BY <1>1, <1>2, <1>3, <1>4, <1>5, <1>6, <1>7, <1>8, <1>9 DEF Next

\* ProjectLoadStatus says ready exactly when the snapshot holds a projection,
\* for any requests, paths, failures and registrations.
THEOREM LoadIsHonest == Spec => []LoadHonest
<1>1. Init => LoadInv
      BY DEF Init, LoadInv, LoadHonest
<1>2. LoadInv /\ [Next]_vars => LoadInv'
      BY NextHonest
<1>3. LoadInv => LoadHonest
      BY DEF LoadInv
<1>. QED BY <1>1, <1>2, <1>3, PTL DEF Spec

-----------------------------------------------------------------------------
(* Requests *)

\* A request of c may look like k: CallsFormed, for one request.
Formed(c, k) ==
    /\ k.pc \in PhasePcs[k.phase]
    /\ k.phase \in {"publish", "repair"} => c \in Writer
    /\ k.phase = "load" => c \in Loader
    /\ k.list = <<>> <=> \/ k.phase \in {"refresh", "load"}
                         \/ k.pc \in {"check", "take", "clear"}

\* The versions of nothing.
LEMMA NoVersionsTyped == NoVersions \in [Path -> Version] /\ \A p \in Path : NoVersions[p] = 0
BY LimitAssumption DEF NoVersions, Version

\* A request that has not begun, or is over.
LEMMA IdleFormed ==
    ASSUME NEW c
    PROVE  /\ Idle \in Call /\ Formed(c, Idle) /\ Idle.pc = "idle" /\ Idle.list = <<>>
           /\ Idle.phase = "refresh" /\ Idle.asked = NoVersions
<1>1. 0 \in Version /\ 0 \in 0..MaxReg
      BY LimitAssumption DEF Version
<1>2. <<>> \in Seq(Path)
      OBVIOUS
<1>3. Idle \in Call
      BY <1>1, <1>2, NoVersionsTyped DEF Idle, Call, Phases, CallPcs
<1>. QED BY <1>3 DEF Formed, Idle, PhasePcs

\* The end of a request keeps what it wrote.
LEMMA AnsweredFormed ==
    ASSUME call \in [Proc -> Call], NEW c \in Proc, NEW answer \in {"none", "ok", "err", "moved"}
    PROVE  /\ Answered(c, answer) \in Call /\ Formed(c, Answered(c, answer))
           /\ Answered(c, answer).pc = "idle" /\ Answered(c, answer).phase = "refresh"
           /\ Answered(c, answer).list = <<>> /\ Answered(c, answer).asked = NoVersions
<1>. DEFINE reply == IF c \in Writer THEN answer ELSE "none"
            mine == call[c].mine
<1>1. reply \in {"none", "ok", "err", "moved"} /\ mine \in [Path -> Version]
      BY DEF Call
<1>2. Answered(c, answer) = [Idle EXCEPT !.mine = mine, !.reply = reply]
      BY DEF Answered
<1>. HIDE DEF reply, mine
<1>3. /\ Answered(c, answer) \in Call
      /\ Answered(c, answer).pc = Idle.pc /\ Answered(c, answer).phase = Idle.phase
      /\ Answered(c, answer).list = Idle.list /\ Answered(c, answer).asked = Idle.asked
      BY <1>1, <1>2, IdleFormed DEF Call
<1>. QED BY <1>3, IdleFormed DEF Formed

\* A path further, a request keeps its phase.
LEMMA OnwardTyped ==
    ASSUME call \in [Proc -> Call], NEW c \in Proc, NEW pc \in CallPcs, NEW list \in Seq(Path)
    PROVE  /\ Onward(c, pc, list) \in Call /\ Onward(c, pc, list).pc = pc
           /\ Onward(c, pc, list).phase = call[c].phase /\ Onward(c, pc, list).list = list
           /\ Onward(c, pc, list).asked = NoVersions
<1>1. call[c].mine \in [Path -> Version] /\ call[c].phase \in Phases
      BY DEF Call
<1>. QED BY <1>1, IdleFormed DEF Onward, Call

\* What remains of a list.
LEMMA TailTyped ==
    ASSUME NEW list \in Seq(Path), list # <<>>
    PROVE  /\ Head(list) \in Path /\ Tail(list) \in Seq(Path) /\ Head(list) = list[1]
           /\ Elements(list) = {Head(list)} \cup Elements(Tail(list))
<1>1. /\ Head(list) \in Path /\ Tail(list) \in Seq(Path) /\ Head(list) = list[1]
      /\ Len(Tail(list)) = Len(list) - 1 /\ Len(list) \in Nat \ {0}
      /\ \A i \in 1..Len(Tail(list)) : Tail(list)[i] = list[i + 1]
      BY HeadTailProperties, EmptySeq
<1>2. ASSUME NEW p \in Elements(list) PROVE p \in {Head(list)} \cup Elements(Tail(list))
  <2>1. PICK i \in 1..Len(list) : p = list[i]
        BY <1>2 DEF Elements
  <2>2. CASE i = 1
        BY <1>1, <2>1, <2>2
  <2>3. CASE i # 1
    <3>1. i - 1 \in 1..Len(Tail(list)) /\ p = Tail(list)[i - 1]
          BY <1>1, <2>1, <2>3
    <3>. QED BY <3>1 DEF Elements
  <2>. QED BY <2>2, <2>3
<1>3. ASSUME NEW p \in {Head(list)} \cup Elements(Tail(list)) PROVE p \in Elements(list)
  <2>1. CASE p = Head(list)
    <3>1. 1 \in 1..Len(list)
          BY <1>1
    <3>. QED BY <1>1, <2>1, <3>1 DEF Elements
  <2>2. CASE p \in Elements(Tail(list))
    <3>1. PICK i \in 1..Len(Tail(list)) : p = Tail(list)[i]
          BY <2>2 DEF Elements
    <3>2. i + 1 \in 1..Len(list) /\ p = list[i + 1]
          BY <1>1, <3>1
    <3>. QED BY <3>2 DEF Elements
  <2>. QED BY <1>3, <2>1, <2>2
<1>. QED BY <1>1, <1>2, <1>3

\* The next path of the list, or what comes behind the last: nothing of the path
\* that was dealt with is left in the request.
LEMMA AdvancedFormed ==
    ASSUME TypeOK, CallsFormed, NEW c \in Proc,
           call[c].phase \in {"publish", "repair", "flush"}, call[c].list # <<>>
    PROVE  /\ Advanced(c) \in Call /\ Formed(c, Advanced(c))
           /\ Advanced(c).pc \in {"read", "check", "clear", "idle"}
           /\ Advanced(c).asked = NoVersions
           /\ Advanced(c).list = Tail(call[c].list)
           /\ Advanced(c).phase = call[c].phase \/ Advanced(c).list = <<>>
<1>. DEFINE list == call[c].list
            phase == call[c].phase
            rest == Tail(call[c].list)
<1>1. call \in [Proc -> Call] /\ list \in Seq(Path) /\ phase \in Phases
      BY DEF TypeOK, Call
<1>2. rest \in Seq(Path)
      BY <1>1, TailTyped
<1>. HIDE DEF rest
<1>0. rest = Tail(call[c].list)
      BY DEF rest
<1>9. \A pc \in CallPcs :
        /\ Onward(c, pc, rest) \in Call /\ Onward(c, pc, rest).pc = pc
        /\ Onward(c, pc, rest).phase = call[c].phase /\ Onward(c, pc, rest).list = rest
        /\ Onward(c, pc, rest).asked = NoVersions
      BY <1>1, <1>2, OnwardTyped
<1>3. "read" \in CallPcs /\ "check" \in CallPcs /\ "clear" \in CallPcs
      BY DEF CallPcs
<1>4. phase \in {"publish", "repair"} => c \in Writer
      BY DEF CallsFormed
<1>5. ASSUME NEW pc \in {"read", "check", "clear"}, Advanced(c) = Onward(c, pc, rest),
             pc \in PhasePcs[phase], rest = <<>> <=> pc \in {"check", "clear"}
      PROVE  /\ Advanced(c) \in Call /\ Advanced(c).pc = pc /\ Advanced(c).phase = phase
             /\ Advanced(c).list = rest /\ Advanced(c).asked = NoVersions
             /\ Formed(c, Advanced(c))
  <2>1. /\ Onward(c, pc, rest) \in Call /\ Onward(c, pc, rest).pc = pc
        /\ Onward(c, pc, rest).phase = phase /\ Onward(c, pc, rest).list = rest
        /\ Onward(c, pc, rest).asked = NoVersions
        BY <1>3, <1>5, <1>9
  <2>. QED BY <1>4, <1>5, <2>1 DEF Formed
<1>6. CASE rest # <<>>
  <2>1. Advanced(c) = Onward(c, "read", rest) /\ "read" \in PhasePcs[phase]
        BY <1>6 DEF Advanced, PhasePcs, rest
  <2>. QED BY <1>0, <1>5, <1>6, <2>1
<1>7. CASE rest = <<>> /\ phase = "publish"
  <2>1. Advanced(c) = Onward(c, "check", rest) /\ "check" \in PhasePcs[phase]
        BY <1>7 DEF Advanced, PhasePcs, rest
  <2>. QED BY <1>0, <1>5, <1>7, <2>1
<1>8. CASE rest = <<>> /\ phase = "repair"
  <2>1. Advanced(c) = Onward(c, "clear", rest) /\ "clear" \in PhasePcs[phase]
        BY <1>8 DEF Advanced, PhasePcs, rest
  <2>. QED BY <1>0, <1>5, <1>8, <2>1
<1>10. CASE rest = <<>> /\ phase = "flush"
  <2>1. Advanced(c) = Answered(c, "none")
        BY <1>10 DEF Advanced, rest
  <2>. QED BY <1>0, <1>1, <1>10, <2>1, AnsweredFormed
<1>. QED BY <1>6, <1>7, <1>8, <1>10
\* What the place of a request says of its phase.
LEMMA PcPhase ==
    ASSUME NEW k \in Call, k.pc \in PhasePcs[k.phase]
    PROVE  /\ k.pc \in {"read", "install", "failed"} => k.phase \in {"publish", "repair", "flush"}
           /\ k.pc \in {"queue", "check", "take"} => k.phase = "publish"
           /\ k.pc = "clear" => k.phase = "repair"
           /\ k.pc \in {"record", "delay"} => k.phase = "load"
           /\ k.pc = "idle" => k.phase = "refresh"
           /\ k.pc = "mark" => k.phase # "load"
<1>1. k.phase \in {"publish", "repair", "flush", "refresh", "load"}
      BY DEF Call, Phases
<1>. QED BY <1>1 DEF PhasePcs

\* Where a request with a path in hand, or one of the coordinator's, may go.
LEMMA PhasePc ==
    /\ \A phase \in {"publish", "repair", "flush"} :
         {"read", "install", "mark", "register", "wait", "reply", "failed"}
             \subseteq PhasePcs[phase]
    /\ {"queue", "check", "take"} \subseteq PhasePcs["publish"]
    /\ "clear" \in PhasePcs["repair"]
    /\ {"idle", "mark", "register", "wait", "reply"} \subseteq PhasePcs["refresh"]
    /\ {"register", "wait", "reply", "record", "delay"} \subseteq PhasePcs["load"]
BY DEF PhasePcs

\* A request of a path that goes elsewhere with it.
LEMMA StaysFormed ==
    ASSUME NEW c, NEW k \in Call, Formed(c, k), NEW pc \in CallPcs, pc \in PhasePcs[k.phase],
           k.phase \in {"publish", "repair", "flush"} =>
               k.pc \notin {"check", "take", "clear"} /\ pc \notin {"check", "take", "clear"}
    PROVE  /\ [k EXCEPT !.pc = pc] \in Call /\ Formed(c, [k EXCEPT !.pc = pc])
           /\ [k EXCEPT !.pc = pc].pc = pc /\ [k EXCEPT !.pc = pc].asked = k.asked
           /\ [k EXCEPT !.pc = pc].list = k.list /\ [k EXCEPT !.pc = pc].phase = k.phase
<1>1. /\ [k EXCEPT !.pc = pc] \in Call
      /\ [k EXCEPT !.pc = pc].pc = pc /\ [k EXCEPT !.pc = pc].asked = k.asked
      /\ [k EXCEPT !.pc = pc].list = k.list /\ [k EXCEPT !.pc = pc].phase = k.phase
      BY DEF Call
<1>2. k.phase \in {"publish", "repair", "flush", "refresh", "load"}
      BY DEF Call, Phases
<1>. QED BY <1>1, <1>2 DEF Formed

\* The request c goes on as k, and neither waits nor waited for the coordinator.
Moved(c, k) ==
    /\ k \in Call /\ Formed(c, k)
    /\ call' = [call EXCEPT ![c] = k]
    /\ call[c].pc # "wait" /\ k.pc # "wait"
    /\ k.asked \in {NoVersions, call[c].asked}

\* All that a request does, but for joining the coordinator, is its own move.
LEMMA RequestMoves ==
    ASSUME TypeOK, CallsFormed, NEW c \in Proc, Request(c),
           ~RegisterRefresh(c), ~RegisterLoad(c)
    PROVE  UNCHANGED <<disk, events, board, coordinator>> /\ \E k : Moved(c, k)
<1>. DEFINE k == call[c]
<1>0. /\ call \in [Proc -> Call] /\ k \in Call /\ Formed(c, k) /\ k.list \in Seq(Path)
      /\ k.phase \in Phases
      BY DEF TypeOK, CallsFormed, Formed, Call
<1>1. /\ k.pc \in {"read", "install", "failed"} => k.phase \in {"publish", "repair", "flush"}
      /\ k.pc \in {"queue", "check", "take"} => k.phase = "publish"
      /\ k.pc = "clear" => k.phase = "repair"
      /\ k.pc \in {"record", "delay"} => k.phase = "load"
      /\ k.pc = "mark" => k.phase # "load"
      BY <1>0, PcPhase DEF Formed
<1>2. /\ k.phase \in {"publish", "repair", "flush"} /\ k.pc \notin {"check", "take", "clear"}
             => k.list # <<>>
      /\ k.phase \in {"publish", "repair"} => c \in Writer
      BY <1>0 DEF Formed
<1>3. \A pc \in {"read", "install", "mark", "register", "failed", "queue", "take", "clear", "record"} :
          pc \in CallPcs
      BY DEF CallPcs
<1>4. CASE ReadPath(c)
  <2>1. k.pc = "read" /\ k.phase \in {"publish", "repair", "flush"} /\ Head(k.list) \in Path
        BY <1>0, <1>1, <1>2, <1>4, TailTyped DEF ReadPath, At
  <2>2. CASE call' = [call EXCEPT ![c].seen = disk[Head(call[c].list)], ![c].pc = "install"]
    <3>. DEFINE v == disk[Head(k.list)]
                l == [k EXCEPT !.seen = v]
                m == [k EXCEPT !.seen = v, !.pc = "install"]
    <3>1. v \in Version
          BY <2>1 DEF TypeOK
    <3>2. call' = [call EXCEPT ![c] = m]
          BY <1>0, <2>2
    <3>. HIDE DEF v
    <3>3. /\ l \in Call /\ l.pc = k.pc /\ l.phase = k.phase /\ l.list = k.list /\ l.asked = k.asked
          /\ m = [l EXCEPT !.pc = "install"]
          BY <1>0, <3>1 DEF Call
    <3>4. Formed(c, l)
          BY <1>0, <3>3 DEF Formed
    <3>5. "install" \in PhasePcs[l.phase] /\ "install" \in CallPcs
          BY <1>3, <2>1, <3>3, PhasePc
    <3>. HIDE DEF l, m
    <3>6. m \in Call /\ Formed(c, m) /\ m.pc = "install" /\ m.asked = k.asked
          BY <2>1, <3>3, <3>4, <3>5, StaysFormed
    <3>7. Moved(c, m)
          BY <2>1, <3>2, <3>6 DEF Moved
    <3>. QED BY <1>4, <3>7 DEF ReadPath, coordinator, snapshot
  <2>3. CASE call' = [call EXCEPT ![c].pc = "failed"]
    <3>1. call' = [call EXCEPT ![c] = [k EXCEPT !.pc = "failed"]]
          BY <1>0, <2>3
    <3>2. "failed" \in PhasePcs[k.phase] /\ "failed" \in CallPcs
          BY <1>3, <2>1, PhasePc
    <3>3. Moved(c, [k EXCEPT !.pc = "failed"])
          BY <1>0, <2>1, <3>1, <3>2, StaysFormed DEF Moved
    <3>. QED BY <1>4, <3>3 DEF ReadPath, coordinator, snapshot
  <2>. QED BY <1>4, <2>2, <2>3 DEF ReadPath
<1>5. ASSUME k.phase \in {"publish", "repair", "flush"}, k.pc \in {"install", "reply", "failed"},
             call' = [call EXCEPT ![c] = Advanced(c)]
      PROVE  \E l : Moved(c, l)
  <2>1. k.list # <<>>
        BY <1>2, <1>5
  <2>2. Moved(c, Advanced(c))
        BY <1>5, <2>1, AdvancedFormed DEF Moved
  <2>. QED BY <2>2
<1>6. ASSUME NEW answer \in {"none", "ok", "err", "moved"}, k.pc # "wait",
             call' = [call EXCEPT ![c] = Answered(c, answer)]
      PROVE  \E l : Moved(c, l)
  <2>1. Moved(c, Answered(c, answer))
        BY <1>0, <1>6, AnsweredFormed DEF Moved
  <2>. QED BY <2>1
<1>7. ASSUME NEW pc \in CallPcs, pc \in PhasePcs[k.phase], pc # "wait", k.pc # "wait",
             k.phase \in {"publish", "repair", "flush"} =>
                 k.pc \notin {"check", "take", "clear"} /\ pc \notin {"check", "take", "clear"},
             call' = [call EXCEPT ![c] = [k EXCEPT !.pc = pc]]
      PROVE  \E l : Moved(c, l)
  <2>1. Moved(c, [k EXCEPT !.pc = pc])
        BY <1>0, <1>7, StaysFormed DEF Moved
  <2>. QED BY <2>1
<1>8. CASE InstallTx(c) \/ InstallNode(c)
  <2>1. k.pc = "install" /\ k.phase \in {"publish", "repair", "flush"}
        BY <1>1, <1>8 DEF InstallTx, InstallNode, At
  <2>2. UNCHANGED <<disk, events, board, coordinator>>
        BY <1>8 DEF InstallTx, InstallNode
  <2>3. \/ call' = [call EXCEPT ![c] = Advanced(c)]
        \/ call' = [call EXCEPT ![c].pc = "mark"]
        BY <1>8 DEF InstallTx, InstallNode
  <2>4. CASE call' = [call EXCEPT ![c] = Advanced(c)]
        BY <1>5, <2>1, <2>2, <2>4
  <2>5. CASE call' = [call EXCEPT ![c].pc = "mark"]
    <3>1. call' = [call EXCEPT ![c] = [k EXCEPT !.pc = "mark"]]
          BY <1>0, <2>5
    <3>2. "mark" \in PhasePcs[k.phase] /\ "mark" \in CallPcs
          BY <1>3, <2>1, PhasePc
    <3>. QED BY <1>7, <2>1, <2>2, <3>1, <3>2
  <2>. QED BY <2>3, <2>4, <2>5
<1>9. CASE PublishFailed(c)
  <2>1. k.pc = "failed" /\ k.phase = "publish" /\ call' = [call EXCEPT ![c] = [k EXCEPT !.pc = "queue"]]
        BY <1>0, <1>9 DEF PublishFailed, At
  <2>2. "queue" \in PhasePcs[k.phase] /\ "queue" \in CallPcs
        BY <1>3, <2>1, PhasePc
  <2>3. \E l : Moved(c, l)
        BY <1>7, <2>1, <2>2
  <2>. QED BY <1>9, <2>3 DEF PublishFailed, snapshot
<1>10. CASE PublishQueues(c)
  <2>. DEFINE m == [k EXCEPT !.pc = "check", !.list = <<>>]
  <2>1. k.pc = "queue" /\ k.phase = "publish" /\ c \in Writer
        BY <1>0, <1>1, <1>2, <1>10 DEF PublishQueues, At
  <2>2. call' = [call EXCEPT ![c] = m]
        BY <1>0, <1>10 DEF PublishQueues
  <2>3. m \in Call /\ m.pc = "check" /\ m.list = <<>> /\ m.phase = k.phase /\ m.asked = k.asked
    <3>1. <<>> \in Seq(Path) /\ "check" \in CallPcs
          BY DEF CallPcs
    <3>. QED BY <1>0, <3>1 DEF Call
  <2>. HIDE DEF m
  <2>4. "check" \in PhasePcs[m.phase]
        BY <2>1, <2>3, PhasePc
  <2>5. Moved(c, m)
        BY <2>1, <2>2, <2>3, <2>4 DEF Moved, Formed
  <2>. QED BY <1>10, <2>5 DEF PublishQueues, snapshot
<1>11. CASE TakeFailure(c)
  <2>. DEFINE m == [k EXCEPT !.pc = "take"]
  <2>1. k.pc = "check" /\ k.phase = "publish" /\ c \in Writer /\ k.list = <<>>
        BY <1>0, <1>1, <1>2, <1>11 DEF TakeFailure, At, Formed
  <2>2. \/ call' = [call EXCEPT ![c] = Answered(c, "err")]
        \/ call' = [call EXCEPT ![c] = m]
        BY <1>0, <1>11 DEF TakeFailure
  <2>3. CASE call' = [call EXCEPT ![c] = Answered(c, "err")]
        BY <1>6, <1>11, <2>1, <2>3 DEF TakeFailure, snapshot
  <2>4. CASE call' = [call EXCEPT ![c] = m]
    <3>1. m \in Call /\ m.pc = "take" /\ m.list = <<>> /\ m.phase = k.phase /\ m.asked = k.asked
          BY <1>0, <2>1 DEF Call, CallPcs
    <3>. HIDE DEF m
    <3>2. "take" \in PhasePcs[m.phase]
          BY <2>1, <3>1, PhasePc
    <3>3. Moved(c, m)
          BY <2>1, <2>4, <3>1, <3>2 DEF Moved, Formed
    <3>. QED BY <1>11, <3>3 DEF TakeFailure, snapshot
  <2>. QED BY <2>2, <2>3, <2>4
<1>12. CASE RepairTakes(c)
  <2>. DEFINE pc == IF unapplied = <<>> THEN "clear" ELSE "read"
              m == [k EXCEPT !.phase = "repair", !.list = unapplied, !.pc = pc]
  <2>1. k.pc = "take" /\ c \in Writer /\ unapplied \in Seq(Path)
        BY <1>0, <1>1, <1>2, <1>12 DEF RepairTakes, At, TypeOK
  <2>2. call' = [call EXCEPT ![c] = m]
        BY <1>0, <1>12 DEF RepairTakes
  <2>3. pc \in {"clear", "read"} /\ (unapplied = <<>> <=> pc = "clear")
        OBVIOUS
  <2>. HIDE DEF pc
  <2>4. m \in Call /\ m.pc = pc /\ m.list = unapplied /\ m.phase = "repair" /\ m.asked = k.asked
        BY <1>0, <2>1, <2>3 DEF Call, CallPcs, Phases
  <2>. HIDE DEF m
  <2>5. pc \in PhasePcs["repair"]
        BY <2>3, PhasePc
  <2>6. Moved(c, m)
        BY <2>1, <2>2, <2>3, <2>4, <2>5 DEF Moved, Formed
  <2>. QED BY <1>12, <2>6 DEF RepairTakes, snapshot
<1>13. CASE RepairFailed(c)
  <2>1. k.pc = "failed" /\ call' = [call EXCEPT ![c] = Answered(c, "err")]
        BY <1>13 DEF RepairFailed, At
  <2>. QED BY <1>6, <1>13, <2>1 DEF RepairFailed, snapshot
<1>14. CASE RepairDone(c)
  <2>1. k.pc = "clear" /\ call' = [call EXCEPT ![c] = Answered(c, "ok")]
        BY <1>14 DEF RepairDone, At
  <2>. QED BY <1>6, <1>14, <2>1 DEF RepairDone, snapshot
<1>15. CASE MarkAttempt(c)
  <2>1. k.pc = "mark" /\ call' = [call EXCEPT ![c] = [k EXCEPT !.pc = "register"]]
        BY <1>0, <1>15 DEF MarkAttempt, At
  <2>2. "register" \in PhasePcs[k.phase] /\ "register" \in CallPcs
        BY <1>0, <1>3, PhasePc DEF Phases
  <2>3. \E l : Moved(c, l)
        BY <1>7, <2>1, <2>2
  <2>. QED BY <1>15, <2>3 DEF MarkAttempt
<1>16. CASE LoadDelayed(c)
  <2>1. k.pc = "delay" /\ call' = [call EXCEPT ![c] = Answered(c, "err")]
        BY <1>16 DEF LoadDelayed, At
  <2>. QED BY <1>6, <1>16, <2>1 DEF LoadDelayed
<1>17. CASE LoadFailed(c)
  <2>1. k.pc = "record" /\ call' = [call EXCEPT ![c] = Answered(c, "err")]
        BY <1>17 DEF LoadFailed, At
  <2>. QED BY <1>6, <1>17, <2>1 DEF LoadFailed
<1>18. CASE Resume(c)
  <2>1. k.pc = "reply" /\ UNCHANGED <<disk, events, board, coordinator>>
        BY <1>18 DEF Resume, At, snapshot
  <2>2. CASE k.phase = "refresh"
    <3>1. call' = [call EXCEPT ![c] = Answered(c, k.reply)] /\ k.reply \in {"none", "ok", "err", "moved"}
          BY <1>0, <1>18, <2>2 DEF Resume, Call
    <3>. QED BY <1>6, <2>1, <3>1
  <2>3. CASE k.phase = "load" /\ k.reply = "ok"
    <3>1. PICK answer \in {"ok", "err"} : call' = [call EXCEPT ![c] = Answered(c, answer)]
          BY <1>18, <2>3 DEF Resume
    <3>. QED BY <1>6, <2>1, <3>1
  <2>4. CASE k.phase = "load" /\ k.reply # "ok"
    <3>1. call' = [call EXCEPT ![c] = [k EXCEPT !.pc = "record"]]
          BY <1>18, <2>4 DEF Resume
    <3>2. "record" \in PhasePcs[k.phase] /\ "record" \in CallPcs
          BY <1>3, <2>4, PhasePc
    <3>. QED BY <1>7, <2>1, <2>4, <3>1, <3>2
  <2>5. CASE k.phase \in {"publish", "repair", "flush"} /\ k.reply = "ok"
    <3>1. call' = [call EXCEPT ![c] = Advanced(c)]
          BY <1>18, <2>5 DEF Resume
    <3>. QED BY <1>5, <2>1, <2>5, <3>1
  <2>6. CASE k.phase \in {"publish", "repair", "flush"} /\ k.reply # "ok"
    <3>1. call' = [call EXCEPT ![c] = [k EXCEPT !.pc = "failed"]]
          BY <1>18, <2>6 DEF Resume
    <3>2. "failed" \in PhasePcs[k.phase] /\ "failed" \in CallPcs
          BY <1>3, <2>6, PhasePc
    <3>. QED BY <1>7, <2>1, <2>6, <3>1, <3>2
  <2>. QED BY <1>0, <2>2, <2>3, <2>4, <2>5, <2>6 DEF Phases
<1>. QED
  BY <1>4, <1>8, <1>9, <1>10, <1>11, <1>12, <1>13, <1>14, <1>15, <1>16, <1>17, <1>18
  DEF Request

\* What the steps keep besides the types.
Core == CallsFormed /\ WaitersWait /\ NoneStranded /\ ScanCovers

\* A move of one request, away from the coordinator, keeps everything about the
\* others: nothing of the coordinator speaks of it, before or after.
LEMMA MoveKeeps ==
    ASSUME TypeOK, Core, NEW c \in Proc, NEW k, Moved(c, k), UNCHANGED coordinator,
           disk' \in [Path -> Version], \A p \in Path : disk[p] <= disk'[p],
           IsFiniteSet(events')
    PROVE  call' \in [Proc -> Call] /\ Core'
<1>0. /\ call \in [Proc -> Call] /\ disk \in [Path -> Version] /\ k \in Call
      /\ call' = [call EXCEPT ![c] = k] /\ call[c].pc # "wait" /\ k.pc # "wait"
      /\ k.asked \in {NoVersions, call[c].asked} /\ Formed(c, k)
      /\ waiters \in Seq(Proc \cup {Gone}) /\ loaders \subseteq Loader \cup {Gone}
      /\ UNCHANGED <<running, waiters, loaders, worker, scan>>
      BY DEF TypeOK, Moved, coordinator
<1>1. /\ call' \in [Proc -> Call] /\ call'[c] = k
      /\ \A d \in Proc \ {c} : call'[d] = call[d]
      BY <1>0
<1>2. CallsFormed'
  <2>1. \A d \in Proc : Formed(d, call'[d])
        BY <1>0, <1>1 DEF Core, CallsFormed, Formed
  <2>. QED BY <2>1 DEF CallsFormed, Formed
<1>3. Gone \notin Proc /\ Loader \subseteq Proc
      BY CallerAssumption DEF Proc, Caller
<1>4. WaitersWait'
  <2>1. \A i \in 1..Len(waiters) : waiters[i] # Gone => waiters[i] \in Proc \ {c}
        BY <1>0 DEF Core, WaitersWait, At
  <2>2. \A l \in loaders \ {Gone} : l \in Proc \ {c}
        BY <1>0, <1>3 DEF Core, WaitersWait, At
  <2>. QED BY <1>0, <1>1, <2>1, <2>2 DEF Core, WaitersWait, At
<1>5. NoneStranded'
      BY <1>0, <1>1 DEF Core, NoneStranded, At, Elements
<1>6. ScanCovers'
  <2>1. \A d \in Proc, p \in Path : call'[d].asked[p] <= disk'[p]
    <3>1. ASSUME NEW d \in Proc, NEW p \in Path PROVE call'[d].asked[p] <= disk'[p]
      <4>1. call[d].asked[p] <= disk[p] /\ call[d].asked \in [Path -> Version]
            BY <1>0 DEF Core, ScanCovers, Call
      <4>2. disk[p] \in Nat /\ disk'[p] \in Nat /\ disk[p] <= disk'[p] /\ call[d].asked[p] \in Nat
            BY <1>0, <4>1, LimitAssumption DEF Version
      <4>3. call'[d].asked = call[d].asked \/ call'[d].asked = NoVersions
            BY <1>0, <1>1
      <4>. QED BY <4>1, <4>2, <4>3, NoVersionsTyped
    <3>. QED BY <3>1
  <2>2. \A i \in 1..worker.captured : waiters[i] # Gone => waiters[i] \in Proc \ {c}
    <3>1. worker.captured <= Len(waiters) /\ worker.captured \in Nat
          BY DEF TypeOK, Worker
    <3>. QED BY <1>0, <3>1 DEF Core, WaitersWait, At
  <2>. QED BY <1>0, <1>1, <2>1, <2>2 DEF Core, ScanCovers
<1>. QED BY <1>1, <1>2, <1>4, <1>5, <1>6 DEF Core

\* The paths of a list are finitely many.
LEMMA ElementsFinite ==
    ASSUME NEW list \in Seq(Path)
    PROVE  IsFiniteSet(Elements(list)) /\ Elements(list) \subseteq Path
<1>1. Len(list) \in Nat /\ list \in [1..Len(list) -> Path]
      OBVIOUS
<1>2. list \in Surjection(1..Len(list), Elements(list))
      BY <1>1 DEF Surjection, Elements
<1>3. IsFiniteSet(1..Len(list))
      BY <1>1, FS_Interval
<1>4. IsFiniteSet(Elements(list))
      BY <1>2, <1>3, FS_Surjection
<1>5. Elements(list) \subseteq Path
      BY <1>1 DEF Elements
<1>. QED BY <1>4, <1>5

\* Writing makes newer versions.
LEMMA BumpTyped ==
    ASSUME TypeOK, NEW S, \A p \in S : disk[p] < MaxVersion
    PROVE  Bump(S) \in [Path -> Version] /\ \A p \in Path : disk[p] <= Bump(S)[p]
<1>1. \A p \in Path : disk[p] \in 0..MaxVersion /\ MaxVersion \in Nat
      BY LimitAssumption DEF TypeOK, Version
<1>. QED BY <1>1 DEF Bump, Version

\* Requests that begin, and the flush of the watcher, move only themselves.
LEMMA CommitMoves ==
    ASSUME TypeOK, CallsFormed, NEW c \in Writer, NEW list \in WriteLists, Commit(c, list)
    PROVE  /\ disk' \in [Path -> Version] /\ \A p \in Path : disk[p] <= disk'[p]
           /\ IsFiniteSet(events') /\ events' \subseteq Path
           /\ \E k : Moved(c, k)
<1>0. c \in Proc /\ list \in Seq(Path) /\ list # <<>> /\ call \in [Proc -> Call]
      BY PathAssumption DEF Proc, Caller, TypeOK
<1>1. Elements(list) \subseteq Path /\ IsFiniteSet(Elements(list))
      BY <1>0, ElementsFinite
<1>2. disk' \in [Path -> Version] /\ \A p \in Path : disk[p] <= disk'[p]
      BY BumpTyped DEF Commit
<1>3. IsFiniteSet(events') /\ events' \subseteq Path
      BY <1>1, FS_Union DEF Commit, CallsFormed, TypeOK
<1>. DEFINE mine == [p \in Path |-> IF p \in Elements(list) THEN disk[p] + 1 ELSE 0]
            k == [Idle EXCEPT !.phase = "publish", !.pc = "read", !.list = list, !.mine = mine]
<1>4. mine \in [Path -> Version]
  <2>1. \A p \in Path : disk[p] \in 0..MaxVersion /\ MaxVersion \in Nat
        BY LimitAssumption DEF TypeOK, Version
  <2>. QED BY <1>1, <2>1 DEF Version, Commit
<1>5. call' = [call EXCEPT ![c] = k] /\ call[c].pc = "idle"
      BY DEF Commit, At
<1>. HIDE DEF mine
<1>6. "publish" \in Phases /\ "read" \in CallPcs
      BY DEF Phases, CallPcs
<1>7. k \in Call /\ k.phase = "publish" /\ k.pc = "read" /\ k.list = list /\ k.asked = NoVersions
      BY <1>0, <1>4, <1>6, IdleFormed DEF Call
<1>. HIDE DEF k
<1>8. "read" \in PhasePcs["publish"]
      BY PhasePc
<1>9. Moved(c, k)
      BY <1>0, <1>5, <1>7, <1>8 DEF Moved, Formed
<1>. QED BY <1>2, <1>3, <1>9

\* A repeated request takes up what it wrote (the idempotency cache).
LEMMA RetryMoves ==
    ASSUME TypeOK, CallsFormed, NEW c \in Writer, NEW list \in WriteLists, Retry(c, list)
    PROVE  \E k : Moved(c, k)
<1>0. c \in Proc /\ list \in Seq(Path) /\ list # <<>> /\ call \in [Proc -> Call]
      BY PathAssumption DEF Proc, Caller, TypeOK
<1>. DEFINE mine == call[c].mine
            k == [Idle EXCEPT !.phase = "publish", !.pc = "read", !.list = list, !.mine = mine]
<1>4. mine \in [Path -> Version]
      BY <1>0 DEF Call
<1>5. call' = [call EXCEPT ![c] = k] /\ call[c].pc = "idle"
      BY DEF Retry, At
<1>. HIDE DEF mine
<1>6. "publish" \in Phases /\ "read" \in CallPcs
      BY DEF Phases, CallPcs
<1>7. k \in Call /\ k.phase = "publish" /\ k.pc = "read" /\ k.list = list /\ k.asked = NoVersions
      BY <1>0, <1>4, <1>6, IdleFormed DEF Call
<1>. HIDE DEF k
<1>8. "read" \in PhasePcs["publish"]
      BY PhasePc
<1>9. Moved(c, k)
      BY <1>0, <1>5, <1>7, <1>8 DEF Moved, Formed
<1>. QED BY <1>9

\* refresh_project begins.
LEMMA RefreshBeginMoves ==
    ASSUME TypeOK, NEW c \in Caller, RefreshBegin(c)
    PROVE  \E k : Moved(c, k)
<1>0. c \in Proc /\ call \in [Proc -> Call]
      BY DEF Proc, TypeOK
<1>. DEFINE k == [Idle EXCEPT !.pc = "mark"]
<1>1. call' = [call EXCEPT ![c] = k] /\ call[c].pc = "idle"
      BY DEF RefreshBegin, At
<1>2. k \in Call /\ k.phase = "refresh" /\ k.pc = "mark" /\ k.list = <<>> /\ k.asked = NoVersions
      BY IdleFormed DEF Call, CallPcs
<1>. HIDE DEF k
<1>3. "mark" \in PhasePcs["refresh"]
      BY PhasePc
<1>4. Moved(c, k)
      BY <1>1, <1>2, <1>3 DEF Moved, Formed
<1>. QED BY <1>4

\* ensure_project_loaded answers at once or goes to the coordinator.
LEMMA LoadBeginMoves ==
    ASSUME TypeOK, NEW c \in Caller, LoadBegin(c)
    PROVE  \E k : Moved(c, k)
<1>0. c \in Proc /\ c \in Loader /\ call \in [Proc -> Call] /\ call[c].pc = "idle"
      BY DEF Proc, TypeOK, LoadBegin, At
<1>. DEFINE k == [Idle EXCEPT !.phase = "load", !.pc = "register", !.reg = board]
<1>1. \/ \E answer \in {"ok", "err"} : call' = [call EXCEPT ![c] = Answered(c, answer)]
      \/ call' = [call EXCEPT ![c] = k]
      BY DEF LoadBegin
<1>2. ASSUME NEW answer \in {"ok", "err"}, call' = [call EXCEPT ![c] = Answered(c, answer)]
      PROVE  \E l : Moved(c, l)
  <2>1. Moved(c, Answered(c, answer))
        BY <1>0, <1>2, AnsweredFormed DEF Moved
  <2>. QED BY <2>1
<1>3. CASE call' = [call EXCEPT ![c] = k]
  <2>1. board \in 0..MaxReg /\ "load" \in Phases /\ "register" \in CallPcs
        BY DEF TypeOK, Phases, CallPcs
  <2>2. k \in Call /\ k.phase = "load" /\ k.pc = "register" /\ k.list = <<>> /\ k.asked = NoVersions
        BY <2>1, IdleFormed DEF Call
  <2>. HIDE DEF k
  <2>3. "register" \in PhasePcs["load"]
        BY PhasePc
  <2>4. Moved(c, k)
        BY <1>0, <1>3, <2>2, <2>3 DEF Moved, Formed
  <2>. QED BY <2>4
<1>. QED BY <1>1, <1>2, <1>3

\* flush takes every path the watcher has heard of, in some order.
LEMMA FlushMoves ==
    ASSUME TypeOK, CallsFormed, Flushing
    PROVE  (\E k : Moved(Watcher, k)) /\ IsFiniteSet(events') /\ events' \subseteq Path
<1>0. /\ Watcher \in Proc /\ call \in [Proc -> Call] /\ call[Watcher] \in Call
      /\ IsFiniteSet(events) /\ events \subseteq Path
      BY DEF Proc, TypeOK, CallsFormed
<1>1. CASE FlushFailed
  <2>1. /\ call[Watcher].pc = "failed" /\ call' = [call EXCEPT ![Watcher] = Advanced(Watcher)]
        /\ events' = events
        BY <1>1 DEF FlushFailed, At
  <2>2. call[Watcher].phase \in {"publish", "repair", "flush"}
        BY <1>0, <2>1, PcPhase DEF CallsFormed
  <2>3. call[Watcher].list # <<>>
        BY <1>0, <2>1, <2>2 DEF CallsFormed
  <2>4. Moved(Watcher, Advanced(Watcher))
        BY <1>0, <2>1, <2>2, <2>3, AdvancedFormed DEF Moved
  <2>. QED BY <1>0, <2>1, <2>4
<1>2. ASSUME NEW order \in Orders(events), Flush(order)
      PROVE  (\E k : Moved(Watcher, k)) /\ IsFiniteSet(events') /\ events' \subseteq Path
  <2>. DEFINE k == [Idle EXCEPT !.phase = "flush", !.pc = "read", !.list = order]
  <2>1. /\ call' = [call EXCEPT ![Watcher] = k] /\ events' = {} /\ call[Watcher].pc = "idle"
        /\ events # {}
        BY <1>2 DEF Flush, At
  <2>2. order \in [1..Cardinality(events) -> events] /\ Elements(order) = events
        BY DEF Orders
  <2>3. Cardinality(events) \in Nat
        BY <1>0, FS_CardinalityType
  <2>4. order \in Seq(Path) /\ order # <<>>
    <3>1. order \in Seq(events)
          BY <2>2, <2>3
    <3>2. order \in Seq(Path)
          BY <1>0, <3>1, SeqMonotonic
    <3>. QED BY <2>1, <2>2, <3>2 DEF Elements
  <2>5. "flush" \in Phases /\ "read" \in CallPcs
        BY DEF Phases, CallPcs
  <2>6. k \in Call /\ k.phase = "flush" /\ k.pc = "read" /\ k.list = order /\ k.asked = NoVersions
        BY <2>4, <2>5, IdleFormed DEF Call
  <2>. HIDE DEF k
  <2>7. "read" \in PhasePcs["flush"]
        BY PhasePc
  <2>8. Moved(Watcher, k)
        BY <2>1, <2>4, <2>6, <2>7 DEF Moved, Formed
  <2>. QED BY <2>1, <2>8, FS_EmptySet
<1>. QED BY <1>1, <1>2 DEF Flushing


\* What a request does to the snapshot and to the repair queue.
LEMMA RequestTypes ==
    ASSUME TypeOK, CallsFormed, NEW c \in Proc, Request(c)
    PROVE  /\ shown' \in [Path -> Version] /\ project' \in BOOLEAN /\ load' \in LoadStates
           /\ failures' \subseteq Writer /\ unapplied' \in Seq(Path)
<1>0. /\ call \in [Proc -> Call] /\ call[c] \in Call /\ call[c].list \in Seq(Path)
      /\ call[c].seen \in Version
      /\ shown \in [Path -> Version] /\ project \in BOOLEAN /\ load \in LoadStates
      /\ failures \subseteq Writer /\ unapplied \in Seq(Path)
      BY DEF TypeOK, Call
<1>1. {"ready", "loading", "failed", "delayed"} \subseteq LoadStates
      BY DEF LoadStates
<1>2. call[c].phase = "publish" => c \in Writer
      BY DEF CallsFormed
<1>3. CASE InstallTx(c)
      BY <1>0, <1>3 DEF InstallTx, repairs
<1>4. CASE InstallNode(c)
  <2>1. UNCHANGED <<project, repairs>>
        BY <1>4 DEF InstallNode
  <2>2. shown' = shown \/ shown' = [shown EXCEPT ![Head(call[c].list)] = call[c].seen]
        BY <1>4 DEF InstallNode
  <2>3. load' = load \/ load' = "ready"
        BY <1>4 DEF InstallNode
  <2>. QED BY <1>0, <1>1, <2>1, <2>2, <2>3 DEF repairs
<1>5. CASE ReadPath(c) \/ RegisterRefresh(c) \/ RegisterLoad(c) \/ Resume(c)
      BY <1>0, <1>5 DEF ReadPath, RegisterRefresh, RegisterLoad, Resume, snapshot, repairs
<1>6. CASE PublishFailed(c)
      BY <1>0, <1>2, <1>6 DEF PublishFailed, snapshot
<1>7. CASE PublishQueues(c) \/ RepairFailed(c)
  <2>1. unapplied' = unapplied \o call[c].list \/ unapplied' = call[c].list \o unapplied
        BY <1>7 DEF PublishQueues, RepairFailed
  <2>2. unapplied' \in Seq(Path)
        BY <1>0, <2>1, ConcatProperties
  <2>. QED BY <1>0, <1>7, <2>2 DEF PublishQueues, RepairFailed, snapshot
<1>8. CASE TakeFailure(c) \/ RepairTakes(c) \/ RepairDone(c)
  <2>1. UNCHANGED <<shown, project, load>> /\ failures' \subseteq failures
        BY <1>8 DEF TakeFailure, RepairTakes, RepairDone, snapshot
  <2>2. unapplied' = unapplied \/ unapplied' = <<>>
        BY <1>8 DEF TakeFailure, RepairTakes, RepairDone
  <2>3. <<>> \in Seq(Path)
        OBVIOUS
  <2>. QED BY <1>0, <2>1, <2>2, <2>3
<1>9. CASE MarkAttempt(c)
      BY <1>0, <1>1, <1>9 DEF MarkAttempt, repairs
<1>10. \A reg : Recorded(reg, "failed") \in LoadStates /\ Recorded(reg, "delayed") \in LoadStates
      BY <1>0, <1>1 DEF Recorded
<1>11. CASE LoadDelayed(c)
      BY <1>0, <1>10, <1>11 DEF LoadDelayed, repairs
<1>12. CASE LoadFailed(c)
      BY <1>0, <1>10, <1>12 DEF LoadFailed, FailureRecorded, repairs
<1>. QED BY <1>3, <1>4, <1>5, <1>6, <1>7, <1>8, <1>9, <1>11, <1>12 DEF Request

\* Writes and changed registrations outside the requests leave the coordinator be.
LEMMA OutsideKeeps ==
    ASSUME TypeOK, Core, UNCHANGED <<coordinator, call>>,
           disk' \in [Path -> Version], \A p \in Path : disk[p] <= disk'[p],
           IsFiniteSet(events')
    PROVE  Core'
<1>0. UNCHANGED <<call, running, waiters, loaders, worker, scan>>
      BY DEF coordinator
<1>1. CallsFormed' /\ WaitersWait' /\ NoneStranded'
      BY <1>0 DEF Core, CallsFormed, WaitersWait, NoneStranded, At, Elements
<1>2. ASSUME NEW d \in Proc, NEW p \in Path PROVE call'[d].asked[p] <= disk'[p]
  <2>1. call[d].asked[p] <= disk[p] /\ call[d].asked \in [Path -> Version] /\ call'[d] = call[d]
        BY <1>0 DEF Core, ScanCovers, TypeOK, Call
  <2>2. disk[p] \in Nat /\ disk'[p] \in Nat /\ disk[p] <= disk'[p] /\ call[d].asked[p] \in Nat
        BY <2>1, LimitAssumption DEF TypeOK, Version
  <2>. QED BY <2>1, <2>2
<1>3. ScanCovers'
      BY <1>0, <1>2 DEF Core, ScanCovers
<1>. QED BY <1>1, <1>3 DEF Core

\* A step of the worker and its scan keeps the lists and the requests; what is
\* left is that its batch stays covered.
LEMMA WorkerKeeps ==
    ASSUME TypeOK, Core, UNCHANGED <<disk, events, running, waiters, loaders, call>>,
           worker.pc # "off" <=> worker'.pc # "off",
           worker'.pc = "fail" => worker'.result # "ok",
           worker'.pc = "publish" \/ (worker'.pc = "settle" /\ worker'.result = "ok") =>
               worker'.todo = {},
           worker'.pc \in {"scanning", "publish", "settle"} =>
               ((worker'.pc = "settle" => worker'.result = "ok") =>
                   \A i \in 1..worker'.captured : \A p \in Path \ worker'.todo :
                       waiters[i] # Gone => worker'.got[p] >= call[waiters[i]].asked[p])
    PROVE  Core'
<1>1. CallsFormed' /\ WaitersWait'
      BY DEF Core, CallsFormed, WaitersWait, At, Elements
<1>2. NoneStranded'
      BY DEF Core, NoneStranded, At, Elements
<1>3. ScanCovers'
      BY DEF Core, ScanCovers
<1>. QED BY <1>1, <1>2, <1>3 DEF Core

\* The steps of the worker and of its scan before it settles.
WorkerStep ==
    \/ Capture \/ BeginScan \/ SeedScan \/ ScanEnds \/ ScanTimesOut \/ ScanFails
    \/ \E p \in Path : ScanReads(p)
    \/ \E hasProject \in BOOLEAN : Publish(hasProject)
    \/ WorkerRecords

\* The worker, its scan and what it puts into the snapshot stay of their types.
LEMMA WorkerTypes ==
    ASSUME TypeOK, WorkerStep
    PROVE  /\ UNCHANGED <<disk, events, board, running, waiters, loaders, call, failures, unapplied>>
           /\ worker' \in Worker /\ worker'.captured <= Len(waiters)
           /\ scan' \in {"none", "live", "stale"}
           /\ shown' \in [Path -> Version] /\ project' \in BOOLEAN /\ load' \in LoadStates
           /\ worker.pc # "off" /\ worker'.pc # "off"
<1>0. /\ worker \in Worker /\ worker.captured <= Len(waiters) /\ Len(waiters) \in Nat
      /\ board \in 0..MaxReg /\ project \in BOOLEAN /\ load \in LoadStates
      /\ scan \in {"none", "live", "stale"}
      /\ shown \in [Path -> Version] /\ disk \in [Path -> Version]
      BY DEF TypeOK
<1>1. {"ready", "failed"} \subseteq LoadStates
      BY DEF LoadStates
<1>. USE DEF snapshot, repairs
<1>2. CASE Capture
  <2>. DEFINE n == Len(waiters)
  <2>1. worker' = [worker EXCEPT !.pc = "begin", !.captured = n] /\ n \in Nat
        BY <1>0, <1>2 DEF Capture
  <2>. HIDE DEF n
  <2>2. worker' \in Worker /\ worker'.captured = n /\ worker'.pc # "off"
        BY <1>0, <2>1 DEF Worker
  <2>3. worker'.captured <= Len(waiters)
        BY <1>0, <2>2 DEF n
  <2>. QED BY <1>0, <1>2, <2>2, <2>3 DEF Capture
<1>3. CASE BeginScan
  <2>1. \/ worker' = [worker EXCEPT !.pc = "seed", !.reg = board]
        \/ worker' = [worker EXCEPT !.pc = "fail", !.reg = board, !.result = "err"]
        BY <1>3 DEF BeginScan
  <2>2. worker' \in Worker /\ worker'.captured = worker.captured /\ worker'.pc # "off"
        BY <1>0, <2>1 DEF Worker
  <2>. QED BY <1>0, <1>3, <2>2 DEF BeginScan
<1>4. CASE SeedScan
  <2>1. worker' \in Worker /\ worker'.captured = worker.captured /\ worker'.pc # "off"
        BY <1>0, <1>4 DEF SeedScan, Worker
  <2>. QED BY <1>0, <1>4, <2>1 DEF SeedScan
<1>5. CASE ScanEnds \/ ScanFails
  <2>1. worker' \in Worker /\ worker'.captured = worker.captured /\ worker'.pc # "off"
        BY <1>0, <1>5 DEF ScanEnds, ScanFails, Worker
  <2>. QED BY <1>0, <1>5, <2>1 DEF ScanEnds, ScanFails
<1>6. CASE ScanTimesOut
  <2>1. worker' \in Worker /\ worker'.captured = worker.captured /\ worker'.pc # "off"
        BY <1>0, <1>6 DEF ScanTimesOut, Worker
  <2>2. scan' \in {"none", "stale"}
        BY <1>6 DEF ScanTimesOut
  <2>. QED BY <1>0, <1>6, <2>1, <2>2 DEF ScanTimesOut
<1>7. ASSUME NEW p \in Path, ScanReads(p)
      PROVE  /\ worker' \in Worker /\ worker'.captured = worker.captured
             /\ worker.pc # "off" /\ worker'.pc # "off"
             /\ UNCHANGED <<disk, events, snapshot, running, waiters, loaders, scan, repairs, call>>
  <2>. DEFINE todo == worker.todo \ {p}
              got == [worker.got EXCEPT ![p] = disk[p]]
  <2>1. worker' = [worker EXCEPT !.todo = todo, !.got = got]
        BY <1>0, <1>7 DEF ScanReads, Worker
  <2>2. todo \in SUBSET Path /\ got \in [Path -> Version]
        BY <1>0 DEF Worker
  <2>. HIDE DEF todo, got
  <2>3. worker' \in Worker /\ worker'.captured = worker.captured /\ worker'.pc = worker.pc
        BY <1>0, <2>1, <2>2 DEF Worker
  <2>. QED BY <1>7, <2>3 DEF ScanReads
<1>8. ASSUME NEW hasProject \in BOOLEAN, Publish(hasProject)
      PROVE  /\ worker' \in Worker /\ worker'.captured = worker.captured
             /\ worker.pc # "off" /\ worker'.pc # "off"
             /\ UNCHANGED <<disk, events, board, running, waiters, loaders, scan, repairs, call>>
             /\ shown' \in [Path -> Version] /\ project' \in BOOLEAN /\ load' \in LoadStates
  <2>1. \/ worker' = [worker EXCEPT !.pc = "settle", !.result = "ok"]
        \/ worker' = [worker EXCEPT !.pc = "fail", !.result = "err"]
        \/ worker' = [worker EXCEPT !.pc = "fail", !.result = "moved"]
        BY <1>8 DEF Publish
  <2>2. worker' \in Worker /\ worker'.captured = worker.captured /\ worker'.pc # "off"
        BY <1>0, <2>1 DEF Worker
  <2>3. shown' = shown \/ shown' = worker.got
        BY <1>8 DEF Publish
  <2>4. worker.got \in [Path -> Version]
        BY <1>0 DEF Worker
  <2>5. project' \in BOOLEAN
        BY <1>0, <1>8 DEF Publish
  <2>6. load' = load \/ load' = "ready"
        BY <1>8 DEF Publish
  <2>7. /\ worker.pc # "off"
        /\ UNCHANGED <<disk, events, board, running, waiters, loaders, scan, repairs, call>>
        BY <1>8 DEF Publish
  <2>. QED BY <1>0, <1>1, <2>2, <2>3, <2>4, <2>5, <2>6, <2>7
<1>9. CASE WorkerRecords
  <2>1. worker' \in Worker /\ worker'.captured = worker.captured /\ worker'.pc # "off"
        BY <1>0, <1>9 DEF WorkerRecords, Worker
  <2>2. load' \in LoadStates
        BY <1>0, <1>1, <1>9 DEF WorkerRecords, FailureRecorded, Recorded
  <2>. QED BY <1>0, <1>9, <2>1, <2>2 DEF WorkerRecords
<1>10. CASE \E p \in Path : ScanReads(p)
  <2>1. PICK p \in Path : ScanReads(p)
        BY <1>10
  <2>. QED BY <1>0, <1>7, <2>1
<1>11. CASE \E hasProject \in BOOLEAN : Publish(hasProject)
  <2>1. PICK hasProject \in BOOLEAN : Publish(hasProject)
        BY <1>11
  <2>. QED BY <1>0, <1>8, <2>1
<1>. QED BY <1>2, <1>3, <1>4, <1>5, <1>6, <1>9, <1>10, <1>11 DEF WorkerStep

\* What of the worker's batch a step has to keep.
Covered ==
    /\ worker.pc = "fail" => worker.result # "ok"
    /\ worker.pc = "publish" \/ (worker.pc = "settle" /\ worker.result = "ok") =>
         worker.todo = {}
    /\ worker.pc \in {"scanning", "publish", "settle"} =>
         ((worker.pc = "settle" => worker.result = "ok") =>
             \A i \in 1..worker.captured : \A p \in Path \ worker.todo :
                 waiters[i] # Gone => worker.got[p] >= call[waiters[i]].asked[p])

\* The batch is captured before its scan begins, and the scan reads every path.
LEMMA WorkerCovers ==
    ASSUME TypeOK, Core, WorkerStep
    PROVE  Covered'
<1>0. /\ worker \in Worker /\ Covered /\ UNCHANGED <<waiters, call, disk>>
      BY WorkerTypes DEF TypeOK, Core, ScanCovers, Covered
<1>1. CASE Capture
      BY <1>0, <1>1 DEF Capture, Covered, Worker
<1>2. CASE BeginScan
  <2>1. worker'.pc \in {"seed", "fail"} /\ (worker'.pc = "fail" => worker'.result # "ok")
        BY <1>0, <1>2 DEF BeginScan, Worker
  <2>. QED BY <2>1 DEF Covered
<1>3. CASE SeedScan
  <2>1. worker'.pc = "scanning" /\ worker'.todo = Path
        BY <1>0, <1>3 DEF SeedScan, Worker
  <2>. QED BY <2>1 DEF Covered
<1>4. CASE ScanEnds
  <2>1. /\ worker.pc = "scanning" /\ worker'.pc = "publish" /\ worker.todo = {} /\ worker'.todo = {}
        /\ worker'.captured = worker.captured /\ worker'.got = worker.got
        BY <1>0, <1>4 DEF ScanEnds, Worker
  <2>. QED BY <1>0, <2>1 DEF Covered
<1>5. CASE ScanFails \/ ScanTimesOut
  <2>1. worker'.pc = "fail" /\ worker'.result = "err"
        BY <1>0, <1>5 DEF ScanFails, ScanTimesOut, Worker
  <2>. QED BY <2>1 DEF Covered
<1>6. CASE \E p \in Path : ScanReads(p)
  <2>1. PICK p \in Path : ScanReads(p)
        BY <1>6
  <2>. DEFINE todo == worker.todo \ {p}
              got == [worker.got EXCEPT ![p] = disk[p]]
  <2>2. worker' = [worker EXCEPT !.todo = todo, !.got = got] /\ worker.pc = "scanning"
        BY <1>0, <2>1 DEF ScanReads, Worker
  <2>3. /\ \A q \in Path \ todo : q = p \/ q \in Path \ worker.todo
        /\ got[p] = disk[p] /\ \A q \in Path \ {p} : got[q] = worker.got[q]
        /\ p \in worker.todo
        BY <1>0, <2>1 DEF ScanReads, Worker
  <2>. HIDE DEF todo, got
  <2>4. /\ worker'.pc = "scanning" /\ worker'.todo = todo /\ worker'.got = got
        /\ worker'.captured = worker.captured
        BY <1>0, <2>2 DEF Worker
  <2>5. ASSUME NEW i \in 1..worker.captured, NEW q \in Path \ todo, waiters[i] # Gone
        PROVE  got[q] >= call[waiters[i]].asked[q]
    <3>1. worker.captured <= Len(waiters) /\ worker.captured \in Nat /\ Len(waiters) \in Nat
          BY DEF TypeOK, Worker
    <3>2. i \in 1..Len(waiters)
          BY <3>1
    <3>3. waiters[i] \in Proc
          BY <2>5, <3>2 DEF TypeOK
    <3>4. CASE q = p
      <4>1. call[waiters[i]].asked[p] <= disk[p]
            BY <3>3 DEF Core, ScanCovers
      <4>2. call[waiters[i]].asked \in [Path -> Version] /\ disk[p] \in Version
            BY <3>3 DEF TypeOK, Call
      <4>3. call[waiters[i]].asked[p] \in Int /\ disk[p] \in Int
            BY <4>2, LimitAssumption DEF Version
      <4>. QED BY <2>3, <3>4, <4>1, <4>3
    <3>5. CASE q # p
          BY <1>0, <2>2, <2>3, <2>5, <3>5 DEF Covered
    <3>. QED BY <3>4, <3>5
  <2>. QED BY <1>0, <2>4, <2>5 DEF Covered
<1>7. CASE \E hasProject \in BOOLEAN : Publish(hasProject)
  <2>1. PICK hasProject \in BOOLEAN : Publish(hasProject)
        BY <1>7
  <2>2. worker.pc = "publish" /\ worker.todo = {}
        BY <1>0, <2>1 DEF Publish, Covered
  <2>3. \/ worker' = [worker EXCEPT !.pc = "settle", !.result = "ok"]
        \/ worker' = [worker EXCEPT !.pc = "fail", !.result = "err"]
        \/ worker' = [worker EXCEPT !.pc = "fail", !.result = "moved"]
        BY <2>1 DEF Publish
  <2>4. /\ worker'.captured = worker.captured /\ worker'.got = worker.got /\ worker'.todo = {}
        /\ (worker'.pc = "settle" /\ worker'.result = "ok") \/ (worker'.pc = "fail" /\ worker'.result # "ok")
        BY <1>0, <2>2, <2>3 DEF Worker
  <2>. QED BY <1>0, <2>2, <2>4 DEF Covered
<1>8. CASE WorkerRecords
  <2>1. worker'.pc = "settle" /\ worker'.result = worker.result /\ worker.pc = "fail"
        BY <1>0, <1>8 DEF WorkerRecords, Worker
  <2>. QED BY <1>0, <2>1 DEF Covered
<1>. QED BY <1>1, <1>2, <1>3, <1>4, <1>5, <1>6, <1>7, <1>8 DEF WorkerStep

\* The worker keeps all of it until it settles.
LEMMA WorkerStepKeeps ==
    ASSUME TypeOK, Core, WorkerStep
    PROVE  Core'
<1>1. Covered'
      BY WorkerCovers
<1>2. /\ UNCHANGED <<disk, events, running, waiters, loaders, call>>
      /\ worker.pc # "off" <=> worker'.pc # "off"
      BY WorkerTypes
<1>. QED BY <1>1, <1>2, WorkerKeeps DEF Covered

\* A thread that gives its entry back changes nothing else.
LEMMA ThreadExitKeeps ==
    ASSUME TypeOK, Core, ScanThreadExits
    PROVE  TypeOK' /\ Core'
<1>1. /\ UNCHANGED <<disk, events, shown, board, project, load, running, waiters, loaders, worker,
                     failures, unapplied, call>>
      /\ scan' = "none"
      BY DEF ScanThreadExits, snapshot, repairs
<1>2. TypeOK'
      BY <1>1 DEF TypeOK
<1>3. CallsFormed' /\ WaitersWait' /\ NoneStranded' /\ ScanCovers'
      BY <1>1 DEF Core, CallsFormed, WaitersWait, NoneStranded, ScanCovers, At, Elements
<1>. QED BY <1>2, <1>3 DEF Core

\* A worker that is started goes on, or begins with a window to coalesce.
LEMMA StartTyped ==
    ASSUME TypeOK, NoneStranded, StartWorker
    PROVE  /\ running' = TRUE /\ worker' \in Worker /\ worker'.captured = worker.captured
           /\ worker'.pc # "off" /\ worker'.todo = worker.todo /\ worker'.got = worker.got
           /\ worker'.result = worker.result
           /\ worker'.pc = worker.pc \/ worker'.pc = "coalesce"
<1>0. worker \in Worker
      BY DEF TypeOK
<1>1. CASE running
      BY <1>0, <1>1 DEF StartWorker, NoneStranded
<1>2. CASE ~running
  <2>1. worker' = [worker EXCEPT !.pc = "coalesce"] /\ running' = TRUE
        BY <1>2 DEF StartWorker
  <2>. QED BY <1>0, <2>1 DEF Worker
<1>. QED BY <1>1, <1>2 DEF StartWorker

\* request_required_refresh: the request waits behind the others, and knows what
\* was on disk.
LEMMA RegisterRefreshKeeps ==
    ASSUME TypeOK, Core, NEW c \in Proc, RegisterRefresh(c)
    PROVE  TypeOK' /\ Core'
<1>. DEFINE k == [call[c] EXCEPT !.pc = "wait", !.asked = disk]
            n == Len(waiters)
<1>0. /\ call \in [Proc -> Call] /\ disk \in [Path -> Version] /\ call[c] \in Call
      /\ waiters \in Seq(Proc \cup {Gone}) /\ n \in Nat /\ worker.captured <= n
      /\ worker.captured \in Nat /\ loaders \subseteq Loader \cup {Gone}
      /\ CallsFormed /\ WaitersWait /\ NoneStranded /\ ScanCovers
      BY DEF TypeOK, Core, Worker
<1>1. /\ call[c].pc = "register" /\ call[c].phase # "load" /\ waiters' = Append(waiters, c)
      /\ UNCHANGED <<disk, events, shown, board, project, load, loaders, scan, failures, unapplied>>
      BY DEF RegisterRefresh, At, snapshot, repairs
<1>2. call' = [call EXCEPT ![c] = k]
      BY <1>0 DEF RegisterRefresh
<1>3. "wait" \in CallPcs
      BY DEF CallPcs
<1>4. /\ k \in Call /\ k.pc = "wait" /\ k.asked = disk /\ k.phase = call[c].phase
      /\ k.list = call[c].list
      BY <1>0, <1>3 DEF Call
<1>. HIDE DEF k
<1>5. /\ call' \in [Proc -> Call] /\ call'[c] = k
      /\ \A d \in Proc \ {c} : call'[d] = call[d]
      BY <1>0, <1>2, <1>4
<1>6. /\ running' = TRUE /\ worker' \in Worker /\ worker'.captured = worker.captured
      /\ worker'.pc # "off" /\ worker'.todo = worker.todo /\ worker'.got = worker.got
      /\ worker'.result = worker.result
      /\ worker'.pc = worker.pc \/ worker'.pc = "coalesce"
      BY <1>0, StartTyped DEF RegisterRefresh
<1>7. /\ waiters' \in Seq(Proc \cup {Gone}) /\ Len(waiters') = n + 1
      /\ waiters'[n + 1] = c /\ \A i \in 1..n : waiters'[i] = waiters[i]
      BY <1>0, <1>1, AppendProperties
<1>. HIDE DEF n
<1>8. TypeOK'
  <2>1. worker'.captured <= Len(waiters')
        BY <1>0, <1>6, <1>7
  <2>. QED BY <1>1, <1>5, <1>6, <1>7, <2>1 DEF TypeOK
<1>9. CallsFormed'
  <2>1. "wait" \in PhasePcs[call[c].phase]
    <3>1. call[c].phase \in {"publish", "repair", "flush", "refresh"}
          BY <1>0, <1>1 DEF Call, Phases
    <3>. QED BY <3>1, PhasePc
  <2>2. call[c].list = <<>> <=> call[c].phase \in {"refresh", "load"}
        BY <1>0, <1>1 DEF CallsFormed
  <2>3. \A d \in Proc : Formed(d, call'[d])
        BY <1>0, <1>4, <1>5, <2>1, <2>2 DEF CallsFormed, Formed
  <2>. QED BY <1>0, <1>1, <2>3 DEF CallsFormed, Formed
<1>10. WaitersWait'
  <2>1. \A i \in 1..n : waiters[i] # Gone => waiters[i] \in Proc \ {c}
        BY <1>0, <1>1 DEF WaitersWait, At, n
  <2>2. c # Gone /\ Loader \subseteq Proc
        BY CallerAssumption DEF Proc, Caller
  <2>3. \A d \in loaders' \ {Gone} : call'[d].pc = "wait" /\ call'[d].phase = "load"
    <3>1. ASSUME NEW d \in loaders \ {Gone} PROVE d \in Proc \ {c} /\ call[d].pc = "wait" /\ call[d].phase = "load"
          BY <1>0, <1>1, <2>2 DEF WaitersWait, At
    <3>. QED BY <1>1, <1>5, <3>1
  <2>4. ASSUME NEW i \in 1..(n + 1), waiters'[i] # Gone
        PROVE  /\ call'[waiters'[i]].pc = "wait" /\ call'[waiters'[i]].phase # "load"
               /\ \A j \in 1..(n + 1) : waiters'[j] = waiters'[i] => j = i
    <3>1. CASE i = n + 1
      <4>1. \A j \in 1..n : waiters'[j] # c
            BY <1>7, <2>1, <2>2
      <4>. QED BY <1>0, <1>1, <1>4, <1>5, <1>7, <3>1, <4>1
    <3>2. CASE i \in 1..n
      <4>1. waiters'[i] = waiters[i] /\ waiters[i] \in Proc \ {c}
            BY <1>7, <2>1, <2>4, <3>2
      <4>2. /\ call[waiters[i]].pc = "wait" /\ call[waiters[i]].phase # "load"
            /\ \A j \in 1..n : waiters[j] = waiters[i] => j = i
            BY <1>0, <2>4, <3>2, <4>1 DEF WaitersWait, At, n
      <4>3. ASSUME NEW j \in 1..(n + 1), waiters'[j] = waiters'[i] PROVE j = i
        <5>1. j # n + 1
              BY <1>7, <4>1, <4>3
        <5>2. j \in 1..n
              BY <1>0, <5>1
        <5>. QED BY <1>7, <4>1, <4>2, <4>3, <5>2
      <4>. QED BY <1>5, <4>1, <4>2, <4>3
    <3>. QED BY <1>0, <3>1, <3>2
  <2>. QED BY <1>7, <2>3, <2>4 DEF WaitersWait, At
<1>11. NoneStranded'
  <2>1. ASSUME NEW d \in Proc, call'[d].pc = "wait" PROVE d \in Elements(waiters') \cup loaders'
    <3>1. CASE d = c
      <4>1. n + 1 \in 1..Len(waiters')
            BY <1>0, <1>7
      <4>. QED BY <1>7, <3>1, <4>1 DEF Elements
    <3>2. CASE d # c
      <4>1. d \in Elements(waiters) \cup loaders
            BY <1>0, <1>5, <2>1, <3>2 DEF NoneStranded, At
      <4>2. CASE d \in Elements(waiters)
        <5>1. PICK i \in 1..n : d = waiters[i]
              BY <4>2 DEF Elements, n
        <5>2. i \in 1..Len(waiters') /\ d = waiters'[i]
              BY <1>0, <1>7, <5>1
        <5>. QED BY <5>2 DEF Elements
      <4>. QED BY <1>1, <4>1, <4>2
    <3>. QED BY <3>1, <3>2
  <2>. QED BY <1>6, <2>1 DEF NoneStranded, At
<1>12. ScanCovers'
  <2>1. ASSUME NEW d \in Proc, NEW p \in Path PROVE call'[d].asked[p] <= disk'[p]
    <3>1. CASE d = c
      <4>1. disk[p] \in Int
            BY <1>0, LimitAssumption DEF Version
      <4>. QED BY <1>1, <1>4, <1>5, <3>1, <4>1
    <3>2. CASE d # c
          BY <1>0, <1>1, <1>5, <3>2 DEF ScanCovers
    <3>. QED BY <3>1, <3>2
  <2>2. ASSUME NEW i \in 1..worker.captured, waiters'[i] # Gone
        PROVE  waiters'[i] = waiters[i] /\ call'[waiters[i]] = call[waiters[i]] /\ waiters[i] # Gone
    <3>1. i \in 1..n
          BY <1>0
    <3>2. waiters'[i] = waiters[i]
          BY <1>7, <3>1
    <3>3. waiters[i] \in Proc \ {c}
          BY <1>0, <1>1, <2>2, <3>1, <3>2 DEF WaitersWait, At, n
    <3>. QED BY <1>5, <2>2, <3>2, <3>3
  <2>3. Covered
        BY <1>0 DEF ScanCovers, Covered
  <2>4. Covered'
        BY <1>6, <2>2, <2>3 DEF Covered
  <2>. QED BY <2>1, <2>4 DEF ScanCovers, Covered
<1>. QED BY <1>8, <1>9, <1>10, <1>11, <1>12 DEF Core

\* A step that moves one request to or from the lists of loads, or empties its
\* place in them, leaves the worker's batch covered.
LEMMA CoveredStays ==
    ASSUME TypeOK, Core, call' \in [Proc -> Call], UNCHANGED disk, NEW c \in Proc,
           \A d \in Proc \ {c} : call'[d] = call[d],
           call'[c].asked \in {NoVersions, call[c].asked},
           Len(waiters') = Len(waiters),
           \A i \in 1..Len(waiters) :
               waiters'[i] = Gone \/ (waiters'[i] = waiters[i] /\ waiters[i] # c),
           worker'.captured = worker.captured, worker'.todo = worker.todo,
           worker'.got = worker.got, worker'.result = worker.result,
           worker'.pc = worker.pc \/ worker'.pc = "coalesce"
    PROVE  ScanCovers'
<1>0. /\ ScanCovers /\ worker.captured \in Nat /\ worker.captured <= Len(waiters) /\ Len(waiters) \in Nat
      /\ waiters \in Seq(Proc \cup {Gone}) /\ disk \in [Path -> Version] /\ Gone \notin Proc
      BY CallerAssumption DEF Core, TypeOK, Worker
<1>1. ASSUME NEW d \in Proc, NEW p \in Path PROVE call'[d].asked[p] <= disk'[p]
  <2>1. call[d].asked[p] <= disk[p] /\ disk[p] \in Nat
        BY <1>0, LimitAssumption DEF ScanCovers, Version
  <2>2. call'[d].asked = call[d].asked \/ call'[d].asked = NoVersions
        OBVIOUS
  <2>. QED BY <2>1, <2>2, NoVersionsTyped
<1>2. ASSUME NEW i \in 1..worker.captured, waiters'[i] # Gone
      PROVE  waiters'[i] = waiters[i] /\ call'[waiters[i]] = call[waiters[i]] /\ waiters[i] # Gone
  <2>1. i \in 1..Len(waiters)
        BY <1>0
  <2>2. waiters'[i] = waiters[i] /\ waiters[i] # c /\ waiters[i] # Gone
        BY <1>2, <2>1
  <2>3. waiters[i] \in Proc
        BY <1>0, <2>1, <2>2
  <2>. QED BY <2>2, <2>3
<1>3. Covered
      BY <1>0 DEF ScanCovers, Covered
<1>4. Covered'
      BY <1>2, <1>3 DEF Covered
<1>. QED BY <1>1, <1>4 DEF ScanCovers, Covered

\* request_project_load: the load waits beside the others.
LEMMA RegisterLoadKeeps ==
    ASSUME TypeOK, Core, NEW c \in Proc, RegisterLoad(c)
    PROVE  TypeOK' /\ Core'
<1>. DEFINE k == [call[c] EXCEPT !.pc = "wait"]
<1>0. /\ call \in [Proc -> Call] /\ disk \in [Path -> Version] /\ call[c] \in Call
      /\ waiters \in Seq(Proc \cup {Gone}) /\ worker.captured <= Len(waiters)
      /\ loaders \subseteq Loader \cup {Gone} /\ c # Gone /\ Loader \subseteq Proc
      /\ CallsFormed /\ WaitersWait /\ NoneStranded /\ ScanCovers
      BY CallerAssumption DEF TypeOK, Core, Proc, Caller
<1>1. /\ call[c].pc = "register" /\ call[c].phase = "load" /\ loaders' = loaders \cup {c}
      /\ UNCHANGED <<disk, events, shown, board, project, load, waiters, scan, failures, unapplied>>
      BY DEF RegisterLoad, At, snapshot, repairs
<1>2. call' = [call EXCEPT ![c] = k]
      BY <1>0 DEF RegisterLoad
<1>3. "wait" \in CallPcs
      BY DEF CallPcs
<1>4. /\ k \in Call /\ k.pc = "wait" /\ k.asked = call[c].asked /\ k.phase = "load"
      /\ k.list = call[c].list
      BY <1>0, <1>1, <1>3 DEF Call
<1>. HIDE DEF k
<1>5. /\ call' \in [Proc -> Call] /\ call'[c] = k
      /\ \A d \in Proc \ {c} : call'[d] = call[d]
      BY <1>0, <1>2, <1>4
<1>6. /\ running' = TRUE /\ worker' \in Worker /\ worker'.captured = worker.captured
      /\ worker'.pc # "off" /\ worker'.todo = worker.todo /\ worker'.got = worker.got
      /\ worker'.result = worker.result
      /\ worker'.pc = worker.pc \/ worker'.pc = "coalesce"
      BY <1>0, StartTyped DEF RegisterLoad
<1>7. c \in Loader
      BY <1>0, <1>1 DEF CallsFormed
<1>8. TypeOK'
      BY <1>0, <1>1, <1>5, <1>6, <1>7 DEF TypeOK
<1>9. CallsFormed'
  <2>1. "wait" \in PhasePcs["load"]
        BY PhasePc
  <2>2. call[c].list = <<>>
        BY <1>0, <1>1 DEF CallsFormed
  <2>3. \A d \in Proc : Formed(d, call'[d])
        BY <1>0, <1>4, <1>5, <1>7, <2>1, <2>2 DEF CallsFormed, Formed
  <2>. QED BY <1>0, <1>1, <2>3 DEF CallsFormed, Formed
<1>10. \A i \in 1..Len(waiters) : waiters[i] # Gone => waiters[i] \in Proc \ {c}
      BY <1>0, <1>1 DEF WaitersWait, At
<1>11. WaitersWait'
  <2>1. ASSUME NEW d \in loaders' \ {Gone} PROVE call'[d].pc = "wait" /\ call'[d].phase = "load"
    <3>1. CASE d = c
          BY <1>4, <1>5, <3>1
    <3>2. CASE d # c
      <4>1. d \in Proc \ {c} /\ call[d].pc = "wait" /\ call[d].phase = "load"
            BY <1>0, <1>1, <2>1, <3>2 DEF WaitersWait, At
      <4>. QED BY <1>5, <4>1
    <3>. QED BY <3>1, <3>2
  <2>2. \A i \in 1..Len(waiters) : waiters[i] # Gone =>
             /\ call'[waiters[i]].pc = "wait" /\ call'[waiters[i]].phase # "load"
             /\ \A j \in 1..Len(waiters) : waiters[j] = waiters[i] => j = i
        BY <1>0, <1>5, <1>10 DEF WaitersWait, At
  <2>. QED BY <1>1, <2>1, <2>2 DEF WaitersWait, At
<1>12. NoneStranded'
  <2>1. ASSUME NEW d \in Proc, call'[d].pc = "wait" PROVE d \in Elements(waiters) \cup loaders'
        BY <1>0, <1>1, <1>5, <2>1 DEF NoneStranded, At
  <2>. QED BY <1>1, <1>6, <2>1 DEF NoneStranded, At, Elements
<1>13. ScanCovers'
  <2>1. \A i \in 1..Len(waiters) :
               waiters'[i] = Gone \/ (waiters'[i] = waiters[i] /\ waiters[i] # c)
        BY <1>1, <1>10
  <2>2. call'[c].asked \in {NoVersions, call[c].asked} /\ Len(waiters') = Len(waiters)
        BY <1>1, <1>4, <1>5
  <2>. QED BY <1>1, <1>5, <1>6, <2>1, <2>2, CoveredStays
<1>. QED BY <1>8, <1>9, <1>11, <1>12, <1>13 DEF Core

\* The coordinator timeout: the load leaves a sender nobody listens to.
LEMMA LoadTimesOutKeeps ==
    ASSUME TypeOK, Core, NEW c \in Caller, LoadTimesOut(c)
    PROVE  TypeOK' /\ Core'
<1>. DEFINE k == [call[c] EXCEPT !.pc = "delay"]
<1>0. /\ call \in [Proc -> Call] /\ disk \in [Path -> Version] /\ call[c] \in Call
      /\ waiters \in Seq(Proc \cup {Gone}) /\ c \in Proc
      /\ loaders \subseteq Loader \cup {Gone} /\ c # Gone /\ Loader \subseteq Proc
      /\ CallsFormed /\ WaitersWait /\ NoneStranded /\ ScanCovers
      BY CallerAssumption DEF TypeOK, Core, Proc, Caller
<1>1. /\ call[c].pc = "wait" /\ call[c].phase = "load" /\ loaders' = (loaders \ {c}) \cup {Gone}
      /\ UNCHANGED <<disk, events, shown, board, project, load, running, waiters, worker, scan,
                     failures, unapplied>>
      BY DEF LoadTimesOut, At, snapshot, repairs
<1>2. call' = [call EXCEPT ![c] = k]
      BY <1>0 DEF LoadTimesOut
<1>3. "delay" \in CallPcs
      BY DEF CallPcs
<1>4. /\ k \in Call /\ k.pc = "delay" /\ k.asked = call[c].asked /\ k.phase = "load"
      /\ k.list = call[c].list
      BY <1>0, <1>1, <1>3 DEF Call
<1>. HIDE DEF k
<1>5. /\ call' \in [Proc -> Call] /\ call'[c] = k
      /\ \A d \in Proc \ {c} : call'[d] = call[d]
      BY <1>0, <1>2, <1>4
<1>6. c \in Loader
      BY <1>0, <1>1 DEF CallsFormed
<1>7. TypeOK'
      BY <1>0, <1>1, <1>5 DEF TypeOK
<1>8. CallsFormed'
  <2>1. "delay" \in PhasePcs["load"]
        BY PhasePc
  <2>2. call[c].list = <<>>
        BY <1>0, <1>1 DEF CallsFormed
  <2>3. \A d \in Proc : Formed(d, call'[d])
        BY <1>0, <1>4, <1>5, <1>6, <2>1, <2>2 DEF CallsFormed, Formed
  <2>. QED BY <1>0, <1>1, <2>3 DEF CallsFormed, Formed
<1>9. \A i \in 1..Len(waiters) : waiters[i] # Gone => waiters[i] \in Proc \ {c}
      BY <1>0, <1>1 DEF WaitersWait, At
<1>10. WaitersWait'
  <2>1. ASSUME NEW d \in loaders' \ {Gone} PROVE call'[d].pc = "wait" /\ call'[d].phase = "load"
    <3>1. d \in Proc \ {c} /\ call[d].pc = "wait" /\ call[d].phase = "load"
          BY <1>0, <1>1, <2>1 DEF WaitersWait, At
    <3>. QED BY <1>5, <3>1
  <2>2. \A i \in 1..Len(waiters) : waiters[i] # Gone =>
             /\ call'[waiters[i]].pc = "wait" /\ call'[waiters[i]].phase # "load"
             /\ \A j \in 1..Len(waiters) : waiters[j] = waiters[i] => j = i
        BY <1>0, <1>5, <1>9 DEF WaitersWait, At
  <2>. QED BY <1>1, <2>1, <2>2 DEF WaitersWait, At
<1>11. NoneStranded'
  <2>1. c \in Elements(waiters) \cup loaders
        BY <1>0, <1>1 DEF NoneStranded, At
  <2>2. running
        BY <1>0, <2>1 DEF NoneStranded, Elements
  <2>3. ASSUME NEW d \in Proc, call'[d].pc = "wait" PROVE d \in Elements(waiters) \cup loaders'
    <3>1. d # c
          BY <1>4, <1>5, <2>3
    <3>2. d \in Elements(waiters) \cup loaders
          BY <1>0, <1>5, <2>3, <3>1 DEF NoneStranded, At
    <3>. QED BY <1>1, <3>1, <3>2
  <2>. QED BY <1>0, <1>1, <2>2, <2>3 DEF NoneStranded, At, Elements
<1>12. ScanCovers'
  <2>1. \A i \in 1..Len(waiters) :
               waiters'[i] = Gone \/ (waiters'[i] = waiters[i] /\ waiters[i] # c)
        BY <1>1, <1>9
  <2>2. call'[c].asked \in {NoVersions, call[c].asked} /\ Len(waiters') = Len(waiters)
        BY <1>1, <1>4, <1>5
  <2>. QED BY <1>0, <1>1, <1>5, <2>1, <2>2, CoveredStays
<1>. QED BY <1>7, <1>8, <1>10, <1>11, <1>12 DEF Core

\* A dropped request leaves its places to nobody.
LEMMA DropKeeps ==
    ASSUME TypeOK, Core, NEW c \in Caller, Drop(c)
    PROVE  TypeOK' /\ Core'
<1>0. /\ call \in [Proc -> Call] /\ disk \in [Path -> Version] /\ call[c] \in Call
      /\ waiters \in Seq(Proc \cup {Gone}) /\ c \in Proc /\ Len(waiters) \in Nat
      /\ loaders \subseteq Loader \cup {Gone} /\ c # Gone /\ Loader \subseteq Proc /\ Gone \notin Proc
      /\ CallsFormed /\ WaitersWait /\ NoneStranded /\ ScanCovers
      BY CallerAssumption DEF TypeOK, Core, Proc, Caller
<1>1. /\ loaders' = IF c \in loaders THEN (loaders \ {c}) \cup {Gone} ELSE loaders
      /\ waiters' = [i \in 1..Len(waiters) |-> IF waiters[i] = c THEN Gone ELSE waiters[i]]
      /\ call' = [call EXCEPT ![c] = Idle]
      /\ UNCHANGED <<disk, events, shown, board, project, load, running, worker, scan,
                     failures, unapplied>>
      BY DEF Drop, snapshot, repairs
<1>2. /\ Idle \in Call /\ Formed(c, Idle) /\ Idle.pc = "idle" /\ Idle.asked = NoVersions
      BY IdleFormed
<1>3. /\ call' \in [Proc -> Call] /\ call'[c] = Idle
      /\ \A d \in Proc \ {c} : call'[d] = call[d]
      BY <1>0, <1>1, <1>2
<1>4. /\ waiters' \in Seq(Proc \cup {Gone}) /\ Len(waiters') = Len(waiters)
      /\ \A i \in 1..Len(waiters) : waiters'[i] = IF waiters[i] = c THEN Gone ELSE waiters[i]
  <2>1. \A i \in 1..Len(waiters) : waiters[i] \in Proc \cup {Gone}
        BY <1>0
  <2>. QED BY <1>0, <1>1, <2>1
<1>5. loaders' \subseteq Loader \cup {Gone} /\ c \notin loaders' /\ loaders \ {c} \subseteq loaders'
      /\ (loaders' # {} => loaders # {})
      /\ (loaders' \ {Gone}) \subseteq (loaders \ {c, Gone})
      BY <1>0, <1>1
<1>6. TypeOK'
      BY <1>1, <1>3, <1>4, <1>5 DEF TypeOK
<1>7. CallsFormed'
  <2>1. \A d \in Proc : Formed(d, call'[d])
        BY <1>0, <1>2, <1>3 DEF CallsFormed, Formed
  <2>. QED BY <1>0, <1>1, <2>1 DEF CallsFormed, Formed
<1>8. WaitersWait'
  <2>1. ASSUME NEW d \in loaders' \ {Gone} PROVE call'[d].pc = "wait" /\ call'[d].phase = "load"
    <3>1. d \in Proc \ {c} /\ call[d].pc = "wait" /\ call[d].phase = "load"
          BY <1>0, <1>5, <2>1 DEF WaitersWait, At
    <3>. QED BY <1>3, <3>1
  <2>2. ASSUME NEW i \in 1..Len(waiters), waiters'[i] # Gone
        PROVE  /\ call'[waiters'[i]].pc = "wait" /\ call'[waiters'[i]].phase # "load"
               /\ \A j \in 1..Len(waiters) : waiters'[j] = waiters'[i] => j = i
    <3>1. waiters'[i] = waiters[i] /\ waiters[i] \in Proc \ {c}
          BY <1>0, <1>4, <2>2
    <3>2. /\ call[waiters[i]].pc = "wait" /\ call[waiters[i]].phase # "load"
          /\ \A j \in 1..Len(waiters) : waiters[j] = waiters[i] => j = i
          BY <1>0, <2>2, <3>1 DEF WaitersWait, At
    <3>3. ASSUME NEW j \in 1..Len(waiters), waiters'[j] = waiters'[i] PROVE j = i
      <4>1. waiters[j] = waiters[i]
            BY <1>4, <2>2, <3>1, <3>3
      <4>. QED BY <3>2, <4>1
    <3>. QED BY <1>3, <3>1, <3>2, <3>3
  <2>. QED BY <1>4, <2>1, <2>2 DEF WaitersWait, At
<1>9. NoneStranded'
  <2>1. ASSUME NEW d \in Proc, call'[d].pc = "wait" PROVE d \in Elements(waiters') \cup loaders'
    <3>1. d # c
          BY <1>2, <1>3, <2>1
    <3>2. d \in Elements(waiters) \cup loaders
          BY <1>0, <1>3, <2>1, <3>1 DEF NoneStranded, At
    <3>3. CASE d \in Elements(waiters)
      <4>1. PICK i \in 1..Len(waiters) : d = waiters[i]
            BY <3>3 DEF Elements
      <4>2. i \in 1..Len(waiters') /\ d = waiters'[i]
            BY <1>4, <3>1, <4>1
      <4>. QED BY <4>2 DEF Elements
    <3>. QED BY <1>5, <3>1, <3>2, <3>3
  <2>2. waiters' # <<>> => waiters # <<>>
        BY <1>0, <1>4
  <2>. QED BY <1>0, <1>1, <1>5, <2>1, <2>2 DEF NoneStranded, At
<1>10. ScanCovers'
  <2>1. \A i \in 1..Len(waiters) :
               waiters'[i] = Gone \/ (waiters'[i] = waiters[i] /\ waiters[i] # c)
        BY <1>4
  <2>2. call'[c].asked \in {NoVersions, call[c].asked} /\ Len(waiters') = Len(waiters)
        BY <1>2, <1>3, <1>4
  <2>. QED BY <1>0, <1>1, <1>3, <2>1, <2>2, CoveredStays
<1>. QED BY <1>6, <1>7, <1>8, <1>9, <1>10 DEF Core

\* What is left of the lists when a batch is settled: whoever was captured waited
\* there and in no other place, so nobody is answered twice and nobody is lost.
LEMMA SettleParts ==
    ASSUME TypeOK, Core, Settle
    PROVE  /\ call' \in [Proc -> Call]
           /\ \A d \in Proc \cap Settled :
                /\ call[d].pc = "wait" /\ call'[d].pc = "reply" /\ call'[d].phase = call[d].phase
                /\ call'[d].list = call[d].list /\ call'[d].asked = call[d].asked
                /\ call'[d].reply = worker.result
           /\ \A d \in Proc \ Settled : call'[d] = call[d]
           /\ waiters' \in Seq(Proc \cup {Gone}) /\ Len(waiters') = Len(waiters) - worker.captured
           /\ \A i \in 1..Len(waiters') :
                /\ waiters'[i] = waiters[i + worker.captured]
                /\ i + worker.captured \in 1..Len(waiters)
           /\ loaders' = {}
<1>0. /\ call \in [Proc -> Call] /\ waiters \in Seq(Proc \cup {Gone}) /\ Len(waiters) \in Nat
      /\ worker \in Worker /\ worker.captured \in Nat /\ worker.captured <= Len(waiters)
      /\ loaders \subseteq Loader \cup {Gone} /\ Gone \notin Proc
      /\ WaitersWait
      BY CallerAssumption DEF TypeOK, Core, Worker
<1>1. worker.result \in {"none", "ok", "err", "moved"} /\ "reply" \in CallPcs
      BY <1>0 DEF Worker, CallPcs
<1>. DEFINE m(d) == [call[d] EXCEPT !.pc = "reply", !.reply = worker.result]
<1>2. \A d \in Proc : /\ m(d) \in Call /\ m(d).pc = "reply" /\ m(d).phase = call[d].phase
                      /\ m(d).list = call[d].list /\ m(d).asked = call[d].asked
                      /\ m(d).reply = worker.result
      BY <1>0, <1>1 DEF Call
<1>3. call' = [d \in Proc |-> IF d \in Settled THEN m(d) ELSE call[d]]
      BY DEF Settle
<1>. HIDE DEF m
<1>4. ASSUME NEW d \in Proc, d \in Settled PROVE call[d].pc = "wait"
  <2>1. CASE d \in loaders
        BY <1>0, <2>1 DEF WaitersWait, At
  <2>2. CASE d \in {waiters[i] : i \in 1..worker.captured}
    <3>1. PICK i \in 1..worker.captured : d = waiters[i]
          BY <2>2
    <3>2. i \in 1..Len(waiters) /\ waiters[i] # Gone
          BY <1>0, <3>1
    <3>. QED BY <1>0, <3>1, <3>2 DEF WaitersWait, At
  <2>. QED BY <1>4, <2>1, <2>2 DEF Settled
<1>5. call' \in [Proc -> Call]
      BY <1>0, <1>2, <1>3
<1>6. /\ waiters' \in Seq(Proc \cup {Gone}) /\ Len(waiters') = Len(waiters) - worker.captured
      /\ \A i \in 1..Len(waiters') :
           waiters'[i] = waiters[i + worker.captured] /\ i + worker.captured \in 1..Len(waiters)
  <2>. DEFINE a == worker.captured + 1
              n == Len(waiters)
  <2>1. waiters' = SubSeq(waiters, a, n)
        BY DEF Settle
  <2>2. a \in Nat \ {0} /\ n \in Nat /\ n - a + 1 = n - worker.captured /\ a <= n + 1
        BY <1>0
  <2>3. \A i \in a..n : waiters[i] \in Proc \cup {Gone}
        BY <1>0, <2>2
  <2>4. /\ SubSeq(waiters, a, n) \in Seq(Proc \cup {Gone})
        /\ Len(SubSeq(waiters, a, n)) = (IF a <= n THEN n - a + 1 ELSE 0)
        /\ \A i \in 1..(n - a + 1) : SubSeq(waiters, a, n)[i] = waiters[a + i - 1]
        BY <2>2, <2>3, SubSeqProperties
  <2>5. (IF a <= n THEN n - a + 1 ELSE 0) = n - worker.captured
        BY <1>0, <2>2
  <2>6. \A i \in 1..(n - worker.captured) : a + i - 1 = i + worker.captured /\ i + worker.captured \in 1..n
        BY <1>0
  <2>7. n - a + 1 = n - worker.captured
        BY <2>2
  <2>. HIDE DEF a, n
  <2>8. /\ Len(waiters') = n - worker.captured
        /\ \A i \in 1..(n - worker.captured) : waiters'[i] = waiters[i + worker.captured]
        BY <2>1, <2>4, <2>5, <2>6, <2>7
  <2>. QED BY <2>1, <2>4, <2>6, <2>8 DEF n
<1>7. loaders' = {}
      BY DEF Settle
<1>. QED BY <1>2, <1>3, <1>4, <1>5, <1>6, <1>7

\* settle_captured_ok and settle_captured_error: the worker ends without work, or
\* begins again for whoever came meanwhile.
LEMMA SettleKeeps ==
    ASSUME TypeOK, Core, Settle
    PROVE  TypeOK' /\ Core'
<1>0. /\ call \in [Proc -> Call] /\ disk \in [Path -> Version]
      /\ waiters \in Seq(Proc \cup {Gone}) /\ Len(waiters) \in Nat
      /\ worker.captured \in Nat /\ worker.captured <= Len(waiters)
      /\ loaders \subseteq Loader \cup {Gone} /\ Gone \notin Proc
      /\ CallsFormed /\ WaitersWait /\ NoneStranded /\ ScanCovers
      BY CallerAssumption DEF TypeOK, Core, Worker
<1>1. UNCHANGED <<disk, events, shown, board, project, load, scan, failures, unapplied>>
      BY DEF Settle, snapshot, repairs
<1>2. /\ call' \in [Proc -> Call]
      /\ \A d \in Proc \cap Settled :
           /\ call[d].pc = "wait" /\ call'[d].pc = "reply" /\ call'[d].phase = call[d].phase
           /\ call'[d].list = call[d].list /\ call'[d].asked = call[d].asked
      /\ \A d \in Proc \ Settled : call'[d] = call[d]
      /\ waiters' \in Seq(Proc \cup {Gone}) /\ Len(waiters') = Len(waiters) - worker.captured
      /\ \A i \in 1..Len(waiters') :
           waiters'[i] = waiters[i + worker.captured] /\ i + worker.captured \in 1..Len(waiters)
      /\ loaders' = {}
      BY SettleParts
<1>3. running' = (waiters' # <<>>)
      BY DEF Settle
<1>4. /\ worker' \in Worker /\ worker'.captured = 0
      /\ worker'.pc = IF running' THEN "coalesce" ELSE "off"
  <2>. DEFINE pc == IF running' THEN "coalesce" ELSE "off"
  <2>1. worker' = [NoScan EXCEPT !.pc = pc]
        BY DEF Settle
  <2>2. pc \in {"coalesce", "off"}
        OBVIOUS
  <2>. HIDE DEF pc
  <2>3. NoScan \in Worker /\ NoScan.captured = 0
        BY NoVersionsTyped, LimitAssumption DEF NoScan, Worker
  <2>4. worker' \in Worker /\ worker'.captured = 0 /\ worker'.pc = pc
        BY <2>1, <2>2, <2>3 DEF Worker
  <2>. QED BY <2>4 DEF pc
<1>5. TypeOK'
  <2>1. worker'.captured <= Len(waiters')
        BY <1>0, <1>2, <1>4
  <2>2. running' \in BOOLEAN
        BY <1>3
  <2>. QED BY <1>1, <1>2, <1>4, <2>1, <2>2 DEF TypeOK
<1>6. CallsFormed'
  <2>1. ASSUME NEW d \in Proc PROVE Formed(d, call'[d])
    <3>1. CASE d \in Settled
      <4>1. call[d].phase \in {"publish", "repair", "flush", "refresh", "load"}
            BY <1>0 DEF Call, Phases
      <4>2. "reply" \in PhasePcs[call[d].phase]
            BY <4>1, PhasePc
      <4>3. Formed(d, call[d])
            BY <1>0 DEF CallsFormed, Formed
      <4>. QED BY <1>2, <3>1, <4>2, <4>3 DEF Formed
    <3>2. CASE d \notin Settled
          BY <1>0, <1>2, <3>2 DEF CallsFormed, Formed
    <3>. QED BY <3>1, <3>2
  <2>. QED BY <1>0, <1>1, <2>1 DEF CallsFormed, Formed
<1>7. WaitersWait'
  <2>1. ASSUME NEW i \in 1..Len(waiters'), waiters'[i] # Gone
        PROVE  /\ call'[waiters'[i]].pc = "wait" /\ call'[waiters'[i]].phase # "load"
               /\ \A j \in 1..Len(waiters') : waiters'[j] = waiters'[i] => j = i
    <3>. DEFINE n == i + worker.captured
                w == waiters[n]
    <3>1. waiters'[i] = w /\ n \in 1..Len(waiters) /\ w # Gone
          BY <1>2, <2>1
    <3>2. /\ call[w].pc = "wait" /\ call[w].phase # "load" /\ w \in Proc
          /\ \A j \in 1..Len(waiters) : waiters[j] = w => j = n
          BY <1>0, <3>1 DEF WaitersWait, At
    <3>3. w \notin loaders
          BY <1>0, <3>1, <3>2 DEF WaitersWait, At
    <3>4. ASSUME NEW j \in 1..worker.captured PROVE waiters[j] # w
      <4>1. j \in 1..Len(waiters) /\ j # n
            BY <1>0, <3>1
      <4>. QED BY <3>2, <4>1
    <3>5. w \notin Settled
          BY <3>3, <3>4 DEF Settled
    <3>6. \A j \in 1..Len(waiters') : waiters'[j] = w => j = i
      <4>1. ASSUME NEW j \in 1..Len(waiters'), waiters'[j] = w PROVE j = i
        <5>1. waiters[j + worker.captured] = w /\ j + worker.captured \in 1..Len(waiters)
              BY <1>2, <4>1
        <5>2. j + worker.captured = n
              BY <3>2, <5>1
        <5>. QED BY <1>0, <5>2
      <4>. QED BY <4>1
    <3>7. call'[w] = call[w]
          BY <1>2, <3>2, <3>5
    <3>. QED BY <3>1, <3>2, <3>6, <3>7
  <2>. QED BY <1>2, <2>1 DEF WaitersWait, At
<1>8. NoneStranded'
  <2>1. ASSUME NEW d \in Proc, call'[d].pc = "wait" PROVE d \in Elements(waiters')
    <3>1. d \notin Settled
          BY <1>2, <2>1
    <3>2. d \in Elements(waiters) \cup loaders
          BY <1>0, <1>2, <2>1, <3>1 DEF NoneStranded, At
    <3>3. PICK i \in 1..Len(waiters) : d = waiters[i]
          BY <3>1, <3>2 DEF Elements, Settled
    <3>4. i \notin 1..worker.captured
          BY <3>1, <3>3 DEF Settled
    <3>. DEFINE j == i - worker.captured
    <3>5. j \in 1..Len(waiters') /\ j + worker.captured = i
          BY <1>0, <1>2, <3>4
    <3>6. waiters'[j] = d
          BY <1>2, <3>3, <3>5
    <3>. HIDE DEF j
    <3>. QED BY <3>5, <3>6 DEF Elements
  <2>2. running' <=> worker'.pc # "off"
        BY <1>4
  <2>. QED BY <1>2, <1>3, <2>1, <2>2 DEF NoneStranded, At
<1>9. ScanCovers'
  <2>1. \A d \in Proc : call'[d].asked = call[d].asked
        BY <1>2
  <2>2. \A d \in Proc, p \in Path : call'[d].asked[p] <= disk'[p]
        BY <1>0, <1>1, <2>1 DEF ScanCovers
  <2>3. worker'.pc \in {"coalesce", "off"}
        BY <1>4
  <2>. QED BY <2>2, <2>3 DEF ScanCovers
<1>. QED BY <1>5, <1>6, <1>7, <1>8, <1>9 DEF Core

-----------------------------------------------------------------------------
(* The invariant *)

\* A request that only moves itself.
LEMMA MovedKeeps ==
    ASSUME TypeOK, Core, NEW c \in Proc, NEW k, Moved(c, k), UNCHANGED <<board, coordinator>>,
           disk' \in [Path -> Version], \A p \in Path : disk[p] <= disk'[p],
           IsFiniteSet(events'), events' \subseteq Path,
           shown' \in [Path -> Version], project' \in BOOLEAN, load' \in LoadStates,
           failures' \subseteq Writer, unapplied' \in Seq(Path)
    PROVE  TypeOK' /\ Core'
<1>1. call' \in [Proc -> Call] /\ Core'
      BY MoveKeeps
<1>2. UNCHANGED <<running, waiters, loaders, worker, scan>>
      BY DEF coordinator
<1>3. TypeOK'
      BY <1>1, <1>2 DEF TypeOK
<1>. QED BY <1>1, <1>3

\* Every step of the daemon keeps the types and the coordinator's books.
LEMMA NextKeeps ==
    ASSUME TypeOK, Core, [Next]_vars
    PROVE  TypeOK' /\ Core'
<1>0. /\ CallsFormed /\ IsFiniteSet(events) /\ events \subseteq Path
      /\ shown \in [Path -> Version] /\ project \in BOOLEAN /\ load \in LoadStates
      /\ failures \subseteq Writer /\ unapplied \in Seq(Path) /\ disk \in [Path -> Version]
      /\ Writer \subseteq Proc /\ Caller \subseteq Proc /\ Watcher \in Proc
      BY DEF Core, CallsFormed, TypeOK, Proc, Caller
<1>1. \A p \in Path : disk[p] <= disk[p]
      BY <1>0, LimitAssumption DEF Version
<1>2. ASSUME NEW c \in Writer, NEW list \in WriteLists, Commit(c, list)
      PROVE  TypeOK' /\ Core'
  <2>1. /\ disk' \in [Path -> Version] /\ \A p \in Path : disk[p] <= disk'[p]
        /\ IsFiniteSet(events') /\ events' \subseteq Path
        /\ \E k : Moved(c, k)
        BY <1>0, <1>2, CommitMoves
  <2>2. PICK k : Moved(c, k)
        BY <2>1
  <2>3. UNCHANGED <<board, coordinator, shown, project, load, failures, unapplied>>
        BY <1>2 DEF Commit, snapshot, repairs
  <2>. QED BY <1>0, <2>1, <2>2, <2>3, MovedKeeps
<1>3. ASSUME NEW c \in Writer, NEW list \in WriteLists, Retry(c, list)
      PROVE  TypeOK' /\ Core'
  <2>1. PICK k : Moved(c, k)
        BY <1>0, <1>3, RetryMoves
  <2>2. UNCHANGED <<disk, events, board, coordinator, shown, project, load, failures, unapplied>>
        BY <1>3 DEF Retry, snapshot, repairs
  <2>. QED BY <1>0, <1>1, <2>1, <2>2, MovedKeeps
<1>4. ASSUME NEW p \in Path, Edit(p)
      PROVE  TypeOK' /\ Core'
  <2>1. disk' \in [Path -> Version] /\ \A q \in Path : disk[q] <= disk'[q]
        BY <1>4, BumpTyped DEF Edit
  <2>2. IsFiniteSet(events') /\ events' \subseteq Path
        BY <1>0, <1>4, FS_AddElement DEF Edit
  <2>3. UNCHANGED <<board, coordinator, call, shown, project, load, failures, unapplied>>
        BY <1>4 DEF Edit, snapshot, repairs
  <2>4. TypeOK'
        BY <2>1, <2>2, <2>3 DEF TypeOK, coordinator
  <2>. QED BY <2>1, <2>2, <2>3, <2>4, OutsideKeeps
<1>5. ASSUME NEW c \in Proc, Request(c)
      PROVE  TypeOK' /\ Core'
  <2>1. CASE RegisterRefresh(c)
        BY <2>1, RegisterRefreshKeeps
  <2>2. CASE RegisterLoad(c)
        BY <2>2, RegisterLoadKeeps
  <2>3. CASE ~RegisterRefresh(c) /\ ~RegisterLoad(c)
    <3>1. UNCHANGED <<disk, events, board, coordinator>> /\ \E k : Moved(c, k)
          BY <1>0, <1>5, <2>3, RequestMoves
    <3>2. PICK k : Moved(c, k)
          BY <3>1
    <3>3. /\ shown' \in [Path -> Version] /\ project' \in BOOLEAN /\ load' \in LoadStates
          /\ failures' \subseteq Writer /\ unapplied' \in Seq(Path)
          BY <1>0, <1>5, RequestTypes
    <3>. QED BY <1>0, <1>1, <3>1, <3>2, <3>3, MovedKeeps
  <2>. QED BY <2>1, <2>2, <2>3
<1>6. ASSUME NEW c \in Caller, RefreshBegin(c) \/ LoadBegin(c)
      PROVE  TypeOK' /\ Core'
  <2>1. PICK k : Moved(c, k)
        BY <1>6, RefreshBeginMoves, LoadBeginMoves
  <2>2. UNCHANGED <<disk, events, board, coordinator, shown, project, failures, unapplied>>
        BY <1>6 DEF RefreshBegin, LoadBegin, snapshot, repairs
  <2>3. load' \in LoadStates
    <3>1. load' = load \/ load' = "loading"
          BY <1>6 DEF RefreshBegin, LoadBegin, snapshot
    <3>. QED BY <1>0, <3>1 DEF LoadStates
  <2>. QED BY <1>0, <1>1, <2>1, <2>2, <2>3, MovedKeeps
<1>7. ASSUME NEW c \in Caller, LoadTimesOut(c) \/ Drop(c)
      PROVE  TypeOK' /\ Core'
      BY <1>7, LoadTimesOutKeeps, DropKeeps
<1>8. CASE Flushing
  <2>1. (\E k : Moved(Watcher, k)) /\ IsFiniteSet(events') /\ events' \subseteq Path
        BY <1>0, <1>8, FlushMoves
  <2>2. PICK k : Moved(Watcher, k)
        BY <2>1
  <2>3. UNCHANGED <<disk, snapshot, coordinator, repairs>>
        BY <1>8, Zenon DEF Flushing, FlushFailed, Flush
  <2>4. UNCHANGED <<disk, board, coordinator, shown, project, load, failures, unapplied>>
        BY <2>3 DEF snapshot, repairs
  <2>. QED BY <1>0, <1>1, <2>1, <2>2, <2>4, MovedKeeps
<1>9. CASE WorkerStep
  <2>1. Core'
        BY <1>9, WorkerStepKeeps
  <2>2. TypeOK'
        BY <1>9, WorkerTypes DEF TypeOK
  <2>. QED BY <2>1, <2>2
<1>10. CASE Settle
       BY <1>10, SettleKeeps
<1>11. CASE ScanThreadExits
       BY <1>11, ThreadExitKeeps
<1>12. CASE BoardChanges
  <2>0. board \in 0..MaxReg /\ MaxReg \in Nat
        BY LimitAssumption DEF TypeOK
  <2>1. /\ UNCHANGED <<disk, events, shown, coordinator, failures, unapplied, call>>
        /\ board < MaxReg /\ board' = board + 1 /\ project' = FALSE /\ load' = "unloaded"
        BY <1>12 DEF BoardChanges, repairs
  <2>3. board' \in 0..MaxReg /\ project' \in BOOLEAN /\ load' \in LoadStates
    <3>1. board' = board + 1 /\ board < MaxReg /\ project' = FALSE /\ load' = "unloaded"
          BY <2>1
    <3>2. board' \in 0..MaxReg
          BY <2>0, <3>1
    <3>. QED BY <3>1, <3>2 DEF LoadStates
  <2>2. TypeOK'
        BY <2>1, <2>3 DEF TypeOK, coordinator
  <2>. QED BY <1>0, <1>1, <2>1, <2>2, OutsideKeeps
<1>13. CASE UNCHANGED vars
  <2>1. TypeOK'
        BY <1>13 DEF vars, TypeOK
  <2>2. UNCHANGED <<coordinator, call, disk, events>>
        BY <1>13 DEF vars, coordinator
  <2>. QED BY <1>0, <1>1, <2>1, <2>2, OutsideKeeps
<1>. QED BY <1>2, <1>3, <1>4, <1>5, <1>6, <1>7, <1>8, <1>9, <1>10, <1>11, <1>12, <1>13
         DEF Next, Refresh, WorkerStep

\* Nothing has been asked for when the daemon starts.
LEMMA InitCore == Init => TypeOK /\ Core
<1>. SUFFICES ASSUME Init PROVE TypeOK /\ Core
     OBVIOUS
<1>1. /\ disk = [p \in Path |-> 1] /\ shown = NoVersions /\ board = 0 /\ project = FALSE
      /\ load = "unloaded" /\ events = {} /\ running = FALSE /\ waiters = <<>> /\ loaders = {}
      /\ scan = "none" /\ worker = NoScan /\ failures = {} /\ unapplied = <<>>
      /\ call = [c \in Proc |-> Idle]
      BY DEF Init
<1>2. Idle \in Call /\ \A c : Formed(c, Idle) /\ Idle.pc = "idle" /\ Idle.asked = NoVersions
      BY IdleFormed
<1>3. call \in [Proc -> Call] /\ \A c \in Proc : call[c] = Idle
      BY <1>1, <1>2
<1>4. NoScan \in Worker /\ NoScan.captured = 0 /\ NoScan.pc = "off"
      BY NoVersionsTyped, LimitAssumption DEF NoScan, Worker
<1>5. Len(waiters) = 0 /\ waiters \in Seq(Proc \cup {Gone}) /\ unapplied \in Seq(Path)
      BY <1>1
<1>6. /\ disk \in [Path -> Version] /\ \A p \in Path : disk[p] = 1
      /\ board \in 0..MaxReg /\ load \in LoadStates
      BY <1>1, LimitAssumption DEF Version, LoadStates
<1>7. TypeOK
  <2>1. worker \in Worker /\ worker.captured <= Len(waiters)
        BY <1>1, <1>4, <1>5
  <2>2. shown \in [Path -> Version] /\ scan \in {"none", "live", "stale"} /\ project \in BOOLEAN
        BY <1>1, NoVersionsTyped
  <2>3. events \subseteq Path /\ loaders \subseteq Loader \cup {Gone} /\ failures \subseteq Writer
        BY <1>1
  <2>. QED BY <1>1, <1>3, <1>5, <1>6, <2>1, <2>2, <2>3 DEF TypeOK
<1>8. CallsFormed
  <2>1. IsFiniteSet(events)
        BY <1>1, FS_EmptySet
  <2>. QED BY <1>2, <1>3, <2>1 DEF CallsFormed, Formed
<1>9. WaitersWait
      BY <1>1, <1>5 DEF WaitersWait
<1>10. NoneStranded
      BY <1>1, <1>2, <1>3, <1>4 DEF NoneStranded, At
<1>11. ScanCovers
  <2>1. \A c \in Proc, p \in Path : call[c].asked[p] <= disk[p]
        BY <1>2, <1>3, <1>6, NoVersionsTyped
  <2>. QED BY <1>1, <1>4, <2>1 DEF ScanCovers
<1>. QED BY <1>7, <1>8, <1>9, <1>10, <1>11 DEF Core

\* The types, the load state, the requests and the coordinator's lists, its worker
\* and its scan stay in step, for any requests, paths, registrations and bounds.
THEOREM ProjectionInvariance == Spec => []ProjectionInv
<1>1. Init => TypeOK /\ Core /\ LoadInv
      BY InitCore DEF Init, LoadInv, LoadHonest
<1>2. TypeOK /\ Core /\ LoadInv /\ [Next]_vars => TypeOK' /\ Core' /\ LoadInv'
      BY NextKeeps, NextHonest
<1>3. TypeOK /\ Core /\ LoadInv => ProjectionInv
      BY DEF ProjectionInv, Core, LoadInv
<1>. QED BY <1>1, <1>2, <1>3, PTL DEF Spec

\* Nobody waits for the coordinator without a place in its lists and a worker that
\* will come to it (run_refresh_worker, Drop, the coordinator timeout).
THEOREM NobodyStranded == Spec => []NoneStranded
<1>1. ProjectionInv => NoneStranded
      BY DEF ProjectionInv
<1>. QED BY <1>1, ProjectionInvariance, PTL

-----------------------------------------------------------------------------
(* What a refresh covers *)

\* Whoever waits for a refresh hears of its end only when a batch is settled.
LEMMA OnlySettleAnswers ==
    ASSUME TypeOK, Core, [Next]_vars, NEW c \in Proc,
           call[c].pc = "wait", call'[c].pc = "reply"
    PROVE  Settle
<1>0. /\ CallsFormed /\ call \in [Proc -> Call] /\ Writer \subseteq Proc /\ Caller \subseteq Proc
      /\ Watcher \in Proc
      BY DEF Core, TypeOK, Proc, Caller
<1>1. ASSUME NEW d \in Proc, NEW k, Moved(d, k) PROVE FALSE
  <2>1. call' = [call EXCEPT ![d] = k] /\ call[d].pc # "wait"
        BY <1>1 DEF Moved
  <2>. QED BY <1>0, <2>1
<1>2. call' # call
      OBVIOUS
<1>3. ASSUME NEW d \in Writer, NEW list \in WriteLists, Commit(d, list) \/ Retry(d, list)
      PROVE  FALSE
  <2>1. \E k : Moved(d, k)
        BY <1>0, <1>3, CommitMoves, RetryMoves
  <2>. QED BY <1>0, <1>1, <2>1
<1>4. ASSUME NEW d \in Proc, Request(d) PROVE FALSE
  <2>1. CASE RegisterRefresh(d) \/ RegisterLoad(d)
    <3>1. call[d].pc = "register" /\ \A e \in Proc \ {d} : call'[e] = call[e]
          BY <1>0, <2>1 DEF RegisterRefresh, RegisterLoad, At
    <3>. QED BY <3>1
  <2>2. CASE ~RegisterRefresh(d) /\ ~RegisterLoad(d)
    <3>1. \E k : Moved(d, k)
          BY <1>0, <1>4, <2>2, RequestMoves
    <3>. QED BY <1>1, <3>1
  <2>. QED BY <2>1, <2>2
<1>5. ASSUME NEW d \in Caller, RefreshBegin(d) \/ LoadBegin(d) PROVE FALSE
  <2>1. \E k : Moved(d, k)
        BY <1>5, RefreshBeginMoves, LoadBeginMoves
  <2>. QED BY <1>0, <1>1, <2>1
<1>6. ASSUME NEW d \in Caller, LoadTimesOut(d) \/ Drop(d) PROVE FALSE
  <2>1. (\A e \in Proc \ {d} : call'[e] = call[e]) /\ call'[d].pc \in {"delay", "idle"}
        BY <1>0, <1>6, IdleFormed DEF LoadTimesOut, Drop, Call
  <2>. QED BY <2>1
<1>7. ~Flushing
      BY <1>0, <1>1, FlushMoves
<1>8. ~WorkerStep
      BY <1>2, WorkerTypes
<1>9. ~ScanThreadExits /\ ~BoardChanges /\ ~UNCHANGED vars
      BY <1>2 DEF ScanThreadExits, BoardChanges, vars
<1>10. ASSUME NEW p \in Path, Edit(p) PROVE FALSE
      BY <1>2, <1>10 DEF Edit
<1>. QED BY <1>3, <1>4, <1>5, <1>6, <1>7, <1>8, <1>9, <1>10 DEF Next, Refresh, WorkerStep

\* A refresh is answered with success only by a scan that read every path after
\* the request had asked (request_required_refresh, settle_captured_ok).
THEOREM RefreshesCover == Spec => RefreshCovers
<1>1. ASSUME ProjectionInv, [Next]_vars, NEW c \in Proc, At(c, "wait"), call[c].phase # "load",
             call'[c].pc = "reply", call'[c].reply = "ok", NEW p \in Path
      PROVE  worker.got[p] >= call[c].asked[p]
  <2>1. TypeOK /\ Core
        BY <1>1 DEF ProjectionInv, Core
  <2>2. Settle /\ worker.pc = "settle"
        BY <1>1, <2>1, OnlySettleAnswers DEF At, Settle
  <2>3. c \in Settled /\ worker.result = "ok"
    <3>1. \A d \in Proc \ Settled : call'[d] = call[d]
          BY <2>1, <2>2, SettleParts
    <3>2. c \in Settled
          BY <1>1, <3>1 DEF At
    <3>. QED BY <1>1, <2>1, <2>2, <3>2, SettleParts
  <2>4. c # Gone /\ c \notin loaders
        BY <1>1, <2>1, CallerAssumption DEF Core, WaitersWait, At
  <2>5. PICK i \in 1..worker.captured : waiters[i] = c
        BY <2>3, <2>4 DEF Settled
  <2>6. p \notin worker.todo
        BY <2>1, <2>2, <2>3 DEF Core, ScanCovers
  <2>. QED BY <2>1, <2>2, <2>3, <2>4, <2>5, <2>6 DEF Core, ScanCovers
<1>2. ProjectionInv /\ [Next]_vars =>
        [\A c \in Proc :
           /\ At(c, "wait") /\ call[c].phase # "load"
           /\ call'[c].pc = "reply" /\ call'[c].reply = "ok"
           => \A p \in Path : worker.got[p] >= call[c].asked[p]]_vars
      BY <1>1
<1>. QED BY <1>2, ProjectionInvariance, PTL DEF Spec, RefreshCovers

-----------------------------------------------------------------------------
(* The repair queue *)

\* The request has the path in hand for a repair, or failed to publish it.
Holds(k, p) ==
    p \in Elements(k.list) /\ (k.phase = "repair" \/ k.pc \in {"failed", "queue"})

\* A path stays queued when the request that moves gives it up to the queue only.
LEMMA QueuedStays ==
    ASSUME call \in [Proc -> Call], NEW p \in Path, Queued(p), NEW c \in Proc, NEW k,
           call' = [call EXCEPT ![c] = k],
           p \in Elements(unapplied) =>
               p \in Elements(unapplied') \/ (c \in Writer /\ Holds(k, p)),
           c \in Writer /\ Holds(call[c], p) => Holds(k, p) \/ p \in Elements(unapplied')
    PROVE  Queued(p)'
<1>1. /\ call'[c] = k /\ \A d \in Proc \ {c} : call'[d] = call[d]
      /\ Writer \subseteq Proc
      BY DEF Proc, Caller
<1>2. p \in Elements(unapplied) \/ \E d \in Writer : Holds(call[d], p)
      BY DEF Queued, Holds
<1>3. p \in Elements(unapplied') \/ \E d \in Writer : Holds(call'[d], p)
      BY <1>1, <1>2
<1>. QED BY <1>3 DEF Queued, Holds, Elements

\* A path further, only the path at the head is given up.
LEMMA AdvancedHolds ==
    ASSUME TypeOK, CallsFormed, NEW c \in Proc,
           call[c].phase \in {"publish", "repair", "flush"}, call[c].list # <<>>,
           call[c].pc \in {"install", "reply"}, NEW p, Holds(call[c], p)
    PROVE  Holds(Advanced(c), p) \/ (call[c].phase = "repair" /\ p = Head(call[c].list))
<1>1. call[c].list \in Seq(Path)
      BY DEF TypeOK, Call
<1>2. p \in {Head(call[c].list)} \cup Elements(Tail(call[c].list)) /\ call[c].phase = "repair"
      BY <1>1, TailTyped DEF Holds
<1>3. /\ Advanced(c).list = Tail(call[c].list)
      /\ Advanced(c).phase = call[c].phase \/ Advanced(c).list = <<>>
      BY AdvancedFormed
<1>4. Advanced(c).list = <<>> => Elements(Advanced(c).list) = {}
      BY DEF Elements
<1>. QED BY <1>2, <1>3, <1>4 DEF Holds

\* The paths of two lists, one behind the other.
LEMMA ConcatElements ==
    ASSUME NEW s \in Seq(Path), NEW t \in Seq(Path)
    PROVE  Elements(s \o t) = Elements(s) \cup Elements(t)
<1>1. /\ Len(s \o t) = Len(s) + Len(t) /\ Len(s) \in Nat /\ Len(t) \in Nat
      /\ \A i \in 1..(Len(s) + Len(t)) :
           (s \o t)[i] = IF i <= Len(s) THEN s[i] ELSE t[i - Len(s)]
      BY ConcatProperties
<1>2. ASSUME NEW p \in Elements(s \o t) PROVE p \in Elements(s) \cup Elements(t)
  <2>1. PICK i \in 1..(Len(s) + Len(t)) : p = (s \o t)[i]
        BY <1>1 DEF Elements
  <2>2. CASE i <= Len(s)
    <3>1. i \in 1..Len(s) /\ p = s[i]
          BY <1>1, <2>1, <2>2
    <3>. QED BY <3>1 DEF Elements
  <2>3. CASE ~(i <= Len(s))
    <3>1. i - Len(s) \in 1..Len(t) /\ p = t[i - Len(s)]
          BY <1>1, <2>1, <2>3
    <3>. QED BY <3>1 DEF Elements
  <2>. QED BY <2>2, <2>3
<1>3. ASSUME NEW p \in Elements(s) PROVE p \in Elements(s \o t)
  <2>1. PICK i \in 1..Len(s) : p = s[i]
        BY <1>3 DEF Elements
  <2>2. i \in 1..Len(s \o t) /\ p = (s \o t)[i]
        BY <1>1, <2>1
  <2>. QED BY <2>2 DEF Elements
<1>4. ASSUME NEW p \in Elements(t) PROVE p \in Elements(s \o t)
  <2>1. PICK i \in 1..Len(t) : p = t[i]
        BY <1>4 DEF Elements
  <2>2. i + Len(s) \in 1..Len(s \o t) /\ p = (s \o t)[i + Len(s)]
        BY <1>1, <2>1
  <2>. QED BY <2>2 DEF Elements
<1>. QED BY <1>2, <1>3, <1>4

\* A request that goes elsewhere with the same paths and phase still has them.
LEMMA PcHolds ==
    ASSUME NEW k \in Call, NEW pc \in CallPcs, NEW p, Holds(k, p),
           pc \in {"failed", "queue"} \/ k.pc \notin {"failed", "queue"}
    PROVE  Holds([k EXCEPT !.pc = pc], p)
<1>1. /\ [k EXCEPT !.pc = pc].list = k.list /\ [k EXCEPT !.pc = pc].phase = k.phase
      /\ [k EXCEPT !.pc = pc].pc = pc
      BY DEF Call
<1>. QED BY <1>1 DEF Holds

\* A request gives a path of the queue up by applying it, or puts it back.
LEMMA RequestKeepsQueue ==
    ASSUME TypeOK, CallsFormed, NEW c \in Proc, Request(c), NEW p \in Path, Queued(p)
    PROVE  Queued(p)' \/ (c \in Writer /\ Applies(c, p))
<1>. DEFINE k == call[c]
<1>0. /\ call \in [Proc -> Call] /\ k \in Call /\ k.list \in Seq(Path) /\ unapplied \in Seq(Path)
      /\ k.phase \in {"publish", "repair", "flush", "refresh", "load"} /\ Formed(c, k)
      BY DEF TypeOK, CallsFormed, Formed, Call, Phases
<1>1. /\ k.pc \in {"read", "install", "failed"} => k.phase \in {"publish", "repair", "flush"}
      /\ k.pc \in {"queue", "check", "take"} => k.phase = "publish"
      /\ k.pc = "clear" => k.phase = "repair"
      /\ k.pc \in {"record", "delay"} => k.phase = "load"
      BY <1>0, PcPhase DEF Formed
<1>2. /\ k.list = <<>> <=> \/ k.phase \in {"refresh", "load"}
                           \/ k.pc \in {"check", "take", "clear"}
      /\ k.phase \in {"publish", "repair"} => c \in Writer
      BY <1>0 DEF Formed
<1>3. k.list = <<>> => ~Holds(k, p)
      BY DEF Holds, Elements
<1>4. \A pc \in {"install", "failed", "queue", "mark", "register", "wait", "record"} : pc \in CallPcs
      BY DEF CallPcs
<1>5. ASSUME NEW l, call' = [call EXCEPT ![c] = l],
             p \in Elements(unapplied) =>
                 p \in Elements(unapplied') \/ (c \in Writer /\ Holds(l, p)),
             Holds(k, p) => Holds(l, p) \/ p \in Elements(unapplied')
      PROVE  Queued(p)'
      BY <1>0, <1>5, QueuedStays
<1>6. ASSUME NEW pc \in CallPcs, call' = [call EXCEPT ![c] = [k EXCEPT !.pc = pc]],
             unapplied' = unapplied,
             pc \in {"failed", "queue"} \/ k.pc \notin {"failed", "queue"}
      PROVE  Queued(p)'
  <2>1. Holds(k, p) => Holds([k EXCEPT !.pc = pc], p)
        BY <1>0, <1>6, PcHolds
  <2>. QED BY <1>5, <1>6, <2>1
<1>7. ASSUME k.list = <<>>, NEW l, call' = [call EXCEPT ![c] = l], unapplied' = unapplied
      PROVE  Queued(p)'
      BY <1>3, <1>5, <1>7
<1>8. ASSUME k.phase \in {"publish", "repair", "flush"},
             k.pc = "install" \/ (k.pc = "reply" /\ k.reply = "ok"),
             call' = [call EXCEPT ![c] = Advanced(c)], unapplied' = unapplied
      PROVE  Queued(p)' \/ (c \in Writer /\ Applies(c, p))
  <2>1. k.list # <<>>
        BY <1>2, <1>8
  <2>2. CASE k.phase = "repair" /\ p = Head(k.list)
        BY <1>2, <1>8, <2>2 DEF Applies, At
  <2>3. CASE ~(k.phase = "repair" /\ p = Head(k.list))
    <3>1. Holds(k, p) => Holds(Advanced(c), p)
          BY <1>8, <2>1, <2>3, AdvancedHolds
    <3>. QED BY <1>5, <1>8, <3>1
  <2>. QED BY <2>2, <2>3
<1>9. CASE ReadPath(c)
  <2>1. k.pc = "read" /\ unapplied' = unapplied
        BY <1>9 DEF ReadPath, At, repairs
  <2>2. CASE call' = [call EXCEPT ![c].seen = disk[Head(call[c].list)], ![c].pc = "install"]
    <3>. DEFINE v == disk[Head(k.list)]
                l == [k EXCEPT !.seen = v, !.pc = "install"]
    <3>1. call' = [call EXCEPT ![c] = l]
          BY <1>0, <2>2
    <3>2. l.list = k.list /\ l.phase = k.phase
          BY <1>0 DEF Call
    <3>. HIDE DEF l
    <3>3. Holds(k, p) => Holds(l, p)
          BY <2>1, <3>2 DEF Holds
    <3>. QED BY <1>5, <2>1, <3>1, <3>3
  <2>3. CASE call' = [call EXCEPT ![c].pc = "failed"]
    <3>1. call' = [call EXCEPT ![c] = [k EXCEPT !.pc = "failed"]]
          BY <1>0, <2>3
    <3>. QED BY <1>4, <1>6, <2>1, <3>1
  <2>. QED BY <1>9, <2>2, <2>3 DEF ReadPath
<1>10. CASE InstallTx(c) \/ InstallNode(c)
  <2>1. k.pc = "install" /\ unapplied' = unapplied
        BY <1>10 DEF InstallTx, InstallNode, At, repairs
  <2>2. \/ call' = [call EXCEPT ![c] = Advanced(c)]
        \/ call' = [call EXCEPT ![c].pc = "mark"]
        BY <1>10 DEF InstallTx, InstallNode
  <2>3. CASE call' = [call EXCEPT ![c] = Advanced(c)]
        BY <1>1, <1>8, <2>1, <2>3
  <2>4. CASE call' = [call EXCEPT ![c].pc = "mark"]
    <3>1. call' = [call EXCEPT ![c] = [k EXCEPT !.pc = "mark"]]
          BY <1>0, <2>4
    <3>. QED BY <1>4, <1>6, <2>1, <3>1
  <2>. QED BY <2>2, <2>3, <2>4
<1>11. CASE PublishFailed(c)
  <2>1. call' = [call EXCEPT ![c] = [k EXCEPT !.pc = "queue"]] /\ unapplied' = unapplied
        BY <1>0, <1>11 DEF PublishFailed
  <2>. QED BY <1>4, <1>6, <2>1
<1>12. CASE PublishQueues(c)
  <2>1. /\ call' = [call EXCEPT ![c] = [k EXCEPT !.pc = "check", !.list = <<>>]]
        /\ unapplied' = unapplied \o k.list
        BY <1>0, <1>12 DEF PublishQueues
  <2>2. Elements(unapplied') = Elements(unapplied) \cup Elements(k.list)
        BY <1>0, <2>1, ConcatElements
  <2>3. Holds(k, p) => p \in Elements(unapplied')
        BY <2>2 DEF Holds
  <2>. QED BY <1>5, <2>1, <2>2, <2>3
<1>13. CASE TakeFailure(c)
  <2>1. k.pc = "check" /\ unapplied' = unapplied
        BY <1>13 DEF TakeFailure, At
  <2>2. PICK l : call' = [call EXCEPT ![c] = l]
        BY <1>13 DEF TakeFailure
  <2>. QED BY <1>2, <1>7, <2>1, <2>2
<1>14. CASE RepairTakes(c)
  <2>. DEFINE pc == IF unapplied = <<>> THEN "clear" ELSE "read"
              l == [k EXCEPT !.phase = "repair", !.list = unapplied, !.pc = pc]
  <2>1. call' = [call EXCEPT ![c] = l] /\ k.pc = "take"
        BY <1>0, <1>14 DEF RepairTakes, At
  <2>2. l.phase = "repair" /\ l.list = unapplied
        BY <1>0 DEF Call
  <2>. HIDE DEF l
  <2>3. p \in Elements(unapplied) => Holds(l, p)
        BY <2>2 DEF Holds
  <2>4. c \in Writer /\ ~Holds(k, p)
        BY <1>1, <1>2, <1>3, <2>1
  <2>. QED BY <1>5, <2>1, <2>3, <2>4
<1>15. CASE RepairFailed(c)
  <2>1. call' = [call EXCEPT ![c] = Answered(c, "err")] /\ unapplied' = k.list \o unapplied
        BY <1>15 DEF RepairFailed
  <2>2. Elements(unapplied') = Elements(unapplied) \cup Elements(k.list)
        BY <1>0, <2>1, ConcatElements
  <2>3. Holds(k, p) => p \in Elements(unapplied')
        BY <2>2 DEF Holds
  <2>. QED BY <1>5, <2>1, <2>2, <2>3
<1>16. CASE RepairDone(c)
  <2>1. k.pc = "clear" /\ unapplied' = unapplied /\ call' = [call EXCEPT ![c] = Answered(c, "ok")]
        BY <1>16 DEF RepairDone, At
  <2>. QED BY <1>2, <1>7, <2>1
<1>17. CASE MarkAttempt(c)
  <2>1. /\ k.pc = "mark" /\ unapplied' = unapplied
        /\ call' = [call EXCEPT ![c] = [k EXCEPT !.pc = "register"]]
        BY <1>0, <1>17 DEF MarkAttempt, At, repairs
  <2>. QED BY <1>4, <1>6, <2>1
<1>18. CASE RegisterRefresh(c)
  <2>. DEFINE l == [k EXCEPT !.pc = "wait", !.asked = disk]
  <2>1. k.pc = "register" /\ unapplied' = unapplied /\ call' = [call EXCEPT ![c] = l]
        BY <1>0, <1>18 DEF RegisterRefresh, At, repairs
  <2>2. l.list = k.list /\ l.phase = k.phase
        BY <1>0 DEF Call
  <2>. HIDE DEF l
  <2>3. Holds(k, p) => Holds(l, p)
        BY <2>1, <2>2 DEF Holds
  <2>. QED BY <1>5, <2>1, <2>3
<1>19. CASE RegisterLoad(c)
  <2>1. /\ k.phase = "load" /\ unapplied' = unapplied
        /\ call' = [call EXCEPT ![c] = [k EXCEPT !.pc = "wait"]]
        BY <1>0, <1>19 DEF RegisterLoad, repairs
  <2>. QED BY <1>2, <1>7, <2>1
<1>20. CASE LoadDelayed(c) \/ LoadFailed(c)
  <2>1. /\ k.pc \in {"delay", "record"} /\ unapplied' = unapplied
        /\ call' = [call EXCEPT ![c] = Answered(c, "err")]
        BY <1>20 DEF LoadDelayed, LoadFailed, At, repairs
  <2>. QED BY <1>1, <1>2, <1>7, <2>1
<1>21. CASE Resume(c)
  <2>1. k.pc = "reply" /\ unapplied' = unapplied
        BY <1>21 DEF Resume, At, repairs
  <2>2. CASE k.phase \in {"refresh", "load"}
    <3>1. PICK l : call' = [call EXCEPT ![c] = l]
          BY <1>21 DEF Resume
    <3>. QED BY <1>2, <1>7, <2>1, <2>2, <3>1
  <2>3. CASE k.phase \in {"publish", "repair", "flush"} /\ k.reply = "ok"
    <3>1. call' = [call EXCEPT ![c] = Advanced(c)]
          BY <1>21, <2>3 DEF Resume
    <3>. QED BY <1>8, <2>1, <2>3, <3>1
  <2>4. CASE k.phase \in {"publish", "repair", "flush"} /\ k.reply # "ok"
    <3>1. call' = [call EXCEPT ![c] = [k EXCEPT !.pc = "failed"]]
          BY <1>21, <2>4 DEF Resume
    <3>. QED BY <1>4, <1>6, <2>1, <3>1
  <2>. QED BY <1>0, <2>2, <2>3, <2>4
<1>. QED BY <1>9, <1>10, <1>11, <1>12, <1>13, <1>14, <1>15, <1>16, <1>17, <1>18, <1>19, <1>20, <1>21
         DEF Request

\* What is not a request, and is not dropped, keeps what it has and the queue.
LEMMA OthersKeepQueue ==
    ASSUME TypeOK, CallsFormed, NEW p \in Path, Queued(p), NEW c \in Proc, NEW k,
           call' = [call EXCEPT ![c] = k], unapplied' = unapplied,
           c \notin Writer \/ call[c].list = <<>>
    PROVE  Queued(p)'
<1>1. c \in Writer => ~Holds(call[c], p)
      BY DEF Holds, Elements
<1>. QED BY <1>1, QueuedStays DEF TypeOK

\* When a batch is settled, whoever is answered keeps its paths.
LEMMA SettleKeepsQueue ==
    ASSUME TypeOK, Core, Settle, NEW p \in Path, Queued(p)
    PROVE  Queued(p)'
<1>1. /\ \A d \in Proc \cap Settled :
           /\ call[d].pc = "wait" /\ call'[d].phase = call[d].phase
           /\ call'[d].list = call[d].list
      /\ \A d \in Proc \ Settled : call'[d] = call[d]
      BY SettleParts
<1>2. unapplied' = unapplied /\ Writer \subseteq Proc
      BY DEF Settle, repairs, Proc, Caller
<1>3. \A d \in Writer : Holds(call[d], p) => Holds(call'[d], p)
      BY <1>1, <1>2 DEF Holds
<1>4. p \in Elements(unapplied) \/ \E d \in Writer : Holds(call[d], p)
      BY DEF Queued, Holds
<1>5. p \in Elements(unapplied') \/ \E d \in Writer : Holds(call'[d], p)
      BY <1>2, <1>3, <1>4
<1>. QED BY <1>5 DEF Queued, Holds, Elements

\* While no request is dropped, a committed path that could not be applied leaves
\* the repair queue only by being applied (publish_paths, repair_projection).
THEOREM QueueIsKept ==
    ASSUME ~Drops
    PROVE  Spec => QueueKept
<1>1. ASSUME ProjectionInv, [Next]_vars, NEW p \in Path, Queued(p), ~Queued(p)'
      PROVE  \E c \in Writer : Applies(c, p)
  <2>0. /\ TypeOK /\ Core /\ CallsFormed /\ call \in [Proc -> Call]
        /\ Writer \subseteq Proc /\ Caller \subseteq Proc /\ Watcher \in Proc /\ Watcher \notin Writer
        BY <1>1, CallerAssumption DEF ProjectionInv, Core, TypeOK, Proc, Caller
  <2>1. ASSUME NEW c \in Proc, call[c].pc = "idle" \/ call[c].phase = "load"
        PROVE  call[c].list = <<>>
    <3>1. call[c] \in Call /\ call[c].pc \in PhasePcs[call[c].phase]
          BY <2>0 DEF CallsFormed
    <3>2. call[c].phase \in {"refresh", "load"}
          BY <2>1, <3>1, PcPhase
    <3>. QED BY <2>0, <3>2 DEF CallsFormed
  <2>2. ASSUME NEW c \in Writer, NEW list \in WriteLists, Commit(c, list) \/ Retry(c, list)
        PROVE  FALSE
    <3>1. c \in Proc /\ call[c].list = <<>> /\ unapplied' = unapplied
          BY <2>0, <2>1, <2>2 DEF Commit, Retry, At, repairs
    <3>2. PICK k : call' = [call EXCEPT ![c] = k]
          BY <2>2 DEF Commit, Retry
    <3>. QED BY <1>1, <2>0, <3>1, <3>2, OthersKeepQueue
  <2>3. ASSUME UNCHANGED <<unapplied, call>> PROVE FALSE
        BY <1>1, <2>3 DEF Queued, Elements
  <2>4. ASSUME NEW c \in Proc, Request(c) PROVE \E d \in Writer : Applies(d, p)
        BY <1>1, <2>0, <2>4, RequestKeepsQueue
  <2>5. ASSUME NEW c \in Caller, RefreshBegin(c) \/ LoadBegin(c) \/ LoadTimesOut(c)
        PROVE  FALSE
    <3>1. c \in Proc /\ call[c].list = <<>> /\ unapplied' = unapplied
          BY <2>0, <2>1, <2>5 DEF RefreshBegin, LoadBegin, LoadTimesOut, At, repairs
    <3>2. \E k : call' = [call EXCEPT ![c] = k]
      <4>1. CASE RefreshBegin(c)
            BY <4>1 DEF RefreshBegin
      <4>2. CASE LoadBegin(c)
            BY <4>2 DEF LoadBegin
      <4>3. CASE LoadTimesOut(c)
        <5>1. call' = [call EXCEPT ![c] = [call[c] EXCEPT !.pc = "delay"]]
              BY <2>0, <3>1, <4>3 DEF LoadTimesOut
        <5>. QED BY <5>1
      <4>. QED BY <2>5, <4>1, <4>2, <4>3
    <3>3. PICK k : call' = [call EXCEPT ![c] = k]
          BY <3>2
    <3>. QED BY <1>1, <2>0, <3>1, <3>3, OthersKeepQueue
  <2>6. \A c \in Caller : ~Drop(c)
        BY DEF Drop
  <2>7. ~Flushing
    <3>1. ASSUME Flushing PROVE FALSE
      <4>1. unapplied' = unapplied
            BY <3>1, Zenon DEF Flushing, FlushFailed, Flush, repairs
      <4>2. PICK k : Moved(Watcher, k)
            BY <2>0, <3>1, FlushMoves
      <4>3. call' = [call EXCEPT ![Watcher] = k]
            BY <4>2 DEF Moved
      <4>. QED BY <1>1, <2>0, <4>1, <4>3, OthersKeepQueue
    <3>. QED BY <3>1
  <2>8. ~WorkerStep
        BY <2>0, <2>3, WorkerTypes
  <2>9. ~Settle
        BY <1>1, <2>0, SettleKeepsQueue
  <2>10. ~ScanThreadExits /\ ~BoardChanges /\ ~UNCHANGED vars /\ \A q \in Path : ~Edit(q)
         BY <2>3 DEF ScanThreadExits, BoardChanges, vars, Edit, repairs
  <2>. QED BY <1>1, <2>2, <2>4, <2>5, <2>6, <2>7, <2>8, <2>9, <2>10 DEF Next, Refresh, WorkerStep
<1>2. ProjectionInv /\ [Next]_vars =>
        [\A p \in Path : Queued(p) /\ ~Queued(p)' => \E c \in Writer : Applies(c, p)]_vars
      BY <1>1
<1>. QED BY <1>2, ProjectionInvariance, PTL DEF Spec, QueueKept
=============================================================================
