----------------------------- MODULE Projection -----------------------------
(***************************************************************************)
(* The daemon's in-memory view of one project's ledger, and everything     *)
(* that moves it: requests that apply the paths they have just written,    *)
(* the repair queue for paths that could not be applied, the file watcher, *)
(* and the coordinator whose worker rescans the whole project for the      *)
(* requests that ask for it.                                               *)
(* Source: crates/orgasmic-daemon/src/index.rs, watcher.rs, the publishing *)
(* half of writer.rs and refresh_after_tx of api.rs.                       *)
(*                                                                         *)
(* A file is the number of its latest version; a write to it makes one     *)
(* more.  Every critical section of the index lock, the coordinator mutex, *)
(* `apply_failures` and `unapplied` is one action.                         *)
(***************************************************************************)
EXTENDS Integers, Sequences, FiniteSets

CONSTANTS
    Writer,         \* requests that write the ledger
    Refresher,      \* requests that call refresh_project
    Loader,         \* requests that call ensure_project_loaded
    TxPath,         \* transaction files
    NodePath,       \* node directories
    WriteLists,     \* the lists of paths one write may touch, in publish order
    Drops,          \* request futures may be dropped
    IoFails,        \* reads of a path may fail
    Edits,          \* someone else edits the ledger
    MaxVersion,     \* bound: versions of a file
    MaxReg,         \* bound: changes of the board registration
    MaxWaiters,     \* bound: explicit waiters queued at once
    MaxQueue        \* bound: the paths to repair that a repeated request may find

Path == TxPath \cup NodePath
Caller == Writer \cup Refresher \cup Loader
Watcher == "watcher"
Gone == "gone"
Proc == Caller \cup {Watcher}
Version == 0..MaxVersion

ASSUME PathAssumption == TxPath \cap NodePath = {} /\ WriteLists \subseteq Seq(Path) \ {<<>>}
ASSUME CallerAssumption ==
    /\ Writer \cap (Refresher \cup Loader) = {} /\ Refresher \cap Loader = {}
    /\ Watcher \notin Caller /\ Gone \notin Proc
ASSUME SwitchAssumption == {Drops, IoFails, Edits} \subseteq BOOLEAN
ASSUME LimitAssumption == MaxVersion \in Nat \ {0} /\ {MaxReg, MaxWaiters, MaxQueue} \subseteq Nat

VARIABLES
    disk,       \* the version of each path on disk
    shown,      \* the version in the snapshot; 0 before it was ever read
    board,      \* the project's board entry, a number per registration
    project,    \* the snapshot holds a ProjectIndex
    load,       \* ProjectLoadStatus::state
    events,     \* paths the file watcher has heard of and not flushed
    running,    \* TargetRefreshState::running
    waiters,    \* TargetRefreshState::explicit_waiters
    loaders,    \* TargetRefreshState::load_waiters
    worker,     \* run_refresh_worker
    scan,       \* the entry of the BlockingScanRegistry
    failures,   \* WriterHandle::apply_failures, by request
    unapplied,  \* WriterHandle::unapplied
    call        \* requests, and the watcher's flush

vars == <<disk, shown, board, project, load, events, running, waiters, loaders,
          worker, scan, failures, unapplied, call>>

snapshot == <<shown, board, project, load>>
coordinator == <<running, waiters, loaders, worker, scan>>
repairs == <<failures, unapplied>>

LoadStates == {"unloaded", "loading", "ready", "failed", "delayed"}
Phases == {"publish", "repair", "flush", "refresh", "load"}
CallPcs == {"idle", "read", "install", "mark", "register", "wait", "reply", "failed",
            "queue", "check", "take", "clear", "record", "delay"}

\* `asked` is what was on disk when the request joined the coordinator.
Call == [phase : Phases, pc : CallPcs, list : Seq(Path), seen : Version,
         mine : [Path -> Version], asked : [Path -> Version], reg : 0..MaxReg,
         reply : {"none", "ok", "err", "moved"}]

Worker == [pc : {"off", "coalesce", "begin", "seed", "scanning", "publish", "fail",
                 "settle"},
           captured : Nat, reg : 0..MaxReg, seed : 0..MaxReg, todo : SUBSET Path,
           got : [Path -> Version], prior : BOOLEAN, result : {"ok", "err", "moved"}]

TypeOK ==
    /\ disk \in [Path -> Version] /\ shown \in [Path -> Version]
    /\ board \in 0..MaxReg /\ project \in BOOLEAN /\ load \in LoadStates
    /\ events \subseteq Path
    /\ running \in BOOLEAN
    /\ waiters \in Seq(Proc \cup {Gone}) /\ loaders \subseteq Loader \cup {Gone}
    /\ worker \in Worker /\ worker.captured <= Len(waiters) /\ scan \in {"none", "live", "stale"}
    /\ failures \subseteq Writer /\ unapplied \in Seq(Path)
    /\ call \in [Proc -> Call]

NoVersions == [p \in Path |-> 0]

NoScan == [pc |-> "off", captured |-> 0, reg |-> 0, seed |-> 0, todo |-> {},
           got |-> NoVersions, prior |-> FALSE, result |-> "err"]

Idle == [phase |-> "refresh", pc |-> "idle", list |-> <<>>, seen |-> 0,
         mine |-> NoVersions, asked |-> NoVersions, reg |-> 0, reply |-> "none"]

\* bootstrap_catalog: the project is registered and nothing of it was read.
Init ==
    /\ disk = [p \in Path |-> 1] /\ shown = NoVersions
    /\ board = 0 /\ project = FALSE /\ load = "unloaded"
    /\ events = {}
    /\ running = FALSE /\ waiters = <<>> /\ loaders = {} /\ scan = "none"
    /\ worker = NoScan
    /\ failures = {} /\ unapplied = <<>>
    /\ call = [c \in Proc |-> Idle]

Elements(s) == {s[i] : i \in 1..Len(s)}

At(c, pc) == call[c].pc = pc

\* The request is over; what it wrote and how it was answered are kept.
Answered(c, answer) == [Idle EXCEPT !.mine = call[c].mine,
                                    !.reply = IF c \in Writer THEN answer ELSE "none"]

-----------------------------------------------------------------------------
(* Writes *)

Bump(paths) == [p \in Path |-> IF p \in paths THEN disk[p] + 1 ELSE disk[p]]

\* The writer commits the request's files and replies; publish_paths begins.
Commit(c, list) ==
    /\ c \in Writer /\ At(c, "idle")
    /\ \A p \in Elements(list) : disk[p] < MaxVersion
    /\ disk' = Bump(Elements(list))
    /\ events' = events \cup Elements(list)
    /\ call' = [call EXCEPT ![c] =
                  [Idle EXCEPT !.phase = "publish", !.pc = "read", !.list = list,
                               !.mine = [p \in Path |-> IF p \in Elements(list)
                                                          THEN disk[p] + 1 ELSE 0]]]
    /\ UNCHANGED <<snapshot, coordinator, repairs>>

\* A repeated request finds its result in the idempotency cache and publishes
\* its paths again.
Retry(c, list) ==
    /\ c \in Writer /\ At(c, "idle") /\ call[c].reply = "err"
    /\ \A d \in Writer : Len(unapplied \o call[d].list) <= MaxQueue
    /\ Elements(list) = {p \in Path : call[c].mine[p] > 0}
    /\ call' = [call EXCEPT ![c] =
                  [Idle EXCEPT !.phase = "publish", !.pc = "read", !.list = list,
                               !.mine = call[c].mine]]
    /\ UNCHANGED <<disk, events, snapshot, coordinator, repairs>>

\* An editor, a git pull or another machine's sync.
Edit(p) ==
    /\ Edits /\ disk[p] < MaxVersion
    /\ disk' = Bump({p})
    /\ events' = events \cup {p}
    /\ UNCHANGED <<snapshot, coordinator, repairs, call>>

-----------------------------------------------------------------------------
(* apply_written_path *)

Onward(c, pc, list) ==
    [Idle EXCEPT !.phase = call[c].phase, !.mine = call[c].mine, !.pc = pc, !.list = list]

\* The path is dealt with.
Advanced(c) ==
    LET rest == Tail(call[c].list) IN
    IF rest # <<>> THEN Onward(c, "read", rest)
    ELSE CASE call[c].phase = "publish" -> Onward(c, "check", rest)
           [] call[c].phase = "repair"  -> Onward(c, "clear", rest)
           [] OTHER                     -> Answered(c, "none")

\* The file is read before the index lock is taken.
ReadPath(c) ==
    /\ At(c, "read")
    /\ \/ call' = [call EXCEPT ![c].seen = disk[Head(call[c].list)], ![c].pc = "install"]
       \/ IoFails /\ call' = [call EXCEPT ![c].pc = "failed"]
    /\ UNCHANGED <<disk, events, snapshot, coordinator, repairs>>

\* reload_tx_file: whatever was read replaces what is shown.
InstallTx(c) ==
    LET p == Head(call[c].list) IN
    /\ At(c, "install") /\ p \in TxPath
    /\ shown' = [shown EXCEPT ![p] = call[c].seen]
    /\ call' = [call EXCEPT ![c] = Advanced(c)]
    /\ UNCHANGED <<disk, events, board, project, load, coordinator, repairs>>

\* reload_node_dir: a project that is not loaded is rescanned instead.
InstallNode(c) ==
    LET p == Head(call[c].list) IN
    /\ At(c, "install") /\ p \in NodePath
    /\ \/ /\ shown[p] = call[c].seen
          /\ call' = [call EXCEPT ![c] = Advanced(c)]
          /\ UNCHANGED <<shown, load>>
       \/ /\ shown[p] # call[c].seen /\ project
          /\ shown' = [shown EXCEPT ![p] = call[c].seen]
          /\ load' = "ready"
          /\ call' = [call EXCEPT ![c] = Advanced(c)]
       \/ /\ shown[p] # call[c].seen /\ ~project
          /\ call' = [call EXCEPT ![c].pc = "mark"]
          /\ UNCHANGED <<shown, load>>
    /\ UNCHANGED <<disk, events, board, project, coordinator, repairs>>

-----------------------------------------------------------------------------
(* publish_paths, refresh_after_tx and repair_projection *)

\* publish_paths stops at the first failure and records whose it was.
PublishFailed(c) ==
    /\ At(c, "failed") /\ call[c].phase = "publish"
    /\ failures' = failures \cup {c}
    /\ call' = [call EXCEPT ![c].pc = "queue"]
    /\ UNCHANGED <<disk, events, snapshot, coordinator, unapplied>>

PublishQueues(c) ==
    /\ At(c, "queue")
    /\ unapplied' = unapplied \o call[c].list
    /\ call' = [call EXCEPT ![c].pc = "check", ![c].list = <<>>]
    /\ UNCHANGED <<disk, events, snapshot, coordinator, failures>>

\* take_apply_failure: committed, but the view is behind.
TakeFailure(c) ==
    /\ At(c, "check")
    /\ failures' = failures \ {c}
    /\ call' = [call EXCEPT ![c] = IF c \in failures THEN Answered(c, "err")
                                   ELSE [@ EXCEPT !.pc = "take"]]
    /\ UNCHANGED <<disk, events, snapshot, coordinator, unapplied>>

RepairTakes(c) ==
    /\ At(c, "take")
    /\ unapplied' = <<>>
    /\ call' = [call EXCEPT ![c].phase = "repair", ![c].list = unapplied,
                            ![c].pc = IF unapplied = <<>> THEN "clear" ELSE "read"]
    /\ UNCHANGED <<disk, events, snapshot, coordinator, failures>>

\* Mutant: the path that failed is not put back.
RepairSkips(c) ==
    /\ At(c, "failed") /\ call[c].phase = "repair"
    /\ unapplied' = Tail(call[c].list) \o unapplied
    /\ call' = [call EXCEPT ![c] = Answered(c, "err")]
    /\ UNCHANGED <<disk, events, snapshot, coordinator, failures>>

\* The queue goes back in front.
RepairFailed(c) ==
    /\ At(c, "failed") /\ call[c].phase = "repair"
    /\ unapplied' = call[c].list \o unapplied
    /\ call' = [call EXCEPT ![c] = Answered(c, "err")]
    /\ UNCHANGED <<disk, events, snapshot, coordinator, failures>>

RepairDone(c) ==
    /\ At(c, "clear")
    /\ failures' = {}
    /\ call' = [call EXCEPT ![c] = Answered(c, "ok")]
    /\ UNCHANGED <<disk, events, snapshot, coordinator, unapplied>>

-----------------------------------------------------------------------------
(* The watcher *)

Orders(S) == {s \in [1..Cardinality(S) -> S] : Elements(s) = S}

\* flush, once the debounce window closed.
Flush(order) ==
    /\ At(Watcher, "idle") /\ events # {}
    /\ events' = {}
    /\ call' = [call EXCEPT ![Watcher] =
                  [Idle EXCEPT !.phase = "flush", !.pc = "read", !.list = order]]
    /\ UNCHANGED <<disk, snapshot, coordinator, repairs>>

\* A path that cannot be applied is logged and passed over.
FlushFailed ==
    /\ At(Watcher, "failed")
    /\ call' = [call EXCEPT ![Watcher] = Advanced(Watcher)]
    /\ UNCHANGED <<disk, events, snapshot, coordinator, repairs>>

-----------------------------------------------------------------------------
(* Requests to the coordinator *)

RefreshBegin(c) ==
    /\ c \in Refresher /\ At(c, "idle")
    /\ call' = [call EXCEPT ![c] = [Idle EXCEPT !.pc = "mark"]]
    /\ UNCHANGED <<disk, events, snapshot, coordinator, repairs>>

\* mark_project_refresh_attempt
MarkAttempt(c) ==
    /\ At(c, "mark")
    /\ load' = IF project THEN "ready" ELSE "loading"
    /\ call' = [call EXCEPT ![c].pc = "register"]
    /\ UNCHANGED <<disk, events, shown, board, project, coordinator, repairs>>

StartWorker ==
    /\ running' = TRUE
    /\ worker' = IF running THEN worker ELSE [worker EXCEPT !.pc = "coalesce"]

\* request_required_refresh, without a transaction id
RegisterRefresh(c) ==
    /\ At(c, "register") /\ call[c].phase # "load"
    /\ Len(waiters) < MaxWaiters
    /\ waiters' = Append(waiters, c)
    /\ StartWorker
    /\ call' = [call EXCEPT ![c].pc = "wait", ![c].asked = disk]
    /\ UNCHANGED <<disk, events, snapshot, loaders, scan, repairs>>

\* ensure_project_loaded_inner up to its request; a recent failure answers a
\* poll that honours the cooldown.
LoadBegin(c) ==
    /\ c \in Loader /\ At(c, "idle")
    /\ \/ /\ load = "ready" /\ project
          /\ call' = [call EXCEPT ![c] = Answered(c, "ok")]
          /\ UNCHANGED load
       \/ /\ load = "failed"
          /\ call' = [call EXCEPT ![c] = Answered(c, "err")]
          /\ UNCHANGED load
       \/ /\ ~(load = "ready" /\ project)
          /\ load' = "loading"
          /\ call' = [call EXCEPT ![c] = [Idle EXCEPT !.phase = "load", !.pc = "register",
                                                      !.reg = board]]
    /\ UNCHANGED <<disk, events, shown, board, project, coordinator, repairs>>

\* request_project_load
RegisterLoad(c) ==
    /\ At(c, "register") /\ call[c].phase = "load"
    /\ loaders' = loaders \cup {c}
    /\ StartWorker
    /\ call' = [call EXCEPT ![c].pc = "wait"]
    /\ UNCHANGED <<disk, events, snapshot, waiters, scan, repairs>>

\* The coordinator timeout: the sender stays behind without a receiver.
LoadTimesOut(c) ==
    /\ At(c, "wait") /\ call[c].phase = "load"
    /\ loaders' = (loaders \ {c}) \cup {Gone}
    /\ call' = [call EXCEPT ![c].pc = "delay"]
    /\ UNCHANGED <<disk, events, snapshot, running, waiters, worker, scan, repairs>>

\* A failure is not recorded over a registration it was not about.
Foreign(reg) == board # reg \/ load = "unloaded"

\* record_project_load_failure and record_project_load_delay
Recorded(reg, state) == IF Foreign(reg) THEN load ELSE IF project THEN "ready" ELSE state

LoadDelayed(c) ==
    /\ At(c, "delay")
    /\ load' = Recorded(call[c].reg, "delayed")
    /\ call' = [call EXCEPT ![c] = Answered(c, "err")]
    /\ UNCHANGED <<disk, events, shown, board, project, coordinator, repairs>>

\* A changed registration is no failure of the load.
FailureRecorded(reg, reply) == IF reply = "moved" THEN load ELSE Recorded(reg, "failed")

\* Once more after the worker has recorded it.
LoadFailed(c) ==
    /\ At(c, "record")
    /\ load' = FailureRecorded(call[c].reg, call[c].reply)
    /\ call' = [call EXCEPT ![c] = Answered(c, "err")]
    /\ UNCHANGED <<disk, events, shown, board, project, coordinator, repairs>>

\* The reply reaches the request.
Resume(c) ==
    /\ At(c, "reply")
    /\ call' = [call EXCEPT ![c] =
         CASE call[c].phase = "refresh" -> Answered(c, call[c].reply)
           [] call[c].phase = "load" ->
                IF call[c].reply = "ok"
                THEN Answered(c, IF load = "ready" /\ project THEN "ok" ELSE "err")
                ELSE [call[c] EXCEPT !.pc = "record"]
           [] OTHER -> IF call[c].reply = "ok" THEN Advanced(c)
                                               ELSE [call[c] EXCEPT !.pc = "failed"]]
    /\ UNCHANGED <<disk, events, snapshot, coordinator, repairs>>

\* Mutant: a dropped request is taken out of the queues.
DropRemoves(c) ==
    /\ Drops /\ c \in Caller
    /\ call[c].pc \in {"read", "install", "mark", "register", "wait", "reply", "record",
                       "delay"}
    /\ call' = [call EXCEPT ![c] = Idle]
    /\ waiters' = SelectSeq(waiters, LAMBDA w : w # c)
    /\ loaders' = loaders \ {c}
    /\ UNCHANGED <<disk, events, snapshot, running, worker, scan, repairs>>

\* A request future is dropped at an await (a reply, the index lock after a
\* read, the coordinator).  What it held of the repair queue goes with it; its
\* place among the waiters stays.
Drop(c) ==
    /\ Drops /\ c \in Caller
    /\ call[c].pc \in {"read", "install", "mark", "register", "wait", "reply", "record",
                       "delay"}
    /\ call' = [call EXCEPT ![c] = Idle]
    /\ waiters' = [i \in 1..Len(waiters) |-> IF waiters[i] = c THEN Gone ELSE waiters[i]]
    /\ loaders' = IF c \in loaders THEN (loaders \ {c}) \cup {Gone} ELSE loaders
    /\ UNCHANGED <<disk, events, snapshot, running, worker, scan, repairs>>

\* refresh_board, when the project's entry changed.
BoardChanges ==
    /\ board < MaxReg
    /\ board' = board + 1
    /\ project' = FALSE /\ load' = "unloaded"
    /\ UNCHANGED <<disk, events, shown, coordinator, repairs, call>>

-----------------------------------------------------------------------------
(* run_refresh_worker *)

\* The coalescing window closes.
Capture ==
    /\ worker.pc = "coalesce"
    /\ worker' = [worker EXCEPT !.pc = "begin", !.captured = Len(waiters)]
    /\ UNCHANGED <<disk, events, snapshot, running, waiters, loaders, scan, repairs, call>>

\* Mutant: the worker waits for the earlier scan.
BeginWaits ==
    /\ worker.pc = "begin" /\ scan = "none"
    /\ worker' = [worker EXCEPT !.pc = "seed", !.reg = board]
    /\ scan' = "live"
    /\ UNCHANGED <<disk, events, snapshot, running, waiters, loaders, repairs, call>>

\* begin_blocking_scan: an earlier scan that is still on its thread refuses.
BeginScan ==
    /\ worker.pc = "begin"
    /\ worker' = IF scan = "none"
                 THEN [worker EXCEPT !.pc = "seed", !.reg = board]
                 ELSE [worker EXCEPT !.pc = "fail", !.reg = board, !.result = "err"]
    /\ scan' = IF scan = "none" THEN "live" ELSE scan
    /\ UNCHANGED <<disk, events, snapshot, running, waiters, loaders, repairs, call>>

\* build_refresh copies what the scan needs of the snapshot.
SeedScan ==
    /\ worker.pc = "seed"
    /\ worker' = [worker EXCEPT !.pc = "scanning", !.seed = board, !.prior = project,
                                !.todo = Path]
    /\ UNCHANGED <<disk, events, snapshot, running, waiters, loaders, scan, repairs, call>>

ScanReads(p) ==
    /\ worker.pc = "scanning" /\ p \in worker.todo
    /\ worker' = [worker EXCEPT !.todo = @ \ {p}, !.got[p] = disk[p]]
    /\ UNCHANGED <<disk, events, snapshot, running, waiters, loaders, scan, repairs, call>>

\* The projection is built; the thread has yet to give its entry back.
ScanEnds ==
    /\ worker.pc = "scanning" /\ worker.todo = {}
    /\ worker' = [worker EXCEPT !.pc = "publish"]
    /\ UNCHANGED <<disk, events, snapshot, running, waiters, loaders, scan, repairs, call>>

\* The directory is gone, or the scan panicked.
ScanFails ==
    /\ IoFails /\ worker.pc = "scanning"
    /\ worker' = [worker EXCEPT !.pc = "fail", !.result = "err"]
    /\ UNCHANGED <<disk, events, snapshot, running, waiters, loaders, scan, repairs, call>>

\* A thread that has started goes on; its result has no way into the snapshot.
ScanTimesOut ==
    /\ worker.pc \in {"seed", "scanning"} /\ scan = "live"
    /\ worker' = [worker EXCEPT !.pc = "fail", !.result = "err"]
    /\ scan' = IF worker.pc = "seed" THEN "none" ELSE "stale"
    /\ UNCHANGED <<disk, events, snapshot, running, waiters, loaders, repairs, call>>

\* The completion guard is dropped with the closure.
ScanThreadExits ==
    /\ scan # "none" /\ (scan = "live" => worker.pc \notin {"seed", "scanning"})
    /\ scan' = "none"
    /\ UNCHANGED <<disk, events, snapshot, running, waiters, loaders, worker, repairs, call>>

\* Mutant: the registration is not compared.
PublishAnyway(hasProject) ==
    /\ worker.pc = "publish" /\ (worker.prior \/ ~IoFails => hasProject)
    /\ shown' = worker.got /\ project' = hasProject
    /\ load' = "ready"
    /\ worker' = [worker EXCEPT !.pc = "settle", !.result = "ok"]
    /\ UNCHANGED <<disk, events, board, running, waiters, loaders, scan, repairs, call>>

\* publish_refresh.  A ledger without a readable project file, never loaded
\* before, replaces the transactions and then fails.
Publish(hasProject) ==
    /\ worker.pc = "publish" /\ (worker.prior \/ ~IoFails => hasProject)
    /\ IF board = worker.seed
       THEN /\ shown' = worker.got
            /\ project' = (project \/ hasProject)
            /\ load' = IF hasProject THEN "ready" ELSE load
            /\ worker' = [worker EXCEPT !.pc = IF hasProject THEN "settle" ELSE "fail",
                                        !.result = IF hasProject THEN "ok" ELSE "err"]
       ELSE /\ worker' = [worker EXCEPT !.pc = "fail", !.result = "moved"]
            /\ UNCHANGED <<shown, project, load>>
    /\ UNCHANGED <<disk, events, board, running, waiters, loaders, scan, repairs, call>>

\* record_project_load_failure, by the worker
WorkerRecords ==
    /\ worker.pc = "fail"
    /\ load' = FailureRecorded(worker.reg, worker.result)
    /\ worker' = [worker EXCEPT !.pc = "settle"]
    /\ UNCHANGED <<disk, events, shown, board, project, running, waiters, loaders, scan,
                   repairs, call>>

\* Mutant: whoever is waiting by now is answered.
SettledAll == Elements(waiters) \cup loaders

\* settle_captured_ok and settle_captured_error: the captured requests, and
\* whoever waits for a first load.
Settled == {waiters[i] : i \in 1..worker.captured} \cup loaders

\* Mutant: the worker stops after its batch.
SettleStops ==
    /\ worker.pc = "settle"
    /\ call' = [c \in Proc |-> IF c \in Settled
                               THEN [call[c] EXCEPT !.pc = "reply", !.reply = worker.result]
                               ELSE call[c]]
    /\ waiters' = SubSeq(waiters, worker.captured + 1, Len(waiters))
    /\ loaders' = {} /\ running' = FALSE
    /\ worker' = NoScan
    /\ UNCHANGED <<disk, events, snapshot, scan, repairs>>

Settle ==
    /\ worker.pc = "settle"
    /\ call' = [c \in Proc |-> IF c \in Settled
                               THEN [call[c] EXCEPT !.pc = "reply", !.reply = worker.result]
                               ELSE call[c]]
    /\ waiters' = SubSeq(waiters, worker.captured + 1, Len(waiters))
    /\ loaders' = {}
    /\ running' = (waiters' # <<>>)
    /\ worker' = [NoScan EXCEPT !.pc = IF running' THEN "coalesce" ELSE "off"]
    /\ UNCHANGED <<disk, events, snapshot, scan, repairs>>

-----------------------------------------------------------------------------
Request(c) ==
    \/ ReadPath(c) \/ InstallTx(c) \/ InstallNode(c)
    \/ PublishFailed(c) \/ PublishQueues(c) \/ TakeFailure(c)
    \/ RepairTakes(c) \/ RepairFailed(c) \/ RepairDone(c)
    \/ MarkAttempt(c) \/ RegisterRefresh(c) \/ RegisterLoad(c)
    \/ LoadDelayed(c) \/ LoadFailed(c) \/ Resume(c)

Refresh ==
    \/ Capture \/ BeginScan \/ SeedScan \/ ScanEnds \/ ScanTimesOut
    \/ \E p \in Path : ScanReads(p)
    \/ \E hasProject \in BOOLEAN : Publish(hasProject)
    \/ WorkerRecords \/ Settle

Flushing == FlushFailed \/ \E order \in Orders(events) : Flush(order)

Next ==
    \/ \E c \in Writer, list \in WriteLists : Commit(c, list) \/ Retry(c, list)
    \/ \E p \in Path : Edit(p)
    \/ \E c \in Proc : Request(c)
    \/ \E c \in Caller : RefreshBegin(c) \/ LoadBegin(c) \/ LoadTimesOut(c) \/ Drop(c)
    \/ Flushing
    \/ Refresh \/ ScanFails \/ ScanThreadExits
    \/ BoardChanges

Spec == Init /\ [][Next]_vars

\* The runtime polls every task that can go on, and a scan ends or is timed out.
\* Nothing says when a thread stuck in the file system returns.
FairSpec ==
    /\ Spec
    /\ \A c \in Proc : WF_vars(Request(c))
    /\ WF_vars(Refresh) /\ WF_vars(Flushing)

-----------------------------------------------------------------------------
(* Properties *)

\* ProjectLoadStatus and the projection agree, whatever loads, refreshes,
\* failures, timeouts and changed registrations cross (index.rs).
LoadHonest == project <=> load = "ready"

\* A request that waits for the coordinator has a sender in its lists and a
\* worker that will come to it (run_refresh_worker stops only without work).
NoneStranded ==
    /\ running <=> worker.pc # "off"
    /\ waiters # <<>> \/ loaders # {} => running
    /\ \A c \in Proc : At(c, "wait") => c \in Elements(waiters) \cup loaders

\* A refresh that succeeds was scanned after it was asked for: no version that
\* was on disk by then is missing from it (settle_captured_ok).
RefreshCovers ==
    [][\A c \in Proc :
         /\ At(c, "wait") /\ call[c].phase # "load"
         /\ call'[c].pc = "reply" /\ call'[c].reply = "ok"
         => \A p \in Path : worker.got[p] >= call[c].asked[p]]_vars

\* The path is on the repair queue, or on its way to it or from it.
Queued(p) ==
    \/ p \in Elements(unapplied)
    \/ \E c \in Writer : /\ p \in Elements(call[c].list)
                         /\ call[c].phase = "repair" \/ call[c].pc \in {"failed", "queue"}

\* The path at the head of the request's repair is about to be applied.
Applies(c, p) ==
    /\ At(c, "install") \/ (At(c, "reply") /\ call[c].reply = "ok")
    /\ call[c].phase = "repair" /\ p = Head(call[c].list)

\* A committed path that could not be applied leaves the repair queue only by
\* being applied, whichever requests fail, repair and fail again around it
\* (publish_paths, repair_projection).
QueueKept ==
    [][\A p \in Path : Queued(p) /\ ~Queued(p)' => \E c \in Writer : Applies(c, p)]_vars

\* A write that is answered with success can be read (refresh_after_tx).  This and the
\* next one do not hold of the code (README, exceptions).
AckVisible ==
    [][\A c \in Writer :
         ~At(c, "idle") /\ call'[c].pc = "idle" /\ call'[c].reply = "ok"
         => \A p \in Path : shown[p] >= call[c].mine[p]]_vars

\* What an answered request has written stays readable.
AckStays ==
    \A c \in Writer :
      At(c, "idle") /\ call[c].reply = "ok" => \A p \in Path : shown[p] >= call[c].mine[p]

\* Every request of the daemon's own is answered (the coordinator's worker,
\* the scan timeout).
AnswersCome == \A c \in Proc : ~At(c, "idle") ~> At(c, "idle")
-----------------------------------------------------------------------------
(* The inductive invariant *)

\* Where a request may be in each of its phases.
PhasePcs ==
    [refresh |-> {"idle", "mark", "register", "wait", "reply"},
     load    |-> {"register", "wait", "reply", "record", "delay"},
     publish |-> {"read", "install", "mark", "register", "wait", "reply", "failed",
                  "queue", "check", "take"},
     repair  |-> {"read", "install", "mark", "register", "wait", "reply", "failed",
                  "clear"},
     flush   |-> {"read", "install", "mark", "register", "wait", "reply", "failed"}]

\* Paths are published and repaired by writers and flushed by the watcher, which
\* have a path in hand until they are through with their list.
CallsFormed ==
    /\ IsFiniteSet(events)
    /\ \A c \in Proc :
         /\ call[c].pc \in PhasePcs[call[c].phase]
         /\ call[c].phase \in {"publish", "repair"} => c \in Writer
         /\ call[c].phase = "load" => c \in Loader
         /\ call[c].list = <<>> <=> \/ call[c].phase \in {"refresh", "load"}
                                   \/ call[c].pc \in {"check", "take", "clear"}

\* Who is in the coordinator's lists waits there, in one place.
WaitersWait ==
    /\ \A i \in 1..Len(waiters) :
         waiters[i] # Gone =>
             /\ At(waiters[i], "wait") /\ call[waiters[i]].phase # "load"
             /\ \A j \in 1..Len(waiters) : waiters[j] = waiters[i] => j = i
    /\ \A c \in loaders \ {Gone} : At(c, "wait") /\ call[c].phase = "load"

\* The scan of a batch reads after the batch was captured.
ScanCovers ==
    /\ \A c \in Proc, p \in Path : call[c].asked[p] <= disk[p]
    /\ worker.pc = "fail" => worker.result # "ok"
    /\ worker.pc = "publish" \/ (worker.pc = "settle" /\ worker.result = "ok") =>
         worker.todo = {}
    /\ worker.pc \in {"scanning", "publish", "settle"} /\ (worker.pc = "settle" => worker.result = "ok") =>
         \A i \in 1..worker.captured : \A p \in Path \ worker.todo :
             waiters[i] # Gone => worker.got[p] >= call[waiters[i]].asked[p]

ProjectionInv ==
    /\ TypeOK
    /\ LoadHonest
    /\ CallsFormed
    /\ WaitersWait
    /\ NoneStranded
    /\ ScanCovers
=============================================================================
