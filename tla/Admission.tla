------------------------------ MODULE Admission ------------------------------
(***************************************************************************)
(* The daemon's live-run admission: the lease table, the run records, the  *)
(* cleanup reservations ("close guards") that fence a worktree while       *)
(* something deletes it, and what of all that survives a daemon that dies  *)
(* and is replaced.  Source: crates/orgasmic-daemon/src/supervisor.rs,     *)
(* with the boot scan of api.rs and the boot sequence of lib.rs.           *)
(*                                                                         *)
(* Every critical section of the supervisor's `inner` mutex is one action; *)
(* whatever the code does between two sections (spawning or attaching the  *)
(* driver, appending to the session log, deleting files) happens between   *)
(* two actions, so every other caller may run there.  A `Caller` is one    *)
(* request future (or the boot scan): it can fail or be dropped at any of  *)
(* its awaits.                                                             *)
(***************************************************************************)
EXTENDS Integers, FiniteSets

CONSTANTS
    Run,            \* run ids
    Key,            \* lease keys (project, task, kind)
    Worktree,       \* dispatch worktrees, one element per directory
    Guard,          \* opaque reservation handles
    Caller,         \* request futures that may be in flight together
    BootScan,       \* the caller that performs the boot rehydration scan
    KeyOf,          \* [Run -> Key]
    WtOf,           \* [Run -> Worktree \cup {NoWorktree}]
    NoRun,          \* no run
    NoWorktree,     \* manager and stage runs touch no dispatch worktree
    ForceKeys,      \* keys an operator may POST .../lease/release for
    MaxBoots        \* bound: how many times the daemon is replaced

ASSUME CallerAssumption == BootScan \in Caller
ASSUME RunAssumption ==
    /\ KeyOf \in [Run -> Key]
    /\ WtOf \in [Run -> Worktree \cup {NoWorktree}]
    /\ NoRun \notin Run
    /\ NoWorktree \notin Worktree
    /\ ForceKeys \subseteq Key
ASSUME BootsAssumption == MaxBoots \in Nat

VARIABLES
    up,         \* a daemon process is running
    boots,      \* daemons that have stopped so far
    paused,     \* Inner::acquisition_paused
    resolved,   \* boot_reattach_resolved
    todo,       \* boot reattach candidates the scan has still to visit
    scanned,    \* the scan of this boot has collected its candidates
    leases,     \* Inner::leases: the run admitted for each key
    runs,       \* Inner::runs: the state of each run's record
    call,       \* what each caller is doing
    resv,       \* Inner::cleanup_reservations, by handle
    guard,      \* the parameters each reservation was taken with
    holder,     \* the process that holds each reservation
    expired,    \* handles whose lease_expires_at lies in the past
    disk,       \* handles persisted by CloseGuardStore
    logged,     \* runs whose Acquire and RunMeta are in their session log
    tomb,       \* runs whose log ends in Lifecycle::Release
    minted,     \* run ids used so far
    alive,      \* runs whose worker process exists
    stray,      \* history: live workers the supervisor gave up on
    yanked,     \* history: keys whose lease went while an admission was pending
    weak        \* history: handles never persisted or once expired in use

memory == <<paused, resolved, todo, scanned, leases, runs, call, resv>>
durable == <<disk, logged, tomb>>
world == <<alive, holder, expired>>
history == <<minted, stray, yanked, weak>>
vars == <<up, boots, memory, durable, world, history, guard>>

Idle == [op |-> "idle", run |-> NoRun, guard |-> NoRun]
NoGuard == [wt |-> NoWorktree, key |-> NoRun, exempt |-> NoRun, by |-> "none"]

(***************************************************************************)
(* A caller in one of these states owns a LeaseReservation: the lease is   *)
(* taken and the RunRecord is not inserted by this caller yet.             *)
(***************************************************************************)
PendingOps == {"admitted", "spawned", "acquired", "reattaching", "attached",
               "dropping"}
ReleaseOps == {"releasing", "removed"}
CleanupOps == {"fenced", "cleanupReleasing", "cleanupRemoved", "deleting"}
Ops == {"idle"} \cup PendingOps \cup ReleaseOps \cup CleanupOps

\* A caller that is still on its way to inserting the record of its run.
Coming(c) == call[c].op \in PendingOps \ {"dropping"}

CallRec == [op : Ops, run : Run \cup {NoRun}, guard : Guard \cup {NoRun}]

GuardRec == [wt : Worktree \cup {NoWorktree}, key : Key \cup {NoRun},
             exempt : Run \cup {NoRun}, by : {"none", "pid", "lease", "daemon"}]

TypeOK ==
    /\ up \in BOOLEAN
    /\ boots \in 0..MaxBoots
    /\ paused \in BOOLEAN
    /\ resolved \in BOOLEAN
    /\ todo \subseteq Run
    /\ scanned \in BOOLEAN
    /\ leases \in [Key -> Run \cup {NoRun}]
    /\ runs \in [Run -> {"none", "live", "releasing"}]
    /\ call \in [Caller -> CallRec]
    /\ resv \subseteq Guard
    /\ guard \in [Guard -> GuardRec]
    /\ holder \in [Guard -> {"unused", "working", "finishing", "gone"}]
    /\ expired \subseteq Guard
    /\ disk \subseteq Guard
    /\ logged \subseteq Run
    /\ tomb \subseteq Run
    /\ minted \subseteq Run
    /\ alive \subseteq Run
    /\ stray \subseteq Run
    /\ yanked \subseteq Key
    /\ weak \subseteq Guard

\* A daemon that booted with nothing to rehydrate and no guard on disk.
Init ==
    /\ up = TRUE /\ boots = 0 /\ paused = FALSE /\ resolved = TRUE
    /\ todo = {} /\ scanned = TRUE
    /\ leases = [k \in Key |-> NoRun]
    /\ runs = [r \in Run |-> "none"]
    /\ call = [c \in Caller |-> Idle]
    /\ resv = {} /\ guard = [g \in Guard |-> NoGuard]
    /\ holder = [g \in Guard |-> "unused"]
    /\ expired = {} /\ disk = {} /\ logged = {} /\ tomb = {} /\ minted = {}
    /\ alive = {} /\ stray = {} /\ yanked = {} /\ weak = {}

-----------------------------------------------------------------------------
(* The shared decisions *)

\* CloseGuardHolder::is_abandoned: a dead pid where pids govern, a lease
\* that ran out where renewal governs.
IsAbandoned(g) ==
    IF guard[g].by = "lease" THEN g \in expired ELSE holder[g] = "gone"

\* drop_abandoned_cleanup_reservations keeps these reservations.
Kept == {g \in resv : ~IsAbandoned(g)}

\* The sweep also deletes the persisted record of each reservation it drops.
SweptDisk == disk \ (resv \ Kept)

\* Some reservation that is still held names worktree w.
Fenced(w) == \E g \in Kept : guard[g].wt = w

\* A lease whose run has no record.
LeasePending(k) == leases[k] # NoRun /\ runs[leases[k]] = "none"

\* Mutant: a reattach does not look at who holds the lease.
LeaseAdmitsAnyReattach(path, r) == leases[KeyOf[r]] = NoRun \/ path = "reattach"

\* preflight_live_run without the pause: the lease, then the fence.
LeaseAdmits(path, r) ==
    \/ leases[KeyOf[r]] = NoRun
    \/ path = "reattach" /\ leases[KeyOf[r]] = r

\* Mutant: an admission path that never learned about the fence.
FenceAdmitsAnyone(r) == WtOf[r] \in Worktree \cup {NoWorktree}

FenceAdmits(r) == WtOf[r] = NoWorktree \/ ~Fenced(WtOf[r])

\* preflight_live_run and admit_preflighted_live_run, for a caller that then
\* owns the LeaseReservation.  The fence is only consulted (and the abandoned
\* reservations only swept) for a run that has a worktree.
AdmitLiveRun(c, path, r, op) ==
    /\ ~paused
    /\ LeaseAdmits(path, r)
    /\ FenceAdmits(r)
    /\ leases' = [leases EXCEPT ![KeyOf[r]] = r]
    /\ call' = [call EXCEPT ![c] = [op |-> op, run |-> r, guard |-> NoRun]]
    /\ IF WtOf[r] = NoWorktree THEN UNCHANGED <<resv, disk>>
                               ELSE resv' = Kept /\ disk' = SweptDisk

\* History: removing the lease of key k while some caller other than c is
\* still on its way to inserting a record under that key.
NoteYank(c, k) ==
    yanked' = IF \E d \in Caller \ {c} : Coming(d) /\ KeyOf[call[d].run] = k
              THEN yanked \cup {k} ELSE yanked

-----------------------------------------------------------------------------
(* Acquire: acquire_impl *)

\* A brand-new run is admitted under the lock.
Acquire(c, r) ==
    /\ up /\ c # BootScan /\ call[c] = Idle /\ r \notin minted
    /\ AdmitLiveRun(c, "acquire", r, "admitted")
    /\ minted' = minted \cup {r}
    /\ UNCHANGED <<up, boots, paused, resolved, todo, scanned, runs, guard,
                   holder, expired, logged, tomb, alive, stray, yanked, weak>>

\* driver.acquire returned a session: the worker exists.
DriverAcquire(c) ==
    /\ call[c].op = "admitted"
    /\ call' = [call EXCEPT ![c].op = "spawned"]
    /\ alive' = alive \cup {call[c].run}
    /\ UNCHANGED <<up, boots, paused, resolved, todo, scanned, leases, runs,
                   resv, guard, holder, expired, durable, history>>

\* The Acquire envelope and RunMeta are in the session log.
LogAcquire(c) ==
    /\ call[c].op = "spawned"
    /\ call' = [call EXCEPT ![c].op = "acquired"]
    /\ logged' = logged \cup {call[c].run}
    /\ UNCHANGED <<up, boots, paused, resolved, todo, scanned, leases, runs,
                   resv, guard, disk, tomb, world, history>>

\* runs.insert and lease.commit, for acquire and reattach alike.  It replaces
\* whatever record the run id had.
InsertRecord(c) ==
    /\ call[c].op \in {"acquired", "attached"}
    /\ runs' = [runs EXCEPT ![call[c].run] = "live"]
    /\ call' = [call EXCEPT ![c] = Idle]
    /\ stray' = stray \ {call[c].run}
    /\ UNCHANGED <<up, boots, paused, resolved, todo, scanned, leases, resv,
                   guard, durable, world, minted, yanked, weak>>

\* A driver or append error returned early, or the request future was dropped
\* at an await.  Nobody stops a worker that was already spawned.
CallFails(c) ==
    /\ Coming(c)
    /\ call' = [call EXCEPT ![c].op = "dropping"]
    /\ stray' = IF /\ call[c].run \in alive
                   /\ runs[call[c].run] = "none"
                   /\ \A d \in Caller \ {c} :
                         ~(Coming(d) /\ call[d].run = call[c].run)
                THEN stray \cup {call[c].run} ELSE stray
    /\ UNCHANGED <<up, boots, paused, resolved, todo, scanned, leases, runs,
                   resv, guard, durable, world, minted, yanked, weak>>

\* Mutant: the drop guard removes the key without the run-id check.
DropLeaseUnchecked(c) ==
    /\ call[c].op = "dropping"
    /\ call' = [call EXCEPT ![c] = Idle]
    /\ leases' = [leases EXCEPT ![KeyOf[call[c].run]] = NoRun]
    /\ NoteYank(c, KeyOf[call[c].run])
    /\ UNCHANGED <<up, boots, paused, resolved, todo, scanned, runs, resv,
                   guard, durable, world, minted, stray, weak>>

\* Mutant: the lock was taken and no cleanup is queued.
DropLeaseLeaks(c) ==
    /\ call[c].op = "dropping"
    /\ call' = [call EXCEPT ![c] = Idle]
    /\ UNCHANGED <<up, boots, paused, resolved, todo, scanned, leases, runs,
                   resv, guard, durable, world, history>>

\* LeaseReservation::drop, at once or from the task it queues when the lock
\* is taken: remove_if_unowned.
DropLease(c) ==
    /\ call[c].op = "dropping"
    /\ call' = [call EXCEPT ![c] = Idle]
    /\ LET r == call[c].run
           k == KeyOf[r]
       IN IF leases[k] = r /\ runs[r] = "none"
          THEN leases' = [leases EXCEPT ![k] = NoRun] /\ NoteYank(c, k)
          ELSE UNCHANGED <<leases, yanked>>
    /\ UNCHANGED <<up, boots, paused, resolved, todo, scanned, runs, resv,
                   guard, durable, world, minted, stray, weak>>

-----------------------------------------------------------------------------
(* Reattach: Supervisor::reattach and its callers *)

\* Non-terminal runs whose log carries Acquire and RunMeta.
Candidates == logged \ tomb

\* The operator's reattach_tmux.  A run with a record is answered Ok without
\* touching anything.
Reattach(c, r) ==
    /\ up /\ c # BootScan /\ call[c] = Idle
    /\ r \in Candidates /\ runs[r] = "none"
    /\ AdmitLiveRun(c, "reattach", r, "reattaching")
    /\ UNCHANGED <<up, boots, paused, resolved, todo, scanned, runs, guard,
                   holder, expired, logged, tomb, alive, minted, stray,
                   yanked, weak>>

\* driver.attach proved a live runtime; the Reattach marker is appended.
DriverAttach(c) ==
    /\ call[c].op = "reattaching"
    /\ call[c].run \in alive
    /\ call' = [call EXCEPT ![c].op = "attached"]
    /\ UNCHANGED <<up, boots, paused, resolved, todo, scanned, leases, runs,
                   resv, guard, durable, world, history>>

\* collect_boot_reattach_candidates, after the listener is bound.
CollectCandidates ==
    /\ up /\ ~scanned
    /\ scanned' = TRUE
    /\ todo' = Candidates
    /\ UNCHANGED <<up, boots, paused, resolved, leases, runs, call, resv,
                   guard, durable, world, history>>

\* The scan visits a candidate through the same reattach.
BootReattach(r) ==
    /\ up /\ call[BootScan] = Idle /\ r \in todo /\ runs[r] = "none"
    /\ AdmitLiveRun(BootScan, "reattach", r, "reattaching")
    /\ todo' = todo \ {r}
    /\ UNCHANGED <<up, boots, paused, resolved, scanned, runs, guard,
                   holder, expired, logged, tomb, alive, minted, stray,
                   yanked, weak>>

\* Mutant: a candidate that was passed over stays in the queue.
BootSkipRequeues(r) ==
    /\ up /\ call[BootScan] = Idle /\ r \in todo
    /\ UNCHANGED vars

\* The scan passes over a candidate: its record is already live, its project
\* does not load, a pending recovery claim owns it (or could not be read), its
\* driver is unknown, the admission refused it, or the scan itself panicked.
BootSkip(r) ==
    /\ up /\ call[BootScan] = Idle /\ r \in todo
    /\ todo' = todo \ {r}
    /\ stray' = IF /\ r \in alive /\ runs[r] = "none"
                   /\ \A d \in Caller : ~(Coming(d) /\ call[d].run = r)
                THEN stray \cup {r} ELSE stray
    /\ UNCHANGED <<up, boots, paused, resolved, scanned, leases, runs, call,
                   resv, guard, durable, world, minted, yanked, weak>>

\* Mutant: the gate opens when the scan has been started.
FinishBootReattachEarly ==
    /\ up /\ ~resolved
    /\ resolved' = TRUE
    /\ UNCHANGED <<up, boots, paused, todo, scanned, leases, runs, call, resv,
                   guard, durable, world, history>>

\* finish_boot_reattach, after the scan task ended.
FinishBootReattach ==
    /\ up /\ ~resolved /\ scanned /\ todo = {} /\ call[BootScan] = Idle
    /\ resolved' = TRUE
    /\ UNCHANGED <<up, boots, paused, todo, scanned, leases, runs, call, resv,
                   guard, durable, world, history>>

-----------------------------------------------------------------------------
(* Release: release_one.  The drain's own terminal release takes the same  *)
(* steps: take the run, stop the driver, remove record and lease, append.  *)

Release(c, r) ==
    /\ up /\ c # BootScan /\ call[c] = Idle /\ runs[r] = "live"
    /\ runs' = [runs EXCEPT ![r] = "releasing"]
    /\ call' = [call EXCEPT ![c] = [op |-> "releasing", run |-> r, guard |-> NoRun]]
    /\ UNCHANGED <<up, boots, paused, resolved, todo, scanned, leases, resv,
                   guard, durable, world, history>>

\* Mutant: the record is marked released and left in the map.
StopAndRemoveKeepsRecord(c, stopped, next) ==
    /\ alive' = alive \ {call[c].run}
    /\ runs' = [runs EXCEPT ![call[c].run] = "released"]
    /\ leases' = [leases EXCEPT ![KeyOf[call[c].run]] = NoRun]
    /\ NoteYank(c, KeyOf[call[c].run])
    /\ UNCHANGED stray
    /\ call' = [call EXCEPT ![c].op = next]

\* The driver is stopped, or its release timed out and the worker stays; then
\* record and lease go in one section.  The lease is removed by key, whoever
\* holds it.
StopAndRemove(c, stopped, next) ==
    LET r == call[c].run
        k == KeyOf[r]
    IN  /\ alive' = IF stopped THEN alive \ {r} ELSE alive
        /\ runs' = [runs EXCEPT ![r] = "none"]
        /\ leases' = [leases EXCEPT ![k] = NoRun]
        /\ NoteYank(c, k)
        /\ stray' = IF r \in alive' THEN stray \cup {r} ELSE stray
        /\ call' = [call EXCEPT ![c].op = next]

RemoveReleased(c, stopped) ==
    /\ call[c].op = "releasing" /\ runs[call[c].run] # "none"
    /\ StopAndRemove(c, stopped, "removed")
    /\ UNCHANGED <<up, boots, paused, resolved, todo, scanned, resv, guard,
                   durable, holder, expired, minted, weak>>

\* RunNotFound: someone else's release removed the record meanwhile.  Or the
\* caller's future was dropped before the removal.
ReleaseAborted(c) ==
    /\ call[c].op = "releasing"
    /\ call' = [call EXCEPT ![c] = Idle]
    /\ UNCHANGED <<up, boots, paused, resolved, todo, scanned, leases, runs,
                   resv, guard, durable, world, history>>

\* Lifecycle::Release is appended; an append error, a dropped future or an
\* Interrupted outcome leaves the run a reattach candidate.
AppendRelease(c, terminal) ==
    /\ call[c].op = "removed"
    /\ call' = [call EXCEPT ![c] = Idle]
    /\ tomb' = IF terminal THEN tomb \cup {call[c].run} ELSE tomb
    /\ UNCHANGED <<up, boots, paused, resolved, todo, scanned, leases, runs,
                   resv, guard, disk, logged, world, history>>

\* release_orphaned_lease: POST /api/tasks/:id/lease/release.
ReleaseOrphanedLease(k) ==
    /\ up /\ k \in ForceKeys /\ LeasePending(k)
    /\ leases' = [leases EXCEPT ![k] = NoRun]
    /\ yanked' = IF \E d \in Caller : Coming(d) /\ KeyOf[call[d].run] = k
                 THEN yanked \cup {k} ELSE yanked
    /\ UNCHANGED <<up, boots, paused, resolved, todo, scanned, runs, call, resv,
                   guard, durable, world, minted, stray, weak>>

-----------------------------------------------------------------------------
(* Destructive close: reserve_dispatch_close and the guard's holder *)

\* Leases whose run has no record yet (pending_admission_in_worktree).
PendingIn(w) ==
    {r \in Run : leases[KeyOf[r]] = r /\ runs[r] = "none" /\ WtOf[r] = w}

\* blocking_run_for_close finds nobody: the task's own lease is not pending,
\* the first pending admission of the worktree is the run being released or
\* there is none, and no other run's record occupies the worktree.  (The
\* caller's owned_run_ids can only add refusals.)
NoBlockingRun(w, k, x) ==
    /\ ~LeasePending(k)
    /\ PendingIn(w) = {} \/ x \in PendingIn(w)
    /\ \A r \in Run : runs[r] # "none" /\ WtOf[r] = w => r = x

\* dispatch-close names its own task and run; worktree-prune guesses the task
\* and names no run.  Persisting the guard is best effort.
ReserveDispatchClose(g, w, k, x, by, persisted) ==
    /\ up /\ resolved /\ holder[g] = "unused"
    /\ ~Fenced(w)
    /\ NoBlockingRun(w, k, x)
    /\ resv' = Kept \cup {g}
    /\ disk' = IF persisted THEN SweptDisk \cup {g} ELSE SweptDisk
    /\ guard' = [guard EXCEPT ![g] =
                   [wt |-> w, key |-> k, exempt |-> x, by |-> by]]
    /\ holder' = [holder EXCEPT ![g] = "working"]
    /\ weak' = IF persisted THEN weak ELSE weak \cup {g}
    /\ UNCHANGED <<up, boots, paused, resolved, todo, scanned, leases, runs,
                   call, expired, logged, tomb, alive, minted, stray, yanked>>

\* A refused admission or reservation leaves only its sweep behind.
RefusedRequest ==
    /\ up /\ resv # Kept
    /\ resv' = Kept /\ disk' = SweptDisk
    /\ UNCHANGED <<up, boots, paused, resolved, todo, scanned, leases, runs,
                   call, guard, logged, tomb, world, history>>

RenewDispatchClose(g, persisted) ==
    /\ up /\ g \in resv /\ holder[g] = "working" /\ guard[g].by # "daemon"
    /\ expired' = expired \ {g}
    /\ disk' = IF persisted THEN disk \cup {g} ELSE disk
    /\ UNCHANGED <<up, boots, memory, logged, tomb, alive, holder, guard,
                   history>>

\* One TTL passes without a renewal.
LeaseExpires(g) ==
    /\ holder[g] # "unused" /\ guard[g].by = "lease" /\ g \notin expired
    /\ expired' = expired \cup {g}
    /\ weak' = IF holder[g] = "working" THEN weak \cup {g} ELSE weak
    /\ UNCHANGED <<up, boots, memory, durable, alive, holder, guard, minted,
                   stray, yanked>>

\* The CLI has finished with the worktree, with or without a daemon to tell.
HolderDone(g) ==
    /\ holder[g] = "working" /\ guard[g].by # "daemon"
    /\ holder' = [holder EXCEPT ![g] = "finishing"]
    /\ UNCHANGED <<up, boots, memory, durable, alive, expired, guard, history>>

FinishDispatchClose(g) ==
    /\ up /\ holder[g] = "finishing" /\ guard[g].by # "daemon"
    /\ resv' = resv \ {g} /\ disk' = disk \ {g}
    /\ holder' = [holder EXCEPT ![g] = "gone"]
    /\ UNCHANGED <<up, boots, paused, resolved, todo, scanned, leases, runs,
                   call, logged, tomb, alive, expired, guard, history>>

\* The CLI process ends without calling finish.
HolderDies(g) ==
    /\ holder[g] \in {"working", "finishing"} /\ guard[g].by # "daemon"
    /\ holder' = [holder EXCEPT ![g] = "gone"]
    /\ UNCHANGED <<up, boots, memory, durable, alive, expired, guard, history>>

-----------------------------------------------------------------------------
(* Daemon-side rollback: post_task_dispatch_cleanup *)

\* prepare_dispatch_cleanup installs its fence for the attempt that run r
\* names: it yields to a held reservation, to an acquire of the same task that
\* has no record yet, and to another attempt of the task in this worktree.
PrepareDispatchCleanup(c, g, r) ==
    LET w == WtOf[r]
        k == KeyOf[r]
    IN  /\ up /\ c # BootScan /\ call[c] = Idle /\ holder[g] = "unused"
        /\ w # NoWorktree
        /\ ~Fenced(w)
        /\ ~LeasePending(k)
        /\ \A q \in Run : runs[q] # "none" /\ KeyOf[q] = k /\ WtOf[q] = w => q = r
        /\ resv' = Kept \cup {g} /\ disk' = SweptDisk
        /\ guard' = [guard EXCEPT ![g] =
                       [wt |-> w, key |-> k, exempt |-> NoRun, by |-> "daemon"]]
        /\ holder' = [holder EXCEPT ![g] = "working"]
        /\ call' = [call EXCEPT ![c] = [op |-> "fenced", run |-> r, guard |-> g]]
        /\ UNCHANGED <<up, boots, paused, resolved, todo, scanned, leases, runs,
                       expired, logged, tomb, alive, history>>

\* finish_dispatch_cleanup, by the minted handle.
FinishDispatchCleanup(c) ==
    /\ resv' = resv \ {call[c].guard}
    /\ holder' = [holder EXCEPT ![call[c].guard] = "gone"]
    /\ call' = [call EXCEPT ![c] = Idle]

\* The durable owner scan refuses, or the release of the worker does
\* (ReleaseInProgress, RunNotFound).
CleanupRefused(c) ==
    /\ \/ call[c].op = "fenced"
       \/ call[c].op = "cleanupReleasing" /\ runs[call[c].run] = "none"
    /\ FinishDispatchCleanup(c)
    /\ UNCHANGED <<up, boots, paused, resolved, todo, scanned, leases, runs,
                   guard, durable, alive, expired, history>>

\* release_dispatch_worker_for_cleanup: the lease names this attempt and its
\* record is live.  Its three lock sections are one step: behind the fence the
\* only thing that can change between them is that the run goes away, and then
\* the release answers with an error.
CleanupRelease(c) ==
    LET r == call[c].run
    IN  /\ call[c].op = "fenced"
        /\ leases[KeyOf[r]] = r /\ runs[r] = "live"
        /\ runs' = [runs EXCEPT ![r] = "releasing"]
        /\ call' = [call EXCEPT ![c].op = "cleanupReleasing"]
        /\ UNCHANGED <<up, boots, paused, resolved, todo, scanned, leases, resv,
                       guard, durable, world, history>>

CleanupRemoveReleased(c, stopped) ==
    /\ call[c].op = "cleanupReleasing" /\ runs[call[c].run] # "none"
    /\ StopAndRemove(c, stopped, "cleanupRemoved")
    /\ UNCHANGED <<up, boots, paused, resolved, todo, scanned, resv, guard,
                   durable, holder, expired, minted, weak>>

\* Mutant: the worktree is removed without releasing the worker.
CleanupProceedsAtOnce(c) ==
    /\ call[c].op \in {"cleanupRemoved", "fenced"}
    /\ call' = [call EXCEPT ![c].op = "deleting"]
    /\ UNCHANGED <<up, boots, paused, resolved, todo, scanned, leases, runs,
                   resv, guard, durable, world, history>>

\* The release is recorded as Interrupted, which is not a terminal outcome;
\* nothing to release is not an error either.  Now the worktree is removed.
CleanupProceeds(c) ==
    LET r == call[c].run
        k == KeyOf[r]
    IN  /\ \/ call[c].op = "cleanupRemoved"
           \/ /\ call[c].op = "fenced"
              /\ leases[k] # r \/ runs[r] = "none"
        /\ call' = [call EXCEPT ![c].op = "deleting"]
        /\ UNCHANGED <<up, boots, paused, resolved, todo, scanned, leases, runs,
                       resv, guard, durable, world, history>>

CleanupDone(c) ==
    /\ call[c].op = "deleting"
    /\ FinishDispatchCleanup(c)
    /\ UNCHANGED <<up, boots, paused, resolved, todo, scanned, leases, runs,
                   guard, durable, alive, expired, history>>

\* The request future is dropped while it awaits the worker's release: no
\* drop guard owns the reservation.
CleanupDropped(c) ==
    /\ call[c].op \in {"cleanupReleasing", "cleanupRemoved"}
    /\ call' = [call EXCEPT ![c] = Idle]
    /\ holder' = [holder EXCEPT ![call[c].guard] = "finishing"]
    /\ UNCHANGED <<up, boots, paused, resolved, todo, scanned, leases, runs,
                   resv, guard, durable, alive, expired, history>>

-----------------------------------------------------------------------------
(* The daemon and its workers *)

PauseAcquisition ==
    /\ up /\ paused' = ~paused
    /\ UNCHANGED <<up, boots, resolved, todo, scanned, leases, runs, call, resv,
                   guard, durable, world, history>>

WorkerExits(r) ==
    /\ r \in alive
    /\ alive' = alive \ {r}
    /\ UNCHANGED <<up, boots, memory, guard, durable, holder, expired, history>>

\* The daemon dies, or is replaced.  Its memory and its own cleanups go; the
\* workers in `survivors` outlive it in their mux sessions.
DaemonStops(survivors) ==
    /\ up /\ boots < MaxBoots
    /\ up' = FALSE /\ boots' = boots + 1
    /\ paused' = FALSE /\ resolved' = FALSE /\ scanned' = FALSE /\ todo' = {}
    /\ leases' = [k \in Key |-> NoRun]
    /\ runs' = [r \in Run |-> "none"]
    /\ call' = [c \in Caller |-> Idle]
    /\ resv' = {}
    /\ holder' = [g \in Guard |->
                    IF guard[g].by = "daemon" THEN "gone" ELSE holder[g]]
    /\ alive' = survivors
    /\ stray' = stray \cup {r \in survivors : \/ r \notin Candidates
                                             \/ KeyOf[r] \in yanked}
    /\ yanked' = {}
    /\ UNCHANGED <<guard, durable, expired, minted, weak>>

\* Mutant: the replacement daemon starts with an empty reservation table.
DaemonBootsForgetful ==
    /\ ~up
    /\ up' = TRUE /\ resv' = {}
    /\ UNCHANGED <<boots, paused, resolved, todo, scanned, leases, runs, call,
                   guard, durable, world, history>>

\* Inner::new restores the persisted guards whose holders are still there, and
\* begin_boot_reattach closes the gate before the listener binds.
DaemonBoots ==
    /\ ~up
    /\ up' = TRUE
    /\ resv' = {g \in disk : ~IsAbandoned(g)}
    /\ disk' = {g \in disk : ~IsAbandoned(g)}
    /\ UNCHANGED <<boots, paused, resolved, todo, scanned, leases, runs, call,
                   guard, logged, tomb, world, history>>

CallerNext(c) ==
    \/ \E r \in Run : Acquire(c, r) \/ Reattach(c, r) \/ Release(c, r)
    \/ DriverAcquire(c) \/ LogAcquire(c) \/ DriverAttach(c) \/ InsertRecord(c)
    \/ CallFails(c) \/ DropLease(c)
    \/ ReleaseAborted(c)
    \/ \E b \in BOOLEAN : \/ RemoveReleased(c, b) \/ AppendRelease(c, b)
                          \/ CleanupRemoveReleased(c, b)
    \/ \E g \in Guard, r \in Run : PrepareDispatchCleanup(c, g, r)
    \/ CleanupRefused(c) \/ CleanupRelease(c) \/ CleanupProceeds(c)
    \/ CleanupDone(c) \/ CleanupDropped(c)

HolderNext(g) ==
    \/ \E w \in Worktree, k \in Key, by \in {"pid", "lease"}, b \in BOOLEAN :
         \E x \in {NoRun} \cup {r \in Run : KeyOf[r] = k} :
            ReserveDispatchClose(g, w, k, x, by, b)
    \/ \E b \in BOOLEAN : RenewDispatchClose(g, b)
    \/ LeaseExpires(g) \/ HolderDone(g) \/ FinishDispatchClose(g) \/ HolderDies(g)

BootNext ==
    \/ CollectCandidates \/ FinishBootReattach
    \/ \E r \in Run : BootReattach(r) \/ BootSkip(r)

DaemonNext ==
    \/ PauseAcquisition \/ RefusedRequest \/ DaemonBoots
    \/ \E k \in Key : ReleaseOrphanedLease(k)
    \/ \E survivors \in SUBSET alive : DaemonStops(survivors)
    \/ \E r \in Run : WorkerExits(r)

Next ==
    \/ \E c \in Caller : CallerNext(c)
    \/ \E g \in Guard : HolderNext(g)
    \/ BootNext
    \/ DaemonNext

Spec == Init /\ [][Next]_vars

-----------------------------------------------------------------------------
(* Properties *)

\* Run r has a record, or a caller is on its way to inserting one.
Occupies(r) == runs[r] # "none" \/ \E c \in Caller : Coming(c) /\ call[c].run = r

\* AC #2 of `acquire`: one run at a time per (project, task, kind), through
\* every interleaving of acquires, reattaches, releases and restarts, as long
\* as no lease of that key was removed from under a pending admission.
LeaseExclusive ==
    \A r, q \in Run :
        r # q /\ KeyOf[r] = KeyOf[q] /\ KeyOf[r] \notin yanked
            => ~(Occupies(r) /\ Occupies(q))

\* While the holder of a close guard is deleting a worktree, no run other than
\* the one the close releases is live in it, admitted into it or (unless the
\* supervisor had already given up on that worker) running in it: across
\* concurrent admissions, sweeps and daemon replacement.
FenceExcludes ==
    \A g \in Guard, r \in Run :
        /\ holder[g] = "working" /\ guard[g].by \in {"pid", "lease"} /\ g \notin weak
        /\ WtOf[r] = guard[g].wt /\ r # guard[g].exempt /\ KeyOf[r] \notin yanked
        => ~Occupies(r) /\ (r \in alive => r \in stray)

\* While the daemon's own rollback deletes a worktree, no run of that task is
\* recorded in it or on its way into it.
CleanupQuiet ==
    \A c \in Caller, r \in Run :
        /\ call[c].op = "deleting"
        /\ WtOf[r] = WtOf[call[c].run] /\ KeyOf[r] = KeyOf[call[c].run]
        /\ KeyOf[r] \notin yanked
        => ~Occupies(r)

-----------------------------------------------------------------------------
(* What the code's comments say and the code does not do (README, exceptions) *)

\* post_task_dispatch_cleanup: "kill any live worker ..., wait for confirmed
\* death, ... then remove the worktree".  Stated for workers the supervisor has
\* not already given up on.  It does not hold before the boot scan has come to the run.
CleanupKillsWorker ==
    \A c \in Caller : call[c].op = "deleting" => call[c].run \notin alive \ stray

-----------------------------------------------------------------------------
(* The inductive invariant *)

\* A caller that is doing something names the run it does it to, and a cleanup
\* its reservation, which no other caller names.
CallsNamed ==
    /\ \A c \in Caller : call[c].op # "idle" => call[c].run \in Run
    /\ \A c \in Caller : call[c].op \in CleanupOps =>
         /\ call[c].guard \in resv
         /\ holder[call[c].guard] = "working"
         /\ guard[call[c].guard].by = "daemon"
         /\ guard[call[c].guard].wt = WtOf[call[c].run]
         /\ WtOf[call[c].run] # NoWorktree
    /\ \A c, d \in Caller :
         /\ call[c].op \in CleanupOps /\ call[d].op \in CleanupOps
         /\ call[c].guard = call[d].guard
         => c = d

\* Whoever occupies a key holds its lease.
LeaseHeldByOccupant ==
    \A r \in Run : KeyOf[r] \notin yanked /\ Occupies(r) => leases[KeyOf[r]] = r

\* Behind a cleanup's fence only its own attempt may still have a record, and
\* none has once the worktree is being deleted.
CleanupFence ==
    \A c \in Caller, r \in Run :
        /\ call[c].op \in CleanupOps
        /\ WtOf[r] = WtOf[call[c].run] /\ KeyOf[r] = KeyOf[call[c].run]
        /\ KeyOf[r] \notin yanked /\ Occupies(r)
        => /\ call[c].op \in {"fenced", "cleanupReleasing"}
           /\ r = call[c].run /\ runs[r] # "none"

\* A guard in use names a worktree, and while its holder works it stays in the
\* daemon's table and on disk.
GuardsHeld ==
    \A g \in Guard :
        /\ holder[g] = "unused" => g \notin expired /\ g \notin resv \cup disk
        /\ holder[g] = "working" /\ g \in expired => g \in weak
        /\ holder[g] = "working" /\ guard[g].by \in {"pid", "lease"} =>
             /\ guard[g].wt \in Worktree
             /\ g \notin weak => g \in disk /\ (up => g \in resv)

\* Every worker that counts is occupying its run, or the boot scan has still
\* to come to it.
Tracked(r) == r \in alive \ stray => Occupies(r)

\* An open gate means the scan has come to all its candidates, and a scan that
\* has not started has none.
GateOpen ==
    /\ resolved => up /\ scanned /\ todo = {}
    /\ ~scanned => todo = {}

\* Between two daemons nothing is in flight, and the workers that count are on
\* record for the next boot scan.
DownQuiet ==
    ~up => /\ alive \ stray \subseteq Candidates
           /\ ~scanned
           /\ \A c \in Caller : call[c] = Idle
           /\ \A r \in Run : runs[r] = "none"

Owed(r) == (~scanned /\ r \in Candidates) \/ r \in todo

GateSound ==
    /\ up => \A r \in Run : Tracked(r) \/ Owed(r)
    /\ \A c \in Caller, r \in Run :
         call[c].op = "removed" /\ call[c].run = r => Tracked(r)

IndInv ==
    /\ TypeOK
    /\ CallsNamed
    /\ LeaseHeldByOccupant
    /\ CleanupFence
    /\ GuardsHeld
    /\ GateOpen
    /\ DownQuiet
    /\ GateSound
    /\ FenceExcludes

-----------------------------------------------------------------------------
(* Progress: the runtime polls the drop task and the boot scan, and a driver  *)
(* attach returns.                                                           *)

BootProgress ==
    \/ BootNext
    \/ DriverAttach(BootScan) \/ InsertRecord(BootScan)
    \/ CallFails(BootScan) \/ DropLease(BootScan)

FairSpec ==
    /\ Spec
    /\ WF_vars(DaemonBoots)
    /\ WF_vars(BootProgress)
    /\ \A c \in Caller : WF_vars(DropLease(c))

\* A replacement daemon always resolves its boot gate, so a destructive close
\* is never refused for good.
BootGateOpens == ~resolved ~> resolved

\* A lease whose admission failed goes away; the key is not stuck.
OrphanLeaseGoes ==
    \A k \in Key :
        (leases[k] # NoRun /\ ~Occupies(leases[k]))
            ~> (leases[k] = NoRun \/ Occupies(leases[k]))

=============================================================================
