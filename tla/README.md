# A verification project for the orgasmic daemon

orgasmic runs coding agents ("workers") for the tasks of a ledger kept in git.
A long-lived daemon (`crates/orgasmic-daemon`) owns the live runs, serialises
every write of the ledger, keeps the session logs, and answers a CLI
(`crates/orgasmic-cli`), a UI and the workers themselves over HTTP and
WebSocket. Workers are processes in terminal multiplexer sessions or
subprocesses behind a driver (`crates/orgasmic-drivers`); they outlive the
daemon. `crates/orgasmic-core` holds the ledger's file formats.

This directory models the parts of that system where a wrong interleaving, a
crash or a dropped request corrupts something, checks them with TLC on small
instances, and proves the core properties with TLAPS for every instance.

## Inventory

| component | state it keeps | operations | hard behaviour |
|---|---|---|---|
| Supervisor: admission (`supervisor.rs`, boot scan of `api.rs`, boot of `lib.rs`) | leases, run records, cleanup reservations, boot gate, persisted guards | acquire, reattach, release, reserve/renew/finish close, rollback, lease release, pause, boot scan | request futures dropped at any await, daemon replaced under live workers, guards that expire |
| Supervisor: run lifecycle (`supervisor.rs`) | per-run record: terminal outcome, release flags, artifactor in flight, drain task | drain of driver events, release, early-exit watcher, stall sweep, artifactor submit/ack | four parties may release the same run; state read before a probe and used after it |
| Writer (`writer.rs`) | queue of commands, open ledger handles, idempotency caches, session leases | append, rewrite, transaction, group, recover, shutdown | crash between the renames and the append of one transaction, a sync that fails after the append, a request id sent again by anybody at any time, ledger files replaced by git |
| Recovery claims (`recovery_claim.rs`, `post_run_recover` and the boot pass of `api.rs`) | claim file per failed run, the link line in the replacement's session log | plan, mark spawn started, spawn, publish, commit, reconcile, reconstruct | crash between any two of them, two operators recovering one run, a worker that outlives the daemon that spawned it |
| Ledger sync (`ledger_sync.rs`) | last synced commit, pending push | fetch, rebase, push | remote moves meanwhile |
| Index and watcher (`index.rs`, `watcher.rs`, publishing half of `writer.rs`) | snapshot of the ledger, load states, refresh queues, scan registry, repair queue | apply a written path, repair, first load, refresh, scan, publish, flush of file events | reads before the lock, scans that are out of date when published, timed-out scans that keep running, dropped requests |
| Run history (`run_history.rs`) | manifests, archived originals, staged replacements, a maintenance lock | plan, compact, roll back | crash between two file operations, the writer's appends meanwhile, files that changed since they were planned |
| Run catalog (`run_catalog.rs`) | derived views of session logs | scan, page | logs appended while read |
| Boot state (`boot_state.rs`), config, auth, plugins, WS | small stores | load, save | half-written files |
| Manager registration (`manager_registration.rs`) | manager terminals | claim, release | stale pid |
| CLI (`manager.rs`, `daemon_lifecycle.rs`, ...) | none of its own | dispatch, close, prune, update | holds a close guard while deleting |
| Drivers | sessions with agents | acquire, attach, release, stream | process exits, event streams end |

The components, what is modelled of each and why the rest is not, and the
hazards at their source lines are listed in `PROJECT.json`. What makes each
component correct:

- admission: one run per key; nothing admitted into a directory that is being
  deleted; a surviving worker is found again or known to be lost; the boot gate
  opens;
- run lifecycle: one tombstone per run, at the end of its log, agreeing with
  the events in front of it; a begun release ends;
- index: an answered write can be read and stays readable; a failed
  application is repaired, not forgotten; a refresh is not answered from an
  older scan; nobody waits for ever;
- writer: a transaction is applied once however often it is sent; what is
  acknowledged or announced is durable; node files and ledger tell the same;
  every call is answered;
- run history: no acknowledged record is lost or reordered by maintenance, and a
  compaction can be undone;
- recovery claims: at most one replacement per run whatever crashes, what a
  client was told stands, and clients that keep asking get an answer;
- ledger sync: no local commit is lost, none is pushed twice;
- boot state and manager registration: the newest process wins and a dead one
  does not block it.

How they interact: every HTTP handler is a task of its own that calls the
supervisor, the writer and the index. The supervisor keeps its state under one
mutex and drops it around every driver call, log append and file operation. It
appends to session logs through the writer. The writer is one task behind a
channel; its handle applies each committed path to the index from the
caller's task. The index is an `RwLock`ed snapshot that handlers, the file
watcher's task and one detached worker per refresh target all write. A daemon
can be replaced at any time: workers, session logs, close guards and the ledger
survive it, the rest does not.

## Modules

| module | models | state and actions |
|---|---|---|
| `Admission` | lease table, run records, close guards, rollback, boot scan, daemon replacement | One action per critical section of `Inner`'s mutex. A `Caller` is a request future, which can fail or be dropped between two sections; a `Guard` is a close reservation with its holder outside the daemon; `DaemonStops` forgets memory and keeps `disk`, `logged`, `tomb` and the surviving workers |
| `AdmissionProofs` | | `IndInv` is inductive; type correctness, exclusion, fence, quiet rollback |
| `MCAdmission` | | the instances of `Admission` |
| `RunRelease` | one run from the insertion of its record to its tombstone | The record's fields as in `RunRecord`; the drain task, the early-exit watcher, the timeout sweep with its probe, `release_one` per calling role, the artifactor's submit and regenerate handlers, the driver's stream and pid |
| `RunReleaseProofs` | | `ReleaseInv` is inductive; types, single tombstone, tombstone last, which outcome the tombstone carries |
| `Projection` | the snapshot of one project, and everything that moves it | A file is the number of its version, on disk and in the snapshot. Writers read a path, then install it under the lock (`apply_written_path`); failures go through `apply_failures` and `unapplied`; the watcher flushes; refreshes and first loads join the coordinator, whose worker captures a batch, scans off the lock, publishes and settles |
| `ProjectionProofs` | | `ProjectionInv` is inductive; load state, nobody stranded, what a refresh covers, the repair queue |
| `MCProjection` | | the instances of `Projection` |
| `Writer` | the writer task, the handle's calls, both idempotency caches and their recovery | One action per file operation of the writer task (`Stage`, `Backup`, `Rename`, `AppendEntries`, `Sync`, `Undo`, `BatchAppend`, ...) and per await of a call. A file's contents are the call that wrote it; the ledger file is a sequence of inodes with their synced length; `DaemonDies` forgets memory and may lose what was not synced, `Replace` is git |
| `AtomicLedger` | what the callers of single transactions are promised | Effects, the groups that may stand for them, answers, and nothing else; `Writer` is shown to implement it |
| `WriterProofs` | | `WriterInv` is inductive; applied once, acknowledged only when durable |
| `WriterEffects` | | `Writer` implements `AtomicLedger`; `EffectsInv` is inductive relative to `WriterInv`; events, node files, the clean end |
| `MCWriter` | | the instances of `Writer` |
| `Compaction` | compaction and rollback of session logs against the writer's session appends | The writer's session commands (`RunAppend`, `DeferAppend`, `GrantLease`, `EndLease`) and one action per file operation of `apply_compaction` and `rollback_compaction`. A request plans first (`AskCompact`, `AskRollback`) and queues its lease in a later step (`QueueLease`), as the handlers do. A log is the sequence of its records; manifests are keyed by the plan they were confirmed for |
| `CompactionProofs` | | the inductive invariant; acknowledged records are kept and in order, and a compaction can be undone |
| `MCCompaction` | | the instances of `Compaction` |
| `RecoveryClaim` | one failed run and its rescue: `POST /recover`, the claim file, the replacement's log, its pane, the inventory pass and the boot pass | One action per durable write, writer command, tmux command or await of `post_run_recover`; `Restart` forgets the request, the queue and the run records and keeps files and panes |
| `RecoveryProofs` | | `RecoveryInv` is inductive; one replacement, answers that stand |
| `RecoveryKept` | | `RescueInv` is inductive; boot leaves reserved logs alone, no replacement is started again |

Callers that never share state with a module are not in it: `RunRelease` never
reuses a run id (that is `Admission`'s subject), `Admission` takes a release as
its two critical sections (what happens between them is `RunRelease`), and
`Projection` starts where the writer has committed. `Writer` ends where a path
has to be applied to the index, and its session commands are part of
`Compaction`, which is what leases them. `RecoveryClaim` takes the supervisor's
acquire as its spawn, its log lines and its record, and an append as one queued
line that its owner may no longer wait for. Drivers, workers, editors
and the HTTP server's habit of dropping the future of a closed connection are
the environment; their definitions are marked external in the map.

History variables serve the properties only: `stray`, `yanked`, `weak` and
`minted` in `Admission`, `late` in `RunRelease`, the fields `asked` and `mine`
of a call in `Projection`, `installed`, `excused` and `before` in `Writer`,
`answers` in `RecoveryClaim`.

## Runs

| run | instance | properties |
|---|---|---|
| `admission_restart` | two runs of one task in one worktree, one request, the boot scan, one guard, the daemon replaced once at any point | `TypeOK`, `LeaseExclusive`, `FenceExcludes`, `CleanupQuiet`, `IndInv` |
| `admission_live` | two runs, one request, one replacement, fairness | `BootGateOpens`, `OrphanLeaseGoes` |
| `release_race` | a stall sweep with its probe and a submit against a watched pane; two driver events out of complete and fail; fairness | `ReleaseInv`, `TerminalEventWins`, `FailureStands`, `ReleaseIsLast`, `ReleaseEnds` |
| `release_artifactor` | finalize, submit, cancel, two rounds, an iteration cap of 0, accepted inputs, dropped requests, failing appends | `OneTombstone` |
| `projection_requests` | a refresh and a first load, dropped at any await and asked again, one edit, one changed registration, scans that fail or time out | `ProjectionInv`, `LoadHonest`, `NoneStranded`, `RefreshCovers` |
| `projection_repair` | two requests that write a node or a transaction, are answered 503 and repeated, failing reads, watcher and rescans | `QueueKept` |
| `projection_live` | one writer and one load of an unloaded project, failing reads, hung scans, fairness | `AnswersCome` |
| `writer_once` | under one request id a transaction of two files, sent with and without its mutation id, and a group with the same entry, sent twice; two failing file operations, one death of the daemon, the ledger file replaced once, any request dropped | `EffectsInv`, `WriterInv`, `AppliedOnce`, `AckDurable`, `AllOrNothing`, `EventsHonest`, `ImplementsAtomic` |
| `writer_end` | under one request id an append, a transaction of one file, a recovery and a refused append; two failures, one death, a shutdown that ends or times out, fairness | `CleanIsComplete`, `CallsEnd` |
| `compaction_race` | a log with pane output and late records, one compaction and one rollback, planned, confirmed and asked again in any order; one failing file operation or foreign record, one death, fairness | `CompactionInv`, `NothingLost`, `OrderKept`, `Undoable`, `AppendsEnd` |
| `recovery_once` | two clients rescuing one run, two replacements to mint; one failing observation, write or spawn or one dropped request, two deaths of the daemon, one of a replacement, one removed log, fairness | `RescueInv`, `OneReplacement`, `AnswersStand`, `PrefixReserved`, `NeverRelaunched`, `RescueEnds` |

`ReleaseInv`, `ProjectionInv`, `EffectsInv`, `CompactionInv`, `RescueInv` and
`IndInv` each have their module's `TypeOK` as a conjunct: the runs check the invariants the proofs use.

`LeaseExclusive` leaves out keys in `yanked`: a lease of the key was removed
while an admission of it was pending (see the exceptions below). `FenceExcludes` leaves out guards that
were never persisted or had expired while in use (`weak`) and workers whose run
the supervisor had already given up on (`stray`).

`RefreshCovers` compares versions: what the published scan read is not older
than what was on disk when the request joined the queue. `QueueKept` is about
the hand-over of a failed path between the queue and the requests that repair
it: it leaves the queue only in the step that applies it.

`ImplementsAtomic` is the refinement `Writer` => `AtomicLedger`: the effect of a
single transaction is its entry, `current` is what the ledger file of the path
tells of, `past` what only files that were replaced told of, `grouped` the durable
groups, and every answer but success is "declined". A group's entries carry its
request id, and once it is durable the code caches them under the identity of
single transactions (`cache_durable_multi`, `writer.rs:3099`; `EntryIdent` gives
that identity): an unnamed single transaction of that identity is acknowledged for
the group (`Serving`), and its own effect never comes. Each step of the writer is
then the application of one request, one acknowledgement of what was applied or is
served by a group, a refusal, a loss by a crash of what nobody was promised, a
replacement, a group becoming durable, or a stutter. `AllOrNothing` leaves out the calls in `excused`: those a death cut off, whose restore failed,
or whose group was appended in part; the code has no means to undo them.
`NothingLost` is about records whose append was acknowledged; pane output may
leave a log if an archive named by a manifest has it. `PrefixReserved` and
`NeverRelaunched` hold as long as no request was dropped, the former where the
run worked in the project root, as in `recovery_once` (see the disagreements). `RescueEnds` accepts a
definite refusal: the code fails closed on a dead replacement, a log that is
not the planned one, a link written twice, or two competing temporaries.

Bounds. One task and one worktree are enough in `Admission` because leases and
fences of different keys do not touch each other; two runs are what exclusion
is about, and each replacement of the daemon starts from a state of the same
form, so one shows what survives. In `RunRelease` two events are a terminal
event and one that contradicts it, two rounds (in `release_artifactor`) a round
and its successor; `release_race` has a single round, since a second one has too many
states for its liveness property; a bare "ready" event and an abandoning request are in no
instance, the theorems cover them. In
`Projection` two versions are an old and a new one, `MaxWaiters` is one
captured and one late waiter, one registration change is the one a scan
misses, and `MaxQueue` lets a repeated request find one path to repair while
another is added (without it the queue would grow by one duplicate for every
failed repetition). In `Writer` one request id and one ledger are enough because
ids and ledgers share only the queue; two files give a first rename that has to
be undone by the failure of a second, two failures give a failed operation
followed by a failed undo or a failed retry, one death separates the two
caches' recoveries. Two appends of which both are run are in no instance, nor is an
append beside a replaced ledger (too many states): `BatchAppend` and `BatchSync`
treat each entry alike, and the theorem about `WriterInv` covers both. A file that
is replaced while calls are retried is part of `writer_once`. In `Compaction` the record behind the end of the run is
what a lease defers; two inodes per maintenance, and one more for a foreign
record, are as many as the requests can use (`MaxInode`), so the bound is never
met. Files share the lease table, the queue and the lock; one file already has
every order of an append with the steps of a maintenance. In `RecoveryClaim`
two requests are the owner of a claim and its rival, two replacements the
planned one and the second one that must not be; failures and dropped requests
share a budget of one, and two deaths let the second find the half-done repair
of the first. Deadlock is not checked where
a run that has ended, or a daemon without requests, may rest.

Fairness. `Admission`: a stopped daemon is started again by its service
manager, tokio polls the boot scan's task and the spawned lease cleanups, and
the driver's attach returns (it has a timeout). `RunRelease`: tokio polls the
tasks, every wait on a driver is bounded (5 s stop, drain budget), the writer
answers. Nothing is assumed of the driver's events, the clocks or the requests.
`Projection`: tokio polls the tasks, and a scan's wait ends by its result or
its timeout. No fairness is assumed of the thread a scan runs on, which may hang
in the file system, nor of a coordinator timeout. `Writer`: tokio polls the
writer task and the requests; file operations return. `Compaction`: the same,
and the owner of a lease is a detached task, so it ends its work and gives the
lease back even when the request is gone. `RecoveryClaim`: tokio polls the
request, the writer and the boot pass, tmux ends its command, and every client
asks again until it is answered (strong fairness of `Begin`, since the origin's
lock is free only now and then); failures, deaths and dropped requests are
bounded, and nothing is assumed of when they come.

## Disagreements between comments and code

`compaction_twice` is a run that finds a violation, of `Undoable`: two confirmed
requests to compact one file, nothing failing. `run_history.rs:735`: "`plan` must
be freshly computed by the caller: the confirmation is checked against the plan
that is about to run, never against a stored one"; `run_history.rs:861`:
"`run history rollback --manifest <id>` restores them byte for byte". The handler
plans before it has the lease (`api.rs:10267`), and the confirmation compares only
the token with that plan. If the second request plans before the first has
renamed anything and is granted the lease after it, `apply_compaction` writes a
manifest of the same id with every file "planned" over the one that says
"committed" (`run_history.rs:803`), and only then refuses the file as changed. The
log now holds a summary whose manifest no longer records the original: a rollback
skips the file. The archive is still on disk. Planning again under the lease, or
refusing an id whose manifest exists, would keep the promise. `compaction_race`
shows that one compaction at a time is undoable, and the theorem
`CompactionUndoable` has that as its hypothesis.

Other comments and tests of the repository that TLC shows the code not to follow. To
see one, give the module a configuration with `SPECIFICATION Spec`, the named
property and the constants given; what is not said is as in the first run of
that module.

- `CleanupKillsWorker` (`MCAdmission`; `ForceKeys = {}`). `api.rs:7106`: "kill
  any live worker (driver release / PGID reap), wait for confirmed death,
  salvage dirty output, then remove the worktree". `post_task_dispatch_cleanup`
  does not wait for the boot scan; before it the attempt has no record and no
  lease, the release reports nothing to do, and the worktree goes under the
  surviving worker. What does hold is `CleanupQuiet`.
- `SuccessEarned` (`RunRelease`; `Role = {"sweep"}`, `Event = {"work"}`,
  `Clock = {"max"}`, `Tui` and `Artifactor` TRUE, `Watched` and `NeedsFinalize`
  FALSE, `MaxEvents = 0`, `MaxRounds = 2`). `supervisor.rs:3810`: "that round
  needs its own submit". The sweep reads the declaration in one critical section
  and releases in another (`supervisor.rs:3578`); a round begun and acknowledged
  in between ends Completed without a submit of its own.
- `AckStays` (`MCProjection`; one writer, one refresher, one file, no failures). `index.rs:2566`
  publishes a scan over what inline applications installed after the scan had
  read the files: an answered write is readable, then not, until the next scan.
- `AckVisible` (`MCProjection`; three writers, three transaction files,
  `IoFails`, `MaxQueue = 2`). `writer.rs:557`: without the queue the retry "would
  answer 200 over a still-stale view". One request holds the path for repair
  while a third clears the failure (`writer.rs:1228`). Also with two writers, one
  file, three versions and no failures: the older read is installed last
  (`index.rs:1034`).
- `PrefixReserved` (`RecoveryClaim`; `WorktreeIsRoot = FALSE`, `MaxFaults = 0`,
  `MaxStops = 1`). `recovery_claim.rs:1575`: "Boot's generic reattach pass
  therefore skips that session instead of inserting a `Reattach` event into the
  immutable partial prefix". `boot_reattach_ownership` (`api.rs:13537`) is given
  the candidate's worktree for the project root; for a run in a managed worktree
  no claim is found there, boot appends its marker, and every later recovery of
  that run is refused.
- `AnswersStand` and `OneReplacement` with the same constants (`OneReplacement`
  with `MaxFaults = 1`, `MaxStops = 2`, `MaxDeaths = 1`, `MaxRemovals = 1`).
  `recovery_claim.rs:2720`: "two daemon-authenticated replacements for one
  origin" are "a safety violation". Boot's reattach of the worktree's replacement
  gives the retry a live run, which `recovery_run_if_exact` (`supervisor.rs:3350`)
  hands back without completing the planned lines (`api.rs:12743`). The session
  then has a link but not the whole plan, does not match its own claim, is
  dropped from the enumeration (`recovery_claim.rs:2437`), and the committed
  claim is quarantined as disproved; a later request plans a second replacement.
  The theorems about `RecoveryClaim` are about the behaviours that keep
  `BootPasses` for this reason.
- `NeverRelaunched` without its last disjunct (`RecoveryClaim`; one dropped
  request). `recovery_claim.rs:107`: "Once true, a missing/dead planned handle
  is never relaunched; recovery fails closed." A link line that was queued by a
  dropped request lands after the next request has enumerated the links; the
  claim that request commits is not confirmed by its own enumeration
  (`api.rs:12039`), is quarantined, and a dead pane is started again.
- `AllOrNothing` for groups. `writer.rs:1415`: a group "is emitted by one
  underlying append"; `append_txs_inner` writes its entries one by one, and the
  ones in front of a failure stay while the files are rolled back.
- `AppliedOnce` for `append_tx`. `writer.rs:1242`: "Re-using `request_id` is
  safe". The caller, not the writer, fills the cache: after a failed sync of its
  batch, with two calls at once, a dropped caller, or a restart, the entry is
  appended again.

### Exceptions

The passing properties are stated as strongly as the code allows. These are the
behaviours they leave out; each was found with TLC on the module named.

- `LeaseExclusive`: an operator's lease release between another request's
  admission and its `runs.insert` (`supervisor.rs:4339`), or two reattaches of
  one run of which one fails (`supervisor.rs:1110`), removes a lease that is in
  use (`Admission`, `yanked`).
- Boot: a candidate whose attach fails for a passing reason is skipped and the
  gate opens all the same (`lib.rs:1388`); a fresh acquire may win the key of a
  surviving worker before the scan reattaches it (`supervisor.rs:1720`).
- A rollback dropped while it awaits the worker's release leaves its
  reservation behind until the daemon goes (`api.rs:7177`).
- `ReleaseIsLast`: a release between the insertion of the record and the
  storing of the drain's handle joins a placeholder, and events follow its
  tombstone (`supervisor.rs:1925`).
- `TerminalEventWins` lets a completion that is drained during an abandon's
  stop become the outcome of the abandoned attempt (`supervisor.rs:3276`).
- A submit admitted while a release stops the driver is in flight when the
  record goes (`supervisor.rs:3260`).
- `ReleaseEnds` assumes that no request is dropped: an abandoning request
  dropped at an await leaves its release in progress for good (`api.rs:11770`).
- `QueueKept` assumes that no request is dropped: one that has taken the repair
  queue takes it along (`writer.rs:1218`).
- A worker spawned before a death of the daemon and not yet logged, one whose
  stop timed out, a close guard that expired in use or was never persisted
  (`supervisor.rs:1770`, `6738`, `823`, `904`): `Admission` counts them as given
  up (`stray`, `weak`).
- An artifact submit dropped between begin and commit leaves every later release
  deferred to nobody (`api.rs:21226`); `send_input` holds the supervisor's mutex
  while it waits for the driver (`supervisor.rs:2771`), which is one step here.
- Writer: a death between the renames and the append leaves files changed with no
  entry (`writer.rs:3868`); a restore that fails is only logged and its backup
  removed (`writer.rs:3976`); a temporary left by a death is named after the
  request and opened with `create_new`, so the retry of that id fails for good
  (`writer.rs:3829`). An `append_tx` that reuses a transaction's id after a
  restart, before the caches are rebuilt, makes their recovery contradict
  itself, and then no transaction is accepted.
- Writer: the open handle of a ledger is compared with its path once per batch;
  a ledger replaced in the middle gets the rest of the batch in the old file
  (`writer.rs:3396`). `AckDurable` asks for a synced entry in the file it was
  appended to.
- Writer: a clean shutdown answers appends that a lease had deferred with an
  error (`writer.rs:2817`).
- Compaction: somebody who does not append through the writer may do so between
  the last look at the file and the rename (`run_history.rs:1196`); that record
  goes with the old inode.
- Recovery: after a death between the mark and the spawn the planned handle
  counts as dead for ever (`recovery_claim.rs:3019`); a link written twice, by a
  dropped request and its retry, is refused for ever; a retry that finds the
  claim committed answers without reattaching in the supervisor; a dropped
  request may leave a duplicate association in the ledger.

## Proofs

All theorems hold for every value of the constants that satisfies the named
assumptions of the modules (which TLC evaluates on its instances): disjoint
identifiers, functions with their domains, bounds that are natural numbers.

`AdmissionProofs`. `LeaseExclusive` is not inductive: a step of one caller
depends on what another still holds. `IndInv` adds that whoever occupies a key
holds its lease (`LeaseHeldByOccupant`), that a caller names its run and a
rollback its reservation (`CallsNamed`), that behind a rollback's fence only its
own attempt has a record (`CleanupFence`), that a working holder's guard is on
disk and, while the daemon is up, in its table (`GuardsHeld`), and, for the
worker a fence must keep out across a restart, that a worker that counts
occupies its run or is still owed a visit of the boot scan (`GateSound`,
`GateOpen`, `DownQuiet`). One lemma per action shows each part preserved;
`TypeCorrect`, `LeaseExclusion`, `Fence` and `CleanupIsQuiet` follow.

`RunReleaseProofs`. `OneTombstone` needs to know who owes the tombstone:
`OneDebtor` says that nobody does while the record is in the map and at most one
party after. `ReleaseIsLast` needs `JoinedDrain`: a release that holds the real
drain's handle appends only when that drain is done. `ReleaseTypes`,
`SingleTombstone` and `TombstoneIsLast` follow from `ReleaseInvariance`.
`TerminalEventWins` needs to know what an outcome rests on while the release is
still under way: `OutcomeBacked` says that the outcome of a live record is a
terminal event of the log, the broken iteration budget, or the event the drain
has applied and not yet appended, and that a release that joined the drain
carries it on. That holds only where appends do not fail (an event that was
applied and not logged still decides), so `TerminalEventsWin` assumes `~LogFails`.
`FailureStands` needs no such hypothesis: `FailureKept` follows a logged failure
through the drain's decision to shut the transport down, and names the two ways
it may be overtaken (somebody else began the release; it waits for an artifactor,
in which case the drain does not write the tombstone).

`ProjectionProofs`. `LoadIsHonest`: `LoadHonest` is inductive once `project` is
known to be Boolean; the argument is that all five places that write the load
state look at the projection under the same lock. The other theorems use
`ProjectionInv`. `CallsFormed` says where a request may be in each of its phases
and when its list of paths is empty; `WaitersWait` that whoever is in one of the
coordinator's lists waits there, in one place and for that kind of answer;
`ScanCovers` that a path the worker's scan has read was read at a version no
older than the captured waiters asked for. `NobodyStranded` is a conjunct of it
and follows from the first two: a registration adds to the lists and starts the
worker in one critical section, and a settling worker removes exactly those it
answers. `RefreshesCover` is the step version of `ScanCovers`, since only
`Settle` answers a refresh with success, and only those captured before the
scan. `QueueIsKept` shows that a path leaves the repair queue only when a request
that took it has applied it; it assumes `~Drops`, because a repairing request
that is dropped takes its paths along (see the exceptions).

`WriterProofs`. `AppliedOnce` is about one ledger file, but what keeps it is
spread over the daemon, and `WriterInv` names it. A command is in the queue or in
the writer's hands once, for a call that waits for it or has given up
(`CommandsOK`), and a single transaction that is still to run is in no ledger
(`Fresh`). Before the caches are filled from the ledger no transaction is queued
(`LoadFirst`), the one call that fills them has read every single transaction of
the file (`FoundAll`), afterwards the caches know each of them, or the writer is
about to tell them (`CacheComplete`), so a transaction the look-up let through is
new when it is appended (`NextIsNew`). A death empties queue and caches together,
and a replaced file tells of nothing new. `AckDurable` needs that what a cache
calls durable, what a recovery read, and what a retained handle will sync, is so
(`DurableKnown`); durable entries stay because no step shortens a log below what
was synced. `WriterInvariant` has one lemma per action, `AppliesOnce` and
`AcknowledgesDurable` follow.

`WriterEffects`, the refinement. `WriterImplementsAtomic` needs three more facts, together
`RefinementInv`: what a cache holds came from a call of its identity, or is an entry
of a durable group (`CachesFromCalls`), so that an acknowledged single transaction
has a durable entry of a single transaction or a durable group that serves it
(`SinglesTruthful`), and what an earlier ledger file also told of is synced in the
present one (`CopiesSynced`), so that a crash never takes what only `past` would
still tell. The proof first splits the steps into
those that leave the told transactions alone (`Quiet`), the append, the death and
the replacement; then an answer is `Acknowledge` or `Decline`, the append `Apply`,
and the others `Crash` and `Replaced`. A transaction that is answered from a cached
entry of a group has a durable group that serves it, and a durable call stays
durable in whichever file it is (`SinglesTruthful`), so that answer is an
`Acknowledge` too. Nothing is assumed of the identities of groups.

`WriterEffects`, the rest: what a transaction leaves outside the ledger.
`EffectsInv` is inductive relative to `WriterInv`. `EventsOnce`: an entry is
announced in the step that makes it durable, and that step ends the command or
pays the debt a failed sync had left in a cache; so a call that was announced has
a durable entry and neither a command nor a debt, and cannot be announced again.
`ShutdownLast`: nothing that was accepted before the shutdown stands behind it in
the queue, since commands leave at the head and join at the tail. `FilesWhole`:
files and ledger agree about every call that is not in the writer's hands
(`Agreed`); a call whose command is still ahead has touched neither
(`Untouched`); and the call in hand shows in exactly the files up to its progress
while the ledger does not tell of it (`HalfDone`), with old contents to put back
that belong to calls which are themselves journalled or excused (`PutsBack`;
without it an undo could resurrect what nobody applied). `AnnouncesOnce`,
`FilesAgree` and `CleanEndIsComplete` follow.

`RecoveryProofs`. What keeps the replacement unique is not in one place: the
claim file, its temporaries, the request's copy of it, the sessions and the panes
each know a part. `RecoveryInv` says that they agree: at most one replacement is
in play (`OneInPlay`), every copy of a claim names a replacement, one that
was spawned if the claim is committed (`ClaimsWhole`), a session without all its planned lines belongs to the pending
claim on disk (`UnfinishedIsClaimed`), no replacement was spawned that some copy
still believes unspawned (`MarkedBeforeSpawn`), a queued append goes to a session
that exists and was spawned (`QueueSound`), and for each place the request can
be at, what it has already seen to (`EarlySound` to `SendSound`): in particular a
replacement is planned only where none exists and no claim is on disk, and a
request that is about to commit has a complete session. `RescuedOnce` and
`AnswersKept` follow. Types hold without any hypothesis (`TypeCorrect`), by an
induction of their own (`TypeInv`). The other theorems about a rescue, here and in
`RecoveryKept`, are of the form `Spec /\ [][BootPasses]_vars => []P`: in no step does
boot take up a session that a pending claim still has to complete. This leaves open
where the failed run worked. For a run in a managed worktree, the ordinary case, the
code does not enforce it, and without it `OneReplacement`, `AnswersStand` and
`PrefixReserved` do not hold (see the disagreements); the theorems then say that a
boot which finds the replacement of a pending claim reattachable is the only thing
that breaks them. For a run in the project root, and for a daemon that never stops,
`BootAsks` proves that every behaviour keeps `BootPasses`.

`RecoveryKept`. A dropped request leaves a line in the writer's queue that nobody
waits for, and that line may be the link. Until that happens a claim that is on disk is
never disproved, which is what `PrefixReserved` and `NeverRelaunched` rest on.
`RescueInv` adds to `RecoveryInv` that every copy of a claim is for the request
its replacement was minted for (`OwnRequests`) and, while nothing was dropped, that
every queued line has an owner and boot queues its marker only (`LinesOwned`), a
session is linked at most once (`LinkedOnce`), the enumeration a request took at its
start is still what an enumeration would find (`LinksCurrent`), and the claim of a
session stays on disk (`SessionClaimed`). With these every resolution confirms the
claim (`Confirmed`), so no committed claim is quarantined and planned again
(`AuthorityConfirms`); `BootLeavesPending` and `SpawnsOnce` then say that boot is
at, queued for, or has marked only sessions of committed claims, and that a request
spawns a replacement only if none of that identity was spawned before.
`NeverStartedAgain` follows, and `PrefixStaysReserved`, in which `BootPasses` is most
of the matter.

`CompactionProofs`. That an acknowledged record is somewhere (`NothingLost`) is
threatened by every rename, and what protects it is spread over the writer, the
lease, the flock, the journal and the archives. `Core` names it:

- `LeaseHeld`: who holds a lease or the flock, and that its commands are in the
  queue once; `HandleCurrent`: the writer's open handle is the inode the path
  names, so it never writes to one that was renamed away; `WorkFenced`: the
  file a request works on is in its plan, its manifest and its lease;
- `SendOrder`: deferred and queued appends of a path are in sending order, behind
  everything already acknowledged; `CopiesInOrder`: so are the records of the live
  file, of the archives and of the copies in a request's hands;
- `JournalTrue`: an archive is the beginning of the inode its plan names, what a
  request holds in memory covers every acknowledged record of its path, what is
  staged is made of that, and a journal entry that names a replacement names the
  archive that undoes it.

`NothingLost` is inductive relative to `Core`. The replacement keeps every record
except pane output, and those are in an archive that the manifest has named since
before the rename. What `build_compacted` keeps is a selection by places
(`Nth`, `Selected`), so its properties are proved by counting places and by
least elements instead of induction over the log: each kept place is the `Nth`
of exactly one position, in order. `OrderKept` follows from `CopiesInOrder`.
`CompactionUndoable` adds `SummariesJournalled`: every summary, in a file, an
archive or a copy in hand, is of a manifest that records its original. This is
preserved by every step except a fresh manifest over a committed one; `OneAtATime`,
no two compactions between their plan and the return of their lease, excludes that
step. It is a hypothesis about the requests, since the code does not enforce it
(`compaction_twice`).

Model-checked only: liveness (`BootGateOpens`, `OrphanLeaseGoes`, `ReleaseEnds`,
`AnswersCome`, `CallsEnd`, `AppendsEnd`, `RescueEnds`), which is outside the proof
system's reach. Every safety property of the runs is stated by a theorem.

## Limits

Not modelled: the contents of files, parsing and formatting, authorisation, the
drivers' protocols, the UI and the CLI beyond the guard it holds. In
`RunRelease`, the reconciliation of panes and pods, stall interruption messages
and babysitters. In `Projection`, the home-ledger and artifact targets of the
coordinator (the same code with other inputs), refreshes keyed by transaction
id (used only when the writer does not apply its own writes), and the cap on
concurrent scans, whose waiting time is part of `Capture`. A registration never
returns to an earlier value. In `Writer`, rewrites and mutations without a
transaction, several ledger files, records of which only a part was written, and
metrics; renames are taken to be durable in the order they were made. In
`Compaction`, transports other than panes, manifests of the older format, and
the catalog that reads the logs; a plan reads all files at one instant. In `RecoveryClaim`, the keyed digest that
authenticates a claim, origins without a terminal, sessions reattached by name,
and the wording of refusals. Time is a nondeterministic choice: a timeout may
fire whenever its wait is under way.

Not modelled at all: ledger sync (git does the work), boot state, manager
registration, the fold of transactions into a verdict, and the CLI. The first
four are planned below; the UI, plugins, prompt compiler, authentication and
logging keep no state that concurrent steps could spoil.

## Plan

1. `Finalization`: the release tracker of `api.rs`, the dispatch waiter's
   double reading of its epoch, and the graceful shutdown with its loss record.
   It composes what `RunRelease` and `Writer` promise. Properties: a waiter
   never reports a death that did not happen; an admitted release is durable or
   named in the loss record.
2. `LedgerSync`, `BootState`, `ManagerRegistration`, and the fold of
   transactions into a dispatch verdict as a pure algorithm.
3. An abstract run lifecycle (live, then one verdict) that `RunRelease`
   implements.
