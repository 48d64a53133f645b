----------------------------- MODULE Compaction -----------------------------
(***************************************************************************)
(* Maintenance of the session files: a compaction archives a file, stages  *)
(* a copy without the rendered pane output and renames it into place; a    *)
(* rollback renames the archived original back.  Meanwhile the writer      *)
(* appends to the same paths, and the daemon may die between two file      *)
(* operations.  A lease of the writer keeps the two apart: an append to a  *)
(* leased path is deferred until the lease is released.                    *)
(* Source: crates/orgasmic-daemon/src/run_history.rs, the session commands *)
(* of writer.rs, and the two handlers of api.rs.                           *)
(*                                                                         *)
(* A session file is the sequence of its records.  A record is the path it *)
(* was sent to and its place in the order of sending; a digest is the      *)
(* contents themselves, and a fingerprint is the inode and its length      *)
(* (inode numbers are not reused here; the code also compares mtimes).     *)
(* Every session is one of a pane transport.  The lease and its work run   *)
(* in a detached task, so a dropped request changes nothing.               *)
(***************************************************************************)
EXTENDS Integers, Sequences, FiniteSets, SequencesExt

CONSTANTS
    Paths,          \* session files
    Class,          \* each path's records, in order: "pane", "end", "release", "note"
    Written,        \* how many of them are in the file at first
    Compactions,    \* confirmed requests to compact
    Rollbacks,      \* requests to roll back
    NoOne,          \* no request
    NoPath,         \* no path
    MaxInode,       \* bound: inodes of session files
    MaxFaults,      \* bound: failing file operations, and records appended by somebody
                    \* else, together
    MaxStops        \* bound: deaths of the daemon

ASSUME SessionAssumption ==
    /\ IsFiniteSet(Paths)
    /\ Class \in [Paths -> Seq({"pane", "end", "release", "note"})]
    /\ Written \in [Paths -> Nat] /\ \A p \in Paths : Written[p] <= Len(Class[p])
    /\ {NoPath, "summary", "edit"} \cap Paths = {} /\ NoOne \notin Compactions \cup Rollbacks
    /\ Compactions \cap Rollbacks = {}
ASSUME CompactionBounds ==
    /\ MaxInode \in Nat /\ MaxInode >= Cardinality(Paths) /\ MaxFaults \in Nat
    /\ MaxStops \in Nat

VARIABLES
    inode,      \* the contents of each session file inode
    used,       \* inodes in use
    live,       \* the inode a path names
    handle,     \* the inode the writer's SessionWriter of a path has open, 0 for none
    sent,       \* how many records of a path were sent
    status,     \* each record: "new", "pending", "ok", "failed"
    queue,      \* the writer's commands
    leased,     \* paths a lease holds
    deferred,   \* appends that wait for a lease
    token,      \* the plan a dry run showed the operator
    own,        \* each request
    lock,       \* the holder of the maintenance flock
    manifest,   \* the durable manifests, by the plan that names them
    archive,    \* the archived originals, by manifest and path
    staging,    \* the staging file of a path
    faults,     \* failures so far
    stops,      \* deaths so far
    edits       \* records of somebody else so far

sessions == <<inode, used, live>>
writer == <<handle, status, queue, leased, deferred>>
store == <<manifest, archive, staging>>
vars == <<sessions, writer, sent, token, own, lock, store, faults, stops, edits>>

Requests == Compactions \cup Rollbacks
Nothing == [x \in {} |-> <<>>]
NoPlan == [p \in Paths |-> <<0, 0>>]
Idle == [pc |-> "idle", plan |-> NoPlan, fence |-> {}, todo |-> {}, path |-> NoPath,
         bytes |-> <<>>, confirmed |-> FALSE]
NoFile == [there |-> FALSE, bytes |-> <<>>]
File(s) == [there |-> TRUE, bytes |-> s]

InitialInode == CHOOSE f \in [Paths -> 1..Cardinality(Paths)] :
                    \A p, q \in Paths : p # q => f[p] # f[q]

Init ==
    /\ live = InitialInode
    /\ inode = [n \in 1..MaxInode |->
                  IF \E q \in Paths : live[q] = n
                  THEN LET p == CHOOSE q \in Paths : live[q] = n
                       IN [k \in 1..Written[p] |-> <<p, k>>]
                  ELSE <<>>]
    /\ used = Cardinality(Paths)
    /\ handle = [p \in Paths |-> IF Written[p] = 0 THEN 0 ELSE live[p]]
    /\ sent = Written
    /\ status = [p \in Paths |-> [k \in 1..Len(Class[p]) |->
                                    IF k <= Written[p] THEN "ok" ELSE "new"]]
    /\ queue = <<>> /\ leased = {} /\ deferred = <<>>
    /\ token = NoPlan /\ own = [o \in Requests |-> Idle] /\ lock = NoOne
    /\ manifest = Nothing /\ archive = Nothing
    /\ staging = [p \in Paths |-> NoFile]
    /\ faults = 0 /\ stops = 0 /\ edits = 0

Bytes(p) == inode[live[p]]
Fault == faults + edits < MaxFaults /\ faults' = faults + 1
ClassOf(r) == IF r[1] \in Paths THEN Class[r[1]][r[2]] ELSE "note"
Put(f, k, v) == [x \in DOMAIN f \cup {k} |-> IF x = k THEN v ELSE f[x]]

\* The elements of a sequence at the places in T, in order (SelectSeq by places, and
\* without its recursion).
Nth(T, i) == CHOOSE k \in T : Cardinality({j \in T : j <= k}) = i
Selected(s, T) == [i \in 1..Cardinality(T) |-> s[Nth(T, i)]]

(***************************************************************************)
(* The writer.                                                             *)
(***************************************************************************)
\* append_session: the records of a session are sent in order.
Send(p) ==
    /\ sent[p] < Len(Class[p])
    /\ sent' = [sent EXCEPT ![p] = @ + 1]
    /\ status' = [status EXCEPT ![p][sent[p] + 1] = "pending"]
    /\ queue' = Append(queue, [op |-> "append", rec |-> <<p, sent[p] + 1>>])
    /\ UNCHANGED <<sessions, handle, leased, deferred, token, own, lock, store, faults, stops, edits>>

Head1(op) == queue # <<>> /\ queue[1].op = op

\* WriterCommand::Session: an append to a leased path waits before it opens anything.
DeferAppend ==
    /\ Head1("append") /\ queue[1].rec[1] \in leased
    /\ deferred' = Append(deferred, queue[1].rec)
    /\ queue' = Tail(queue)
    /\ UNCHANGED <<sessions, handle, status, leased, sent, token, own, lock, store, faults,
                   stops, edits>>

\* run_session_append: a missing handle is opened by path; the handle of a run that
\* has its release goes with it.
RunAppend ==
    /\ Head1("append") /\ queue[1].rec[1] \notin leased
    /\ queue' = Tail(queue)
    /\ LET p == queue[1].rec[1]
           n == IF handle[p] = 0 THEN live[p] ELSE handle[p] IN
       \/ /\ inode' = [inode EXCEPT ![n] = Append(@, queue[1].rec)]
          /\ status' = [status EXCEPT ![p][queue[1].rec[2]] = "ok"]
          /\ handle' = [handle EXCEPT ![p] = IF ClassOf(queue[1].rec) = "release"
                                             THEN 0 ELSE n]
          /\ UNCHANGED faults
       \/ /\ Fault
          /\ status' = [status EXCEPT ![p][queue[1].rec[2]] = "failed"]
          /\ handle' = [handle EXCEPT ![p] = n]
          /\ UNCHANGED inode
    /\ UNCHANGED <<used, live, leased, deferred, sent, token, own, lock, store, stops, edits>>

\* WriterCommand::LeaseSessions: a path is held by one lease, and its handle closed.
GrantLease ==
    /\ Head1("lease")
    /\ queue' = Tail(queue)
    /\ LET o == queue[1].rec IN
       IF own[o].fence \cap leased = {}
       THEN /\ leased' = leased \cup own[o].fence
            /\ handle' = [p \in Paths |-> IF p \in own[o].fence THEN 0 ELSE handle[p]]
            /\ own' = [own EXCEPT ![o].pc = "leased"]
       ELSE /\ own' = [own EXCEPT ![o] = [Idle EXCEPT !.pc = "done"]]
            /\ UNCHANGED <<leased, handle>>
    /\ UNCHANGED <<sessions, status, deferred, sent, token, lock, store, faults, stops, edits>>

\* Mutants: what waited runs last; it is forgotten.
ResumedLast(ready) == Tail(queue) \o [k \in 1..Len(ready) |-> [op |-> "append", rec |-> ready[k]]]
ResumedNever(ready) == Tail(queue)
Resumed(ready) == [k \in 1..Len(ready) |-> [op |-> "append", rec |-> ready[k]]] \o Tail(queue)

\* WriterCommand::ReleaseSessions: what waited runs in order, before anything queued.
EndLease ==
    /\ Head1("release")
    /\ LET o == queue[1].rec
           left == leased \ own[o].fence
           held == {k \in DOMAIN deferred : deferred[k][1] \in left}
           ready == Selected(deferred, DOMAIN deferred \ held) IN
       /\ leased' = left
       /\ deferred' = Selected(deferred, held)
       /\ queue' = Resumed(ready)
       /\ own' = [own EXCEPT ![o] = [Idle EXCEPT !.pc = "done"]]
    /\ UNCHANGED <<sessions, handle, status, sent, token, lock, store, faults, stops, edits>>

(***************************************************************************)
(* plan_compaction.                                                        *)
(***************************************************************************)
\* A run has ended when its last record is a release, or its driver said so.
Terminal(s) == s # <<>> /\ (ClassOf(Last(s)) = "release" \/ \E r \in Range(s) : ClassOf(r) = "end")
Panes(s) == {k \in DOMAIN s : ClassOf(s[k]) = "pane"}
Fingerprint(p) == <<live[p], Len(Bytes(p))>>
Eligible(p) == Terminal(Bytes(p)) /\ Panes(Bytes(p)) # {}

\* The files a plan names, each with its fingerprint.  The manifest id is a digest of
\* the plan, so the plan is its own id.
Plan == [p \in Paths |-> IF Eligible(p) THEN Fingerprint(p) ELSE <<0, 0>>]
Named(id) == {p \in Paths : id[p] # <<0, 0>>}

DryRun ==
    /\ token' = Plan
    /\ token' # token
    /\ UNCHANGED <<sessions, writer, sent, own, lock, store, faults, stops, edits>>

\* post_run_history_compact: plans again, in a task of its own.
AskCompact(o) ==
    /\ own[o].pc = "idle" /\ o \in Compactions
    /\ token # NoPlan
    /\ own' = [own EXCEPT ![o] = [Idle EXCEPT !.pc = "asked", !.plan = Plan,
                                    !.fence = Named(Plan), !.confirmed = (token = Plan)]]
    /\ UNCHANGED <<sessions, writer, sent, token, lock, store, faults, stops, edits>>

\* post_run_history_rollback: the paths to lease come from the manifest as it is now.
AskRollback(o) ==
    /\ own[o].pc = "idle" /\ o \in Rollbacks
    /\ \E id \in DOMAIN manifest \cup {token} :
          own' = [own EXCEPT ![o] = [Idle EXCEPT !.pc = "asked", !.plan = id,
                                       !.fence = IF id \in DOMAIN manifest THEN Named(id)
                                                 ELSE {}]]
    /\ UNCHANGED <<sessions, writer, sent, token, lock, store, faults, stops, edits>>

\* with_detached_session_lease: what was read names the paths to lease, however much
\* has happened since.
QueueLease(o) ==
    /\ own[o].pc = "asked"
    /\ own' = [own EXCEPT ![o].pc = "waiting"]
    /\ queue' = Append(queue, [op |-> "lease", rec |-> o])
    /\ UNCHANGED <<sessions, handle, status, leased, deferred, sent, token, lock, store,
                   faults, stops, edits>>

\* Mutant: the flock outlives the work.
OverKeepsLock(o) ==
    /\ own' = [own EXCEPT ![o].pc = "releasing"]
    /\ queue' = Append(queue, [op |-> "release", rec |-> o])
    /\ UNCHANGED lock

\* The end of the blocking work: the flock goes, then the lease is given back.
Over(o) ==
    /\ lock' = IF lock = o THEN NoOne ELSE lock
    /\ own' = [own EXCEPT ![o].pc = "releasing"]
    /\ queue' = Append(queue, [op |-> "release", rec |-> o])

(***************************************************************************)
(* apply_compaction.                                                       *)
(***************************************************************************)
\* A journal record: the stage, and the images it names.
Journal(stage, old, new) == [stage |-> stage, old |-> old, new |-> new]
Fresh(plan) == [files |-> [p \in Named(plan) |-> Journal("planned", <<>>, <<>>)],
                complete |-> FALSE]
At(o, pc) == own[o].pc = pc
Go(o, pc) == own' = [own EXCEPT ![o].pc = pc]

\* The confirmation, the flock, and the manifest that names every planned file.
Apply(o) ==
    /\ o \in Compactions /\ At(o, "leased")
    /\ \/ /\ ~own[o].confirmed \/ lock # NoOne
          /\ Over(o)
          /\ UNCHANGED <<manifest, faults>>
       \/ /\ own[o].confirmed /\ lock = NoOne
          /\ lock' = o
          /\ manifest' = Put(manifest, own[o].plan, Fresh(own[o].plan))
          /\ own' = [own EXCEPT ![o].pc = "next", ![o].todo = Named(own[o].plan)]
          /\ UNCHANGED <<queue, faults>>
       \/ /\ own[o].confirmed /\ lock = NoOne
          /\ Fault
          /\ Over(o)
          /\ UNCHANGED manifest
    /\ UNCHANGED <<sessions, handle, status, leased, deferred, sent, token, archive, staging,
                   stops, edits>>

Id(o) == own[o].plan
Cur(o) == own[o].path
Journalled(o, j) == manifest' = [manifest EXCEPT ![Id(o)].files[Cur(o)] = j]
Quiet == UNCHANGED <<sent, token, stops, edits, status, leased, deferred, handle>>

\* compact_one_file, until the original is in memory: whatever is not what was planned
\* is refused, and the file untouched.
NextFile(o) ==
    /\ o \in Compactions /\ At(o, "next")
    /\ \/ /\ own[o].todo = {}
          /\ manifest' = [manifest EXCEPT ![Id(o)].complete = TRUE]
          /\ Over(o)
          /\ UNCHANGED faults
       \/ /\ own[o].todo = {} /\ Fault
          /\ Over(o)
          /\ UNCHANGED manifest
       \/ \E p \in own[o].todo :
             /\ IF Fingerprint(p) = Id(o)[p] /\ Eligible(p)
                THEN own' = [own EXCEPT ![o].pc = "archive", ![o].todo = @ \ {p},
                                        ![o].path = p, ![o].bytes = Bytes(p)]
                ELSE own' = [own EXCEPT ![o].pc = "refused", ![o].todo = @ \ {p},
                                        ![o].path = p]
             /\ UNCHANGED <<manifest, queue, lock, faults>>
    /\ UNCHANGED <<sessions, archive, staging>> /\ Quiet

\* build_compacted: every other record verbatim, and a summary where the last pane was.
Cut(s) == CHOOSE k \in Panes(s) : \A j \in Panes(s) : j <= k
Compacted(s, id) ==
    Selected(s, 1..Cut(s) \ Panes(s)) \o <<<<"summary", id>>>> \o SubSeq(s, Cut(s) + 1, Len(s))
Replacement(o) == Compacted(own[o].bytes, Id(o))

\* archive_original; a failure refuses the file with nothing done.
Archive(o) ==
    /\ At(o, "archive")
    /\ \/ /\ archive' = Put(archive, <<Id(o), Cur(o)>>, own[o].bytes)
          /\ Go(o, "archived")
          /\ UNCHANGED faults
       \/ /\ Fault
          /\ Go(o, "refused")
          /\ UNCHANGED archive
    /\ UNCHANGED <<sessions, queue, lock, manifest, staging>> /\ Quiet

\* Every stage is journalled before the operation it authorizes; a journal that cannot
\* be written ends the transaction.
WriteJournal(o, from, j, to) ==
    /\ At(o, from)
    /\ \/ Journalled(o, j) /\ Go(o, to) /\ UNCHANGED <<queue, lock, faults>>
       \/ Fault /\ Over(o) /\ UNCHANGED manifest
    /\ UNCHANGED <<sessions, archive, staging>> /\ Quiet

JournalArchived(o) == WriteJournal(o, "archived", Journal("archived", own[o].bytes, <<>>), "stage")
\* Mutant: the replacement image is not recorded before the rename.
JournalStagedLater(o) ==
    /\ At(o, "staged") /\ Go(o, "verify")
    /\ UNCHANGED <<sessions, queue, lock, store, faults>> /\ Quiet
JournalStaged(o) ==
    WriteJournal(o, "staged", Journal("staged", own[o].bytes, Replacement(o)), "verify")
JournalCommitted(o) ==
    WriteJournal(o, "renamed", Journal("committed", own[o].bytes, Replacement(o)), "next")

\* A refused file keeps the stage it reached, with the reason.
JournalRefused(o) == WriteJournal(o, "refused", manifest[Id(o)].files[Cur(o)], "next")

Stage(o) ==
    /\ At(o, "stage")
    /\ \/ /\ staging' = [staging EXCEPT ![Cur(o)] = File(Replacement(o))]
          /\ Go(o, "staged")
          /\ UNCHANGED faults
       \/ /\ Fault
          /\ staging' = [staging EXCEPT ![Cur(o)] = NoFile]
          /\ Go(o, "refused")
    /\ UNCHANGED <<sessions, queue, lock, manifest, archive>> /\ Quiet

\* The last look before the rename.
Verify(o) ==
    /\ At(o, "verify")
    /\ \/ /\ Fingerprint(Cur(o)) = Id(o)[Cur(o)]
          /\ Go(o, "rename")
          /\ UNCHANGED staging
       \/ /\ Fingerprint(Cur(o)) # Id(o)[Cur(o)]
          /\ staging' = [staging EXCEPT ![Cur(o)] = NoFile]
          /\ Go(o, "refused")
    /\ UNCHANGED <<sessions, queue, lock, manifest, archive, faults>> /\ Quiet

\* The staged file takes the path.
Renamed(p) ==
    /\ used < MaxInode
    /\ used' = used + 1
    /\ inode' = [inode EXCEPT ![used + 1] = staging[p].bytes]
    /\ live' = [live EXCEPT ![p] = used + 1]
    /\ staging' = [staging EXCEPT ![p] = NoFile]

\* A failed rename leaves the journal at "staged"; so does a rename whose directory
\* could not be synced, which took place.
Rename(o) ==
    /\ At(o, "rename")
    /\ \/ Renamed(Cur(o)) /\ Go(o, "renamed") /\ UNCHANGED faults
       \/ Renamed(Cur(o)) /\ Fault /\ Go(o, "refused")
       \/ /\ Fault
          /\ staging' = [staging EXCEPT ![Cur(o)] = NoFile]
          /\ Go(o, "refused")
          /\ UNCHANGED sessions
    /\ UNCHANGED <<queue, lock, manifest, archive>> /\ Quiet

(***************************************************************************)
(* rollback_compaction.                                                    *)
(***************************************************************************)
Touched(id) == {p \in Named(id) : manifest[id].files[p].stage # "planned"}

BeginRollback(o) ==
    /\ o \in Rollbacks /\ At(o, "leased")
    /\ IF lock # NoOne \/ Id(o) \notin DOMAIN manifest
       THEN Over(o)
       ELSE /\ lock' = o
            /\ own' = [own EXCEPT ![o].pc = "restore", ![o].todo = Touched(Id(o))]
            /\ UNCHANGED queue
    /\ UNCHANGED <<sessions, store, faults>> /\ Quiet

\* Mutant: whatever the path holds now is replaced.
RestorableBlindly(o, p) ==
    LET j == manifest[Id(o)].files[p] IN
    p \in own[o].fence /\ archive[<<Id(o), p>>] = j.old /\ j.stage # "archived"

\* A path outside the lease, an archive that is not the one recorded, or live contents
\* that are neither image of the transaction: refused.
Restorable(o, p) ==
    LET j == manifest[Id(o)].files[p] IN
    /\ p \in own[o].fence
    /\ archive[<<Id(o), p>>] = j.old
    /\ j.stage # "archived" /\ Bytes(p) = j.new

Restore(o) ==
    /\ At(o, "restore")
    /\ \/ /\ own[o].todo = {}
          /\ Over(o)
          /\ UNCHANGED <<staging, faults>>
       \/ \E p \in own[o].todo :
             \/ /\ ~Restorable(o, p)
                /\ own' = [own EXCEPT ![o].todo = @ \ {p}]
                /\ UNCHANGED <<staging, faults>>
             \/ /\ Restorable(o, p)
                /\ staging' = [staging EXCEPT ![p] = File(archive[<<Id(o), p>>])]
                /\ own' = [own EXCEPT ![o].todo = @ \ {p}, ![o].path = p, ![o].pc = "swap"]
                /\ UNCHANGED faults
             \/ /\ Restorable(o, p) /\ Fault
                /\ staging' = [staging EXCEPT ![p] = NoFile]
                /\ own' = [own EXCEPT ![o].todo = @ \ {p}]
          /\ UNCHANGED <<queue, lock>>
    /\ UNCHANGED <<sessions, manifest, archive>> /\ Quiet

Swap(o) ==
    /\ At(o, "swap")
    /\ \/ Renamed(Cur(o)) /\ UNCHANGED faults
       \/ /\ Fault
          /\ staging' = [staging EXCEPT ![Cur(o)] = NoFile]
          /\ UNCHANGED sessions
    /\ Go(o, "restore")
    /\ UNCHANGED <<queue, lock, manifest, archive>> /\ Quiet

(***************************************************************************)
(* The daemon dies: the queue, the leases and the flock go, the files stay,*)
(* and the operator may ask the next daemon for everything again.          *)
(***************************************************************************)
DaemonDies ==
    /\ stops < MaxStops
    /\ stops' = stops + 1
    /\ handle' = [p \in Paths |-> 0] /\ queue' = <<>> /\ leased' = {} /\ deferred' = <<>>
    /\ status' = [p \in Paths |-> [k \in DOMAIN status[p] |->
                    IF status[p][k] = "pending" THEN "failed" ELSE status[p][k]]]
    /\ own' = [o \in Requests |-> Idle]
    /\ lock' = NoOne
    /\ UNCHANGED <<sessions, sent, token, store, faults, edits>>

\* Somebody else appends to a session file, past the writer and its leases, while
\* maintenance holds it.
Edit(p) ==
    /\ faults + edits < MaxFaults /\ p \in leased
    /\ edits' = edits + 1
    /\ inode' = [inode EXCEPT ![live[p]] = Append(@, <<"edit", edits>>)]
    /\ UNCHANGED <<used, live, writer, sent, token, own, lock, store, faults, stops>>

WriterLoop == DeferAppend \/ RunAppend \/ GrantLease \/ EndLease
Work(o) ==
    \/ QueueLease(o) \/ Apply(o) \/ NextFile(o) \/ Archive(o) \/ JournalArchived(o) \/ Stage(o)
    \/ JournalStaged(o) \/ JournalRefused(o) \/ Verify(o) \/ Rename(o) \/ JournalCommitted(o)
    \/ BeginRollback(o) \/ Restore(o) \/ Swap(o)

Next ==
    \/ \E p \in Paths : Send(p) \/ Edit(p)
    \/ WriterLoop
    \/ DryRun
    \/ \E o \in Requests : AskCompact(o) \/ AskRollback(o) \/ Work(o)
    \/ DaemonDies

Spec == Init /\ [][Next]_vars

\* The writer's task and the detached owner of a lease are polled.
FairSpec == Spec /\ WF_vars(WriterLoop) /\ \A o \in Requests : WF_vars(Work(o))

-----------------------------------------------------------------------------
Stages == {"planned", "archived", "staged", "committed"}
Plans == [Paths -> (0..MaxInode) \X Nat]
SessionRecord == UNION {{p} \X (1..Len(Class[p])) : p \in Paths}
Record == SessionRecord \cup ({"edit"} \X Nat) \cup ({"summary"} \X Plans)
Reading == {"archive", "archived", "stage", "staged", "verify", "rename", "renamed"}
Working == Reading \cup {"next", "refused", "restore", "swap"}
Holding == Working \cup {"leased", "releasing"}
Request == [pc : Holding \cup {"idle", "asked", "waiting", "done"}, plan : Plans,
            fence : SUBSET Paths, todo : SUBSET Paths, path : Paths \cup {NoPath},
            bytes : Seq(Record), confirmed : BOOLEAN]

TypeOK ==
    /\ used \in 0..MaxInode /\ inode \in [1..MaxInode -> Seq(Record)]
    /\ live \in [Paths -> 1..used] /\ handle \in [Paths -> 0..used]
    /\ sent \in [Paths -> Nat] /\ DOMAIN status = Paths
    /\ \A p \in Paths :
          status[p] \in [1..Len(Class[p]) -> {"new", "pending", "ok", "failed"}]
    /\ queue \in Seq([op : {"append"}, rec : SessionRecord]
                       \cup [op : {"lease", "release"}, rec : Requests])
    /\ deferred \in Seq(SessionRecord) /\ leased \subseteq Paths
    /\ token \in Plans /\ own \in [Requests -> Request] /\ lock \in Requests \cup {NoOne}
    /\ DOMAIN manifest \subseteq Plans
    /\ \A id \in DOMAIN manifest :
          manifest[id] \in [files : [Named(id) -> [stage : Stages, old : Seq(Record),
                                                   new : Seq(Record)]],
                            complete : BOOLEAN]
    /\ DOMAIN archive \subseteq Plans \X Paths
    /\ \A x \in DOMAIN archive : archive[x] \in Seq(Record)
    /\ staging \in [Paths -> [there : BOOLEAN, bytes : Seq(Record)]]
    /\ {faults, stops, edits} \subseteq Nat

\* The flock is held by the one request that works; the leased paths are those of the
\* requests between the grant and the end of a lease, which share none; and the
\* commands of the queue are those of the requests that wait for them.
LeaseHeld ==
    /\ \A o \in Requests : own[o].pc \in Working <=> lock = o
    /\ leased = UNION {own[o].fence : o \in {q \in Requests : own[q].pc \in Holding}}
    /\ \A o, q \in Requests :
          o # q /\ own[o].pc \in Holding /\ own[q].pc \in Holding =>
              own[o].fence \cap own[q].fence = {}
    /\ \A k \in DOMAIN queue :
          /\ queue[k].op = "lease" => own[queue[k].rec].pc = "waiting"
          /\ queue[k].op = "release" => own[queue[k].rec].pc = "releasing"
    /\ \A j, k \in DOMAIN queue :
          j # k /\ queue[j].op # "append" /\ queue[k].op # "append" =>
              queue[j].rec # queue[k].rec

\* The writer never appends to a file that is no longer the path's, and not at all
\* while a lease holds the path.
HandleCurrent ==
    /\ \A p \in Paths : handle[p] \in {0, live[p]}
    /\ \A p, q \in Paths : p # q => live[p] # live[q]
    /\ \A p \in leased : handle[p] = 0
    /\ \A k \in DOMAIN deferred : deferred[k][1] \in leased

\* What a request works on is in its plan, its manifest and its lease.
WorkFenced ==
    \A o \in Requests :
        /\ own[o].pc \in Reading \cup {"next", "refused"} => o \in Compactions
        /\ own[o].pc \in {"restore", "swap"} => o \in Rollbacks
        /\ o \in Compactions => own[o].fence = Named(own[o].plan)
        /\ own[o].pc \in Working =>
              own[o].plan \in DOMAIN manifest /\ own[o].todo \subseteq Named(own[o].plan)
        /\ own[o].pc \in Working \ {"next", "restore"} =>
              /\ own[o].path \in Named(own[o].plan) \ own[o].todo
              /\ own[o].pc # "refused" => own[o].path \in own[o].fence

\* Acknowledged and waiting records of a path are in the order of sending.
Waiting(r) ==
    /\ status[r[1]][r[2]] = "pending"
    /\ \A k \in DOMAIN status[r[1]] : status[r[1]][k] = "ok" => k < r[2]
SendOrder ==
    /\ \A p \in Paths : \A k \in DOMAIN status[p] : k > sent[p] <=> status[p][k] = "new"
    /\ \A k \in DOMAIN deferred : Waiting(deferred[k])
    /\ \A k \in DOMAIN queue : queue[k].op = "append" => Waiting(queue[k].rec)
    /\ \A j, k \in DOMAIN deferred :
          j < k /\ deferred[j][1] = deferred[k][1] => deferred[j][2] < deferred[k][2]
    /\ \A j, k \in DOMAIN queue :
          j < k /\ queue[j].op = "append" /\ queue[k].op = "append"
              /\ queue[j].rec[1] = queue[k].rec[1] => queue[j].rec[2] < queue[k].rec[2]
    /\ \A j \in DOMAIN deferred, k \in DOMAIN queue :
          queue[k].op = "append" /\ deferred[j][1] = queue[k].rec[1] =>
              deferred[j][2] < queue[k].rec[2]

\* The contents a path has or can be given: its file, its archives, and what a
\* compaction has read of it.
Copies(p) ==
    {Bytes(p)} \cup {archive[x] : x \in {y \in DOMAIN archive : y[2] = p}}
    \cup {own[o].bytes : o \in {q \in Requests : own[q].pc \in Reading /\ own[q].path = p}}
Ordered(s) ==
    \A i, j \in DOMAIN s :
        i < j /\ s[i][1] \in Paths /\ s[j][1] \in Paths => s[i][2] < s[j][2]
CopiesInOrder ==
    \A p \in Paths : \A s \in Copies(p) :
        /\ Ordered(s)
        /\ \A r \in Range(s) : r[1] \in Paths => r[1] = p /\ status[p][r[2]] = "ok"

\* An archive is the beginning of the inode its plan names; what a compaction has read
\* is that, and holds every record the writer appended to the path; what is staged is
\* made of it; and the journal describes both.
Planned(id, p) == SubSeq(inode[id[p][1]], 1, id[p][2])
Covers(s, p) == \A r \in Range(Bytes(p)) : r[1] \in Paths => r \in Range(s)
Described(j, id) ==
    /\ j.stage \in {"staged", "committed"} => j.new = Compacted(j.old, id)
    /\ j.stage # "planned" => Panes(j.old) # {}
JournalTrue ==
    /\ \A x \in DOMAIN archive :
          /\ x[2] \in Named(x[1]) /\ x[1] \in DOMAIN manifest
          /\ x[1][x[2]][1] \in 1..used /\ x[1][x[2]][2] <= Len(inode[x[1][x[2]][1]])
          /\ archive[x] = Planned(x[1], x[2])
    /\ \A id \in DOMAIN manifest : \A p \in Named(id) :
          /\ Described(manifest[id].files[p], id)
          /\ manifest[id].files[p].stage # "planned" =>
                /\ <<id, p>> \in DOMAIN archive
                /\ archive[<<id, p>>] = manifest[id].files[p].old
    /\ \A o \in Requests : own[o].pc \in Reading =>
          LET id == own[o].plan
              p == own[o].path IN
          /\ Panes(own[o].bytes) # {}
          /\ id[p][1] \in 1..used /\ id[p][2] <= Len(inode[id[p][1]])
          /\ own[o].bytes = Planned(id, p)
          /\ own[o].pc # "archive" => <<id, p>> \in DOMAIN archive /\ archive[<<id, p>>] = own[o].bytes
          /\ own[o].pc # "renamed" => Covers(own[o].bytes, p)
          /\ own[o].pc \in {"staged", "verify", "rename"} => staging[p].bytes = Replacement(o)
    /\ \A o \in Requests : own[o].pc \in {"restore", "swap"} =>
          \A p \in own[o].todo : manifest[own[o].plan].files[p].stage # "planned"
    /\ \A o \in Requests : own[o].pc = "swap" =>
          /\ <<own[o].plan, own[o].path>> \in DOMAIN archive
          /\ staging[own[o].path].bytes = archive[<<own[o].plan, own[o].path>>]
          /\ Covers(staging[own[o].path].bytes, own[o].path)

\* Every record whose append was acknowledged is in the file its path names; only pane
\* output may be missing there, and then an archive that a manifest names holds it.  No
\* rename of a compaction or a rollback, no lease, no death of the daemon takes it away.
Acked(p) == {k \in DOMAIN status[p] : status[p][k] = "ok"}
NothingLost ==
    \A p \in Paths : \A k \in Acked(p) :
        \/ <<p, k>> \in Range(Bytes(p))
        \/ /\ Class[p][k] = "pane"
           /\ \E id \in DOMAIN manifest :
                 <<id, p>> \in DOMAIN archive /\ <<p, k>> \in Range(archive[<<id, p>>])

\* The records of a session stay in the order they were sent, through deferral and
\* the release of a lease, compaction and rollback.
OrderKept == \A p \in Paths : Ordered(Bytes(p))

\* Whatever a compaction took out of a file can be put back: a file with a summary in
\* it that nobody wrote to since is the replacement image its manifest recorded, and
\* the archive is the original that was recorded with it.
Held(id, p) ==
    /\ manifest[id].files[p].stage \in {"staged", "committed"}
    /\ <<id, p>> \in DOMAIN archive
    /\ archive[<<id, p>>] = manifest[id].files[p].old
Undoable ==
    \A p \in Paths : \A id \in DOMAIN manifest :
        <<"summary", id>> \in Range(Bytes(p)) =>
            /\ Held(id, p)
            /\ LET j == manifest[id].files[p] IN
               /\ j.new = Compacted(j.old, id)
               /\ Len(Bytes(p)) = Len(j.new) => Bytes(p) = j.new

\* While compactions do not overlap: a summary in any copy of a file is that of a manifest
\* which holds the original and whose replacement image the copy begins with, and never
\* that of a plan still to be applied.
StartsWith(s, t) == Len(t) <= Len(s) /\ SubSeq(s, 1, Len(t)) = t
ToApply(o) ==
    {p \in Named(own[o].plan) :
        \/ own[o].pc \in {"asked", "waiting", "leased"}
        \/ own[o].pc \in Working /\ p \in own[o].todo
        \/ own[o].pc \in Reading \ {"renamed"} /\ p = own[o].path}
SummariesJournalled ==
    /\ \A p \in Paths : \A s \in Copies(p) : \A r \in Range(s) : r[1] = "summary" =>
          LET id == r[2] IN
          /\ id \in DOMAIN manifest /\ p \in Named(id)
          /\ id[p][1] < live[p]
          /\ Held(id, p)
          /\ StartsWith(s, manifest[id].files[p].new)
    /\ \A o \in Compactions : \A p \in ToApply(o) : \A s \in Copies(p) :
          <<"summary", own[o].plan>> \notin Range(s)
    /\ \A o \in Compactions : own[o].pc \in {"verify", "rename", "renamed"} =>
          manifest[own[o].plan].files[own[o].path] =
              Journal("staged", own[o].bytes, Replacement(o))
Busy == Holding \cup {"asked", "waiting"}
OneAtATime == \A a, b \in Compactions : own[a].pc \in Busy /\ own[b].pc \in Busy => a = b

CompactionInv ==
    /\ TypeOK /\ LeaseHeld /\ HandleCurrent /\ WorkFenced /\ SendOrder
    /\ CopiesInOrder /\ JournalTrue

\* Every append is answered, however long a lease holds its path.
AppendsEnd ==
    []<>(\A p \in Paths : \A k \in DOMAIN status[p] : status[p][k] # "pending")
=============================================================================
