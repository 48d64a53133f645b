------------------------------- MODULE Writer -------------------------------
(***************************************************************************)
(* The daemon's single writer: every change of the ledger is a command in  *)
(* one queue, executed by one task.  A command rewrites node files and     *)
(* appends one or more entries to a ledger file; its request id makes it   *)
(* repeatable.  Source: crates/orgasmic-daemon/src/writer.rs, and          *)
(* durable_replay_records of index.rs.                                     *)
(*                                                                         *)
(* A call is one invocation of the handle's API by a request future, which *)
(* may be dropped at any await; its command is executed all the same.  A   *)
(* file system operation of the writer task is one action, because the     *)
(* daemon may die between any two.  What a file contains is the call that  *)
(* wrote it.  An append writes an entry whole or not at all, with a fresh  *)
(* EVENT_ID, so the look-up of an event id already in the ledger never     *)
(* succeeds here.  Applying what was written to the index is Projection.   *)
(***************************************************************************)
EXTENDS Integers, Sequences, FiniteSets

CONSTANTS
    Calls,      \* invocations of the API
    Requests,   \* request ids
    Files,      \* node files
    Idents,     \* mutation identities: operation, project, payload
    NoCall,     \* no call
    NoIdent,    \* append_tx caches no identity
    ReqOf,      \* the request id of a call
    Kind,       \* "append": append_tx; "single": transaction, transaction_mutation and
                \* the mutate_file forms; "multi": transaction_multi; "recover"
    IdentOf,    \* the identity of a call
    EntryIdent, \* of a group's identity: the one a single transaction of its entry has
    Named,      \* the call wants the mutation id back
    Rewrites,   \* the files a call rewrites, in order
    Rejected,   \* the calls that name a path outside the nodes, or replay metadata
    Existing,   \* the files that exist at first
    MaxFaults,  \* bound: failing file system operations
    MaxStops,   \* bound: deaths of the daemon
    MaxInode,   \* bound: one plus the replacements of the ledger file from outside
    Shutdowns   \* the daemon is asked to stop

Kinds == {"append", "single", "multi", "recover"}

ASSUME CallAssumption ==
    /\ ReqOf \in [Calls -> Requests]
    /\ Kind \in [Calls -> Kinds]
    /\ IdentOf \in [Calls -> Idents] /\ EntryIdent \in [Idents -> Idents]
    /\ Named \in [Calls -> BOOLEAN]
    /\ Rewrites \in [Calls -> Seq(Files)]
    /\ \A c \in Calls : Kind[c] \in {"append", "recover"} => Rewrites[c] = <<>>
    /\ \A c \in Calls : Kind[c] = "recover" => Named[c]
    /\ Rejected \subseteq {c \in Calls : Kind[c] # "recover"}
    /\ NoCall \notin Calls /\ NoIdent \notin Idents /\ Calls \cap Files = {}
ASSUME WriterBounds ==
    /\ MaxFaults \in Nat /\ MaxStops \in Nat /\ MaxInode \in Nat \ {0}
    /\ Shutdowns \in BOOLEAN /\ Existing \subseteq Files

VARIABLES
    pc,         \* each call: new, scanning, scanned, waiting, answered, done, dropped
    reply,      \* what each call returned
    queue,      \* commands accepted and not begun
    cmd,        \* the command the writer executes
    cache,      \* idempotency: the CachedResponse::Tx of a request id
    multi,      \* idempotency: the CachedResponse::Multi of a request id
    loaded,     \* replay_roots holds the ledger
    loader,     \* the call that holds the lock of replay_roots
    found,      \* the entries its barrier read
    ledger,     \* the inodes of the ledger file: entries, and how many are synced
    ino,        \* the inode the path names
    handle,     \* the inode the writer's cached handle has open, 0 for none
    disk,       \* the node files: the call whose contents they have
    sidecar,    \* staged and backup files: <<kind, file, request id>>
    up,         \* the writer task runs
    outcome,    \* what shutdown_within observed
    faults,     \* failures so far
    stops,      \* deaths so far
    events,     \* how often TxAppended was published for a call
    installed,  \* history: <<call, file>> renamed into place and not rolled back
    excused,    \* history: calls whose half-done work the code cannot undo
    before      \* history: the calls accepted before the shutdown

memory == <<cache, multi, loaded, loader, found>>
files == <<disk, sidecar, installed>>
books == <<ledger, ino, handle>>
ending == <<outcome, before>>
vars == <<pc, reply, queue, cmd, memory, books, files, up, ending, faults, stops,
          events, excused>>

Idle == [op |-> "idle", calls |-> <<>>, i |-> 0, old |-> <<>>, bad |-> {}]
Missing == [tx |-> NoCall, ident |-> NoIdent, named |-> FALSE, dur |-> "durable"]
Cached == [tx : Calls, ident : Idents \cup {NoIdent}, named : BOOLEAN,
           dur : {"durable", "uncertain"}]
Entry == [call : Calls, part : {1, 2}]
Semantic(c) == Kind[c] # "append"
Parts(c) == IF Kind[c] = "multi" THEN 2 ELSE 1
Entries(s) == {s[k] : k \in DOMAIN s}
EntriesOf(c) == [k \in 1..Parts(c) |-> [call |-> c, part |-> k]]

Init ==
    /\ pc = [c \in Calls |-> "new"]
    /\ reply = [c \in Calls |-> "none"]
    /\ queue = <<>> /\ cmd = Idle
    /\ cache = [r \in Requests |-> Missing] /\ multi = [r \in Requests |-> Missing]
    /\ loaded = FALSE /\ loader = NoCall /\ found = {}
    /\ ledger = [n \in 1..MaxInode |-> [log |-> <<>>, synced |-> 0]]
    /\ ino = 1 /\ handle = 0
    /\ disk = [f \in Files |-> IF f \in Existing THEN f ELSE NoCall]
    /\ sidecar = {} /\ installed = {}
    /\ up = TRUE /\ outcome = "none" /\ before = {}
    /\ faults = 0 /\ stops = 0
    /\ events = [c \in Calls |-> 0] /\ excused = {}

(***************************************************************************)
(* The calls.                                                              *)
(***************************************************************************)
\* A dropped call takes no answer; append_tx still has to cache its own.
Answer(cs, v) ==
    /\ pc' = [c \in Calls |-> IF c \in cs /\ pc[c] # "dropped"
                              THEN IF v[c] = "ok" /\ Kind[c] = "append" /\ pc[c] = "waiting"
                                   THEN "answered" ELSE "done"
                              ELSE pc[c]]
    /\ reply' = [c \in Calls |-> IF c \in cs /\ pc[c] # "dropped" THEN v[c] ELSE reply[c]]

AnswerOne(c, v) == Answer({c}, [d \in {c} |-> v])

Enqueue(c, op) == queue' = Append(queue, [op |-> op, call |-> c])

\* guard_node_paths, reject_supplied_replay: refused before anything is sent.
Refuse(c) ==
    /\ pc[c] = "new" /\ c \in Rejected
    /\ AnswerOne(c, "failed")
    /\ UNCHANGED <<queue, cmd, memory, books, files, up, ending, faults, stops, events,
                   excused>>

\* recover_transaction_history: the first semantic call of a daemon reads the
\* ledger behind a barrier of the queue, holding the lock of replay_roots.
StartRecovery(c) ==
    /\ pc[c] = "new" /\ c \notin Rejected /\ Semantic(c) /\ up
    /\ ~loaded /\ loader = NoCall
    /\ loader' = c
    /\ pc' = [pc EXCEPT ![c] = "scanning"]
    /\ Enqueue(c, "barrier")
    /\ UNCHANGED <<reply, cmd, cache, multi, loaded, found, books, files, up, ending,
                   faults, stops, events, excused>>

\* Mutant: only what carries a mutation id is taken from the journal.
RecoveredNamed(r) == {e.call : e \in {x \in found : ReqOf[x.call] = r /\ Named[x.call]}}

\* The whole batch is validated against the cache before any of it is published.
Recovered(r) == {e.call : e \in {x \in found : ReqOf[x.call] = r}}
ReplayOf(c) == [tx |-> c, ident |-> IdentOf[c], named |-> Named[c], dur |-> "durable"]
SameReplay(a, b) == a.tx = b.tx /\ a.ident = b.ident /\ a.named = b.named

HistoryAgrees ==
    \A r \in Requests :
        /\ \A c, d \in Recovered(r) : SameReplay(ReplayOf(c), ReplayOf(d))
        /\ \A c \in Recovered(r) : cache[r] # Missing => SameReplay(cache[r], ReplayOf(c))

MergeHistory(c) ==
    /\ pc[c] = "scanned"
    /\ loader' = NoCall /\ found' = {}
    /\ \/ /\ HistoryAgrees
          /\ cache' = [r \in Requests |->
                          IF cache[r] = Missing /\ Recovered(r) # {}
                          THEN ReplayOf(CHOOSE d \in Recovered(r) : TRUE) ELSE cache[r]]
          /\ loaded' = TRUE
          /\ pc' = [pc EXCEPT ![c] = "new"]
          /\ UNCHANGED reply
       \/ /\ ~HistoryAgrees
          /\ AnswerOne(c, "failed")
          /\ UNCHANGED <<cache, loaded>>
    /\ UNCHANGED <<queue, cmd, multi, books, files, up, ending, faults, stops, events,
                   excused>>

\* Mutants: an uncertain transaction runs again; it is acknowledged at once.
LookupSingleReruns(c) ==
    LET m == cache[ReqOf[c]] IN
    IF m = Missing \/ m.dur = "uncertain" THEN "miss"
    ELSE IF m.ident # IdentOf[c] \/ (Named[c] /\ ~m.named) THEN "conflict" ELSE "ok"
LookupSingleTrusts(c) ==
    LET m == cache[ReqOf[c]] IN
    IF m = Missing THEN "miss"
    ELSE IF m.ident # IdentOf[c] \/ (Named[c] /\ ~m.named) THEN "conflict" ELSE "ok"

\* cached_mutation_from_map and cached_transaction_from_map.
LookupSingle(c) ==
    LET m == cache[ReqOf[c]] IN
    IF m = Missing THEN "miss"
    ELSE IF m.ident # IdentOf[c] \/ (Named[c] /\ ~m.named) THEN "conflict"
    ELSE IF m.dur = "uncertain" THEN "pending" ELSE "ok"

\* cached_multi_from_map.
LookupMulti(c) ==
    LET m == multi[ReqOf[c]] IN
    IF m = Missing THEN "miss"
    ELSE IF m.ident # IdentOf[c] THEN "conflict"
    ELSE IF m.dur = "uncertain" THEN "pending" ELSE "ok"

\* append_tx looks at the request id alone.
LookupAppend(c) ==
    LET m == cache[ReqOf[c]] IN
    IF m = Missing THEN "miss" ELSE IF m.dur = "uncertain" THEN "conflict" ELSE "ok"

Lookup(c) == CASE Kind[c] = "append" -> LookupAppend(c)
               [] Kind[c] = "multi" -> LookupMulti(c)
               [] OTHER -> LookupSingle(c)

\* The fast path of every call: an answer from the cache, or a command.  A
\* pending sync is only acknowledged by the writer, so recover_mutation asks it.
Admit(c) ==
    /\ pc[c] = "new" /\ c \notin Rejected
    /\ Semantic(c) => loaded
    /\ \/ /\ Lookup(c) \in {"ok", "conflict"} /\ Kind[c] # "recover"
          /\ AnswerOne(c, Lookup(c))
          /\ UNCHANGED queue
       \/ /\ Kind[c] = "recover" /\ Lookup(c) \in {"miss", "conflict"}
          /\ AnswerOne(c, IF Lookup(c) = "miss" THEN "absent" ELSE "conflict")
          /\ UNCHANGED queue
       \/ /\ IF Kind[c] = "recover" THEN Lookup(c) \in {"ok", "pending"}
             ELSE Lookup(c) \in {"miss", "pending"}
          /\ up
          /\ pc' = [pc EXCEPT ![c] = "waiting"]
          /\ Enqueue(c, Kind[c])
          /\ UNCHANGED reply
    /\ UNCHANGED <<cmd, memory, books, files, up, ending, faults, stops, events, excused>>

\* The tail of append_tx: the caller, not the writer, fills the cache.
CacheAppend(c) ==
    /\ pc[c] = "answered"
    /\ cache' = [cache EXCEPT ![ReqOf[c]] =
                    [tx |-> c, ident |-> NoIdent, named |-> FALSE, dur |-> "durable"]]
    /\ pc' = [pc EXCEPT ![c] = "done"]
    /\ UNCHANGED <<reply, queue, cmd, multi, loaded, loader, found, books, files, up,
                   ending, faults, stops, events, excused>>

\* The connection closes and the request's future is dropped at an await.
Drop(c) ==
    /\ pc[c] \in {"scanning", "scanned", "waiting", "answered"}
    /\ pc' = [pc EXCEPT ![c] = "dropped"]
    /\ loader' = IF loader = c THEN NoCall ELSE loader
    /\ found' = IF loader = c THEN {} ELSE found
    /\ UNCHANGED <<reply, queue, cmd, cache, multi, loaded, books, files, up, ending,
                   faults, stops, events, excused>>

\* The writer task is gone: sending fails.
WriterGone(c) ==
    /\ pc[c] = "new" /\ c \notin Rejected /\ ~up /\ outcome # "none"
    /\ AnswerOne(c, "failed")
    /\ UNCHANGED <<queue, cmd, memory, books, files, up, ending, faults, stops, events,
                   excused>>

(***************************************************************************)
(* The writer task: taking a command.                                      *)
(***************************************************************************)
Head1 == queue[1]
\* Mutant: counts an entry that is not written yet.
SyncedPast(n) == [ledger EXCEPT ![n].synced = Len(ledger[n].log) + 1]
Synced(n) == [ledger EXCEPT ![n].synced = Len(ledger[n].log)]
Ready(op) == up /\ cmd = Idle /\ queue # <<>> /\ Head1.op = op

\* The barrier of recover_transaction_history: durable_replay_records reads what
\* the path names and syncs it, because an earlier daemon may have left it unsynced.
\* Only single transactions carry replay metadata.
TakeBarrier ==
    /\ Ready("barrier")
    /\ queue' = Tail(queue)
    /\ IF loader = Head1.call
       THEN /\ found' = {e \in Entries(ledger[ino].log) : Kind[e.call] = "single"}
            /\ pc' = [pc EXCEPT ![loader] = "scanned"]
       ELSE UNCHANGED <<found, pc>>
    /\ ledger' = Synced(ino)
    /\ UNCHANGED <<reply, cmd, cache, multi, loaded, loader, ino, handle, files, up, ending,
                   faults, stops, events, excused>>

\* Every append_tx command at the head of the queue joins one batch, which looks once
\* whether its handle is still the file of the path.
WholeBatch(n) ==
    /\ \A k \in 1..n : queue[k].op = "append"
    /\ n < Len(queue) => queue[n + 1].op # "append"

TakeBatch ==
    /\ Ready("append")
    /\ \E n \in 1..Len(queue) :
          /\ WholeBatch(n)
          /\ cmd' = [op |-> "batch", calls |-> [k \in 1..n |-> queue[k].call],
                     i |-> 1, old |-> <<>>, bad |-> {}]
          /\ queue' = SubSeq(queue, n + 1, Len(queue))
    /\ handle' = IF handle = ino THEN handle ELSE 0
    /\ UNCHANGED <<pc, reply, memory, ledger, ino, files, up, ending, faults, stops, events,
                   excused>>

\* retry_single_transaction decides whether a transaction runs: an answered request
\* id does not, a committed one whose sync failed only syncs again.
TakeSingle ==
    /\ Ready("single")
    /\ LET c == Head1.call IN
       /\ Lookup(c) # "pending"
       /\ queue' = Tail(queue)
       /\ IF Lookup(c) = "miss"
          THEN /\ cmd' = [op |-> "stage", calls |-> <<c>>, i |-> 1, old |-> <<>>, bad |-> {}]
               /\ UNCHANGED <<pc, reply>>
          ELSE AnswerOne(c, Lookup(c)) /\ UNCHANGED cmd
    /\ UNCHANGED <<memory, books, files, up, ending, faults, stops, events, excused>>

\* A group also refuses a request id that was used outside groups.
TakeMulti ==
    /\ Ready("multi")
    /\ LET c == Head1.call IN
       /\ Lookup(c) # "pending"
       /\ queue' = Tail(queue)
       /\ IF Lookup(c) = "miss" /\ cache[ReqOf[c]] = Missing
          THEN /\ cmd' = [op |-> "stage", calls |-> <<c>>, i |-> 1, old |-> <<>>, bad |-> {}]
               /\ UNCHANGED <<pc, reply>>
          ELSE /\ AnswerOne(c, IF Lookup(c) = "miss" THEN "failed" ELSE Lookup(c))
               /\ UNCHANGED cmd
    /\ UNCHANGED <<memory, books, files, up, ending, faults, stops, events, excused>>

TakeRecover ==
    /\ Ready("recover")
    /\ LET c == Head1.call IN
       /\ Lookup(c) # "pending"
       /\ queue' = Tail(queue)
       /\ AnswerOne(c, IF Lookup(c) = "miss" THEN "absent" ELSE Lookup(c))
    /\ UNCHANGED <<cmd, memory, books, files, up, ending, faults, stops, events, excused>>

Fault == faults < MaxFaults /\ faults' = faults + 1

\* Mutant: any open handle will do.
RetainedAny(t) == handle # 0

\* sync_committed_tx: the retained handle must still hold the entry.
Retained(t) == handle # 0 /\ [call |-> t, part |-> 1] \in Entries(ledger[handle].log)

OfEntry(m) == [m EXCEPT !.ident = EntryIdent[m.ident], !.named = FALSE, !.dur = "durable"]

\* Mutant: the entries of a group are known before it is durable.
GroupKnownEarly(r, m) == [cache EXCEPT ![r] = OfEntry(m)]

\* cache_durable_multi: the entries of a durable group (they carry its request id) are
\* known to single transactions as well, under the identity one of those would have.
GroupKnown(r, m) == IF m.dur = "durable" THEN [cache EXCEPT ![r] = OfEntry(m)] ELSE cache

\* A pending request id met again, by whichever command: the sync is retried on the
\* retained descriptor, and only then is the entry announced and acknowledged.
RetrySync ==
    /\ up /\ cmd = Idle /\ queue # <<>> /\ Head1.op \in {"single", "multi", "recover"}
    /\ LET c == Head1.call
           m == IF Kind[c] = "multi" THEN multi[ReqOf[c]] ELSE cache[ReqOf[c]] IN
       /\ Lookup(c) = "pending"
       /\ queue' = Tail(queue)
       /\ \/ /\ Retained(m.tx)
             /\ ledger' = Synced(handle)
             /\ IF Kind[c] = "multi"
                THEN /\ multi' = [multi EXCEPT ![ReqOf[c]].dur = "durable"]
                     /\ cache' = GroupKnown(ReqOf[c], [m EXCEPT !.dur = "durable"])
                ELSE /\ cache' = [cache EXCEPT ![ReqOf[c]].dur = "durable"]
                     /\ UNCHANGED multi
             /\ events' = [events EXCEPT ![m.tx] = @ + 1]
             /\ AnswerOne(c, "ok")
             /\ UNCHANGED faults
          \/ /\ IF Retained(m.tx) THEN Fault ELSE UNCHANGED faults
             /\ AnswerOne(c, "uncertain")
             /\ UNCHANGED <<ledger, cache, multi, events>>
    /\ UNCHANGED <<cmd, loaded, loader, found, ino, handle, files, up, ending, stops, excused>>

(***************************************************************************)
(* The writer task: a transaction, transaction_multi_locked_inner.         *)
(***************************************************************************)
Cur == cmd.calls[1]
Target == Rewrites[Cur][cmd.i]
Tmp(f) == <<"tmp", f, ReqOf[Cur]>>
Bak(f) == <<"bak", f, ReqOf[Cur]>>
Running(op) == up /\ cmd.op = op
Last == Len(Rewrites[Cur])

\* The path of every failure before a rename: what was staged goes, the call fails.
\* n staged files, m of them with a backup.
CleanUp(n, m) ==
    sidecar' = sidecar \ ({Tmp(Rewrites[Cur][k]) : k \in 1..n}
                          \cup {Bak(Rewrites[Cur][k]) : k \in 1..m})

Abort(n, m) == CleanUp(n, m) /\ AnswerOne(Cur, "failed") /\ cmd' = Idle

\* create_new refuses a staged file that an interrupted attempt left behind.  A
\* refused lock, directory or transform fails here too.
Stage ==
    /\ Running("stage")
    /\ \/ /\ cmd.i > Last
          /\ cmd' = [cmd EXCEPT !.op = "backup", !.i = 1]
          /\ UNCHANGED <<sidecar, pc, reply, faults>>
       \/ /\ cmd.i <= Last /\ Tmp(Target) \notin sidecar
          /\ sidecar' = sidecar \cup {Tmp(Target)}
          /\ cmd' = [cmd EXCEPT !.i = @ + 1]
          /\ UNCHANGED <<pc, reply, faults>>
       \/ /\ cmd.i <= Last
          /\ \/ Tmp(Target) \in sidecar /\ UNCHANGED faults
             \/ Fault
          /\ Abort(cmd.i - 1, 0)
    /\ UNCHANGED <<queue, memory, books, disk, installed, up, ending, stops, events, excused>>

Backup ==
    /\ Running("backup")
    /\ \/ /\ cmd.i > Last
          /\ cmd' = [cmd EXCEPT !.op = "rename", !.i = 1]
          /\ UNCHANGED <<sidecar, pc, reply, faults>>
       \/ /\ cmd.i <= Last
          /\ disk[Target] = NoCall \/ Bak(Target) \notin sidecar
          /\ sidecar' = IF disk[Target] = NoCall THEN sidecar ELSE sidecar \cup {Bak(Target)}
          /\ cmd' = [cmd EXCEPT !.i = @ + 1, !.old = Append(@, disk[Target])]
          /\ UNCHANGED <<pc, reply, faults>>
       \/ /\ cmd.i <= Last /\ disk[Target] # NoCall
          /\ \/ Bak(Target) \in sidecar /\ UNCHANGED faults
             \/ Fault
          /\ Abort(Last, cmd.i - 1)
    /\ UNCHANGED <<queue, memory, books, disk, installed, up, ending, stops, events, excused>>

Rename ==
    /\ Running("rename")
    /\ \/ /\ cmd.i > Last
          /\ cmd' = [cmd EXCEPT !.op = "append", !.i = 1]
          /\ UNCHANGED <<files, faults>>
       \/ /\ cmd.i <= Last
          /\ disk' = [disk EXCEPT ![Target] = Cur]
          /\ sidecar' = sidecar \ {Tmp(Target)}
          /\ installed' = installed \cup {<<Cur, Target>>}
          /\ cmd' = [cmd EXCEPT !.i = @ + 1]
          /\ UNCHANGED faults
       \/ /\ cmd.i <= Last /\ Fault
          /\ cmd' = [cmd EXCEPT !.op = "undo", !.i = @ - 1]
          /\ UNCHANGED files
    /\ UNCHANGED <<pc, reply, queue, memory, books, up, ending, stops, events, excused>>

\* Mutant: the first rename is not undone.
AllButOneUndone == cmd.i <= 1
AllUndone == cmd.i = 0

\* rollback_renamed_rewrites, in reverse order: a backup is renamed back, a new file
\* removed.  A restore that fails is only logged, and the backup is removed after it.
Undo ==
    /\ Running("undo")
    /\ \/ /\ AllUndone
          /\ Abort(Last, Last)
          /\ UNCHANGED <<disk, installed, faults, excused>>
       \/ /\ ~AllUndone
          /\ disk' = [disk EXCEPT ![Target] = cmd.old[cmd.i]]
          /\ sidecar' = sidecar \ {Bak(Target)}
          /\ installed' = installed \ {<<Cur, Target>>}
          /\ cmd' = [cmd EXCEPT !.i = @ - 1]
          /\ UNCHANGED <<pc, reply, faults, excused>>
       \/ /\ ~AllUndone /\ Fault
          /\ excused' = excused \cup {Cur}
          /\ cmd' = [cmd EXCEPT !.i = @ - 1]
          /\ UNCHANGED <<pc, reply, files>>
    /\ UNCHANGED <<queue, memory, books, up, ending, stops, events>>

\* tx_handles_detached_from_paths drops a handle the path no longer names, and a
\* missing handle is opened by path: either way the inode of the path is written.
Written(n, s) == [ledger EXCEPT ![n].log = @ \o s]

\* append_txs_inner writes the entries one after the other; the ones in front of a
\* failure stay, although the files are rolled back.
AppendEntries ==
    /\ Running("append")
    /\ handle' = ino
    /\ \/ /\ ledger' = Written(ino, EntriesOf(Cur))
          /\ cmd' = [cmd EXCEPT !.op = "sync"]
          /\ UNCHANGED <<faults, excused>>
       \/ \E n \in 0..(Parts(Cur) - 1) :
             /\ Fault
             /\ ledger' = Written(ino, SubSeq(EntriesOf(Cur), 1, n))
             /\ excused' = IF n > 0 THEN excused \cup {Cur} ELSE excused
             /\ cmd' = [cmd EXCEPT !.op = "undo", !.i = Last]
    /\ UNCHANGED <<pc, reply, queue, memory, ino, files, up, ending, stops, events>>

\* An append that may be durable is not rolled back when its sync fails.
Sync ==
    /\ Running("sync")
    /\ \/ /\ ledger' = Synced(handle)
          /\ cmd' = [cmd EXCEPT !.op = "durable"]
          /\ UNCHANGED faults
       \/ /\ Fault
          /\ cmd' = [cmd EXCEPT !.op = "uncertain"]
          /\ UNCHANGED ledger
    /\ UNCHANGED <<pc, reply, queue, memory, ino, handle, files, up, ending, stops, events,
                   excused>>

\* cleanup_committed_backups, then finish_single_transaction or cache_durable_multi.
Finish ==
    /\ Running("durable") \/ Running("uncertain")
    /\ LET c == Cur
           m == [tx |-> c, ident |-> IdentOf[c], named |-> Named[c], dur |-> cmd.op] IN
       /\ sidecar' = sidecar \ {Bak(Rewrites[c][k]) : k \in 1..Last}
       /\ IF Kind[c] = "multi"
          THEN /\ multi' = [multi EXCEPT ![ReqOf[c]] = m]
               /\ cache' = GroupKnown(ReqOf[c], m)
          ELSE /\ cache' = [cache EXCEPT ![ReqOf[c]] = m]
               /\ UNCHANGED multi
       /\ events' = IF cmd.op = "durable" THEN [events EXCEPT ![c] = @ + 1] ELSE events
       /\ AnswerOne(c, IF cmd.op = "durable" THEN "ok" ELSE "uncertain")
       /\ cmd' = Idle
    /\ UNCHANGED <<queue, loaded, loader, found, books, disk, installed, up, ending, faults,
                   stops, excused>>

(***************************************************************************)
(* The writer task: a batch of append_tx, process_tx_batch.                *)
(***************************************************************************)
BatchAppend ==
    /\ Running("batch") /\ cmd.i <= Len(cmd.calls)
    /\ handle' = IF handle = 0 THEN ino ELSE handle
    /\ LET c == cmd.calls[cmd.i] IN
       \/ /\ ledger' = Written(handle', EntriesOf(c))
          /\ cmd' = [cmd EXCEPT !.i = @ + 1]
          /\ UNCHANGED faults
       \/ /\ Fault
          /\ cmd' = [cmd EXCEPT !.i = @ + 1, !.bad = @ \cup {c}]
          /\ UNCHANGED ledger
    /\ UNCHANGED <<pc, reply, queue, memory, ino, files, up, ending, stops, events, excused>>

\* One sync for the batch; when it fails, every append of the batch is reported as
\* failed, although it may be durable.
BatchSync ==
    /\ Running("batch") /\ cmd.i > Len(cmd.calls)
    /\ LET all == Entries(cmd.calls) IN
       \/ /\ ledger' = IF all = cmd.bad THEN ledger ELSE Synced(handle)
          /\ events' = [c \in Calls |-> IF c \in all \ cmd.bad THEN events[c] + 1
                                        ELSE events[c]]
          /\ Answer(all, [c \in all |-> IF c \in cmd.bad THEN "failed" ELSE "ok"])
          /\ UNCHANGED faults
       \/ /\ all # cmd.bad /\ Fault
          /\ Answer(all, [c \in all |-> "failed"])
          /\ UNCHANGED <<ledger, events>>
    /\ cmd' = Idle
    /\ UNCHANGED <<queue, memory, ino, handle, files, up, ending, stops, excused>>

(***************************************************************************)
(* Shutdown, deaths, and what happens outside.                             *)
(***************************************************************************)
\* Mutant: the shutdown overtakes the queue.
AskShutdownFirst ==
    /\ Shutdowns /\ up /\ outcome = "none" /\ "shutdown" \notin {queue[k].op : k \in DOMAIN queue}
    /\ queue' = <<[op |-> "shutdown", call |-> NoCall]>> \o queue
    /\ before' = {c \in Calls : pc[c] = "waiting"}
    /\ UNCHANGED <<pc, reply, cmd, memory, books, files, up, outcome, faults, stops, events,
                   excused>>

\* shutdown_within queues behind what was accepted.
AskShutdown ==
    /\ Shutdowns /\ up /\ outcome = "none" /\ "shutdown" \notin {queue[k].op : k \in DOMAIN queue}
    /\ queue' = Append(queue, [op |-> "shutdown", call |-> NoCall])
    /\ before' = {c \in Calls : pc[c] = "waiting"}
    /\ UNCHANGED <<pc, reply, cmd, memory, books, files, up, outcome, faults, stops, events,
                   excused>>

\* Mutant: nobody behind the shutdown is told.
BehindForgotten == {}
Behind == {queue[k].call : k \in 2..Len(queue)}

\* The commands behind it are dropped with their replies.
TakeShutdown ==
    /\ Ready("shutdown")
    /\ up' = FALSE /\ outcome' = "clean"
    /\ handle' = 0
    /\ queue' = <<>>
    /\ Answer(Behind, [c \in Behind |-> "failed"])
    /\ loader' = IF loader \in Behind THEN NoCall ELSE loader
    /\ UNCHANGED <<cmd, cache, multi, loaded, found, ledger, ino, files, before, faults,
                   stops, events, excused>>

\* The budget is over first: the writer goes on, its work counts as unproven.
ShutdownTimesOut ==
    /\ outcome = "none" /\ \E k \in DOMAIN queue : queue[k].op = "shutdown"
    /\ outcome' = "timed_out"
    /\ UNCHANGED <<pc, reply, queue, cmd, memory, books, files, up, before, faults, stops,
                   events, excused>>

\* The daemon dies: what it had in memory is gone, and requests with it.  A machine
\* that goes down loses entries that were never synced as well.  Renames are taken to
\* be durable in the order they were made.
DaemonDies ==
    /\ stops < MaxStops
    /\ stops' = stops + 1
    /\ pc' = [c \in Calls |-> IF pc[c] \in {"new", "done"} THEN pc[c] ELSE "dropped"]
    /\ queue' = <<>> /\ cmd' = Idle /\ handle' = 0 /\ up' = TRUE /\ outcome' = "none"
    /\ before' = {}
    /\ cache' = [r \in Requests |-> Missing] /\ multi' = [r \in Requests |-> Missing]
    /\ loaded' = FALSE /\ loader' = NoCall /\ found' = {}
    /\ \E n \in ledger[ino].synced..Len(ledger[ino].log) :
          LET lost == {e.call : e \in Entries(SubSeq(ledger[ino].log, n + 1,
                                                     Len(ledger[ino].log)))} IN
          /\ ledger' = [ledger EXCEPT ![ino].log = SubSeq(@, 1, n)]
          /\ excused' = excused \cup lost \cup
                (IF cmd.op \in {"rename", "append", "undo"} THEN {Cur} ELSE {})
    /\ UNCHANGED <<reply, ino, files, faults, events>>

\* The path is given another file, as git does when it checks out: it has the entries
\* of the old one, or none of them.
Replace ==
    /\ ino < MaxInode
    /\ ino' = ino + 1
    /\ \E n \in {0, Len(ledger[ino].log)} :
          /\ ledger' = [ledger EXCEPT ![ino + 1] = [log |-> SubSeq(ledger[ino].log, 1, n),
                                                    synced |-> n]]
          /\ excused' = excused \cup {ledger[ino].log[k].call : k \in (n + 1)..Len(ledger[ino].log)}
    /\ UNCHANGED <<pc, reply, queue, cmd, memory, handle, files, up, ending, faults, stops,
                   events>>

Transact == Stage \/ Backup \/ Rename \/ Undo \/ AppendEntries \/ Sync \/ Finish
Take == \/ TakeBarrier \/ TakeBatch \/ TakeSingle \/ TakeMulti \/ TakeRecover \/ RetrySync
        \/ TakeShutdown
WriterLoop == Take \/ Transact \/ BatchAppend \/ BatchSync
CallSteps(c) == StartRecovery(c) \/ MergeHistory(c) \/ Admit(c) \/ CacheAppend(c) \/ WriterGone(c)

Next ==
    \/ \E c \in Calls : CallSteps(c) \/ Refuse(c) \/ Drop(c)
    \/ WriterLoop
    \/ AskShutdown \/ ShutdownTimesOut \/ DaemonDies \/ Replace

Spec == Init /\ [][Next]_vars

\* The writer task and the tasks of the requests are polled.
FairSpec == Spec /\ WF_vars(WriterLoop) /\ \A c \in Calls : WF_vars(CallSteps(c))

\* Every variable has its type, and no ledger file has more synced entries than entries.
TypeOK ==
    /\ pc \in [Calls -> {"new", "scanning", "scanned", "waiting", "answered", "done",
                         "dropped"}]
    /\ reply \in [Calls -> {"none", "ok", "conflict", "uncertain", "failed", "absent"}]
    /\ queue \in Seq([op : Kinds \cup {"barrier"}, call : Calls]
                     \cup {[op |-> "shutdown", call |-> NoCall]})
    /\ cmd.op \in {"idle", "stage", "backup", "rename", "undo", "append", "sync", "durable",
                   "uncertain", "batch"}
    /\ cache \in [Requests -> Cached \cup {Missing}]
    /\ multi \in [Requests -> Cached \cup {Missing}]
    /\ loaded \in BOOLEAN /\ loader \in Calls \cup {NoCall} /\ found \subseteq Entry
    /\ ledger \in [1..MaxInode -> [log : Seq(Entry), synced : Nat]]
    /\ \A n \in 1..MaxInode : ledger[n].synced <= Len(ledger[n].log)
    /\ ino \in 1..MaxInode /\ handle \in 0..MaxInode
    /\ disk \in [Files -> Calls \cup Files \cup {NoCall}]
    /\ sidecar \subseteq {"tmp", "bak"} \X Files \X Requests
    /\ up \in BOOLEAN /\ outcome \in {"none", "clean", "timed_out"}
    /\ installed \subseteq Calls \X Files /\ excused \subseteq Calls /\ before \subseteq Calls

\* Single transactions take effect once, however often their request id is sent, by
\* whichever calls, across dropped requests, failed syncs and deaths of the daemon.
IsSingle(n, k) == Kind[ledger[n].log[k].call] = "single"
ReqAt(n, k) == ReqOf[ledger[n].log[k].call]
AppliedOnce ==
    \A j, k \in DOMAIN ledger[ino].log :
        IsSingle(ino, j) /\ IsSingle(ino, k) /\ ReqAt(ino, j) = ReqAt(ino, k) => j = k

\* An acknowledged call's entry is synced, in the file it was appended to.
DurableEntry(r) ==
    \E n \in 1..MaxInode : \E k \in 1..ledger[n].synced :
        ReqOf[ledger[n].log[k].call] = r
AckDurable == \A c \in Calls : reply[c] = "ok" => DurableEntry(ReqOf[c])

\* A node file never shows a change that the ledger does not tell of, and the ledger
\* tells of no change that was rolled back.
NotInProgress(c) == cmd = Idle \/ c \notin Entries(cmd.calls)
Journalled(c) == [call |-> c, part |-> 1] \in Entries(ledger[ino].log)
AllOrNothing ==
    \A c \in Calls : NotInProgress(c) /\ c \notin excused =>
        /\ (\E f \in Files : disk[f] = c) => Journalled(c)
        /\ Journalled(c) => \A k \in DOMAIN Rewrites[c] : <<c, Rewrites[c][k]>> \in installed

\* Subscribers hear of an entry at most once, and of none that is not durable.
EventsHonest ==
    \A c \in Calls : /\ events[c] <= 1
                     /\ events[c] = 1 => DurableEntry(ReqOf[c])

\* A shutdown that is reported clean threw away nothing that was accepted before it: the
\* writer takes it with no such command in its hands or in its queue.
CleanIsComplete ==
    [][outcome' = "clean" /\ outcome # "clean" =>
         cmd = Idle /\ \A k \in DOMAIN queue : queue[k].call \notin before]_vars

\* Every accepted call is answered, or its request is gone.
CallsEnd ==
    \A c \in Calls : pc[c] \in {"scanning", "scanned", "waiting", "answered"}
                     ~> pc[c] \in {"new", "done", "dropped"}

\* The refinement mapping: the effect of a single transaction is its ledger entry, in
\* the file the path names now or in one it named before.  A group under its request id
\* serves an unnamed one whose entry and rewrites are the group's.
Singles == {c \in Calls : Kind[c] \in {"single", "recover"}}
Groups == {c \in Calls : Kind[c] = "multi"}
Serves(c) == {g \in Groups : /\ ~Named[c] /\ ReqOf[g] = ReqOf[c]
                             /\ EntryIdent[IdentOf[g]] = IdentOf[c]}
DurableCall(c) ==
    \E n \in 1..MaxInode : \E k \in 1..ledger[n].synced : ledger[n].log[k].call = c
TellsOf(n) == {e.call : e \in {x \in Entries(ledger[n].log) : Kind[x.call] = "single"}}
Atomic == INSTANCE AtomicLedger WITH
    Calls <- Singles,
    Serving <- [c \in Singles |-> Serves(c)],
    current <- TellsOf(ino),
    past <- (UNION {TellsOf(n) : n \in 1..(ino - 1)}) \ TellsOf(ino),
    grouped <- {g \in Groups : DurableCall(g)},
    answer <- [c \in Singles |-> CASE reply[c] = "none" -> "none"
                                   [] reply[c] = "ok" -> "ok"
                                   [] OTHER -> "declined"]

\* The writer behaves towards the callers of single transactions like a ledger that
\* applies each request at one moment and acknowledges it only afterwards, or for a
\* durable group that says the same: queueing, dropped requests, retried syncs, restarts
\* and replaced files do not show.
ImplementsAtomic == Atomic!Spec

(***************************************************************************)
(* The inductive invariant, part by part (see WriterProofs).               *)
(***************************************************************************)
Command == [op : Kinds \cup {"barrier"}, call : Calls] \cup [op : {"shutdown"}, call : {NoCall}]
BeforeAppend == {"stage", "backup", "rename", "append"}
AfterAppend == {"sync", "durable", "uncertain"}
Ops == {"idle", "batch", "undo"} \cup BeforeAppend \cup AfterAppend

\* The ledger files: one the path has not named yet holds nothing that is synced.
BooksOK ==
    /\ ledger \in [1..MaxInode -> [log : Seq(Entry), synced : Nat]]
    /\ \A n \in 1..MaxInode : ledger[n].synced <= Len(ledger[n].log)
    /\ ino \in 1..MaxInode /\ handle \in 0..ino
    /\ \A n \in (ino + 1)..MaxInode : ledger[n].synced = 0

\* A command is in the queue or in the writer's hands, once, for a call that waits for
\* it or has given up.
CallsOK ==
    /\ pc \in [Calls -> {"new", "scanning", "scanned", "waiting", "answered", "done", "dropped"}]
    /\ reply \in [Calls -> {"none", "ok", "conflict", "uncertain", "failed", "absent"}]
    /\ \A c \in Calls : pc[c] \in {"new", "scanning", "scanned", "waiting"} => reply[c] = "none"
Expects(q) ==
    /\ q.op \in Kinds => Kind[q.call] = q.op /\ pc[q.call] \in {"waiting", "dropped"}
    /\ q.op = "barrier" => pc[q.call] \in {"scanning", "dropped"}
QueueOK ==
    /\ queue \in Seq(Command)
    /\ \A k \in DOMAIN queue : Expects(queue[k])
    /\ \A j, k \in DOMAIN queue : queue[j].call = queue[k].call => j = k
Queued(c) == \E k \in DOMAIN queue : queue[k].call = c
InHand(c) == cmd.op # "idle" /\ \E k \in DOMAIN cmd.calls : cmd.calls[k] = c
HandOK ==
    /\ cmd = [op |-> cmd.op, calls |-> cmd.calls, i |-> cmd.i, old |-> cmd.old, bad |-> cmd.bad]
    /\ cmd.op \in Ops /\ cmd.calls \in Seq(Calls) /\ cmd.i \in Int
    /\ \A c \in Calls : InHand(c) => ~Queued(c) /\ pc[c] \in {"waiting", "dropped"}
    /\ cmd.op = "batch" =>
          cmd.i >= 1 /\ \A k \in DOMAIN cmd.calls : Kind[cmd.calls[k]] = "append"
    /\ cmd.op \notin {"idle", "batch"} => Len(cmd.calls) = 1 /\ Kind[Cur] \in {"single", "multi"}
CommandsOK == CallsOK /\ QueueOK /\ HandOK

ToAppend(c) == cmd.op \in BeforeAppend /\ Cur = c

\* A single transaction that is still to be executed is in no ledger file.
Tells(c) == \E n \in 1..MaxInode : \E k \in DOMAIN ledger[n].log : ledger[n].log[k].call = c
Fresh ==
    \A c \in Calls :
        /\ Kind[c] = "single"
        /\ pc[c] \in {"new", "scanning", "scanned"} \/ Queued(c) \/ ToAppend(c)
        => ~Tells(c)

\* The caches know of every single transaction the ledger tells of, before the writer
\* takes the next one: they were filled from the ledger, and then by each Finish.
CacheTypes ==
    /\ cache \in [Requests -> Cached \cup {Missing}]
    /\ multi \in [Requests -> Cached \cup {Missing}]
    /\ loaded \in BOOLEAN /\ loader \in Calls \cup {NoCall} /\ found \subseteq Entry
LoadFirst ==
    /\ ~loaded => /\ cmd.op \in {"idle", "batch"}
                  /\ \A k \in DOMAIN queue : queue[k].op \in {"append", "barrier", "shutdown"}
    /\ loader # NoCall => ~loaded
LoaderBusy == loader # NoCall => pc[loader] \in {"scanning", "scanned"}
FoundAll ==
    \A c \in Calls : pc[c] = "scanned" =>
        /\ c = loader
        /\ \A k \in DOMAIN ledger[ino].log : IsSingle(ino, k) => ledger[ino].log[k] \in found
CacheComplete ==
    loaded => \A k \in DOMAIN ledger[ino].log : IsSingle(ino, k) =>
        \/ cache[ReqAt(ino, k)] # Missing
        \/ cmd.op \in AfterAppend /\ Cur = ledger[ino].log[k].call
NextIsNew ==
    cmd.op \in BeforeAppend /\ Kind[Cur] = "single" =>
        \A k \in DOMAIN ledger[ino].log : ~(IsSingle(ino, k) /\ ReqAt(ino, k) = ReqOf[Cur])
HistoryKnown == LoadFirst /\ LoaderBusy /\ FoundAll /\ CacheComplete /\ NextIsNew

\* Whatever is taken for durable is.
InHandle(c) ==
    handle # 0 /\ \E k \in DOMAIN ledger[handle].log : ledger[handle].log[k].call = c
CachesDurable ==
    \A r \in Requests :
        /\ cache[r] # Missing =>
              /\ ReqOf[cache[r].tx] = r
              /\ cache[r].dur = "durable" => DurableCall(cache[r].tx)
        /\ multi[r] # Missing =>
              /\ ReqOf[multi[r].tx] = r
              /\ multi[r].dur = "durable" => DurableCall(multi[r].tx)
FoundDurable == \A e \in found : Kind[e.call] = "single" /\ DurableCall(e.call)
HandDurable ==
    /\ cmd.op = "sync" => InHandle(Cur)
    /\ cmd.op = "durable" => DurableCall(Cur)
    /\ cmd.op = "batch" => \A k \in DOMAIN cmd.calls :
          k < cmd.i /\ cmd.calls[k] \notin cmd.bad => InHandle(cmd.calls[k])
RepliesDurable ==
    /\ \A c \in Calls : pc[c] = "answered" => DurableCall(c)
    /\ \A c \in Calls : reply[c] = "ok" => \E d \in Calls : ReqOf[d] = ReqOf[c] /\ DurableCall(d)
DurableKnown == CachesDurable /\ FoundDurable /\ HandDurable /\ RepliesDurable

\* Between any two steps, and whatever dies: no command is lost track of, no transaction
\* that is still to run is in a ledger, the caches cover the ledger the path names, and
\* nothing counts as durable that a crash could take.
WriterInv == BooksOK /\ CommandsOK /\ CacheTypes /\ Fresh /\ HistoryKnown /\ DurableKnown
             /\ AppliedOnce

\* For the refinement: a single transaction is acknowledged for a single transaction, or
\* for a durable group that serves it, and what an earlier ledger file told of as well is
\* synced.
OfSingle(m) == Kind[m.tx] = "single" /\ m.ident = IdentOf[m.tx]
OfGroup(m) == /\ Kind[m.tx] = "multi" /\ m.ident = EntryIdent[IdentOf[m.tx]]
              /\ ~m.named /\ m.dur = "durable"
CachesFromCalls ==
    \A r \in Requests :
        /\ cache[r] # Missing /\ cache[r].ident # NoIdent => OfSingle(cache[r]) \/ OfGroup(cache[r])
        /\ multi[r] # Missing => Kind[multi[r].tx] = "multi" /\ multi[r].ident = IdentOf[multi[r].tx]
SinglesTruthful ==
    \A c \in Singles : reply[c] = "ok" =>
        \/ \E d \in Calls : Kind[d] = "single" /\ ReqOf[d] = ReqOf[c] /\ DurableCall(d)
        \/ \E g \in Serves(c) : DurableCall(g)
CopiesSynced ==
    \A n \in 1..(ino - 1) : \A j \in DOMAIN ledger[n].log : \A k \in DOMAIN ledger[ino].log :
        IsSingle(ino, k) /\ ledger[n].log[j].call = ledger[ino].log[k].call
        => k <= ledger[ino].synced
RefinementInv == CachesFromCalls /\ SinglesTruthful /\ CopiesSynced
(***************************************************************************)
(* The inductive invariant of what a transaction leaves behind: the events *)
(* it published, the node files, and what waits behind a shutdown (see     *)
(* WriterEffects).  It rests on WriterInv.                                 *)
(***************************************************************************)
\* A call whose command is still to be finished; one whose entry is known to the caches
\* with its sync still owed.
Early == {"new", "scanning", "scanned"}
Ahead(c) == pc[c] \in Early \/ Queued(c)
Unfinished(c) == Ahead(c) \/ InHand(c)
Owed(m, c, kind) == m # Missing /\ m.tx = c /\ m.dur = "uncertain" /\ Kind[c] = kind
Uncertain(c) == \E r \in Requests : Owed(cache[r], c, "single") \/ Owed(multi[r], c, "multi")

\* An entry is announced when it becomes durable, which ends the command or the debt.
EventsOnce ==
    /\ events \in [Calls -> {0, 1}]
    /\ \A r \in Requests :
          /\ cache[r].dur = "uncertain" => Kind[cache[r].tx] = "single"
          /\ multi[r].dur = "uncertain" => Kind[multi[r].tx] = "multi"
    /\ \A c \in Calls : Uncertain(c) => ~Unfinished(c)
    /\ \A c \in Calls : events[c] = 1 => DurableCall(c) /\ ~Unfinished(c) /\ ~Uncertain(c)

\* What the shutdown has to wait for is in front of it.
ShutdownLast ==
    /\ \A c \in before : c \in Calls /\ ~(pc[c] \in Early)
    /\ \A j, k \in DOMAIN queue : queue[j].op = "shutdown" /\ j < k => queue[k].call \notin before

\* The node files and the ledger agree about a call that is over or not begun.
Shows(c) == \E f \in Files : disk[f] = c
Agree(c) ==
    /\ Shows(c) => Journalled(c)
    /\ Journalled(c) => \A k \in DOMAIN Rewrites[c] : <<c, Rewrites[c][k]>> \in installed
Untouched == \A c \in Calls : Kind[c] \in {"single", "multi"} /\ Ahead(c) => ~Tells(c) /\ ~Shows(c)
Agreed == \A c \in Calls : ~InHand(c) /\ c \notin excused => Agree(c)

\* The transaction in the writer's hands: how far it is, what it would put back, and that
\* the files show it exactly up to there while the ledger does not tell of it.
Transacts(c) == cmd.op \notin {"idle", "batch"} /\ c = Cur
Progress(c) ==
    LET n == Len(Rewrites[c]) IN
    /\ cmd.old \in Seq(Calls \cup Files \cup {NoCall})
    /\ cmd.op = "stage" => cmd.i \in 1..(n + 1) /\ cmd.old = <<>>
    /\ cmd.op = "backup" => cmd.i \in 1..(n + 1) /\ Len(cmd.old) = cmd.i - 1
    /\ cmd.op = "rename" => cmd.i \in 1..(n + 1) /\ Len(cmd.old) = n
    /\ cmd.op = "append" => Len(cmd.old) = n
    /\ cmd.op = "undo" => cmd.i \in 0..n /\ Len(cmd.old) = n
PutsBack(c) ==
    \A k \in DOMAIN cmd.old : \A d \in Calls : d = cmd.old[k] =>
        /\ d # c /\ Kind[d] \in {"single", "multi"} /\ ~Ahead(d)
        /\ Journalled(d) \/ d \in excused
ShowsUpTo(c, n) == \A f \in Files : disk[f] = c => \E k \in 1..n : f = Rewrites[c][k]
InstalledUpTo(c, n) == \A k \in 1..n : <<c, Rewrites[c][k]>> \in installed
HalfDone(c) ==
    LET n == Len(Rewrites[c]) IN
    /\ cmd.op \in {"stage", "backup"} => ~Tells(c) /\ ~Shows(c)
    /\ c \notin excused =>
          /\ cmd.op \in {"rename", "append", "undo"} => ~Tells(c)
          /\ cmd.op = "rename" => ShowsUpTo(c, cmd.i - 1) /\ InstalledUpTo(c, cmd.i - 1)
          /\ cmd.op = "append" => ShowsUpTo(c, n) /\ InstalledUpTo(c, n)
          /\ cmd.op = "undo" => ShowsUpTo(c, cmd.i)
          /\ cmd.op \in AfterAppend => Journalled(c) /\ InstalledUpTo(c, n)
DiskOK ==
    /\ disk \in [Files -> Calls \cup Files \cup {NoCall}]
    /\ \A c \in Calls : Shows(c) => Kind[c] \in {"single", "multi"}
FilesWhole ==
    /\ DiskOK /\ Untouched /\ Agreed
    /\ \A c \in Calls : Transacts(c) => Progress(c) /\ PutsBack(c) /\ HalfDone(c)

\* Whatever fails or dies in between: an entry is announced once and durable, a shutdown
\* has what was accepted before it in front, and the files show a transaction together
\* with the ledger or not at all.
EffectsInv == TypeOK /\ EventsOnce /\ ShutdownLast /\ FilesWhole
=============================================================================
