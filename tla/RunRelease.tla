----------------------------- MODULE RunRelease -----------------------------
(***************************************************************************)
(* The end of one live run.  Several parties may end it: a worker that     *)
(* finalizes, an operator who cancels or abandons, the timeout sweep, the  *)
(* event drain when the driver reports a terminal event or its stream      *)
(* closes, the watcher of the worker's pid, and the artifactor handlers    *)
(* that resolve a release which had to wait for them.  Whoever removes the *)
(* RunRecord owes the session log one Lifecycle::Release, the tombstone.   *)
(* Source: crates/orgasmic-daemon/src/supervisor.rs, from the insertion of *)
(* the record in acquire_impl to the append of the tombstone, with the     *)
(* handlers of api.rs that call in.                                        *)
(*                                                                         *)
(* Every critical section of the supervisor's `inner` mutex is one action. *)
(* The run id is never reused here: Admission is about that.               *)
(***************************************************************************)
EXTENDS Integers, Sequences

CONSTANTS
    Role,           \* who may call release_one
    Event,          \* the driver events that occur
    Clock,          \* the timeouts the run was acquired with
    Tui,            \* the transport is a tmux pane
    Watched,        \* the driver reported a pid, which is watched
    NeedsFinalize,  \* RunRecord::requires_worker_finalize
    MaxIterations,  \* RunRecord::max_iterations
    Artifactor,     \* artifact handlers submit to and regenerate this run
    Drops,          \* request futures may be dropped
    LogFails,       \* session appends may fail
    MaxEvents,      \* bound: events the driver emits
    MaxRounds       \* bound: artifactor rounds

AllRoles == {"finalize", "cancel", "abandon", "submit", "sweep"}
AllEvents == {"ready", "heartbeat", "pane", "work", "turn", "complete", "fail",
              "fatal"}
AllClocks == {"stall", "max", "idle"}

ASSUME RoleAssumption == Role \subseteq AllRoles
ASSUME EventAssumption == Event \subseteq AllEvents /\ Clock \subseteq AllClocks
ASSUME FlagAssumption ==
    {Tui, Watched, NeedsFinalize, Artifactor, Drops, LogFails} \subseteq BOOLEAN
ASSUME BoundAssumption ==
    /\ MaxIterations \in Nat
    /\ MaxEvents \in Nat
    /\ MaxRounds \in Nat \ {0}

VARIABLES
    rec,        \* the RunRecord; inMap is FALSE once it was removed
    acq,        \* the tail of acquire_impl, after the insert
    queue,      \* events between the driver and the drain
    sent,       \* events emitted so far
    sender,     \* the driver's end of the event stream
    pidDead,    \* the worker's pid is gone
    drain,      \* the event drain task
    watcher,    \* the early-exit watcher task
    rel,        \* each caller of release_one
    due,        \* expired clocks
    moved,      \* last_progress_at changed since the sweep's probe began
    art,        \* the artifactor handler and its checkpoint
    tombs,      \* the tombstones in the session log
    heard,      \* outcomes of the terminal events in the session log
    late        \* history: an event was logged behind a tombstone

vars == <<rec, acq, queue, sent, sender, pidDead, drain, watcher, rel, due, moved,
          art, tombs, heard, late>>

driver == <<queue, sent, sender, pidDead>>
session == <<tombs, heard, late>>

Outcomes == {"completed", "failed", "cancelled", "interrupted"}

\* The rounds count from 1 here, so that 0 is a round nobody declared.
RunRecord ==
    [inMap : BOOLEAN, outcome : {"none", "completed", "failed"},
     explicit : BOOLEAN, termShut : BOOLEAN, pidShut : BOOLEAN, ended : BOOLEAN,
     life : {"idle", "submit", "regenerate"}, cancel : BOOLEAN, pending : BOOLEAN,
     round : 1..MaxRounds, decl : 0..MaxRounds, ready : BOOLEAN, work : BOOLEAN,
     terminal : BOOLEAN, turns : Nat, drain : {"dummy", "real"}]

Tombstone == [outcome : Outcomes, fin : BOOLEAN, by : Role \cup {"drain", "deferred"},
              joined : BOOLEAN, earned : BOOLEAN]

RelPcs == {"idle", "probing", "condemned", "ready", "stopping", "joining",
           "appending"}
ArtPcs == {"idle", "submitting", "regenerating", "accepted", "submitted", "cancelling",
           "draining", "failing", "lost"}

DrainTask ==
    [pc : {"recv", "applied", "appended", "stopping", "ending", "writing", "done"},
     evt : Event \cup {"none"}]

ReleaseCall == [pc : RelPcs, outcome : Outcomes, fin : BOOLEAN, join : {"dummy", "real"},
                earned : BOOLEAN]

Handler == [pc : ArtPcs, round : 1..MaxRounds, decl : 0..MaxRounds]

TypeOK ==
    /\ rec \in RunRecord
    /\ acq \in {"inserted", "installed", "done"}
    /\ queue \in Seq(Event) /\ sent \in 0..MaxEvents
    /\ sender \in {"open", "stray", "closed"}
    /\ pidDead \in BOOLEAN
    /\ drain \in DrainTask
    /\ watcher \in {"off", "watching", "stopping", "done"}
    /\ rel \in [Role -> ReleaseCall]
    /\ due \subseteq Clock
    /\ moved \in BOOLEAN
    /\ art \in Handler
    /\ tombs \in Seq(Tombstone)
    /\ heard \subseteq {"completed", "failed"}
    /\ late \in BOOLEAN

\* A party that releases nothing.
Quiet == [pc |-> "idle", outcome |-> "cancelled", fin |-> FALSE, join |-> "dummy",
          earned |-> FALSE]

NoHandler == [pc |-> "idle", round |-> 1, decl |-> 0]

\* runs.insert has happened, and with no await between them the drain was
\* spawned; the record still carries the placeholder handle.
Init ==
    /\ rec = [inMap |-> TRUE, outcome |-> "none", explicit |-> FALSE,
              termShut |-> FALSE, pidShut |-> FALSE, ended |-> FALSE,
              life |-> "idle", cancel |-> FALSE, pending |-> FALSE, round |-> 1,
              decl |-> 0, ready |-> FALSE, work |-> FALSE, terminal |-> FALSE,
              turns |-> 0, drain |-> "dummy"]
    /\ acq = "inserted"
    /\ queue = <<>> /\ sent = 0 /\ sender = "open" /\ pidDead = FALSE
    /\ drain = [pc |-> "recv", evt |-> "none"]
    /\ watcher = "off"
    /\ rel = [p \in Role |-> Quiet]
    /\ due = {} /\ moved = FALSE
    /\ art = NoHandler
    /\ tombs = <<>> /\ heard = {} /\ late = FALSE

-----------------------------------------------------------------------------
(* What events mean *)

\* terminal_outcome_for_event
TerminalOutcome(e) ==
    CASE e = "complete" -> "completed"
      [] e \in {"fail", "fatal"} -> "failed"
      [] OTHER -> "none"

\* driver_event_advances_stall_clock
AdvancesStallClock(e) == e \notin {"heartbeat", "ready", "fatal"}

\* driver_event_counts_as_work
CountsAsWork(e) == e \notin {"ready", "fatal", "heartbeat", "pane"}

\* Mutant: whatever arrives last is the outcome.
SettledOutcomeLast(r, e) == IF TerminalOutcome(e) = "none" THEN r.outcome
                                                           ELSE TerminalOutcome(e)

\* An acknowledgement must not downgrade the failure that caused the shutdown.
SettledOutcome(r, e) ==
    IF \/ TerminalOutcome(e) = "none"
       \/ r.termShut /\ r.outcome = "failed"
    THEN r.outcome ELSE TerminalOutcome(e)

\* apply_driver_event_to_record, without the sub-state and the error text.
ApplyDriverEvent(r, e) ==
    [r EXCEPT !.outcome = SettledOutcome(r, e),
              !.ready = @ \/ e = "ready",
              !.work = @ \/ CountsAsWork(e),
              !.terminal = @ \/ e \in {"complete", "fail"}]

Declared(r) == r.decl = r.round

\* write_terminal_release_from_record: the early exit without work, then
\* resolve_terminal_release.
Resolve(r) ==
    IF (Watched /\ r.ready /\ ~r.work /\ ~r.terminal) \/ r.life # "idle"
    THEN [outcome |-> "failed", fin |-> FALSE]
    ELSE IF Declared(r) THEN [outcome |-> "completed", fin |-> TRUE]
    ELSE IF NeedsFinalize THEN [outcome |-> "failed", fin |-> FALSE]
    ELSE IF r.outcome # "none" THEN [outcome |-> r.outcome, fin |-> FALSE]
    ELSE [outcome |-> "interrupted", fin |-> FALSE]

\* begin_explicit_release: the flag, and the permit that arms the DrainGate.
BeginExplicit(r) == [r EXCEPT !.explicit = TRUE]

AbortWatcher == watcher' = IF watcher = "off" THEN "off" ELSE "done"

\* Lifecycle::Release reaches the session log, or the append fails.
AppendTombstone(t, ok) ==
    /\ ok \/ LogFails
    /\ tombs' = IF ok THEN Append(tombs, t) ELSE tombs
    /\ UNCHANGED <<heard, late>>

-----------------------------------------------------------------------------
(* The driver *)

Emit(e) ==
    /\ sender # "closed" /\ sent < MaxEvents
    /\ queue' = Append(queue, e) /\ sent' = sent + 1
    /\ UNCHANGED <<rec, acq, sender, pidDead, drain, watcher, rel, due, moved, art,
                   session>>

\* The worker's protocol ends and the driver drops its sender.
StreamCloses ==
    /\ sender = "open"
    /\ sender' = "closed"
    /\ UNCHANGED <<rec, acq, queue, sent, pidDead, drain, watcher, rel, due, moved,
                   art, session>>

PidExits ==
    /\ Watched /\ ~pidDead
    /\ pidDead' = TRUE
    /\ UNCHANGED <<rec, acq, queue, sent, sender, drain, watcher, rel, due, moved,
                   art, session>>

\* stop_and_join_driver_producer: both waits are bounded, so it always ends;
\* a stray clone of the sender may outlive it.
StopProducer == sender' \in IF sender = "closed" THEN {"closed"}
                                                 ELSE {"closed", "stray"}

\* A control that is dropped and not released may take its sender along.
DropControl == sender' \in {sender, "closed"}

-----------------------------------------------------------------------------
(* The tail of acquire_impl *)

\* Two sections follow the insert: the drain's handle, then the watcher's.
InstallDrain ==
    /\ acq = "inserted"
    /\ acq' = IF Watched THEN "installed" ELSE "done"
    /\ rec' = IF rec.inMap THEN [rec EXCEPT !.drain = "real"] ELSE rec
    /\ UNCHANGED <<driver, drain, watcher, rel, due, moved, art, session>>

InstallWatcher ==
    /\ acq = "installed"
    /\ acq' = "done"
    /\ watcher' = IF rec.inMap THEN "watching" ELSE "done"
    /\ UNCHANGED <<rec, driver, drain, rel, due, moved, art, session>>

\* The acquire's request is dropped at the first of the two locks: the run
\* lives on with the placeholder handle and without a watcher.
AcquireDropped ==
    /\ Drops /\ acq = "inserted"
    /\ acq' = "done"
    /\ UNCHANGED <<rec, driver, drain, watcher, rel, due, moved, art, session>>

-----------------------------------------------------------------------------
(* The event drain *)

Probing == \E p \in Role : rel[p].pc = "probing"

\* The next event is applied to the record, if there still is one.
DrainApply ==
    /\ drain.pc = "recv" /\ queue # <<>>
    /\ LET e == Head(queue)
       IN  /\ drain' = [pc |-> "applied", evt |-> e]
           /\ queue' = Tail(queue)
           /\ IF rec.inMap
              THEN /\ rec' = ApplyDriverEvent(rec, e)
                   /\ due' = due \ IF AdvancesStallClock(e) THEN {"idle", "stall"}
                                                            ELSE {"idle"}
                   /\ moved' = (moved \/ (AdvancesStallClock(e) /\ Probing))
              ELSE UNCHANGED <<rec, due, moved>>
    /\ UNCHANGED <<acq, sent, sender, pidDead, watcher, rel, art, session>>

\* The DriverEvent envelope reaches the session log, or the append fails.
DrainAppend(ok) ==
    /\ drain.pc = "applied" /\ (ok \/ LogFails)
    /\ drain' = [drain EXCEPT !.pc = "appended"]
    /\ IF ok
       THEN /\ late' = (late \/ tombs # <<>>)
            /\ heard' = IF TerminalOutcome(drain.evt) = "none" \/ tombs # <<>>
                        THEN heard ELSE heard \cup {TerminalOutcome(drain.evt)}
       ELSE UNCHANGED <<late, heard>>
    /\ UNCHANGED <<rec, acq, driver, watcher, rel, due, moved, art, tombs>>

\* The turn that breaks the iteration budget.
OverBudget(r, e) == e = "turn" /\ r.turns + 1 > MaxIterations

\* The sequence cursor and the iteration cap.
CountTurn(r, e) ==
    [r EXCEPT !.turns = IF e = "turn" THEN @ + 1 ELSE @,
              !.outcome = IF OverBudget(r, e) THEN "failed" ELSE @]

\* take_driver_terminal_release, up to the artifactor's word.
TakesTerminal(r, e) ==
    /\ r.inMap
    /\ TerminalOutcome(e) # "none" \/ OverBudget(r, e)
    /\ OverBudget(r, e) \/ Tui \/ CountTurn(r, e).outcome = "failed"
    /\ ~r.explicit

DrainSettle ==
    /\ drain.pc = "appended"
    /\ LET e == drain.evt
           r == CountTurn(rec, e)
           takes == TakesTerminal(rec, e)
           now == takes /\ rec.life = "idle"
       IN  /\ rec' = IF ~rec.inMap THEN rec
                     ELSE IF now THEN [BeginExplicit(r) EXCEPT !.termShut = TRUE]
                     ELSE IF takes THEN [r EXCEPT !.pending = TRUE]
                     ELSE r
           /\ drain' = [pc |-> IF now THEN "stopping" ELSE "recv", evt |-> "none"]
    /\ UNCHANGED <<acq, driver, watcher, rel, due, moved, art, session>>

DrainStop ==
    /\ drain.pc = "stopping"
    /\ drain' = [drain EXCEPT !.pc = "recv"]
    /\ StopProducer
    /\ UNCHANGED <<rec, acq, queue, sent, pidDead, watcher, rel, due, moved, art,
                   session>>

\* Mutant: a drain that waits for its stream and nothing else.
DrainEndsUngated ==
    /\ drain.pc = "recv" /\ queue = <<>>
    /\ sender = "closed"
    /\ drain' = [drain EXCEPT !.pc = "ending"]
    /\ UNCHANGED <<rec, acq, driver, watcher, rel, due, moved, art, session>>

\* DrainGate::next is None: the stream ended, or a release was requested a
\* full budget ago and nothing is queued.
DrainEnds ==
    /\ drain.pc = "recv" /\ queue = <<>>
    /\ sender = "closed" \/ rec.explicit
    /\ drain' = [drain EXCEPT !.pc = "ending"]
    /\ UNCHANGED <<rec, acq, driver, watcher, rel, due, moved, art, session>>

\* take_stream_end_release: the drain owns the release unless release_one has
\* begun one.
TakesStreamEnd(r) == r.explicit => r.termShut \/ r.pidShut

\* Mutant: the record is left in the map until its tombstone is written.
DrainFinishKeepsRecord ==
    /\ drain.pc = "ending"
    /\ LET takes == rec.inMap /\ rec.life = "idle" /\ TakesStreamEnd(rec)
       IN  drain' = [drain EXCEPT !.pc = IF takes THEN "writing" ELSE "done"]
    /\ UNCHANGED <<rec, acq, driver, watcher, rel, due, moved, art, session>>

\* finish_stream_end_terminal_drain
DrainFinish ==
    /\ drain.pc = "ending"
    /\ LET takes == rec.inMap /\ rec.life = "idle" /\ TakesStreamEnd(rec)
       IN  /\ rec' = IF ~rec.inMap THEN rec
                     ELSE [rec EXCEPT !.ended = TRUE,
                                      !.pending = @ \/ rec.life # "idle",
                                      !.inMap = ~takes]
           /\ drain' = [drain EXCEPT !.pc = IF takes THEN "writing" ELSE "done"]
    /\ UNCHANGED <<acq, driver, watcher, rel, due, moved, art, session>>

\* append_terminal_release, by the drain: it aborts the watcher and drops the
\* record's control behind the append.
DrainWrite(ok) ==
    /\ drain.pc = "writing"
    /\ drain' = [drain EXCEPT !.pc = "done"]
    /\ AbortWatcher
    /\ DropControl
    /\ AppendTombstone([outcome |-> Resolve(rec).outcome, fin |-> Resolve(rec).fin,
                        by |-> "drain", joined |-> TRUE, earned |-> Declared(rec)], ok)
    /\ UNCHANGED <<rec, acq, queue, sent, pidDead, rel, due, moved, art>>

-----------------------------------------------------------------------------
(* The early-exit watcher *)

\* It only asks for the shutdown of the producer; the drain releases.
WatcherSees ==
    /\ watcher = "watching" /\ (pidDead \/ ~rec.inMap)
    /\ IF rec.inMap /\ ~rec.explicit
       THEN /\ rec' = [BeginExplicit(rec) EXCEPT !.pidShut = TRUE]
            /\ watcher' = "stopping"
       ELSE /\ watcher' = "done"
            /\ UNCHANGED rec
    /\ UNCHANGED <<acq, driver, drain, rel, due, moved, art, session>>

WatcherStop ==
    /\ watcher = "stopping"
    /\ watcher' = "done"
    /\ StopProducer
    /\ UNCHANGED <<rec, acq, queue, sent, pidDead, drain, rel, due, moved, art,
                   session>>

-----------------------------------------------------------------------------
(* release_one *)

\* What each caller asks for.
Asks(p) == IF p = "finalize" THEN [outcome |-> "completed", fin |-> TRUE]
                             ELSE [outcome |-> "cancelled", fin |-> FALSE]

\* The handler finds the run in a snapshot; its release comes later.
Request(p) ==
    /\ p \in {"finalize", "cancel", "abandon"}
    /\ rel[p].pc = "idle" /\ rec.inMap
    /\ rel' = [rel EXCEPT ![p] = [@ EXCEPT !.pc = "ready", !.outcome = Asks(p).outcome,
                                           !.fin = Asks(p).fin, !.earned = TRUE]]
    /\ UNCHANGED <<rec, acq, driver, drain, watcher, due, moved, art, session>>

\* RunNotFound, DeferredWhileInFlight, ReleaseInProgress, or the release
\* begins: control, producer, drain and watcher handles leave the record.
ReleaseOne(p) ==
    /\ rel[p].pc = "ready"
    /\ CASE ~rec.inMap ->
              /\ rel' = [rel EXCEPT ![p] = Quiet]
              /\ UNCHANGED rec
         [] rec.inMap /\ rec.life # "idle" ->
              /\ rel' = [rel EXCEPT ![p] = Quiet]
              /\ rec' = IF ~rel[p].fin /\ rel[p].outcome = "cancelled"
                        THEN [rec EXCEPT !.cancel = TRUE]
                        ELSE [rec EXCEPT !.pending = TRUE]
         [] rec.inMap /\ rec.life = "idle" /\ rec.explicit ->
              /\ rel' = [rel EXCEPT ![p] = Quiet]
              /\ UNCHANGED rec
         [] OTHER ->
              /\ rel' = [rel EXCEPT ![p] =
                        [rel[p] EXCEPT !.pc = "stopping", !.join = rec.drain,
                                       !.earned = rel[p].earned \/ Declared(rec)]]
              /\ rec' = [BeginExplicit(rec) EXCEPT !.drain = "dummy"]
    /\ UNCHANGED <<acq, driver, drain, watcher, due, moved, art, session>>

\* The finalize marker is appended, the producer stopped, the watcher aborted.
ReleaseStop(p) ==
    /\ rel[p].pc = "stopping"
    /\ rel' = [rel EXCEPT ![p].pc = "joining"]
    /\ StopProducer
    /\ AbortWatcher
    /\ UNCHANGED <<rec, acq, queue, sent, pidDead, drain, due, moved, art, session>>

\* Mutant: the outcome is the caller's word.
FinalOutcomeAsked(r, asked) == asked

\* terminal_outcome.unwrap_or(outcome)
FinalOutcome(r, asked) == IF r.outcome = "none" THEN asked ELSE r.outcome

\* Mutant: the producer has stopped, and nobody waits for the receiver.
ReleaseRemoveUnjoined(p) ==
    /\ rel[p].pc = "joining" /\ rec.inMap
    /\ rec' = [rec EXCEPT !.inMap = FALSE]
    /\ rel' = [rel EXCEPT ![p].pc = "appending", ![p].outcome = FinalOutcome(rec, @)]
    /\ UNCHANGED <<acq, driver, drain, watcher, due, moved, art, session>>

\* Mutant: a record that is gone already is no reason not to report.
ReleaseRemoveBlind(p) ==
    /\ rel[p].pc = "joining"
    /\ rel[p].join = "real" => drain.pc = "done"
    /\ rec' = [rec EXCEPT !.inMap = FALSE]
    /\ rel' = [rel EXCEPT ![p].pc = "appending", ![p].outcome = FinalOutcome(rec, @)]
    /\ UNCHANGED <<acq, driver, drain, watcher, due, moved, art, session>>

\* The drain is joined; record and lease go in one section, or RunNotFound.
ReleaseRemove(p) ==
    /\ rel[p].pc = "joining"
    /\ rel[p].join = "real" => drain.pc = "done"
    /\ IF rec.inMap
       THEN /\ rec' = [rec EXCEPT !.inMap = FALSE]
            /\ rel' = [rel EXCEPT ![p] =
                        [rel[p] EXCEPT !.pc = "appending",
                                       !.outcome = FinalOutcome(rec, rel[p].outcome)]]
       ELSE /\ rel' = [rel EXCEPT ![p] = Quiet]
            /\ UNCHANGED rec
    /\ UNCHANGED <<acq, driver, drain, watcher, due, moved, art, session>>

ReleaseAppend(p, ok) ==
    /\ rel[p].pc = "appending"
    /\ rel' = [rel EXCEPT ![p] = Quiet]
    /\ AppendTombstone([outcome |-> rel[p].outcome, fin |-> rel[p].fin, by |-> p,
                        joined |-> rel[p].join = "real", earned |-> rel[p].earned], ok)
    /\ UNCHANGED <<rec, acq, driver, drain, watcher, due, moved, art>>

\* abandon_live_run and the artifact submit release on their request future,
\* which goes with the connection.  The other callers run on tasks.
RequestBound == {"abandon", "submit"}

ReleaseDropped(p) ==
    /\ Drops /\ p \in RequestBound
    /\ rel[p].pc \in {"stopping", "joining", "appending"}
    /\ rel' = [rel EXCEPT ![p] = Quiet]
    /\ IF rel[p].pc = "stopping" THEN DropControl ELSE UNCHANGED sender
    /\ UNCHANGED <<rec, acq, queue, sent, pidDead, drain, watcher, due, moved, art,
                   session>>

-----------------------------------------------------------------------------
(* The timeout sweep *)

ClockExpires(c) ==
    /\ rec.inMap /\ c \notin due
    /\ due' = due \cup {c}
    /\ UNCHANGED <<rec, acq, driver, drain, watcher, rel, moved, art, session>>

\* An accepted input resets the idle clock.
SendInput ==
    /\ rec.inMap /\ ~rec.explicit /\ "idle" \in Clock
    /\ due' = due \ {"idle"}
    /\ UNCHANGED <<rec, acq, driver, drain, watcher, rel, moved, art, session>>

\* timed_out_run, of a run without a terminal outcome.  The clock with the
\* earliest deadline wins; any of those that ran out may be that one.
TimedOut(reason) == rec.inMap /\ rec.outcome = "none" /\ reason \in due

\* A candidate, revalidated.  Only the stall clock asks for work evidence.
SweepPick(p) ==
    /\ p = "sweep" /\ rel[p].pc = "idle"
    /\ \E reason \in Clock :
         /\ TimedOut(reason)
         /\ rel' = [rel EXCEPT ![p].pc = IF reason = "stall" THEN "probing" ELSE "condemned"]
    /\ UNCHANGED <<rec, acq, driver, drain, watcher, due, moved, art, session>>

\* The probe answers: everything is established again (revalidate_after_probe);
\* live work is credited as progress.
SweepProbed(p, working) ==
    /\ rel[p].pc = "probing"
    /\ IF TimedOut("stall") /\ ~moved
       THEN /\ rel' = [rel EXCEPT ![p].pc = IF working THEN "idle" ELSE "condemned"]
            /\ due' = IF working THEN due \ {"stall"} ELSE due
       ELSE /\ rel' = [rel EXCEPT ![p] = Quiet]
            /\ UNCHANGED due
    /\ moved' = FALSE
    /\ UNCHANGED <<rec, acq, driver, drain, watcher, art, session>>

\* A run that declared its round ends Completed, every other one Failed.
SweepDeclared(p) ==
    /\ rel[p].pc = "condemned"
    /\ LET declared == rec.inMap /\ Declared(rec)
       IN  rel' = [rel EXCEPT ![p] = [@ EXCEPT !.pc = "ready", !.fin = declared,
                                !.outcome = IF declared THEN "completed" ELSE "failed",
                                !.earned = FALSE]]
    /\ UNCHANGED <<rec, acq, driver, drain, watcher, due, moved, art, session>>

-----------------------------------------------------------------------------
(* The artifactor handlers.  The lifecycle token never differs: a lifecycle  *)
(* in flight is replaced by nobody.                                          *)

SubmitBegin ==
    /\ Artifactor /\ art.pc = "idle" /\ rec.inMap /\ rec.life = "idle"
    /\ rec' = [rec EXCEPT !.life = "submit"]
    /\ art' = [art EXCEPT !.pc = "submitting", !.round = rec.round]
    /\ UNCHANGED <<acq, driver, drain, watcher, rel, due, moved, session>>

\* take_deferred_artifactor_release, on the record whose lifecycle was resolved.
TakeDeferred(r, drained, otherwise) ==
    IF r.cancel \/ r.pending
    THEN /\ rec' = [r EXCEPT !.inMap = FALSE]
         /\ art' = [art EXCEPT !.pc = IF r.cancel THEN "cancelling" ELSE drained]
    ELSE /\ rec' = r
         /\ art' = [NoHandler EXCEPT !.pc = otherwise]

\* The writer transaction is over, with or without success; or the run went.
SubmitEnds(committed) ==
    /\ art.pc = "submitting"
    /\ IF rec.inMap
       THEN TakeDeferred([rec EXCEPT !.life = "idle",
                            !.decl = IF committed THEN art.round ELSE 0],
                         IF committed THEN "draining" ELSE "failing",
                         IF committed THEN "submitted" ELSE "idle")
       ELSE /\ art' = NoHandler
            /\ UNCHANGED rec
    /\ UNCHANGED <<acq, driver, drain, watcher, rel, due, moved, session>>

\* release_artifactor_run_after_submit: a tmux run stays live.
SubmitRelease ==
    /\ art.pc = "submitted"
    /\ art' = NoHandler
    /\ rel' = IF Tui \/ ~rec.inMap \/ "submit" \notin Role \/ rel["submit"].pc # "idle"
              THEN rel
              ELSE [rel EXCEPT !["submit"] =
                      [@ EXCEPT !.pc = "ready", !.outcome = "completed",
                                !.fin = TRUE, !.earned = TRUE]]
    /\ UNCHANGED <<rec, acq, driver, drain, watcher, due, moved, session>>

\* A new round clears the declaration of the last.
RegenBegin ==
    /\ Artifactor /\ art.pc = "idle" /\ rec.inMap /\ rec.life = "idle"
    /\ rec.round < MaxRounds
    /\ rec' = [rec EXCEPT !.life = "regenerate", !.round = @ + 1, !.decl = 0]
    /\ art' = [pc |-> "regenerating", round |-> rec.round, decl |-> rec.decl]
    /\ UNCHANGED <<acq, driver, drain, watcher, rel, due, moved, session>>

\* send_input delivers the follow-up, which needs the driver's control.
RegenAccepted ==
    /\ art.pc = "regenerating" /\ rec.inMap /\ ~rec.explicit
    /\ art' = [art EXCEPT !.pc = "accepted"]
    /\ due' = due \ {"idle"}
    /\ UNCHANGED <<rec, acq, driver, drain, watcher, rel, moved, session>>

\* An accepted follow-up is committed; a refused one is rolled back to the
\* checkpoint.
RegenEnds ==
    /\ art.pc \in {"regenerating", "accepted"}
    /\ IF rec.inMap
       THEN TakeDeferred(IF art.pc = "accepted"
                         THEN [rec EXCEPT !.life = "idle"]
                         ELSE [rec EXCEPT !.life = "idle", !.round = art.round,
                                          !.decl = art.decl],
                         "draining", "idle")
       ELSE /\ art' = NoHandler
            /\ UNCHANGED rec
    /\ UNCHANGED <<acq, driver, drain, watcher, rel, due, moved, session>>

\* finish_deferred_artifactor_release: nobody stops the driver on this path.
DeferredWrite(ok) ==
    /\ art.pc \in {"cancelling", "draining", "failing"}
    /\ art' = NoHandler
    /\ AbortWatcher
    /\ DropControl
    /\ LET t == CASE art.pc = "cancelling" -> [outcome |-> "cancelled", fin |-> FALSE]
                  [] art.pc = "failing"    -> [outcome |-> "failed", fin |-> FALSE]
                  [] OTHER                 -> Resolve(rec)
       IN  AppendTombstone([outcome |-> t.outcome, fin |-> t.fin, by |-> "deferred",
                            joined |-> FALSE, earned |-> Declared(rec)], ok)
    /\ UNCHANGED <<rec, acq, queue, sent, pidDead, drain, rel, due, moved>>

\* The artifact handlers run on their request future.
ArtifactorDropped ==
    /\ Drops /\ art.pc \in ArtPcs \ {"idle", "lost"}
    /\ art' = [NoHandler EXCEPT !.pc = "lost"]
    /\ UNCHANGED <<rec, acq, driver, drain, watcher, rel, due, moved, session>>

-----------------------------------------------------------------------------
DriverNext == (\E e \in Event : Emit(e)) \/ StreamCloses \/ PidExits

AcquireNext == InstallDrain \/ InstallWatcher \/ AcquireDropped

DrainNext ==
    \/ DrainApply \/ DrainSettle \/ DrainStop \/ DrainEnds \/ DrainFinish
    \/ \E ok \in BOOLEAN : DrainAppend(ok) \/ DrainWrite(ok)

WatcherNext == WatcherSees \/ WatcherStop

ReleaseNext(p) ==
    \/ ReleaseOne(p) \/ ReleaseStop(p) \/ ReleaseRemove(p)
    \/ \E ok \in BOOLEAN : ReleaseAppend(p, ok)

SweepNext(p) ==
    \/ SweepPick(p) \/ SweepDeclared(p)
    \/ \E working \in BOOLEAN : SweepProbed(p, working)

ArtifactorNext ==
    \/ \E b \in BOOLEAN : SubmitEnds(b) \/ DeferredWrite(b)
    \/ RegenAccepted \/ RegenEnds \/ SubmitRelease

Next ==
    \/ DriverNext \/ AcquireNext \/ DrainNext \/ WatcherNext
    \/ \E p \in Role : \/ Request(p) \/ ReleaseNext(p) \/ ReleaseDropped(p)
                       \/ SweepNext(p)
    \/ \E c \in Clock : ClockExpires(c)
    \/ SendInput
    \/ SubmitBegin \/ RegenBegin \/ ArtifactorNext \/ ArtifactorDropped

Spec == Init /\ [][Next]_vars

\* The runtime polls every task it was given, the waits on drivers are bounded,
\* and the writer answers an artifact transaction.
FairSpec ==
    /\ Spec
    /\ WF_vars(AcquireNext) /\ WF_vars(DrainNext) /\ WF_vars(WatcherNext)
    /\ \A p \in Role : WF_vars(ReleaseNext(p))
    /\ WF_vars(ArtifactorNext)

-----------------------------------------------------------------------------
(* Properties *)

\* However many parties end the run, in whatever order, its log gets one
\* tombstone, and none while the record is live.
OneTombstone == Len(tombs) <= 1 /\ (rec.inMap => tombs = <<>>)

\* "A legitimate terminal event racing timeout/cancel therefore wins": a
\* release that joined the drain never overrules the terminal events that are
\* in the log ahead of its tombstone, nor a broken iteration budget.
TerminalEventWins ==
    \A i \in 1..Len(tombs) :
        tombs[i].by \in Role /\ tombs[i].joined /\ heard # {}
            => \/ tombs[i].outcome \in heard
               \/ tombs[i].outcome = "failed" /\ rec.turns > MaxIterations

\* A failure that made the drain shut the transport down is what the drain's
\* tombstone says, whatever the driver acknowledges while it stops.
FailureStands ==
    \A i \in 1..Len(tombs) :
        tombs[i].by = "drain" /\ rec.termShut /\ "failed" \in heard /\ ~tombs[i].fin
            => tombs[i].outcome = "failed"

\* Nothing is logged behind the tombstone of the drain, or of a release that
\* joined the drain: not by a stray sender, nor by a drain cut off at its
\* budget, nor by the watcher's shutdown.
ReleaseIsLast ==
    late => \E i \in 1..Len(tombs) : ~tombs[i].joined

\* A release that was begun, by anyone, and a stream that ended, by itself or
\* not, come to a tombstone: the wait of whoever is told ReleaseInProgress is
\* bounded.
ReleaseEnds == (rec.explicit \/ sender = "closed") ~> tombs # <<>>

-----------------------------------------------------------------------------
(* The inductive invariant *)

\* The handler holds a record that it took out of the map.
Resolving == art.pc \in {"cancelling", "draining", "failing"}

\* The debt of a tombstone has one holder at most: nobody while the record is
\* in the map, and nobody once it was paid.
OneDebtor ==
    /\ rec.inMap => drain.pc # "writing" /\ ~Resolving
    /\ drain.pc = "writing" => ~Resolving
    /\ drain.pc = "writing" \/ Resolving => tombs = <<>>
    /\ \A p \in Role : rel[p].pc = "appending" =>
         /\ ~rec.inMap /\ drain.pc # "writing" /\ ~Resolving /\ tombs = <<>>
         /\ \A q \in Role : rel[q].pc = "appending" => p = q

\* A tombstone that counts as joined has, or will have, no drain behind it.
JoinedDrain ==
    /\ \A p \in Role :
         rel[p].pc = "appending" /\ rel[p].join = "real" => drain.pc = "done"
    /\ \A i \in 1..Len(tombs) : tombs[i].joined => drain.pc = "done"
    /\ late => tombs # <<>>

\* What an outcome can rest on: a terminal event in the log, or the budget.
Backed(o) == o \in heard \/ (o = "failed" /\ rec.turns > MaxIterations)

\* Unless appends fail, the outcome of a live record is in the log, or its
\* event is about to be; a release that joined the drain carries it on.
OutcomeBacked ==
    /\ rec.inMap =>
         /\ rec.outcome = "none" => heard = {}
         /\ rec.outcome # "none" =>
              \/ Backed(rec.outcome)
              \/ drain.pc = "applied" /\ TerminalOutcome(drain.evt) = rec.outcome
         /\ drain.pc = "applied" /\ TerminalOutcome(drain.evt) # "none" =>
              rec.outcome # "none"
    /\ \A p \in Role :
         rel[p].pc = "appending" /\ rel[p].join = "real" =>
             heard = {} \/ Backed(rel[p].outcome)
    /\ TerminalEventWins

\* The drain is between a failure and the decision about the transport.
Failing == drain.pc \in {"applied", "appended"} /\ TerminalOutcome(drain.evt) = "failed"

\* A logged failure is the record's outcome once the drain shuts the transport
\* down.  It may be overtaken where somebody else began the release, or where
\* the release waits for an artifactor, which the drain then does not write.
FailureKept ==
    /\ rec.termShut => rec.explicit
    /\ rec.inMap =>
         /\ rec.pending => rec.life # "idle"
         /\ Failing => rec.outcome = "failed"
         /\ "failed" \in heard =>
              \/ rec.outcome = "failed" /\ (rec.termShut \/ Failing)
              \/ rec.explicit /\ ~rec.termShut
              \/ rec.pending
    /\ drain.pc = "writing" =>
         /\ rec.life = "idle"
         /\ "failed" \in heard /\ rec.termShut => rec.outcome = "failed"
    /\ FailureStands

ReleaseInv ==
    /\ TypeOK
    /\ OneTombstone
    /\ OneDebtor
    /\ JoinedDrain
    /\ ReleaseIsLast
    /\ FailureKept
    /\ ~LogFails => OutcomeBacked

-----------------------------------------------------------------------------
(* What the code's comments say and the code does not do (README, exceptions) *)

\* begin_artifactor_regenerate_round: a new round "needs its own submit", so a
\* release that claims one found the current round declared when it began.  It does not
\* hold: the sweep decides before it releases.
SuccessEarned ==
    \A i \in 1..Len(tombs) : tombs[i].fin => tombs[i].earned

=============================================================================
