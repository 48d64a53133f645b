--------------------------- MODULE RecoveryClaim ---------------------------
(***************************************************************************)
(* Rescuing one failed run: POST /api/runs/<id>/recover starts a           *)
(* replacement worker, at most once per origin, across daemon crashes,     *)
(* dropped requests, failed observations and concurrent inventory passes.  *)
(* The durable authorities are the claim file of the origin (written by a  *)
(* temporary file and a rename), the session file of the replacement, whose*)
(* last lifecycle line links it to its origin and carries the committed    *)
(* claim, and the tmux pane, which outlives the daemon.                    *)
(* Source: crates/orgasmic-daemon/src/recovery_claim.rs, post_run_recover  *)
(* and the boot pass of api.rs, acquire and reattach of supervisor.rs.     *)
(*                                                                         *)
(* The origin is one terminal Failed record, and the requested action is   *)
(* one that starts a replacement.  The plan a claim carries is its         *)
(* replacement and its request; the optional native-runtime line of a      *)
(* session is part of "run_meta".  Driver events are left out.             *)
(***************************************************************************)
EXTENDS Naturals, FiniteSets, SequencesExt

CONSTANTS
    Requests,        \* request ids of the clients
    Repls,           \* replacement identities that can be minted
    None,            \* no request, no replacement
    WorktreeIsRoot,  \* whether the origin ran in the project root itself
    MaxFaults,       \* bound: failing observations, writes and spawns, and requests whose
                     \* client goes away, together
    MaxStops,        \* bound: deaths of the daemon
    MaxDeaths,       \* bound: replacement workers that end
    MaxRemovals      \* bound: session files of dead replacements removed

ASSUME RecoveryAssumption == WorktreeIsRoot \in BOOLEAN /\ None \notin Requests \cup Repls
ASSUME RecoveryBounds ==
    \A b \in {MaxFaults, MaxStops, MaxDeaths, MaxRemovals} : b \in Nat

VARIABLES
    claim,      \* the claim file of the origin
    temp,       \* authentic temporary claim files a crash left behind
    session,    \* the lifecycle lines of each replacement's session file
    pane,       \* the tmux session of each replacement: "none", "live", "gone"
    starting,   \* replacements whose tmux new-session command is running
    minted,     \* the request each replacement was planned for
    edges,      \* replacements the tx ledger binds to the origin's dispatch
    runs,       \* replacements with a live record in the supervisor
    queue,      \* session appends the writer has not done
    post,       \* the POST /recover that holds the origin's lock
    boot,       \* the boot reattach pass
    answers,    \* the replacements handed to the clients
    spent       \* how much of each bound is used

disk == <<claim, temp>>
world == <<pane, starting>>
vars == <<disk, session, world, minted, edges, runs, queue, post, boot, answers, spent>>

(***************************************************************************)
(* The durable records.                                                    *)
(***************************************************************************)
NoClaim == [status |-> "none", repl |-> None, request |-> None, started |-> FALSE]
Claim(st, r, q, started) == [status |-> st, repl |-> r, request |-> q, started |-> started]
NoFile == <<"no file">>
Prefix == <<"acquire", "run_meta", "prompt_draft", "recovery_origin">>
Has(r, line) == \E k \in DOMAIN session[r] : session[r][k] = line
Exists(r) == session[r] # NoFile

IdlePost == [pc |-> "idle", request |-> None, links |-> {}, offered |-> FALSE,
             claim |-> NoClaim, reattach |-> FALSE, todo |-> <<>>, next |-> "idle"]
IdleBoot == [todo |-> {}, at |-> None, sent |-> FALSE]

Init ==
    /\ claim = NoClaim /\ temp = <<>>
    /\ session = [r \in Repls |-> NoFile]
    /\ pane = [r \in Repls |-> "none"] /\ starting = {}
    /\ minted = [r \in Repls |-> None]
    /\ edges = {} /\ runs = {} /\ queue = <<>>
    /\ post = IdlePost /\ boot = IdleBoot /\ answers = {}
    /\ spent = [fault |-> 0, stop |-> 0, drop |-> 0, death |-> 0, removal |-> 0]

Spend(what, bound) == spent[what] < bound /\ spent' = [spent EXCEPT ![what] = @ + 1]
Fault == spent.drop + spent.fault < MaxFaults /\ Spend("fault", MaxFaults)

\* claim_immutable_plan_matches_session: the planned lines are all there.
Complete(r) == \A k \in DOMAIN Prefix : Has(r, Prefix[k])

\* Mutant: only the runs that are not live are indexed.
LinksOfEnded == UNION {{<<r, k>> : k \in {j \in DOMAIN session[r] : session[r][j] = "recovery_origin"}} :
                          r \in {s \in Repls : Complete(s) /\ s \notin runs}}

\* enumerate_recovery_origin_links: every RecoveryOrigin line of every session file
\* that holds its plan, as pairs of the replacement and the line's place.
Links == UNION {{<<r, k>> : k \in {j \in DOMAIN session[r] : session[r][j] = "recovery_origin"}} :
                   r \in {s \in Repls : Complete(s)}}
\* The committed snapshot a link carries.
Snapshot(r) == Claim("committed", r, minted[r], TRUE)

\* load_recovery_claim after reconcile_stale_claim_temp: a single authentic temporary
\* file is promoted when there is no claim file, several are refused.
Ambiguous == claim = NoClaim /\ Len(temp) > 1
Loaded == IF claim = NoClaim /\ Len(temp) = 1
          THEN [claim |-> temp[1], temp |-> <<>>]
          ELSE [claim |-> claim, temp |-> temp]

\* verify_committed_claim_against_session.
Verified(c) == c.status = "committed" /\ Exists(c.repl) /\ Complete(c.repl)

\* pending_session_prefix_matches_claim: the lifecycle lines so far are the planned ones
\* in order, and the snapshot in the last one is this very claim.
PrefixMatches(c) == /\ IsPrefix(session[c.repl], Prefix)
                    /\ Has(c.repl, "recovery_origin") => c.status = "pending"

\* resolve_authoritative_recovery_claim and reconstruct_or_quarantine over one
\* enumeration: what it answers, and the claim files it leaves behind.
Resolution(links) ==
    LET c == Loaded.claim
        rest == Loaded.temp
        answer(kind, f, t) == [kind |-> kind, claim |-> f, temp |-> t]
        named == {l[1] : l \in links}
        only == Snapshot(CHOOSE r \in named : TRUE)
    IN IF c.status = "pending" \/ (/\ c.status = "committed" /\ Cardinality(links) = 1
                                   /\ only = c /\ Verified(c))
       THEN answer("valid", c, rest)
       ELSE IF Cardinality(links) > 1 THEN answer("quarantined", NoClaim, rest)
       ELSE IF links # {}
       THEN IF Verified(only) THEN answer("reconstructed", only, rest)
            ELSE answer("quarantined", NoClaim, rest)
       ELSE IF Len(rest) = 1 THEN answer("quarantined", rest[1], <<>>)
       ELSE answer(IF rest = <<>> THEN "missing" ELSE "quarantined", NoClaim, rest)

\* committed_claim_is_authoritative.
Authoritative(res, c) == /\ res.kind \in {"valid", "reconstructed"} /\ res.claim = c
                         /\ c.status = "committed"

\* pending_recovery_claim_planned_handle_observation: an unspawned claim is not probed.
Present(c) == c.started /\ pane[c.repl] = "live"
\* Mutant: a dead planned handle is taken for one that was never spawned.
DeadIgnored(c) == FALSE
Dead(c) == c.started /\ ~Present(c)

(***************************************************************************)
(* POST /recover.  The request holds the origin's lock to its end, and the *)
(* status lock up to the driver work and again from publishing on.         *)
(***************************************************************************)
At(pc) == post.pc = pc
Goto(pc) == post' = [post EXCEPT !.pc = pc]
End == post' = IdlePost
StatusLocked == post.pc \in {"resolve", "decide", "act", "rename", "mark", "authority",
                             "associate_claim", "publish", "commit", "answer"}
                \/ (post.pc \in {"send", "wait"} /\ post.next = "commit")

\* The request takes its locks, and the enumeration completes or does not: one that
\* does not ends in a 503.
Begin(q) ==
    /\ At("idle")
    /\ \/ /\ post' = [IdlePost EXCEPT !.pc = "resolve", !.request = q, !.links = Links]
          /\ UNCHANGED spent
       \/ Fault /\ UNCHANGED post
    /\ UNCHANGED <<disk, session, world, minted, edges, runs, queue, boot, answers>>

\* apply_recovery_claim_to_run: actions are offered unless a replacement is established,
\* the claim is quarantined, or the claim could not be read.
Resolve ==
    /\ At("resolve")
    /\ \/ LET res == Resolution(post.links) IN
          /\ post' = [post EXCEPT !.pc = "decide",
                        !.offered = res.kind = "missing" \/ res.claim.status = "pending"]
          /\ claim' = res.claim /\ temp' = res.temp
          /\ UNCHANGED spent
       \/ /\ Fault
          /\ post' = [post EXCEPT !.pc = "decide", !.offered = FALSE]
          /\ UNCHANGED disk
    /\ UNCHANGED <<session, world, minted, edges, runs, queue, boot, answers>>

\* The claim of the origin cannot be read, or two temporary claims compete.
Unreadable ==
    /\ At("decide")
    /\ IF Ambiguous THEN UNCHANGED spent ELSE Fault
    /\ End
    /\ UNCHANGED <<disk, session, world, minted, edges, runs, queue, boot, answers>>

\* No claim: the request goes on to its action.
Unclaimed ==
    /\ At("decide") /\ ~Ambiguous /\ Loaded.claim = NoClaim
    /\ Goto("act")
    /\ UNCHANGED <<disk, session, world, minted, edges, runs, queue, boot, answers, spent>>

\* A committed claim answers its own request, conflicts with another one, and is
\* passed over when the enumeration does not confirm it.
Committed ==
    /\ At("decide") /\ ~Ambiguous /\ Loaded.claim.status = "committed"
    /\ LET res == Resolution(post.links)
           c == Loaded.claim
       IN /\ claim' = res.claim /\ temp' = res.temp
          /\ post' = IF ~Authoritative(res, c) THEN [post EXCEPT !.pc = "act"]
                     ELSE IF c.request = post.request
                     THEN [post EXCEPT !.pc = "associate_claim", !.claim = c]
                     ELSE IdlePost
    /\ UNCHANGED <<session, world, minted, edges, runs, queue, boot, answers, spent>>

\* A pending claim of another request is a conflict.
Conflict ==
    /\ At("decide") /\ ~Ambiguous /\ Loaded.claim.status = "pending"
    /\ Loaded.claim.request # post.request
    /\ claim' = Loaded.claim /\ temp' = Loaded.temp
    /\ End
    /\ UNCHANGED <<session, world, minted, edges, runs, queue, boot, answers, spent>>

Pending == At("decide") /\ ~Ambiguous /\ Loaded.claim.status = "pending"
           /\ Loaded.claim.request = post.request

\* reconcile_pending_claim, the refusals: tmux could not say, the planned handle is
\* dead, or the session is not the one planned.  Nothing is changed.
ReconcileRefuses ==
    /\ Pending
    /\ LET c == Loaded.claim IN
       \/ c.started /\ Fault
       \/ /\ UNCHANGED spent
          /\ \/ Dead(c)
             \/ Exists(c.repl) /\ ~PrefixMatches(c)
    /\ claim' = Loaded.claim /\ temp' = Loaded.temp
    /\ End
    /\ UNCHANGED <<session, world, minted, edges, runs, queue, boot, answers>>

\* Mutant: a pane whose Acquire line was lost is not reattached.
ReattachableLogged(c) == Exists(c.repl) /\ Has(c.repl, "acquire")
Reattachable(c) == Present(c) \/ (Exists(c.repl) /\ Has(c.repl, "acquire"))

\* reconcile_pending_claim, the plan: the session is created if it is not there; a
\* session that is linked already is committed at once.
Reconcile ==
    /\ Pending
    /\ LET c == Loaded.claim
           r == c.repl
           linked == Exists(r) /\ Has(r, "recovery_origin")
           done == [c EXCEPT !.status = "committed"]
       IN /\ ~Dead(c)
          /\ Exists(r) => PrefixMatches(c)
          /\ session' = IF Exists(r) THEN session ELSE [session EXCEPT ![r] = <<>>]
          /\ claim' = c
          /\ temp' = Loaded.temp \o (IF linked THEN <<done>> ELSE <<>>)
          /\ post' = IF linked
                     THEN [post EXCEPT !.pc = "rename", !.claim = done, !.next = "authority"]
                     ELSE [post EXCEPT !.pc = "act", !.claim = c,
                             !.reattach = Reattachable(c)]
    /\ UNCHANGED <<world, minted, edges, runs, queue, boot, answers, spent>>

\* The temporary file of the write in progress is the last one.
\* Mutant: it stays.
TempStays == temp
TempGone == Front(temp)

\* write_claim_atomic: the rename of the synced temporary file, or a failing write.
Rename ==
    /\ At("rename")
    /\ \/ claim' = post.claim /\ Goto(post.next) /\ UNCHANGED spent
       \/ Fault /\ End /\ claim' \in {claim, post.claim}
    /\ temp' = TempGone
    /\ session' = IF post'.pc = "mark" /\ ~Exists(post.claim.repl)
                  THEN [session EXCEPT ![post.claim.repl] = <<>>] ELSE session
    /\ UNCHANGED <<world, minted, edges, runs, queue, boot, answers>>

\* The claim just committed is looked up in the enumeration made at the start.
Authority ==
    /\ At("authority")
    /\ LET res == Resolution(post.links) IN
       /\ claim' = res.claim /\ temp' = res.temp
       /\ Goto(IF Authoritative(res, post.claim) THEN "associate_claim" ELSE "act")
    /\ UNCHANGED <<session, world, minted, edges, runs, queue, boot, answers, spent>>

\* No action is offered.
NoAction ==
    /\ At("act") /\ ~post.offered
    /\ End
    /\ UNCHANGED <<disk, session, world, minted, edges, runs, queue, boot, answers, spent>>

\* A plan that was found is carried on.
Planned ==
    /\ At("act") /\ post.offered /\ post.claim # NoClaim
    /\ Goto("mark")
    /\ UNCHANGED <<disk, session, world, minted, edges, runs, queue, boot, answers, spent>>

\* plan_pending_recovery_claim: without a claim on disk a replacement is minted and
\* its pending claim written, before anything is spawned.
Unused(r) == /\ ~Exists(r) /\ pane[r] = "none" /\ r \notin starting
             /\ \A c \in Range(temp) \cup {claim} : c.repl # r
Mint(r) ==
    /\ At("act") /\ post.offered /\ post.claim = NoClaim
    /\ ~Ambiguous /\ Loaded.claim = NoClaim /\ Unused(r)
    /\ LET c == Claim("pending", r, post.request, FALSE) IN
       /\ temp' = Append(temp, c)
       /\ post' = [post EXCEPT !.pc = "rename", !.claim = c, !.next = "mark"]
       /\ minted' = [minted EXCEPT ![r] = post.request]
    /\ UNCHANGED <<claim, session, world, edges, runs, queue, boot, answers, spent>>

\* plan_pending_recovery_claim refuses: there is a claim after all, or it is unreadable.
MintRefused ==
    /\ At("act") /\ post.offered /\ post.claim = NoClaim
    /\ IF Ambiguous \/ Loaded.claim # NoClaim THEN UNCHANGED spent ELSE Fault
    /\ claim' = Loaded.claim /\ temp' = Loaded.temp
    /\ End
    /\ UNCHANGED <<session, world, minted, edges, runs, queue, boot, answers>>

\* mark_pending_recovery_spawn_started: durable before the driver is asked to spawn.
Mark ==
    /\ At("mark")
    /\ LET c == [Loaded.claim EXCEPT !.started = TRUE] IN
       IF post.claim.status # "pending" THEN Goto("execute") /\ UNCHANGED disk
       ELSE IF Loaded.claim = NoClaim THEN End /\ UNCHANGED disk
       ELSE /\ claim' = Loaded.claim
            /\ IF Loaded.claim.status # "pending" \/ Loaded.claim.started
               THEN /\ post' = [post EXCEPT !.pc = "execute", !.claim = Loaded.claim]
                    /\ temp' = Loaded.temp
               ELSE /\ post' = [post EXCEPT !.pc = "rename", !.claim = c, !.next = "execute"]
                    /\ temp' = Append(Loaded.temp, c)
    /\ UNCHANGED <<session, world, minted, edges, runs, queue, boot, answers, spent>>

Mine == post.claim.repl
LeaseFree(others) == runs \subseteq others /\ boot.at \in others \cup {None}

\* reattach_existing: a replacement that is live in the supervisor is taken as it is;
\* otherwise Supervisor::reattach: the driver proves the live pane or the request fails.
Reattach ==
    /\ At("execute") /\ post.reattach
    /\ IF Mine \in runs THEN Goto("associate")
       ELSE IF LeaseFree({Mine}) /\ pane[Mine] = "live" THEN Goto("backfill") ELSE End
    /\ UNCHANGED <<disk, session, world, minted, edges, runs, queue, boot, answers, spent>>

\* Supervisor::acquire: the driver runs tmux new-session.
Spawn ==
    /\ At("execute") /\ ~post.reattach
    /\ \/ /\ LeaseFree({})
          /\ starting' = starting \cup {Mine} /\ Goto("spawning") /\ UNCHANGED spent
       \/ /\ (~LeaseFree({}) /\ UNCHANGED spent) \/ Fault
          /\ End /\ UNCHANGED starting
    /\ UNCHANGED <<disk, session, pane, minted, edges, runs, queue, boot, answers>>

\* tmux creates the pane, or refuses a name that exists; the command outlives both the
\* request and the daemon that issued it.
NewSession(r) ==
    /\ r \in starting
    /\ starting' = starting \ {r}
    /\ pane' = [pane EXCEPT ![r] = "live"]
    /\ IF ~(At("spawning") /\ Mine = r) THEN UNCHANGED post
       ELSE IF pane[r] = "live" THEN End
       ELSE post' = [post EXCEPT !.pc = "send", !.todo = <<"acquire", "run_meta">>,
                       !.next = "backfill"]
    /\ UNCHANGED <<disk, session, minted, edges, runs, queue, boot, answers, spent>>

\* backfill_recovery_session_lifecycle: the lines that are missing now, in order; what is
\* there is a prefix of the plan, so its rest.
Backfill ==
    /\ At("backfill")
    /\ IF PrefixMatches(post.claim)
       THEN post' = [post EXCEPT !.pc = "send", !.next = "insert",
                       !.todo = SubSeq(Prefix, Len(session[Mine]) + 1, Len(Prefix))]
       ELSE End
    /\ UNCHANGED <<disk, session, world, minted, edges, runs, queue, boot, answers, spent>>

\* append_session: one line at a time, each awaited.
Send ==
    /\ At("send")
    /\ IF post.todo = <<>> THEN Goto(post.next) /\ UNCHANGED queue
       ELSE /\ queue' = Append(queue, [repl |-> Mine, line |-> Head(post.todo), owner |-> "post"])
            /\ Goto("wait")
    /\ UNCHANGED <<disk, session, world, minted, edges, runs, boot, answers, spent>>

\* The writer appends the oldest line, or fails to, and tells whoever still waits.
WriterAppends ==
    /\ queue # <<>>
    /\ LET a == Head(queue) IN
       \/ /\ session' = [session EXCEPT ![a.repl] = IF @ = NoFile THEN <<a.line>>
                                                    ELSE Append(@, a.line)]
          /\ UNCHANGED spent
          /\ post' = IF a.owner # "post" THEN post
                     ELSE [post EXCEPT !.pc = "send", !.todo = Tail(@)]
          /\ IF a.owner = "boot"
             THEN runs' = runs \cup {a.repl} /\ boot' = [boot EXCEPT !.at = None, !.sent = FALSE]
             ELSE UNCHANGED <<runs, boot>>
       \/ /\ Fault
          /\ post' = IF a.owner = "post" THEN IdlePost ELSE post
          /\ boot' = IF a.owner = "boot" THEN [boot EXCEPT !.at = None, !.sent = FALSE] ELSE boot
          /\ UNCHANGED <<session, runs>>
    /\ queue' = Tail(queue)
    /\ UNCHANGED <<disk, world, minted, edges, answers>>

\* The run record goes in; its events drain from now on.
Insert ==
    /\ At("insert")
    /\ runs' = runs \cup {Mine} /\ Goto("associate")
    /\ UNCHANGED <<disk, session, world, minted, edges, queue, boot, answers, spent>>

\* Mutant: a failing association is only logged.
AssociateBestEffort ==
    /\ At("associate") \/ At("associate_claim")
    /\ \/ edges' = edges \cup {Mine} /\ UNCHANGED spent
       \/ Fault /\ UNCHANGED edges
    /\ Goto(IF At("associate") THEN "publish" ELSE "answer")
    /\ UNCHANGED <<disk, session, world, minted, runs, queue, boot, answers>>

\* record_recovery_replacement_association: one run.created edge in the tx ledger.
Associate ==
    /\ At("associate") \/ At("associate_claim")
    /\ \/ /\ edges' = edges \cup {Mine}
          /\ Goto(IF At("associate") THEN "publish" ELSE "answer")
          /\ UNCHANGED spent
       \/ Fault /\ End /\ UNCHANGED edges
    /\ UNCHANGED <<disk, session, world, minted, runs, queue, boot, answers>>

\* Under the status lock: the link is written unless the session has it.
Publish ==
    /\ At("publish")
    /\ post' = [post EXCEPT !.pc = "send", !.next = "commit",
                  !.todo = IF Has(Mine, "recovery_origin") THEN <<>>
                           ELSE <<"recovery_origin">>]
    /\ UNCHANGED <<disk, session, world, minted, edges, runs, queue, boot, answers, spent>>

\* commit_recovery_claim: a claim that is gone or names another replacement is an error.
Commit ==
    /\ At("commit")
    /\ LET c == [Loaded.claim EXCEPT !.status = "committed"] IN
       IF Ambiguous \/ Loaded.claim.repl # Mine
       THEN End /\ UNCHANGED disk
       ELSE /\ claim' = Loaded.claim /\ temp' = Append(Loaded.temp, c)
            /\ post' = [post EXCEPT !.pc = "rename", !.claim = c, !.next = "answer"]
    /\ UNCHANGED <<session, world, minted, edges, runs, queue, boot, answers, spent>>

Answer ==
    /\ At("answer")
    /\ answers' = answers \cup {Mine} /\ End
    /\ UNCHANGED <<disk, session, world, minted, edges, runs, queue, boot, spent>>

(***************************************************************************)
(* The other actors.                                                       *)
(***************************************************************************)
\* GET /api/runs resolves the claim under the status lock, from its own enumeration.
Inventory ==
    /\ ~StatusLocked
    /\ LET res == Resolution(Links) IN claim' = res.claim /\ temp' = res.temp
    /\ UNCHANGED <<session, world, minted, edges, runs, queue, post, boot, answers, spent>>

\* Mutant: boot does not ask who owns a session.
OwnedByNone(r) == FALSE

\* boot_reattach_ownership looks for the claim in the project the candidate's worktree
\* belongs to by path: a worktree that is not the project root has no such session.
Owned(r) == WorktreeIsRoot /\ claim.status = "pending" /\ claim.repl = r

\* reattach_live_runs_on_boot: a candidate no pending claim owns is attached.
BootCheck(r) ==
    /\ r \in boot.todo /\ boot.at = None
    /\ \/ boot' = [boot EXCEPT !.todo = @ \ {r}, !.at = IF Owned(r) THEN None ELSE r]
          /\ UNCHANGED spent
       \/ /\ WorktreeIsRoot /\ Fault
          /\ boot' = [boot EXCEPT !.todo = @ \ {r}]
    /\ UNCHANGED <<disk, session, world, minted, edges, runs, queue, post, answers>>

\* Supervisor::reattach with its marker line, then the run record.
BootAttach ==
    /\ boot.at # None /\ ~boot.sent
    /\ IF boot.at \notin runs /\ runs = {} /\ pane[boot.at] = "live"
       THEN /\ boot' = [boot EXCEPT !.sent = TRUE]
            /\ queue' = Append(queue, [repl |-> boot.at, line |-> "reattach", owner |-> "boot"])
       ELSE boot' = [boot EXCEPT !.at = None] /\ UNCHANGED queue
    /\ UNCHANGED <<disk, session, world, minted, edges, runs, post, answers, spent>>

\* boot_reattach_candidate: an acquired run with its metadata and no release.
Candidate(r) == Has(r, "acquire") /\ Has(r, "run_meta") /\ ~Has(r, "release")

\* The daemon dies and starts again: what it kept in memory is gone.  A claim whose
\* temporary file was not synced yet is not authentic and is removed at the next load.
Restart ==
    /\ Spend("stop", MaxStops)
    /\ post' = IdlePost /\ queue' = <<>> /\ runs' = {}
    /\ boot' = [IdleBoot EXCEPT !.todo = {r \in Repls : Candidate(r)}]
    /\ temp' \in IF At("rename") THEN {temp, TempGone} ELSE {temp}
    /\ UNCHANGED <<claim, session, world, minted, edges, answers>>

\* The client goes away while the request awaits: its future is dropped, and what it
\* handed to the writer or to tmux is done all the same.
Drop ==
    /\ post.pc \in {"resolve", "execute", "spawning", "backfill", "wait", "insert",
                    "associate", "associate_claim", "publish"}
    /\ spent.drop + spent.fault < MaxFaults /\ Spend("drop", MaxFaults)
    /\ End
    /\ queue' = [k \in DOMAIN queue |->
                   IF queue[k].owner = "post" THEN [queue[k] EXCEPT !.owner = "nobody"]
                   ELSE queue[k]]
    /\ UNCHANGED <<disk, session, world, minted, edges, runs, boot, answers>>

\* A replacement ends; the supervisor releases a run it has.
PaneEnds(r) ==
    /\ pane[r] = "live" /\ Spend("death", MaxDeaths)
    /\ pane' = [pane EXCEPT ![r] = "gone"]
    /\ runs' = runs \ {r}
    /\ session' = IF r \in runs THEN [session EXCEPT ![r] = Append(@, "release")] ELSE session
    /\ UNCHANGED <<disk, starting, minted, edges, queue, post, boot, answers>>

\* The operator removes the session of a replacement that is dead.
RemoveSession(r) ==
    /\ pane[r] = "gone" /\ r \notin starting /\ Exists(r)
    /\ At("idle") /\ queue = <<>> /\ boot = IdleBoot
    /\ Spend("removal", MaxRemovals)
    /\ session' = [session EXCEPT ![r] = NoFile]
    /\ UNCHANGED <<disk, world, minted, edges, runs, queue, post, boot, answers>>

Handle ==
    \/ Resolve \/ Unreadable \/ Unclaimed \/ Committed \/ Conflict
    \/ ReconcileRefuses \/ Reconcile \/ Rename \/ Authority \/ NoAction \/ Planned
    \/ (\E r \in Repls : Mint(r)) \/ MintRefused \/ Mark
    \/ Reattach \/ Spawn \/ Backfill \/ Send \/ Insert
    \/ Associate \/ Publish \/ Commit \/ Answer

Boot == BootAttach \/ \E r \in Repls : BootCheck(r)

Next ==
    \/ (\E q \in Requests : Begin(q)) \/ Handle \/ WriterAppends \/ Inventory \/ Boot
    \/ Restart \/ Drop
    \/ \E r \in Repls : NewSession(r) \/ PaneEnds(r) \/ RemoveSession(r)

Spec == Init /\ [][Next]_vars

\* Boot takes up no session a pending claim still has to complete.  The code sees to it
\* for an origin that ran in the project root; for a managed worktree it holds of the
\* behaviours in which no boot pass meets such a session.
BootPasses ==
    \A r \in Repls :
        boot'.at = r /\ boot.at # r => ~(claim.status = "pending" /\ claim.repl = r)

\* The tasks of the daemon run on, and every client asks again until it is answered.
FairSpec ==
    /\ Spec /\ WF_vars(Handle) /\ WF_vars(WriterAppends) /\ WF_vars(Boot)
    /\ \A r \in Repls : WF_vars(NewSession(r))
    /\ \A q \in Requests : SF_vars(Begin(q))

(***************************************************************************)
(* Properties.                                                             *)
(***************************************************************************)
Lines == {Prefix[k] : k \in 1..4} \cup {"reattach", "release"}
Claims == [status : {"none", "pending", "committed"}, repl : Repls \cup {None},
           request : Requests \cup {None}, started : BOOLEAN]

\* Every variable has its type, only a crash leaves a temporary claim behind, and a run
\* record belongs to a replacement that was spawned.
TypeOK ==
    /\ claim \in Claims /\ temp \in Seq(Claims)
    /\ Len(temp) <= spent.stop + (IF At("rename") THEN 1 ELSE 0)
    /\ session \in [Repls -> Seq(Lines) \cup {NoFile}]
    /\ pane \in [Repls -> {"none", "live", "gone"}] /\ starting \subseteq Repls
    /\ minted \in [Repls -> Requests \cup {None}]
    /\ edges \subseteq Repls /\ answers \subseteq Repls
    /\ runs \subseteq {r \in Repls : pane[r] # "none"}
    /\ queue \in Seq([repl : Repls, line : Lines, owner : {"post", "boot", "nobody"}])

\* An origin never has two replacement workers, running or about to: whatever was
\* minted is found again by every retry.
OneReplacement == Cardinality({r \in Repls : pane[r] = "live" \/ r \in starting}) <= 1

\* What a client was told stands: the session of the replacement carries its link
\* unless it was removed, the ledger has its edge, and no claim names another one.
AnswersStand ==
    \A r \in answers :
        /\ r \in edges
        /\ Exists(r) => Has(r, "recovery_origin") /\ claim.repl \in {r, None}

\* As long as no request was dropped, boot leaves the lifecycle lines a pending claim
\* still has to complete alone.
PrefixReserved ==
    claim.status = "pending" /\ Exists(claim.repl) /\ spent.drop = 0
        => ~Has(claim.repl, "reattach")

\* A replacement that died is never started again under the same identity, as long as
\* no request was dropped: the spawn_started mark stands before every spawn, and a
\* retry that finds the handle dead refuses.
NeverRelaunched ==
    [][\A r \in Repls : pane[r] = "gone" => pane'[r] = "gone" \/ spent.drop > 0]_vars

\* Failed closed: the claim holds a replacement that is dead or whose session is not
\* the planned one, the link was written twice, or two temporary claims compete, and
\* every retry is refused.
FailedClosed == \/ /\ claim.status = "pending" /\ claim.repl \notin starting
                   /\ \/ claim.started /\ pane[claim.repl] # "live"
                      \/ Exists(claim.repl) /\ ~PrefixMatches(claim)
                \/ Cardinality(Links) > 1 \/ Ambiguous

\* Clients that keep asking end with the replacement or with a definite refusal: no
\* crash or lost request leaves the rescue undecided for ever.
RescueEnds == <>[](answers # {} \/ FailedClosed)
(***************************************************************************)
(* The inductive invariant of the behaviours that keep BootPasses.         *)
(***************************************************************************)
Pcs == {"idle", "resolve", "decide", "act", "rename", "authority", "mark", "execute", "spawning",
        "backfill", "send", "wait", "insert", "associate", "associate_claim", "publish",
        "commit", "answer"}
Nexts == {"idle", "mark", "execute", "authority", "answer", "backfill", "insert", "commit"}
Posts == [pc : Pcs, request : Requests \cup {None}, links : SUBSET (Repls \X Nat),
          offered : BOOLEAN, claim : Claims, reattach : BOOLEAN, todo : Seq(Lines), next : Nexts]
Typed ==
    /\ TypeOK
    /\ post \in Posts
    /\ boot \in [todo : SUBSET Repls, at : Repls \cup {None}, sent : BOOLEAN]
    /\ spent \in [{"fault", "stop", "drop", "death", "removal"} -> Nat]

\* The claims that a file or the request has.
Held == {claim, post.claim} \cup {temp[k] : k \in DOMAIN temp}
Active(r) == pane[r] = "live" \/ r \in starting
Spawned(r) == pane[r] # "none" \/ r \in starting

\* A claim names a replacement or is no claim; a committed one was spawned.
ClaimsWhole ==
    /\ \A c \in Held : /\ c.status = "none" => c = NoClaim
                       /\ c.status # "none" => c.repl # None
                       /\ c.status = "committed" => c.started /\ pane[c.repl] # "none"
    /\ \A k \in DOMAIN temp : temp[k].status # "none"

\* At most one replacement is in play: its session exists, or a claim names it.
InPlay(r) == Exists(r) \/ \E c \in Held : c.repl = r
OneInPlay == \A r, s \in Repls : InPlay(r) /\ InPlay(s) => r = s

ActiveHasSession == \A r \in Repls : Active(r) => Exists(r)

\* Until a session has every planned line, the pending claim stays.
UnfinishedIsClaimed ==
    \A r \in Repls : Exists(r) /\ ~Complete(r) => claim.status = "pending" /\ claim.repl = r
CommittedIsComplete ==
    \A c \in Held : c.status = "committed" /\ Exists(c.repl) => Complete(c.repl)

\* mark_pending_recovery_spawn_started comes before the spawn in every copy of the claim.
MarkedBeforeSpawn ==
    \A r \in Repls : Spawned(r) => \A c \in Held : c.repl = r => c.started
LoggedWasSpawned ==
    \A r \in Repls : Exists(r) /\ session[r] # <<>> => pane[r] # "none"
TempUnmarked ==
    \A k \in DOMAIN temp : temp[k].started \/ (claim = NoClaim /\ Len(temp) = 1)
RunsComplete == \A r \in runs : Exists(r) => Complete(r)

\* What the writer has queued goes to a session that is there.
QueueSound ==
    /\ \A k \in DOMAIN queue :
          /\ Exists(queue[k].repl) /\ pane[queue[k].repl] # "none"
          /\ queue[k].owner = "boot" => Complete(queue[k].repl)
          /\ queue[k].owner = "post" =>
                /\ At("wait") /\ queue[k].repl = Mine
                /\ post.todo # <<>> /\ queue[k].line = Head(post.todo)
    /\ \A j, k \in DOMAIN queue : queue[j].owner = "post" /\ queue[k].owner = "post" => j = k
BootSound ==
    /\ \A r \in boot.todo : Exists(r) /\ session[r] # <<>>
    /\ boot.at # None => Exists(boot.at) /\ Complete(boot.at)

\* The request, by what it is about to do.
NothingExists == \A r \in Repls : ~Exists(r)
Fresh == claim = NoClaim /\ temp = <<>> /\ NothingExists
Driving == {"execute", "spawning", "backfill", "send", "wait", "insert", "associate", "publish",
            "commit"}
Sending(next) == post.pc \in {"send", "wait"} /\ post.next = next
Renaming(next) == At("rename") /\ post.next = next
Finished == \/ post.pc \in {"insert", "associate", "publish", "commit", "authority",
                            "associate_claim", "answer"}
            \/ Sending("commit")
Edged == post.pc \in {"publish", "commit", "answer"} \/ Sending("commit") \/ Renaming("answer")

\* A replacement is minted only where none is in play.
EarlySound ==
    /\ post.pc \in {"idle", "resolve", "decide"} => post.claim = NoClaim
    /\ At("resolve") /\ post.links = {} => claim.status = "pending" \/ NothingExists
    /\ At("decide") /\ post.offered => claim.status = "pending" \/ Fresh
    /\ At("act") /\ post.offered /\ post.claim = NoClaim => Fresh
MintSound ==
    Renaming("mark") =>
        /\ NothingExists /\ claim = NoClaim /\ temp = <<post.claim>>
        /\ post.claim.status = "pending" /\ ~Spawned(Mine)
RenameSound ==
    At("rename") =>
        /\ post.next \in {"mark", "execute", "authority", "answer"}
        /\ post.next # "mark" => claim # NoClaim /\ post.claim.started
        /\ post.next = "execute" => post.claim.status = "pending"
        /\ post.next \in {"authority", "answer"} => post.claim.status = "committed"
RequestSound ==
    /\ post.pc \notin {"idle", "resolve", "decide", "act"} => post.claim # NoClaim
    /\ post.claim # NoClaim /\ ~Renaming("mark") => Exists(Mine)
    /\ post.pc \in {"authority", "associate_claim"} => post.claim.status = "committed"
    /\ post.pc \in Driving => \A c \in Held : c.started \/ c = NoClaim
    /\ Finished => Complete(Mine)
    /\ Edged => Mine \in edges
SendSound ==
    /\ post.pc \in {"backfill", "send", "wait"} => pane[Mine] # "none"
    /\ post.pc \in {"send", "wait"} => post.next \in {"backfill", "insert", "commit"}
    /\ Sending("insert") =>
          \A k \in DOMAIN Prefix :
             Has(Mine, Prefix[k]) \/ \E j \in DOMAIN post.todo : post.todo[j] = Prefix[k]

AnswersSound ==
    \A r \in answers : r \in edges /\ pane[r] # "none" /\ (Exists(r) => Complete(r))

RecoveryInv ==
    /\ Typed /\ ClaimsWhole /\ OneInPlay /\ ActiveHasSession /\ UnfinishedIsClaimed
    /\ CommittedIsComplete /\ MarkedBeforeSpawn /\ LoggedWasSpawned /\ TempUnmarked
    /\ RunsComplete /\ QueueSound /\ BootSound /\ EarlySound /\ MintSound /\ RenameSound
    /\ RequestSound /\ SendSound /\ AnswersSound

(***************************************************************************)
(* What the types rest on, whatever boot takes up: a claim that is used    *)
(* names a replacement, and one that runs or is about to has its session.  *)
(***************************************************************************)
ClaimsNamed ==
    /\ \A c \in Held : (c.status = "none" => c = NoClaim) /\ (c.status # "none" => c.repl # None)
    /\ \A k \in DOMAIN temp : temp[k].status # "none"
RequestNamed ==
    /\ post.pc \in {"idle", "resolve", "decide"} => post.claim = NoClaim
    /\ post.pc \notin {"idle", "resolve", "decide", "act"} => post.claim # NoClaim
    /\ post.claim # NoClaim /\ ~Renaming("mark") => Exists(Mine)
    /\ post.pc \in {"act", "mark"} /\ post.claim.status = "pending" => claim = post.claim
    /\ At("authority") \/ Renaming("authority") => post.claim.status = "committed"
    /\ At("rename") => post.next \in {"mark", "execute", "authority", "answer"}
SpawnedFirst ==
    /\ At("insert") \/ At("backfill") => pane[Mine] # "none"
    /\ Sending("backfill") \/ Sending("insert") => pane[Mine] # "none"
    /\ post.pc \in {"send", "wait"} => post.next \in {"backfill", "insert", "commit"}
    /\ \A k \in DOMAIN queue : queue[k].owner = "boot" => pane[queue[k].repl] # "none"
Awaited ==
    /\ \A k \in DOMAIN queue : queue[k].owner = "post" => At("wait") /\ post.todo # <<>>
    /\ \A j, k \in DOMAIN queue : queue[j].owner = "post" /\ queue[k].owner = "post" => j = k
TypeInv == Typed /\ ClaimsNamed /\ ActiveHasSession /\ RequestNamed /\ SpawnedFirst /\ Awaited

(***************************************************************************)
(* What holds as long as no request was dropped: every line that is still  *)
(* to be written has an owner, and a claim on disk is never disproved.     *)
(***************************************************************************)
\* The plan of a replacement is kept with the request it was minted for.
OwnRequests == \A c \in Held : c # NoClaim => c.request = minted[c.repl]

\* Somebody waits for what the writer has queued, and boot writes its marker only.
LinesOwned ==
    \A k \in DOMAIN queue : /\ queue[k].owner # "nobody"
                            /\ queue[k].owner = "boot" => queue[k].line = "reattach"

\* A session is linked at most once, and the request never queues a second link.
IsLink(r, k) == k \in DOMAIN session[r] /\ session[r][k] = "recovery_origin"
LinkedOnce ==
    /\ \A r \in Repls : \A j, k \in DOMAIN session[r] : IsLink(r, j) /\ IsLink(r, k) => j = k
    /\ post.pc \in {"send", "wait"} =>
          \A k \in DOMAIN post.todo :
             /\ post.todo[k] # "reattach"
             /\ post.todo[k] = "recovery_origin" =>
                   k = Len(post.todo) /\ ~Has(Mine, "recovery_origin")

\* Until the request acts it knows every link there is.
LinksCurrent ==
    post.pc \in {"resolve", "decide", "authority"} \/ Renaming("authority") => post.links = Links

\* The claim of a session stays on disk, and boot touches only the sessions of
\* committed ones.
SessionClaimed == \A r \in Repls : Exists(r) => claim.repl = r
BootOf(r) == \/ boot.at = r \/ Has(r, "reattach")
             \/ \E k \in DOMAIN queue : queue[k].repl = r /\ queue[k].owner = "boot"
BootLeavesPending == \A r \in Repls : Exists(r) /\ BootOf(r) => claim.status = "committed"

\* The request starts a replacement only if nobody did, by the claim that is on disk.
SpawnsOnce ==
    /\ \A r \in starting : pane[r] = "none"
    /\ Renaming("mark") => ~post.claim.started
    /\ At("execute") \/ Renaming("execute") => post.reattach \/ ~Spawned(Mine)
    /\ Renaming("execute") => claim.status = "pending"
    /\ At("mark") \/ (At("act") /\ post.claim # NoClaim) =>
          /\ post.claim = claim /\ claim.status = "pending"
          /\ post.reattach \/ ~claim.started
    /\ At("authority") => post.claim = claim

Undropped == /\ LinesOwned /\ LinkedOnce /\ LinksCurrent /\ SessionClaimed
             /\ BootLeavesPending /\ SpawnsOnce

\* The inductive invariant of a rescue, and what it gains while no request is dropped.
RescueInv == RecoveryInv /\ OwnRequests /\ (spent.drop = 0 => Undropped)
=============================================================================
