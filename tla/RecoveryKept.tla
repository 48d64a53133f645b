---------------------------- MODULE RecoveryKept ----------------------------
(***************************************************************************)
(* Proofs about RecoveryClaim while no request is dropped, in behaviours   *)
(* that keep BootPasses: no marker of boot's comes into the session of a   *)
(* pending claim, and no replacement that ended is started again.          *)
(* RescueInv is inductive.                                                 *)
(***************************************************************************)
EXTENDS RecoveryProofs

(***************************************************************************)
(* Which request a claim is for.                                           *)
(***************************************************************************)
\* A claim that names its own request.
Own(c) == c = NoClaim \/ c.request = minted[c.repl]

\* A step that mints nothing keeps the requests if every copy it leaves names its own.
LEMMA OwnHeld ==
  ASSUME OwnRequests, UNCHANGED minted, Own(claim'), Own(post'.claim),
         \A k \in DOMAIN temp' : Own(temp'[k])
  PROVE OwnRequests'
BY DEF OwnRequests, Own, Held

\* What load_recovery_claim and an enumeration give is what was minted.
LEMMA OwnLoaded ==
  ASSUME RecoveryInv, OwnRequests
  PROVE /\ Own(claim) /\ Own(post.claim) /\ Own(NoClaim) /\ Own(Loaded.claim)
        /\ \A k \in DOMAIN temp : Own(temp[k])
        /\ \A k \in DOMAIN Loaded.temp : Own(Loaded.temp[k])
<1>1. \A c \in Held : Own(c)
  BY DEF OwnRequests, Own
<1>2. claim \in Held /\ post.claim \in Held /\ \A k \in DOMAIN temp : temp[k] \in Held
  BY DEF Held
<1>3. Loaded.claim \in Held /\ \A k \in DOMAIN Loaded.temp : Loaded.temp[k] \in Held
  BY LoadedIs, LoadedTemps
<1> QED BY <1>1, <1>2, <1>3 DEF Own

\* So does what an enumeration resolves.
LEMMA OwnResolved ==
  ASSUME RecoveryInv, OwnRequests, NEW links \in SUBSET (Repls \X Nat), NEW res, res = Resolution(links)
  PROVE Own(res.claim) /\ \A k \in DOMAIN res.temp : Own(res.temp[k])
<1> DEFINE c == Loaded.claim
           rest == Loaded.temp
           answer(kind, f, t) == [kind |-> kind, claim |-> f, temp |-> t]
           named == {l[1] : l \in links}
           only == Snapshot(CHOOSE r \in named : TRUE)
<1>1. Own(c) /\ Own(NoClaim) /\ \A k \in DOMAIN rest : Own(rest[k])
  BY OwnLoaded
<1>2. Own(only)
  BY DEF Own, Snapshot, Claim
<1>3. rest \in Seq(Claims) /\ (Len(rest) = 1 => 1 \in DOMAIN rest)
  BY LoadedTemps
<1>4. \/ res = answer("valid", c, rest)
      \/ res = answer("reconstructed", only, rest)
      \/ res = answer("quarantined", NoClaim, rest)
      \/ res = answer("missing", NoClaim, rest)
      \/ res = answer("quarantined", rest[1], <<>>) /\ Len(rest) = 1
  BY DEF Resolution
<1> HIDE DEF c, rest, only, named
<1> QED BY <1>1, <1>2, <1>3, <1>4

\* Every step keeps the request of every copy.
LEMMA OwnStep ==
  ASSUME RecoveryInv, OwnRequests, [Next]_vars
  PROVE OwnRequests'
<1>1. /\ Own(claim) /\ Own(post.claim) /\ Own(NoClaim) /\ Own(Loaded.claim)
      /\ \A k \in DOMAIN temp : Own(temp[k])
      /\ \A k \in DOMAIN Loaded.temp : Own(Loaded.temp[k])
      /\ IdlePost.claim = NoClaim
  BY OwnLoaded DEF IdlePost
<1>2. /\ Links \in SUBSET (Repls \X Nat) /\ post.links \in SUBSET (Repls \X Nat)
      /\ post \in Posts /\ claim \in Claims /\ temp \in Seq(Claims)
      /\ Loaded.claim \in Claims /\ Loaded.temp \in Seq(Claims)
  BY LinksTyped, LoadedIs DEF RecoveryInv, Typed, TypeOK, Posts
<1>3. CASE minted' = minted /\ claim' = claim /\ temp' = temp
           /\ post'.claim \in {post.claim, NoClaim, Loaded.claim}
  BY <1>1, <1>3, OwnHeld
<1>4. CASE minted' = minted /\ claim' = Loaded.claim /\ temp' = Loaded.temp
           /\ post'.claim \in {post.claim, NoClaim, Loaded.claim}
  BY <1>1, <1>4, OwnHeld
<1>5. ASSUME NEW links \in SUBSET (Repls \X Nat), minted' = minted,
             claim' = Resolution(links).claim, temp' = Resolution(links).temp,
             post'.claim \in {post.claim, NoClaim, Loaded.claim}
      PROVE OwnRequests'
  BY <1>1, <1>5, OwnHeld, OwnResolved
<1>6. CASE (\E q \in Requests : Begin(q)) \/ Unclaimed \/ Unreadable \/ NoAction \/ Planned
  <2>1. minted' = minted /\ claim' = claim /\ temp' = temp
    BY <1>6 DEF Begin, Unclaimed, Unreadable, NoAction, Planned, disk
  <2>2. post'.claim \in {post.claim, NoClaim}
    BY <1>1, <1>2, <1>6 DEF Begin, Unclaimed, Unreadable, NoAction, Planned, Goto, End, IdlePost, Posts
  <2> QED BY <1>3, <2>1, <2>2
<1>7. CASE Resolve
  <2>1. minted' = minted /\ post'.claim = post.claim
    BY <1>2, <1>7 DEF Resolve, Posts
  <2>2. \/ claim' = Resolution(post.links).claim /\ temp' = Resolution(post.links).temp
        \/ claim' = claim /\ temp' = temp
    BY <1>7 DEF Resolve, disk
  <2> QED BY <1>2, <1>3, <1>5, <2>1, <2>2
<1>8. CASE Committed \/ Authority
  <2>1. minted' = minted /\ post'.claim \in {post.claim, NoClaim, Loaded.claim}
    BY <1>1, <1>2, <1>8 DEF Committed, Authority, Goto, Posts
  <2>2. claim' = Resolution(post.links).claim /\ temp' = Resolution(post.links).temp
    BY <1>8 DEF Committed, Authority
  <2> QED BY <1>2, <1>5, <2>1, <2>2
<1>9. CASE Conflict \/ ReconcileRefuses \/ MintRefused
  <2>1. minted' = minted /\ claim' = Loaded.claim /\ temp' = Loaded.temp /\ post'.claim = NoClaim
    BY <1>1, <1>9 DEF Conflict, ReconcileRefuses, MintRefused, End
  <2> QED BY <1>4, <2>1
<1>10. CASE Reconcile
  <2> DEFINE c == Loaded.claim
             done == [c EXCEPT !.status = "committed"]
  <2>1. /\ minted' = minted /\ claim' = c
        /\ temp' = Loaded.temp \o <<done>> \/ temp' = Loaded.temp \o <<>>
        /\ post'.claim = done \/ post'.claim = c
    BY <1>2, <1>10 DEF Reconcile, Posts
  <2>2. c # NoClaim /\ done \in Claims /\ done.request = c.request /\ done.repl = c.repl
    BY <1>2, <1>10 DEF Reconcile, Pending, NoClaim, Claims
  <2>3. Own(done)
    BY <1>1, <2>2 DEF Own
  <2> HIDE DEF done, c
  <2>4. \A k \in DOMAIN temp' : Own(temp'[k])
    <3>1. temp' = Append(Loaded.temp, done) \/ temp' = Loaded.temp
      BY <1>2, <2>1, <2>2, AppendIs
    <3> QED BY <1>1, <1>2, <2>2, <2>3, <3>1, AppendIs
  <2> QED BY <1>1, <2>1, <2>3, <2>4, OwnHeld DEF c
<1>11. CASE Rename
  <2>1. minted' = minted /\ claim' \in {claim, post.claim} /\ post'.claim \in {post.claim, NoClaim}
    BY <1>1, <1>2, <1>11 DEF Rename, Goto, End, Posts
  <2>2. \A k \in DOMAIN temp' : Own(temp'[k])
    BY <1>1, <1>11, FrontIs DEF Rename, TempGone
  <2> QED BY <1>1, <2>1, <2>2, OwnHeld
<1>12. CASE Mark \/ Commit
  <2> DEFINE c == IF Mark THEN [Loaded.claim EXCEPT !.started = TRUE]
                          ELSE [Loaded.claim EXCEPT !.status = "committed"]
  <2>1. c \in Claims /\ c.request = Loaded.claim.request /\ c.repl = Loaded.claim.repl
    BY <1>2 DEF Claims
  <2>2. Loaded.claim # NoClaim => Own(c)
    BY <1>1, <2>1 DEF Own
  <2>3. CASE claim' = claim /\ temp' = temp /\ post'.claim \in {post.claim, NoClaim}
    BY <1>3, <1>12, <2>3 DEF Mark, Commit
  <2>4. CASE claim' = Loaded.claim /\ temp' = Loaded.temp /\ post'.claim = Loaded.claim
    BY <1>4, <1>12, <2>4 DEF Mark, Commit
  <2>5. CASE /\ claim' = Loaded.claim /\ temp' = Append(Loaded.temp, c) /\ post'.claim = c
             /\ Loaded.claim # NoClaim
    <3>1. minted' = minted
      BY <1>12 DEF Mark, Commit
    <3> HIDE DEF c
    <3>2. \A k \in DOMAIN temp' : Own(temp'[k])
      BY <1>1, <1>2, <2>1, <2>2, <2>5, AppendIs
    <3> QED BY <1>1, <2>2, <2>5, <3>1, <3>2, OwnHeld
  <2>6. CASE Mark
    <3>1. \/ claim' = claim /\ temp' = temp /\ post'.claim \in {post.claim, NoClaim}
          \/ claim' = Loaded.claim /\ temp' = Loaded.temp /\ post'.claim = Loaded.claim
          \/ /\ claim' = Loaded.claim /\ temp' = Append(Loaded.temp, c) /\ post'.claim = c
             /\ Loaded.claim # NoClaim
      BY <1>1, <1>2, <2>6 DEF Mark, Goto, End, Posts, disk
    <3> QED BY <2>3, <2>4, <2>5, <3>1
  <2>7. CASE Commit /\ ~Mark
    <3>1. Loaded.claim.repl = Mine => Loaded.claim # NoClaim
      <4>1. At("commit") /\ Mine # None
        <5>1. At("commit") /\ post.claim # NoClaim
          BY <2>7 DEF Commit, RecoveryInv, RequestSound, At
        <5>2. post.claim \in Held /\ Fits(post.claim)
          BY HeldFits DEF Held
        <5> QED BY <5>1, <5>2, RecoveryAssumption DEF Fits, Mine
      <4> QED BY <4>1 DEF NoClaim
    <3>2. \/ claim' = claim /\ temp' = temp /\ post'.claim \in {post.claim, NoClaim}
          \/ /\ claim' = Loaded.claim /\ temp' = Append(Loaded.temp, c) /\ post'.claim = c
             /\ Loaded.claim # NoClaim
      BY <1>1, <1>2, <2>7, <3>1 DEF Commit, Goto, End, Posts, disk
    <3> QED BY <2>3, <2>5, <3>2
  <2> QED BY <1>12, <2>6, <2>7
<1>13. CASE \E r \in Repls : Mint(r)
  <2>1. PICK r \in Repls : Mint(r)
    BY <1>13
  <2> DEFINE c == Claim("pending", r, post.request, FALSE)
  <2>2. c \in Claims /\ c.repl = r /\ c.request = post.request
    BY <1>2 DEF Claim, Claims, Posts
  <2>3. /\ minted' = [minted EXCEPT ![r] = post.request] /\ claim' = NoClaim /\ post'.claim = c
        /\ temp' = Append(temp, c) /\ temp = <<>>
    BY <1>2, <2>1, LoadedIs DEF Mint, Posts
  <2>4. minted'[r] = post.request
    BY <2>3 DEF RecoveryInv, Typed, TypeOK
  <2> HIDE DEF c
  <2>5. \A k \in DOMAIN temp' : temp'[k] = c
    BY <1>2, <2>2, <2>3, AppendIs
  <2> QED BY <2>2, <2>3, <2>4, <2>5 DEF OwnRequests, Held
<1>14. CASE Reattach \/ Spawn \/ Backfill \/ Send \/ Insert \/ Associate \/ Publish \/ Answer
  <2>1. minted' = minted /\ claim' = claim /\ temp' = temp
    BY <1>14 DEF Reattach, Spawn, Backfill, Send, Insert, Associate, Publish, Answer, disk
  <2>2. post'.claim \in {post.claim, NoClaim}
    BY <1>1, <1>2, <1>14 DEF Reattach, Spawn, Backfill, Send, Insert, Associate, Publish, Answer, Goto,
       End, Posts
  <2> QED BY <1>3, <2>1, <2>2
<1>15. CASE WriterAppends \/ Boot \/ Drop \/ \E r \in Repls : NewSession(r) \/ PaneEnds(r) \/ RemoveSession(r)
  <2>1. minted' = minted /\ claim' = claim /\ temp' = temp
    BY <1>15 DEF WriterAppends, Boot, BootAttach, BootCheck, Drop, NewSession, PaneEnds, RemoveSession,
                 disk, world
  <2>2. post'.claim \in {post.claim, NoClaim}
    BY <1>1, <1>2, <1>15 DEF WriterAppends, Boot, BootAttach, BootCheck, Drop, NewSession, PaneEnds,
                 RemoveSession, End, Posts
  <2> QED BY <1>3, <2>1, <2>2
<1>16. CASE Inventory
  <2>1. /\ minted' = minted /\ claim' = Resolution(Links).claim /\ temp' = Resolution(Links).temp
        /\ post'.claim = post.claim
    BY <1>16 DEF Inventory
  <2> QED BY <1>2, <1>5, <2>1
<1>17. CASE Restart
  <2>1. minted' = minted /\ claim' = claim /\ post'.claim = NoClaim
    BY <1>1, <1>17 DEF Restart
  <2>2. \A k \in DOMAIN temp' : Own(temp'[k])
    BY <1>1, <1>17, FrontIs DEF Restart, TempGone
  <2> QED BY <1>1, <2>1, <2>2, OwnHeld
<1>18. CASE UNCHANGED vars
  BY <1>3, <1>18 DEF vars, disk
<1> QED BY <1>6, <1>7, <1>8, <1>9, <1>10, <1>11, <1>12, <1>13, <1>14, <1>15, <1>16, <1>17, <1>18
        DEF Next, Handle

(***************************************************************************)
(* While no request is dropped.                                            *)
(***************************************************************************)
LEMMA NotDropped ==
  ASSUME RecoveryInv, [Next]_vars, spent'.drop = 0
  PROVE spent.drop = 0 /\ ~Drop
<1>1. spent \in [{"fault", "stop", "drop", "death", "removal"} -> Nat]
  BY DEF RecoveryInv, Typed
<1>2. ASSUME NEW what \in {"fault", "stop", "death", "removal"}, NEW bound, Spend(what, bound)
      PROVE spent'.drop = spent.drop
  BY <1>1, <1>2 DEF Spend
<1>3. Drop => spent'.drop = spent.drop + 1
  BY <1>1 DEF Drop, Spend
<1>4. Drop => FALSE
  BY <1>1, <1>3
<1>5. CASE spent' = spent
  BY <1>4, <1>5
<1>6. CASE Fault
  BY <1>2, <1>4, <1>6 DEF Fault
<1>7. CASE Restart
  BY <1>2, <1>4, <1>7 DEF Restart
<1>8. CASE \E r \in Repls : PaneEnds(r) \/ RemoveSession(r)
  BY <1>2, <1>4, <1>8 DEF PaneEnds, RemoveSession
<1>9. CASE (\E q \in Requests : Begin(q)) \/ Resolve \/ Unreadable \/ Unclaimed \/ Committed \/ Conflict
           \/ ReconcileRefuses \/ Reconcile \/ Rename \/ Authority \/ NoAction \/ Planned
  BY <1>5, <1>6, <1>9 DEF Begin, Resolve, Unreadable, Unclaimed, Committed, Conflict,
           ReconcileRefuses, Reconcile, Rename, Authority, NoAction, Planned
<1>10. CASE (\E r \in Repls : Mint(r)) \/ MintRefused \/ Mark \/ Reattach \/ Spawn \/ Backfill \/ Send \/ Insert
           \/ Associate \/ Publish \/ Commit \/ Answer
  BY <1>5, <1>6, <1>10 DEF Mint, MintRefused, Mark, Reattach, Spawn, Backfill, Send, Insert, Associate,
           Publish, Commit, Answer
<1>11. CASE WriterAppends \/ Inventory \/ Boot \/ (\E r \in Repls : NewSession(r)) \/ UNCHANGED vars
  BY <1>5, <1>6, <1>11 DEF WriterAppends, Inventory, Boot, BootAttach, BootCheck, NewSession, vars
<1> QED BY <1>4, <1>7, <1>8, <1>9, <1>10, <1>11 DEF Next, Handle

\* What the writer does with the oldest line of its queue.
Written(r, line) == session' = [session EXCEPT ![r] = Append(@, line)]
\* One line of the queue goes to its session, or fails, and who waits for it hears.
LEMMA WriterWrites ==
  ASSUME RecoveryInv, WriterAppends
  PROVE /\ queue # <<>> /\ queue' = Tail(queue) /\ 1 \in DOMAIN queue
        /\ UNCHANGED <<disk, world, minted, edges, answers>>
        /\ queue[1].repl \in Repls /\ queue[1].line \in Lines /\ Exists(queue[1].repl)
        /\ queue[1].owner = "post" => /\ post.pc = "wait" /\ queue[1].repl = Mine
                                      /\ post.todo # <<>> /\ queue[1].line = Head(post.todo)
        /\ \/ /\ Written(queue[1].repl, queue[1].line)
              /\ post' = IF queue[1].owner # "post" THEN post
                         ELSE [post EXCEPT !.pc = "send", !.todo = Tail(@)]
           \/ /\ session' = session
              /\ post' = IF queue[1].owner = "post" THEN IdlePost ELSE post
        /\ boot' = boot \/ boot'.at = None
<1> DEFINE a == queue[1]
<1>1. queue # <<>> /\ queue' = Tail(queue) /\ 1 \in DOMAIN queue /\ Head(queue) = a
  BY QueueTail DEF WriterAppends
<1>2. a.repl \in Repls /\ a.line \in Lines /\ Exists(a.repl)
      /\ (a.owner = "post" => /\ post.pc = "wait" /\ a.repl = Mine
                              /\ post.todo # <<>> /\ a.line = Head(post.todo))
  BY <1>1, QueueTyped DEF RecoveryInv, QueueSound, At
<1> HIDE DEF a
<1>3. \/ /\ session' = [session EXCEPT ![a.repl] = IF @ = NoFile THEN <<a.line>> ELSE Append(@, a.line)]
         /\ post' = IF a.owner # "post" THEN post ELSE [post EXCEPT !.pc = "send", !.todo = Tail(@)]
      \/ /\ session' = session
         /\ post' = IF a.owner = "post" THEN IdlePost ELSE post
  BY <1>1 DEF WriterAppends
<1>4. boot' = boot \/ boot' = [boot EXCEPT !.at = None, !.sent = FALSE]
  BY DEF WriterAppends
<1>5. session[a.repl] # NoFile /\ boot.at \in Repls \cup {None}
  BY <1>2 DEF Exists, RecoveryInv, Typed
<1>6. boot' = boot \/ boot'.at = None
  BY <1>4 DEF RecoveryInv, Typed
<1> QED BY <1>1, <1>2, <1>3, <1>5, <1>6 DEF WriterAppends, Written, a

\* How a step moves the sessions.
Created(r) == /\ ~Exists(r) /\ session' = [session EXCEPT ![r] = <<>>]
              /\ claim'.repl = r /\ claim'.status = "pending" /\ boot' = boot /\ queue' = queue
              /\ post'.pc \in {"act", "mark"}
\* A session changes by a creation, an append of the writer, an end or a removal.
LEMMA SessionMoves ==
  ASSUME RecoveryInv, [Next]_vars
  PROVE \/ session' = session
        \/ \E r \in Repls : Created(r)
        \/ WriterAppends
        \/ \E r \in Repls : PaneEnds(r) \/ RemoveSession(r)
<1>0. post \in Posts
  BY DEF RecoveryInv, Typed
<1>1. CASE Reconcile
  <2> DEFINE c == Loaded.claim
             linked == Exists(c.repl) /\ Has(c.repl, "recovery_origin")
             done == [c EXCEPT !.status = "committed"]
  <2>1. /\ session' = IF Exists(c.repl) THEN session ELSE [session EXCEPT ![c.repl] = <<>>]
        /\ claim' = c /\ c.status = "pending" /\ boot' = boot /\ queue' = queue
        /\ post' = IF linked
                     THEN [post EXCEPT !.pc = "rename", !.claim = done, !.next = "authority"]
                     ELSE [post EXCEPT !.pc = "act", !.claim = c,
                             !.reattach = Reattachable(c)]
    BY <1>1 DEF Reconcile, Pending
  <2>2. c.repl \in Repls
    BY <2>1, LoadedIs, HeldFits DEF Fits, NoClaim
  <2>3. ~Exists(c.repl) => post'.pc = "act"
    BY <1>0, <2>1 DEF Posts
  <2> QED BY <2>1, <2>2, <2>3 DEF Created
<1>2. CASE Rename
  <2>1. CASE post'.pc = "mark" /\ ~Exists(post.claim.repl)
    <3>1. /\ session' = [session EXCEPT ![post.claim.repl] = <<>>] /\ boot' = boot /\ queue' = queue
          /\ claim' = post.claim /\ post.next = "mark"
      BY <1>0, <1>2, <2>1 DEF Rename, Goto, End, IdlePost, Posts
    <3>2. post.claim.status = "pending" /\ post.claim \in Held
      BY <1>2, <3>1 DEF Rename, At, RecoveryInv, MintSound, Renaming, Held
    <3>3. post.claim.repl \in Repls
      BY <3>2, HeldFits DEF Fits, NoClaim
    <3> QED BY <2>1, <3>1, <3>2, <3>3 DEF Created
  <2> QED BY <1>2, <2>1 DEF Rename
<1>3. CASE (\E q \in Requests : Begin(q)) \/ Resolve \/ Unreadable \/ Unclaimed \/ Committed \/ Conflict
           \/ ReconcileRefuses \/ Authority \/ NoAction \/ Planned
  BY <1>3 DEF Begin, Resolve, Unreadable, Unclaimed, Committed, Conflict,
           ReconcileRefuses, Authority, NoAction, Planned
<1>4. CASE (\E r \in Repls : Mint(r)) \/ MintRefused \/ Mark \/ Reattach \/ Spawn \/ Backfill \/ Send \/ Insert
           \/ Associate \/ Publish \/ Commit \/ Answer
  BY <1>4 DEF Mint, MintRefused, Mark, Reattach, Spawn, Backfill, Send, Insert, Associate,
           Publish, Commit, Answer
<1>5. CASE Restart \/ Drop \/ Inventory \/ Boot \/ (\E r \in Repls : NewSession(r)) \/ UNCHANGED vars
  BY <1>5 DEF Restart, Drop, Inventory, Boot, BootAttach, BootCheck, NewSession, vars
<1> QED BY <1>1, <1>2, <1>3, <1>4, <1>5 DEF Next, Handle

\* How a step moves the queue.
LEMMA QueueMoves ==
  ASSUME RecoveryInv, [Next]_vars, ~Drop
  PROVE \/ queue' = queue
        \/ queue' = <<>>
        \/ Send /\ queue' = Append(queue, [repl |-> Mine, line |-> Head(post.todo), owner |-> "post"])
        \/ BootAttach /\ queue' = Append(queue, [repl |-> boot.at, line |-> "reattach", owner |-> "boot"])
                      /\ boot.at # None
        \/ WriterAppends
<1>1. CASE (\E q \in Requests : Begin(q)) \/ Resolve \/ Unreadable \/ Unclaimed \/ Committed \/ Conflict
           \/ ReconcileRefuses \/ Reconcile \/ Rename \/ Authority \/ NoAction \/ Planned
  BY <1>1 DEF Begin, Resolve, Unreadable, Unclaimed, Committed, Conflict,
           ReconcileRefuses, Reconcile, Rename, Authority, NoAction, Planned
<1>2. CASE (\E r \in Repls : Mint(r)) \/ MintRefused \/ Mark \/ Reattach \/ Spawn \/ Backfill \/ Insert
           \/ Associate \/ Publish \/ Commit \/ Answer
  BY <1>2 DEF Mint, MintRefused, Mark, Reattach, Spawn, Backfill, Insert, Associate, Publish, Commit, Answer
<1>3. CASE Send
  BY <1>3 DEF Send
<1>4. CASE Restart \/ Inventory \/ Boot \/ UNCHANGED vars
           \/ \E r \in Repls : NewSession(r) \/ PaneEnds(r) \/ RemoveSession(r)
  BY <1>4 DEF Restart, Inventory, Boot, BootAttach, BootCheck, NewSession, PaneEnds, RemoveSession, vars
<1> QED BY <1>1, <1>2, <1>3, <1>4 DEF Next, Handle

\* What is added to a queue is last.
LEMMA Queued ==
  ASSUME RecoveryInv, NEW x, queue' = Append(queue, x)
  PROVE \A k \in DOMAIN queue' : (k \in DOMAIN queue /\ queue'[k] = queue[k]) \/ queue'[k] = x
<1>1. queue \in Seq(Request) /\ Len(queue) \in Nat /\ DOMAIN queue = 1..Len(queue)
  BY QueueTyped DEF RecoveryInv
<1>2. DOMAIN queue' = 1..(Len(queue) + 1) /\ queue'[Len(queue) + 1] = x
      /\ \A k \in 1..Len(queue) : queue'[k] = queue[k]
  BY <1>1
<1> QED BY <1>1, <1>2

\* Without a drop nobody stops waiting for a queued line.
LEMMA LinesOwnedStep ==
  ASSUME RecoveryInv, LinesOwned, [Next]_vars, ~Drop
  PROVE LinesOwned'
<1>1. CASE queue' = queue \/ queue' = <<>>
  BY <1>1 DEF LinesOwned
<1>2. CASE queue' = Append(queue, [repl |-> Mine, line |-> Head(post.todo), owner |-> "post"])
  BY <1>2, Queued DEF LinesOwned
<1>3. CASE queue' = Append(queue, [repl |-> boot.at, line |-> "reattach", owner |-> "boot"])
  BY <1>3, Queued DEF LinesOwned
<1>4. CASE WriterAppends
  <2>1. queue # <<>> /\ queue' = Tail(queue)
    BY <1>4 DEF WriterAppends
  <2> QED BY <2>1, QueueTail DEF LinesOwned
<1> QED BY <1>1, <1>2, <1>3, <1>4, QueueMoves

(***************************************************************************)
(* The sessions, one by one.                                               *)
(***************************************************************************)
LEMMA SessionIs ==
  ASSUME RecoveryInv, NEW r \in Repls, Exists(r)
  PROVE session[r] \in Seq(Lines) /\ Len(session[r]) \in Nat /\ DOMAIN session[r] = 1..Len(session[r])
BY DEF RecoveryInv, Typed, TypeOK, Exists

\* A session with one line appended has its old lines and that one.
LEMMA GrownIs ==
  ASSUME RecoveryInv, NEW r \in Repls, Exists(r), NEW line \in Lines,
         session'[r] = Append(session[r], line)
  PROVE /\ DOMAIN session'[r] = 1..(Len(session[r]) + 1) /\ Len(session[r]) \in Nat
        /\ DOMAIN session[r] = 1..Len(session[r])
        /\ \A k \in DOMAIN session'[r] : \/ k \in DOMAIN session[r] /\ session'[r][k] = session[r][k]
                                         \/ k = Len(session[r]) + 1 /\ session'[r][k] = line
        /\ \A k \in DOMAIN session[r] : k \in DOMAIN session'[r] /\ session'[r][k] = session[r][k]
<1> DEFINE s == session[r]
           t == session'[r]
           n == Len(session[r])
<1>1. s \in Seq(Lines) /\ n \in Nat /\ DOMAIN s = 1..n /\ n = Len(s) /\ t = Append(s, line)
  BY SessionIs
<1> HIDE DEF s, t, n
<1>2. DOMAIN t = 1..(n + 1) /\ t[n + 1] = line /\ \A k \in 1..n : t[k] = s[k]
  BY <1>1
<1>3. \A k \in 1..(n + 1) : k \in 1..n \/ k = n + 1
  BY <1>1
<1>4. \A k \in 1..n : k \in 1..(n + 1)
  BY <1>1
<1> QED BY <1>1, <1>2, <1>3, <1>4 DEF s, t, n

\* How a step moves one session.
Grows(r) ==
    \E line \in Lines :
       /\ Exists(r) /\ session'[r] = Append(session[r], line)
       /\ \/ line = "release" /\ UNCHANGED <<disk, queue, post, boot>>
          \/ /\ WriterAppends /\ Written(r, line) /\ r = queue[1].repl /\ line = queue[1].line
             /\ post' = IF queue[1].owner # "post" THEN post
                        ELSE [post EXCEPT !.pc = "send", !.todo = Tail(@)]
\* It stays, is created, grows by one line, or is removed.
LEMMA SessionMove ==
  ASSUME RecoveryInv, [Next]_vars, NEW r \in Repls
  PROVE \/ session'[r] = session[r]
        \/ Created(r) /\ session'[r] = <<>>
        \/ Grows(r)
        \/ RemoveSession(r) /\ session'[r] = NoFile
<1>1. session \in [Repls -> Seq(Lines) \cup {NoFile}]
  BY DEF RecoveryInv, Typed, TypeOK
<1>2. ASSUME NEW s \in Repls, Created(s) PROVE session'[r] = session[r] \/ (Created(r) /\ session'[r] = <<>>)
  BY <1>1, <1>2 DEF Created
<1>3. CASE WriterAppends
  <2>1. /\ queue[1].repl \in Repls /\ queue[1].line \in Lines /\ Exists(queue[1].repl)
        /\ \/ /\ Written(queue[1].repl, queue[1].line)
              /\ post' = IF queue[1].owner # "post" THEN post
                         ELSE [post EXCEPT !.pc = "send", !.todo = Tail(@)]
           \/ session' = session
    BY <1>3, WriterWrites
  <2>2. ASSUME Written(queue[1].repl, queue[1].line), queue[1].repl = r
        PROVE session'[r] = Append(session[r], queue[1].line)
    BY <1>1, <2>1, <2>2 DEF Written
  <2>3. ASSUME Written(queue[1].repl, queue[1].line), queue[1].repl # r
        PROVE session'[r] = session[r]
    BY <1>1, <2>1, <2>3 DEF Written
  <2> QED BY <1>3, <2>1, <2>2, <2>3 DEF Grows
<1>4. ASSUME NEW s \in Repls, PaneEnds(s) PROVE session'[r] = session[r] \/ Grows(r)
  <2>1. Exists(s) /\ "release" \in Lines
    BY <1>4 DEF PaneEnds, RecoveryInv, ActiveHasSession, Active, Lines
  <2>2. session' = session \/ session' = [session EXCEPT ![s] = Append(@, "release")]
    BY <1>4 DEF PaneEnds
  <2>3. UNCHANGED <<disk, queue, post, boot>>
    BY <1>4 DEF PaneEnds
  <2>4. CASE session' = session
    BY <2>4
  <2>5. CASE session' = [session EXCEPT ![s] = Append(@, "release")] /\ s = r
    <3>1. session'[r] = Append(session[r], "release")
      BY <1>1, <2>5
    <3> QED BY <2>1, <2>3, <2>5, <3>1 DEF Grows
  <2>6. CASE session' = [session EXCEPT ![s] = Append(@, "release")] /\ s # r
    BY <1>1, <2>6
  <2> QED BY <2>2, <2>4, <2>5, <2>6
<1>5. ASSUME NEW s \in Repls, RemoveSession(s)
      PROVE session'[r] = session[r] \/ (RemoveSession(r) /\ session'[r] = NoFile)
  BY <1>1, <1>5 DEF RemoveSession
<1> QED BY <1>2, <1>3, <1>4, <1>5, SessionMoves

\* A session is not there after a step unless it was, or the step made it.
LEMMA ExistsMove ==
  ASSUME RecoveryInv, [Next]_vars, NEW r \in Repls, Exists(r)'
  PROVE Exists(r) \/ (Created(r) /\ session'[r] = <<>>)
<1>1. session'[r] # NoFile
  BY DEF Exists
<1> QED BY <1>1, SessionMove DEF Exists, Grows

(***************************************************************************)
(* The claim of a session that is there stays.                             *)
(***************************************************************************)
LEMMA LinksOf ==
  ASSUME RecoveryInv, LinkedOnce, SessionClaimed, NEW r \in Repls, Exists(r), Complete(r)
  PROVE \E k \in Nat : Links = {<<r, k>>}
<1>1. session[r] \in Seq(Lines) /\ DOMAIN session[r] \subseteq Nat
  BY SessionIs
<1>2. 4 \in DOMAIN Prefix /\ Prefix[4] = "recovery_origin"
  BY PrefixIs
<1>3. PICK k \in DOMAIN session[r] : session[r][k] = "recovery_origin"
  BY <1>2 DEF Complete, Has
<1>4. \A j \in DOMAIN session[r] : session[r][j] = "recovery_origin" => j = k
  BY <1>3 DEF LinkedOnce, IsLink
<1>5. \A s \in Repls : Complete(s) => s = r
  <2>1. \A s \in Repls : Complete(s) => Exists(s)
    BY NoFileIs DEF Exists
  <2> QED BY <2>1 DEF SessionClaimed
<1>6. {j \in DOMAIN session[r] : session[r][j] = "recovery_origin"} = {k}
  BY <1>3, <1>4
<1>7. {s \in Repls : Complete(s)} = {r}
  BY <1>5
<1>8. Links = UNION {{<<s, j>> : j \in {i \in DOMAIN session[s] : session[s][i] = "recovery_origin"}} :
                        s \in {r}}
  BY <1>7 DEF Links
<1>9. Links = {<<r, j>> : j \in {k}}
  BY <1>6, <1>8
<1> QED BY <1>1, <1>3, <1>9

\* An enumeration that is current confirms the claim.
LEMMA Confirmed ==
  ASSUME RecoveryInv, OwnRequests, LinkedOnce, SessionClaimed, NEW r \in Repls, Exists(r)
  PROVE /\ claim # NoClaim /\ claim.repl = r /\ claim.status \in {"pending", "committed"}
        /\ Loaded.claim = claim /\ Loaded.temp = temp /\ ~Ambiguous
        /\ Resolution(Links).kind = "valid"
        /\ Resolution(Links).claim = claim /\ Resolution(Links).temp = temp
<1>1. claim.repl = r /\ claim # NoClaim /\ claim \in Claims /\ claim \in Held
  BY RecoveryAssumption, Fields DEF SessionClaimed, NoClaim, Held, RecoveryInv
<1>2. claim.status \in {"pending", "committed"}
  BY <1>1 DEF RecoveryInv, ClaimsWhole, Claims
<1>3. Loaded.claim = claim /\ Loaded.temp = temp /\ ~Ambiguous
  BY <1>1, LoadedIs DEF Ambiguous
<1>4. CASE claim.status = "pending"
  BY <1>1, <1>3, <1>4 DEF Resolution
<1>5. CASE claim.status = "committed"
  <2>1. Complete(r) /\ claim.started /\ claim.request = minted[r]
    BY <1>1, <1>5 DEF RecoveryInv, CommittedIsComplete, ClaimsWhole, OwnRequests
  <2>2. PICK k \in Nat : Links = {<<r, k>>}
    BY <2>1, LinksOf
  <2>3. Cardinality(Links) = 1
    BY <2>2, FS_Singleton
  <2>4. {l[1] : l \in Links} = {r}
    BY <2>2
  <2>5. (CHOOSE s \in {l[1] : l \in Links} : TRUE) = r
    BY <2>4
  <2>6. Snapshot(r) = claim
    <3>1. claim = [status |-> claim.status, repl |-> claim.repl, request |-> claim.request,
                   started |-> claim.started]
      BY <1>1 DEF Claims
    <3>2. claim.started = TRUE
      BY <1>1, <2>1 DEF Claims
    <3> QED BY <1>1, <1>5, <2>1, <3>1, <3>2 DEF Snapshot, Claim
  <2>7. Verified(claim)
    BY <1>1, <1>5, <2>1 DEF Verified
  <2> QED BY <1>1, <1>2, <1>3, <1>5, <2>3, <2>5, <2>6, <2>7 DEF Resolution
<1> QED BY <1>1, <1>2, <1>3, <1>4, <1>5

\* No step takes the claim of a session away, or back from committed to pending.
LEMMA ClaimKeeps ==
  ASSUME RecoveryInv, OwnRequests, Undropped, [Next]_vars, NEW r \in Repls, Exists(r)
  PROVE claim'.repl = r /\ (claim.status = "committed" => claim'.status = "committed")
<1>1. /\ claim # NoClaim /\ claim.repl = r
      /\ Loaded.claim = claim /\ Resolution(Links).claim = claim
  BY Confirmed DEF Undropped
<1>2. CASE claim' = claim
  BY <1>1, <1>2
<1>3. CASE Resolve \/ Committed \/ Authority
  <2>1. post.links = Links
    BY <1>3 DEF Resolve, Committed, Authority, Undropped, LinksCurrent, At
  <2>2. claim' = Resolution(post.links).claim \/ claim' = claim
    BY <1>3 DEF Resolve, Committed, Authority, disk
  <2> QED BY <1>1, <2>1, <2>2
<1>4. CASE Conflict \/ ReconcileRefuses \/ Reconcile \/ MintRefused \/ Mark \/ Commit
  BY <1>1, <1>4 DEF Conflict, ReconcileRefuses, Reconcile, MintRefused, Mark, Commit, disk
<1>5. CASE Inventory
  BY <1>1, <1>5 DEF Inventory
<1>6. CASE Rename /\ claim' # claim
  <2>1. claim' = post.claim /\ At("rename")
    BY <1>6 DEF Rename
  <2>2. post.claim # NoClaim /\ post.claim \in Held
    BY <2>1 DEF RecoveryInv, RequestSound, At, Held
  <2>3. post.claim.repl \in Repls /\ InPlay(post.claim.repl)
    BY <2>2, HeldFits DEF Fits
  <2>4. post.claim.repl = r
    BY <2>3 DEF RecoveryInv, OneInPlay, InPlay
  <2>5. /\ post.next \in {"execute", "authority", "answer"}
        /\ post.next = "execute" => claim.status = "pending"
        /\ post.next \in {"authority", "answer"} => post.claim.status = "committed"
    BY <2>1 DEF RecoveryInv, RenameSound, MintSound, NothingExists, Renaming, Undropped, SpawnsOnce
  <2> QED BY <2>1, <2>4, <2>5
<1>7. CASE (\E q \in Requests : Begin(q)) \/ Unreadable \/ Unclaimed \/ NoAction \/ Planned
           \/ (\E s \in Repls : Mint(s)) \/ Reattach \/ Spawn \/ Backfill \/ Send \/ Insert
           \/ Associate \/ Publish \/ Answer
  BY <1>2, <1>7 DEF Begin, Unreadable, Unclaimed, NoAction, Planned, Mint, Reattach, Spawn, Backfill, Send,
           Insert, Associate, Publish, Answer, disk
<1>8. CASE WriterAppends \/ Restart \/ Drop \/ Boot \/ UNCHANGED vars
           \/ \E s \in Repls : NewSession(s) \/ PaneEnds(s) \/ RemoveSession(s)
  BY <1>2, <1>8 DEF WriterAppends, Restart, Drop, Boot, BootAttach, BootCheck, NewSession, PaneEnds,
           RemoveSession, vars, disk
<1> QED BY <1>2, <1>3, <1>4, <1>5, <1>6, <1>7, <1>8 DEF Next, Handle

\* A session that appears is the one the claim on disk names.
LEMMA SessionClaimedStep ==
  ASSUME RecoveryInv, OwnRequests, Undropped, [Next]_vars
  PROVE SessionClaimed'
<1> SUFFICES ASSUME NEW r \in Repls, Exists(r)' PROVE claim'.repl = r
  BY DEF SessionClaimed
<1> QED BY ExistsMove, ClaimKeeps DEF Created

(***************************************************************************)
(* Boot and the sessions of pending claims.                                *)
(***************************************************************************)
LEMMA NotALine == "no file" \notin Lines
<1>1. \A k \in 1..4 : Prefix[k] # "no file"
  <2>1. \A k \in 1..4 : k = 1 \/ k = 2 \/ k = 3 \/ k = 4
    OBVIOUS
  <2> QED BY <2>1, PrefixIs
<1> QED BY <1>1 DEF Lines

\* A line a session has after a step was there, or the step appended it.
LEMMA HasMove ==
  ASSUME RecoveryInv, [Next]_vars, NEW r \in Repls, NEW line \in Lines, Has(r, line)'
  PROVE Exists(r) /\ (\/ Has(r, line)
                      \/ line = "release"
                      \/ /\ WriterAppends /\ r = queue[1].repl /\ line = queue[1].line
                         /\ post' = IF queue[1].owner # "post" THEN post
                                    ELSE [post EXCEPT !.pc = "send", !.todo = Tail(@)])
<1>1. PICK k \in DOMAIN session'[r] : session'[r][k] = line
  BY DEF Has
<1>2. CASE session'[r] = session[r]
  <2>1. Has(r, line)
    BY <1>1, <1>2 DEF Has
  <2> QED BY <2>1, NoFileIs DEF Exists
<1>3. CASE session'[r] = <<>>
  BY <1>1, <1>3
<1>4. CASE session'[r] = NoFile
  <2>1. line = "no file"
    BY <1>1, <1>4, NoFileValue
  <2> QED BY <2>1, NotALine
<1>5. CASE Grows(r)
  <2>1. PICK l \in Lines :
          /\ Exists(r) /\ session'[r] = Append(session[r], l)
          /\ \/ l = "release"
             \/ /\ WriterAppends /\ r = queue[1].repl /\ l = queue[1].line
                /\ post' = IF queue[1].owner # "post" THEN post
                           ELSE [post EXCEPT !.pc = "send", !.todo = Tail(@)]
    BY <1>5 DEF Grows
  <2>2. (k \in DOMAIN session[r] /\ session'[r][k] = session[r][k]) \/ session'[r][k] = l
    BY <1>1, <2>1, GrownIs
  <2>3. Has(r, line) \/ l = line
    BY <1>1, <2>2 DEF Has
  <2> QED BY <2>1, <2>3
<1> QED BY <1>2, <1>3, <1>4, <1>5, SessionMove

\* Boot comes to no session of a pending claim.
LEMMA BootLeavesPendingStep ==
  ASSUME RecoveryInv, OwnRequests, Undropped, [Next]_vars, ~Drop, [BootPasses]_vars
  PROVE BootLeavesPending'
<1> SUFFICES ASSUME NEW r \in Repls, Exists(r)', BootOf(r)' PROVE claim'.status = "committed"
  BY DEF BootLeavesPending
<1>0. LinesOwned /\ LinkedOnce /\ BootLeavesPending /\ "reattach" \in Lines
  BY DEF Undropped, Lines
<1>1. \/ boot'.at = r \/ Has(r, "reattach")'
      \/ \E k \in DOMAIN queue' : queue'[k].repl = r /\ queue'[k].owner = "boot"
  BY DEF BootOf
<1>2. CASE Exists(r)
  <2>1. claim.repl = r /\ claim.status \in {"pending", "committed"}
    BY <1>0, <1>2, Confirmed DEF Undropped
  <2>2. CASE boot'.at = r
    <3>1. boot.at = r \/ ~(claim.status = "pending" /\ claim.repl = r)
      BY <2>2 DEF BootPasses, vars
    <3>2. boot.at = r => BootOf(r)
      BY DEF BootOf
    <3> QED BY <1>0, <1>2, <2>1, <3>1, <3>2, ClaimKeeps DEF BootLeavesPending
  <2>3. CASE Has(r, "reattach")'
    <3>1. \/ Has(r, "reattach")
          \/ WriterAppends /\ r = queue[1].repl /\ queue[1].line = "reattach"
      BY <1>0, <2>3, HasMove
    <3>2. BootOf(r)
      <4>1. CASE WriterAppends /\ r = queue[1].repl /\ queue[1].line = "reattach"
        <5>1. /\ 1 \in DOMAIN queue
              /\ queue[1].owner = "post" => /\ post.pc = "wait" /\ post.todo # <<>>
                                            /\ queue[1].line = Head(post.todo)
          BY <4>1, WriterWrites
        <5>2. queue[1].owner \in {"post", "boot", "nobody"}
          BY <5>1, QueueTyped DEF RecoveryInv
        <5>3. post.todo # <<>> => 1 \in DOMAIN post.todo /\ Head(post.todo) = post.todo[1]
          BY DEF RecoveryInv, Typed, Posts
        <5>4. queue[1].owner # "post"
          BY <1>0, <4>1, <5>1, <5>3 DEF LinkedOnce
        <5>5. queue[1].owner = "boot"
          BY <1>0, <5>1, <5>2, <5>4 DEF LinesOwned
        <5> QED BY <4>1, <5>1, <5>5 DEF BootOf
      <4> QED BY <3>1, <4>1 DEF BootOf
    <3> QED BY <1>0, <1>2, <3>2, ClaimKeeps DEF BootLeavesPending
  <2>4. CASE \E k \in DOMAIN queue' : queue'[k].repl = r /\ queue'[k].owner = "boot"
    <3>1. PICK k \in DOMAIN queue' : queue'[k].repl = r /\ queue'[k].owner = "boot"
      BY <2>4
    <3>2. BootOf(r)
      <4>1. CASE queue' = queue \/ queue' = <<>>
        BY <3>1, <4>1 DEF BootOf
      <4>2. CASE queue' = Append(queue, [repl |-> Mine, line |-> Head(post.todo), owner |-> "post"])
        BY <3>1, <4>2, Queued DEF BootOf
      <4>3. CASE queue' = Append(queue, [repl |-> boot.at, line |-> "reattach", owner |-> "boot"])
        BY <3>1, <4>3, Queued DEF BootOf
      <4>4. CASE WriterAppends
        <5>1. queue # <<>> /\ queue' = Tail(queue)
          BY <4>4 DEF WriterAppends
        <5> QED BY <3>1, <5>1, QueueTail DEF BootOf
      <4> QED BY <4>1, <4>2, <4>3, <4>4, QueueMoves
    <3> QED BY <1>0, <1>2, <3>2, ClaimKeeps DEF BootLeavesPending
  <2> QED BY <1>1, <2>2, <2>3, <2>4
<1>3. CASE ~Exists(r)
  <2>1. Created(r) /\ session'[r] = <<>>
    BY <1>3, ExistsMove
  <2>2. ~Has(r, "reattach")'
    BY <2>1 DEF Has
  <2>3. boot.at # r
    BY <1>3, RecoveryAssumption DEF RecoveryInv, BootSound
  <2>4. \A k \in DOMAIN queue : queue[k].repl # r
    BY <1>3 DEF RecoveryInv, QueueSound
  <2> QED BY <1>1, <2>1, <2>2, <2>3, <2>4 DEF Created
<1> QED BY <1>2, <1>3

(***************************************************************************)
(* A session is linked once.                                               *)
(***************************************************************************)
LEMMA TodoIs ==
  ASSUME RecoveryInv
  PROVE /\ post.todo \in Seq(Lines) /\ Len(post.todo) \in Nat /\ DOMAIN post.todo = 1..Len(post.todo)
        /\ post.todo # <<>> => /\ 1 \in DOMAIN post.todo /\ Head(post.todo) = post.todo[1]
                               /\ Len(Tail(post.todo)) = Len(post.todo) - 1
                               /\ \A k \in DOMAIN Tail(post.todo) :
                                     /\ k \in Nat /\ k # 0 /\ k + 1 \in DOMAIN post.todo
                                     /\ Tail(post.todo)[k] = post.todo[k + 1]
<1> DEFINE s == post.todo
<1>1. s \in Seq(Lines) /\ Len(s) \in Nat /\ DOMAIN s = 1..Len(s)
  BY DEF RecoveryInv, Typed, Posts
<1> HIDE DEF s
<1>2. ASSUME s # <<>>
      PROVE /\ 1 \in DOMAIN s /\ Head(s) = s[1] /\ Len(Tail(s)) = Len(s) - 1
            /\ \A k \in DOMAIN Tail(s) : /\ k \in Nat /\ k # 0 /\ k + 1 \in DOMAIN s
                                         /\ Tail(s)[k] = s[k + 1]
  <2>1. Len(s) > 0 /\ Head(s) = s[1] /\ 1 \in DOMAIN s
    BY <1>1, <1>2, EmptySeq
  <2>2. /\ Tail(s) \in Seq(Lines) /\ Len(Tail(s)) = Len(s) - 1
        /\ \A i \in 1..Len(Tail(s)) : Tail(s)[i] = s[i + 1]
    BY <1>1, <1>2, HeadTailProperties
  <2>3. DOMAIN Tail(s) = 1..(Len(s) - 1)
    BY <2>2
  <2> QED BY <1>1, <2>1, <2>2, <2>3
<1> QED BY <1>1, <1>2 DEF s

\* A link is written for the request that queued it last, to a session that has none.
LEMMA LinkWritten ==
  ASSUME RecoveryInv, LinesOwned, LinkedOnce, WriterAppends, queue[1].line = "recovery_origin"
  PROVE /\ queue[1].owner = "post" /\ queue[1].repl = Mine /\ ~Has(Mine, "recovery_origin")
        /\ post.pc = "wait" /\ post.todo # <<>> /\ Len(post.todo) = 1
<1>1. /\ 1 \in DOMAIN queue
      /\ queue[1].owner = "post" => /\ post.pc = "wait" /\ queue[1].repl = Mine
                                    /\ post.todo # <<>> /\ queue[1].line = Head(post.todo)
  BY WriterWrites
<1>2. queue[1].owner \in {"post", "boot", "nobody"}
  BY <1>1, QueueTyped DEF RecoveryInv
<1>3. queue[1].owner = "post"
  BY <1>1, <1>2 DEF LinesOwned
<1> QED BY <1>1, <1>3, TodoIs DEF LinkedOnce

\* How a request comes to append lines.
LEMMA SendingMoves ==
  ASSUME RecoveryInv, [Next]_vars, post'.pc \in {"send", "wait"}
  PROVE \/ post.pc \in {"send", "wait"} /\ post'.todo = post.todo /\ post'.claim = post.claim
        \/ Publish \/ Backfill
        \/ post'.todo = <<"acquire", "run_meta">>
        \/ /\ WriterAppends /\ queue[1].owner = "post" /\ post.pc = "wait" /\ post.todo # <<>>
           /\ post'.todo = Tail(post.todo) /\ post'.claim = post.claim
<1>0. post \in Posts /\ IdlePost.pc = "idle"
  BY DEF RecoveryInv, Typed, IdlePost
<1>1. CASE post' = post \/ post' = IdlePost
  BY <1>0, <1>1
<1>2. CASE Rename
  <2>1. post.next \in {"mark", "execute", "authority", "answer"}
    BY <1>2 DEF Rename, RecoveryInv, RenameSound
  <2> QED BY <1>0, <1>2, <2>1 DEF Rename, Goto, End, Posts
<1>3. CASE Send
  <2>1. post.pc = "send" /\ post.next \in {"backfill", "insert", "commit"}
    BY <1>3 DEF Send, At, RecoveryInv, SendSound
  <2> QED BY <1>0, <1>3, <2>1 DEF Send, Goto, Posts
<1>4. CASE WriterAppends
  <2>1. /\ queue[1].owner = "post" => post.pc = "wait" /\ post.todo # <<>>
        /\ post' = (IF queue[1].owner # "post" THEN post
                    ELSE [post EXCEPT !.pc = "send", !.todo = Tail(@)])
           \/ post' = (IF queue[1].owner = "post" THEN IdlePost ELSE post)
    BY <1>4, WriterWrites
  <2> QED BY <1>0, <1>4, <2>1 DEF Posts
<1>5. CASE \E r \in Repls : NewSession(r)
  <2>1. \/ post' = post \/ post' = IdlePost
        \/ post' = [post EXCEPT !.pc = "send", !.todo = <<"acquire", "run_meta">>, !.next = "backfill"]
    BY <1>5 DEF NewSession, End
  <2> QED BY <1>0, <1>1, <2>1 DEF Posts
<1>6. CASE Resolve \/ Unreadable \/ Unclaimed \/ Committed \/ Conflict
           \/ ReconcileRefuses \/ Reconcile \/ Authority \/ NoAction \/ Planned
  BY <1>0, <1>6 DEF Resolve, Unreadable, Unclaimed, Committed, Conflict, ReconcileRefuses, Reconcile,
           Authority, NoAction, Planned, Goto, End, Posts
<1>7. CASE (\E r \in Repls : Mint(r)) \/ MintRefused \/ Mark \/ Reattach \/ Spawn \/ Insert
           \/ Associate \/ Commit \/ Answer
  BY <1>0, <1>7 DEF Mint, MintRefused, Mark, Reattach, Spawn, Insert, Associate, Commit, Answer,
           Goto, End, Posts
<1>8. CASE \E q \in Requests : Begin(q)
  BY <1>0, <1>8 DEF Begin, Posts, IdlePost
<1>9. CASE Inventory \/ Restart \/ Drop \/ Boot \/ UNCHANGED vars
           \/ \E r \in Repls : PaneEnds(r) \/ RemoveSession(r)
  BY <1>1, <1>9 DEF Inventory, Restart, Drop, Boot, BootAttach, BootCheck, PaneEnds, RemoveSession, End, vars
<1> QED BY <1>2, <1>3, <1>4, <1>5, <1>6, <1>7, <1>8, <1>9 DEF Next, Handle

\* What may be left to send: the link comes last, and only to a session without one.
TodoSound == \A k \in DOMAIN post.todo :
                /\ post.todo[k] # "reattach"
                /\ post.todo[k] = "recovery_origin" =>
                      k = Len(post.todo) /\ ~Has(Mine, "recovery_origin")
\* A request never queues a second link, nor boot's marker.
LEMMA TodoStep ==
  ASSUME RecoveryInv, LinesOwned, LinkedOnce, [Next]_vars, post'.pc \in {"send", "wait"}
  PROVE TodoSound'
<1>0. "recovery_origin" \in Lines /\ post \in Posts
  <2>1. 4 \in 1..4 /\ Prefix[4] = "recovery_origin"
    BY PrefixIs
  <2> QED BY <2>1 DEF Lines, RecoveryInv, Typed
<1>1. CASE post.pc \in {"send", "wait"} /\ post'.todo = post.todo /\ post'.claim = post.claim
  <2>1. TodoSound /\ Mine' = Mine /\ Mine \in Repls
    BY <1>1, MineIs DEF LinkedOnce, TodoSound, Mine
  <2>2. Has(Mine, "recovery_origin")' => Has(Mine, "recovery_origin")
    <3> SUFFICES ASSUME Has(Mine, "recovery_origin")', ~Has(Mine, "recovery_origin") PROVE FALSE
      OBVIOUS
    <3> DEFINE m == Mine
    <3>1. \E k \in DOMAIN session'[m] : session'[m][k] = "recovery_origin"
      BY <2>1 DEF Has
    <3>2. Has(m, "recovery_origin")'
      BY <2>1
    <3>3. WriterAppends /\ queue[1].line = "recovery_origin"
          /\ post' = IF queue[1].owner # "post" THEN post ELSE [post EXCEPT !.pc = "send", !.todo = Tail(@)]
      BY <1>0, <2>1, <3>2, HasMove
    <3>4. queue[1].owner = "post" /\ Len(post.todo) = 1
      BY <3>3, LinkWritten
    <3>5. post'.todo = Tail(post.todo)
      BY <1>0, <3>3, <3>4 DEF Posts
    <3>6. post.todo # <<>> /\ Tail(post.todo) = post.todo
      BY <1>1, <3>3, <3>5, LinkWritten
    <3>7. Len(Tail(post.todo)) = Len(post.todo) - 1 /\ Len(post.todo) \in Nat
      BY <3>6, TodoIs
    <3>8. Len(post.todo) = Len(post.todo) - 1
      BY <3>6, <3>7
    <3> DEFINE l == Len(post.todo)
    <3>9. l = l - 1 /\ l \in Nat
      BY <3>7, <3>8
    <3> HIDE DEF l
    <3> QED BY <3>9
  <2> QED BY <1>1, <2>1, <2>2 DEF TodoSound
<1>2. CASE Publish
  <2>1. /\ post'.todo = IF Has(Mine, "recovery_origin") THEN <<>> ELSE <<"recovery_origin">>
        /\ post'.claim = post.claim /\ session' = session
    BY <1>0, <1>2 DEF Publish, Posts
  <2>2. Has(Mine, "recovery_origin")' <=> Has(Mine, "recovery_origin")
    BY <2>1 DEF Has, Mine
  <2> QED BY <2>1, <2>2 DEF TodoSound
<1>3. CASE Backfill /\ PrefixMatches(post.claim)
  <2> DEFINE n == Len(session[Mine])
  <2>1. /\ post'.todo = SubSeq(Prefix, n + 1, Len(Prefix))
        /\ post'.claim = post.claim /\ session' = session /\ post.pc = "backfill"
    BY <1>0, <1>3 DEF Backfill, Posts, At, Mine
  <2>2. Mine \in Repls /\ Exists(Mine) /\ IsPrefix(session[Mine], Prefix) /\ Typed
    BY <1>3, <2>1, MineIs DEF PrefixMatches, Mine, RecoveryInv
  <2>3. /\ n \in Nat /\ n <= 4
        /\ \A j \in 1..n : j \in DOMAIN session[Mine] /\ session[Mine][j] = Prefix[j]
    BY <2>2, PrefixOf
  <2>4. DOMAIN session[Mine] = 1..n
    BY <2>2, SessionIs
  <2>5. Has(Mine, "recovery_origin")' <=> Has(Mine, "recovery_origin")
    BY <2>1 DEF Has, Mine
  <2> HIDE DEF n
  <2> DEFINE rest == SubSeq(Prefix, n + 1, Len(Prefix))
  <2>6. /\ rest \in Seq(Lines) /\ Len(rest) = 4 - n
        /\ \A i \in 1..(4 - n) : rest[i] = Prefix[n + i]
    <3>1. n \in Int /\ 0 <= n /\ n <= Len(Prefix) /\ Prefix \in Seq(Lines) /\ Len(Prefix) = 4
      BY <2>3, PrefixIs
    <3>2. /\ rest \in Seq(Lines) /\ Len(rest) = Len(Prefix) - n
          /\ \A i \in 1..(Len(Prefix) - n) : rest[i] = Prefix[n + i]
      BY <3>1, Rest
    <3> QED BY <3>1, <3>2
  <2> HIDE DEF rest
  <2>7. DOMAIN rest = 1..(4 - n)
    BY <2>6, LenProperties
  <2>8. \A j \in 1..4 : Prefix[j] # "reattach" /\ (Prefix[j] = "recovery_origin" => j = 4)
    <3>1. \A j \in 1..4 : j = 1 \/ j = 2 \/ j = 3 \/ j = 4
      OBVIOUS
    <3> QED BY <3>1, PrefixIs
  <2>9. ASSUME NEW k \in 1..(4 - n)
        PROVE /\ rest[k] # "reattach"
              /\ rest[k] = "recovery_origin" => k = 4 - n /\ ~Has(Mine, "recovery_origin")
    <3>1. n + k \in 1..4 /\ rest[k] = Prefix[n + k]
      BY <2>3, <2>6
    <3>2. n + k = 4 => k = 4 - n /\ n < 4
      BY <2>3
    <3>3. n < 4 => ~Has(Mine, "recovery_origin")
      BY <2>3, <2>4, <2>8 DEF Has
    <3> QED BY <2>8, <3>1, <3>2, <3>3
  <2>10. post'.todo = rest
    BY <2>1 DEF rest, n
  <2> QED BY <2>5, <2>6, <2>7, <2>9, <2>10 DEF TodoSound
<1>4. CASE post'.todo = <<"acquire", "run_meta">>
  BY <1>4 DEF TodoSound
<1>5. CASE /\ WriterAppends /\ queue[1].owner = "post" /\ post.pc = "wait" /\ post.todo # <<>>
           /\ post'.todo = Tail(post.todo) /\ post'.claim = post.claim
  <2>1. TodoSound /\ Mine' = Mine /\ Mine \in Repls
    BY <1>5, MineIs DEF LinkedOnce, TodoSound, Mine
  <2>2. ASSUME NEW k \in DOMAIN Tail(post.todo)
        PROVE /\ Tail(post.todo)[k] # "reattach"
              /\ Tail(post.todo)[k] = "recovery_origin" =>
                    k = Len(Tail(post.todo)) /\ ~Has(Mine, "recovery_origin")'
    <3>1. /\ k \in Nat /\ k # 0 /\ k + 1 \in DOMAIN post.todo /\ Tail(post.todo)[k] = post.todo[k + 1]
          /\ Len(Tail(post.todo)) = Len(post.todo) - 1
      BY <1>5, TodoIs
    <3>2. post.todo[k + 1] # "reattach"
      BY <2>1, <3>1 DEF TodoSound
    <3>3. ASSUME post.todo[k + 1] = "recovery_origin"
          PROVE k = Len(Tail(post.todo)) /\ ~Has(Mine, "recovery_origin")'
      <4>1. k + 1 = Len(post.todo) /\ ~Has(Mine, "recovery_origin")
        BY <2>1, <3>1, <3>3 DEF TodoSound
      <4>2. Len(post.todo) # 1 /\ k = Len(Tail(post.todo))
        BY <3>1, <4>1
      <4>3. queue[1].line # "recovery_origin"
        BY <1>5, <4>2, LinkWritten
      <4>4. ~Has(Mine, "recovery_origin")'
        <5> DEFINE m == Mine
        <5>1. m \in Repls /\ m' = m /\ ~Has(m, "recovery_origin")
          BY <2>1, <4>1
        <5>2. (\E j \in DOMAIN session'[m] : session'[m][j] = "recovery_origin") <=> Has(m, "recovery_origin")'
          BY <5>1 DEF Has
        <5> HIDE DEF m
        <5>3. ~\E j \in DOMAIN session'[m] : session'[m][j] = "recovery_origin"
          <6> SUFFICES ASSUME Has(m, "recovery_origin")' PROVE FALSE
            BY <5>2
          <6> QED BY <1>0, <4>3, <5>1, HasMove
        <5> QED BY <5>2, <5>3 DEF m
      <4> QED BY <4>2, <4>4
    <3> QED BY <3>1, <3>2, <3>3
  <2> QED BY <1>5, <2>2 DEF TodoSound
<1>6. CASE Backfill /\ ~PrefixMatches(post.claim)
  BY <1>6 DEF Backfill, End, IdlePost
<1> QED BY <1>1, <1>2, <1>3, <1>4, <1>5, <1>6, SendingMoves

\* A session that has a link gets no other.
LEMMA LinkedOnceStep ==
  ASSUME RecoveryInv, LinesOwned, LinkedOnce, [Next]_vars
  PROVE LinkedOnce'
<1>1. ASSUME NEW r \in Repls, NEW j \in DOMAIN session'[r], NEW k \in DOMAIN session'[r],
             session'[r][j] = "recovery_origin", session'[r][k] = "recovery_origin"
      PROVE j = k
  <2>1. CASE session'[r] = session[r]
    BY <1>1, <2>1 DEF LinkedOnce, IsLink
  <2>2. CASE session'[r] = <<>>
    BY <1>1, <2>2
  <2>3. CASE session'[r] = NoFile
    BY <1>1, <2>3, NoFileValue
  <2>4. CASE Grows(r)
    <3>1. PICK l \in Lines :
            /\ Exists(r) /\ session'[r] = Append(session[r], l)
            /\ l = "release" \/ (WriterAppends /\ r = queue[1].repl /\ l = queue[1].line)
      BY <2>4 DEF Grows
    <3>2. l = "recovery_origin" => ~Has(r, "recovery_origin")
      BY <3>1, LinkWritten
    <3>3. /\ \/ j \in DOMAIN session[r] /\ session[r][j] = "recovery_origin"
             \/ j = Len(session[r]) + 1 /\ l = "recovery_origin"
          /\ \/ k \in DOMAIN session[r] /\ session[r][k] = "recovery_origin"
             \/ k = Len(session[r]) + 1 /\ l = "recovery_origin"
      BY <1>1, <3>1, GrownIs
    <3> QED BY <3>2, <3>3 DEF LinkedOnce, IsLink, Has
  <2> QED BY <2>1, <2>2, <2>3, <2>4, SessionMove
<1>2. post'.pc \in {"send", "wait"} => TodoSound'
  BY TodoStep
<1> QED BY <1>1, <1>2 DEF LinkedOnce, IsLink, TodoSound

(***************************************************************************)
(* The enumeration a request made at its start stays current.              *)
(***************************************************************************)
LEMMA LinksKept ==
  ASSUME RecoveryInv,
         \A r \in Repls : \/ session'[r] = session[r]
                          \/ \E line \in {"release", "reattach"} :
                                Exists(r) /\ session'[r] = Append(session[r], line)
  PROVE Links' = Links
<1> DEFINE K(r) == {j \in DOMAIN session[r] : session[r][j] = "recovery_origin"}
           C == {s \in Repls : Complete(s)}
<1>1. ASSUME NEW r \in Repls
      PROVE /\ Complete(r)' <=> Complete(r)
            /\ {j \in DOMAIN session'[r] : session'[r][j] = "recovery_origin"} = K(r)
  <2>1. CASE session'[r] = session[r]
    BY <2>1 DEF Complete, Has
  <2>2. CASE session'[r] # session[r]
    <3>1. PICK line \in {"release", "reattach"} : Exists(r) /\ session'[r] = Append(session[r], line)
      BY <2>2
    <3>2. \A p \in DOMAIN Prefix : Prefix[p] # line
      <4>1. \A j \in 1..4 : j = 1 \/ j = 2 \/ j = 3 \/ j = 4
        OBVIOUS
      <4> QED BY <4>1, PrefixIs
    <3>3. line \in Lines
      BY DEF Lines
    <3>4. /\ \A k \in DOMAIN session'[r] : \/ k \in DOMAIN session[r] /\ session'[r][k] = session[r][k]
                                           \/ session'[r][k] = line
          /\ \A k \in DOMAIN session[r] : k \in DOMAIN session'[r] /\ session'[r][k] = session[r][k]
      BY <3>1, <3>3, GrownIs
    <3>5. \A p \in DOMAIN Prefix : Has(r, Prefix[p])' <=> Has(r, Prefix[p])
      BY <3>2, <3>4 DEF Has
    <3>6. Complete(r)' <=> Complete(r)
      BY <3>5 DEF Complete
    <3> QED BY <3>4, <3>6
  <2> QED BY <2>1, <2>2
<1>2. {s \in Repls : Complete(s)'} = C
  BY <1>1
<1>3. Links = UNION {{<<r, k>> : k \in K(r)} : r \in C}
  BY DEF Links
<1>4. Links' = UNION {{<<r, k>> : k \in {j \in DOMAIN session'[r] : session'[r][j] = "recovery_origin"}} :
                         r \in C}
  BY <1>2 DEF Links
<1>5. \A r \in C : r \in Repls
  OBVIOUS
<1>6. \A r \in C : {<<r, k>> : k \in {j \in DOMAIN session'[r] : session'[r][j] = "recovery_origin"}}
                     = {<<r, k>> : k \in K(r)}
  BY <1>1, <1>5
<1> HIDE DEF K, C
<1> QED BY <1>3, <1>4, <1>6

Watching == post.pc \in {"resolve", "decide", "authority"} \/ Renaming("authority")
\* Before it acts, a request and the sessions do not both move.
LEMMA WatchMoves ==
  ASSUME RecoveryInv, [Next]_vars, Watching'
  PROVE \/ (\E q \in Requests : Begin(q)) /\ post'.links = Links /\ session' = session
        \/ Watching /\ post'.links = post.links /\ (post' = post \/ session' = session)
<1>0. post \in Posts /\ IdlePost.pc = "idle"
  BY DEF RecoveryInv, Typed, IdlePost
<1>1. CASE post' = post \/ post' = IdlePost
  BY <1>0, <1>1 DEF Watching, Renaming, At
<1>2. CASE Rename
  <2>1. post.next \in {"mark", "execute", "authority", "answer"} /\ post.pc = "rename"
    BY <1>2 DEF Rename, RecoveryInv, RenameSound, At
  <2>2. post' = [post EXCEPT !.pc = post.next] \/ post' = IdlePost
    BY <1>2 DEF Rename, Goto, End
  <2>3. post'.pc = "authority" /\ post.next = "authority" /\ post'.links = post.links
    BY <1>0, <2>1, <2>2 DEF Posts, Watching, Renaming, At
  <2>4. session' = session
    BY <1>2, <2>3 DEF Rename
  <2> QED BY <2>1, <2>3, <2>4 DEF Watching, Renaming, At
<1>3. CASE Resolve
  BY <1>0, <1>3 DEF Resolve, Posts, Watching, At
<1>4. CASE Reconcile
  <2> DEFINE c == Loaded.claim
             linked == Exists(c.repl) /\ Has(c.repl, "recovery_origin")
             done == [c EXCEPT !.status = "committed"]
  <2>1. /\ session' = IF Exists(c.repl) THEN session ELSE [session EXCEPT ![c.repl] = <<>>]
        /\ post' = IF linked
                     THEN [post EXCEPT !.pc = "rename", !.claim = done, !.next = "authority"]
                     ELSE [post EXCEPT !.pc = "act", !.claim = c,
                             !.reattach = Reattachable(c)]
        /\ post.pc = "decide"
    BY <1>4 DEF Reconcile, Pending, At
  <2> HIDE DEF c, done
  <2>2. linked /\ post'.links = post.links
    BY <1>0, <2>1 DEF Posts, Watching, Renaming, At
  <2> QED BY <2>1, <2>2 DEF Watching
<1>5. CASE \E q \in Requests : Begin(q)
  <2>1. PICK q \in Requests : Begin(q)
    BY <1>5
  <2>2. \/ post' = [IdlePost EXCEPT !.pc = "resolve", !.request = q, !.links = Links]
        \/ post' = post
    BY <2>1 DEF Begin
  <2>3. session' = session /\ post.pc = "idle"
    BY <2>1 DEF Begin, At
  <2> QED BY <1>5, <2>2, <2>3 DEF IdlePost, Watching, Renaming, At
<1>6. CASE Unreadable \/ Unclaimed \/ Committed \/ Conflict \/ ReconcileRefuses \/ Authority \/ NoAction
           \/ Planned \/ (\E r \in Repls : Mint(r)) \/ MintRefused \/ Mark
  BY <1>0, <1>6 DEF Unreadable, Unclaimed, Committed, Conflict, ReconcileRefuses, Authority, NoAction,
           Planned, Mint, MintRefused, Mark, Goto, End, Posts, Watching, Renaming, At
<1>7. CASE Reattach \/ Spawn \/ Backfill \/ Insert \/ Associate \/ Publish \/ Commit \/ Answer
  BY <1>0, <1>7 DEF Reattach, Spawn, Backfill, Insert, Associate, Publish, Commit, Answer,
           Goto, End, Posts, Watching, Renaming, At
<1>8. CASE Send
  <2>1. post.next \in {"backfill", "insert", "commit"}
    BY <1>8 DEF Send, At, RecoveryInv, SendSound
  <2> QED BY <1>0, <1>8, <2>1 DEF Send, Goto, Posts, Watching, Renaming, At
<1>9. CASE WriterAppends
  <2>1. post' = [post EXCEPT !.pc = "send", !.todo = Tail(@)] \/ post' = post \/ post' = IdlePost
    BY <1>9, WriterWrites
  <2> QED BY <1>0, <1>1, <2>1 DEF Posts, Watching, Renaming, At
<1>10. CASE \E r \in Repls : NewSession(r)
  <2>1. \/ post' = post \/ post' = IdlePost
        \/ post' = [post EXCEPT !.pc = "send", !.todo = <<"acquire", "run_meta">>, !.next = "backfill"]
    BY <1>10 DEF NewSession, End
  <2> QED BY <1>0, <1>1, <2>1 DEF Posts, Watching, Renaming, At
<1>11. CASE Inventory \/ Restart \/ Drop \/ Boot \/ UNCHANGED vars
           \/ \E r \in Repls : PaneEnds(r) \/ RemoveSession(r)
  BY <1>1, <1>11 DEF Inventory, Restart, Drop, Boot, BootAttach, BootCheck, PaneEnds, RemoveSession, End, vars
<1> QED BY <1>2, <1>3, <1>4, <1>5, <1>6, <1>7, <1>8, <1>9, <1>10, <1>11 DEF Next, Handle

\* No link is written while a request goes by its enumeration.
LEMMA LinksCurrentStep ==
  ASSUME RecoveryInv, LinesOwned, LinksCurrent, [Next]_vars
  PROVE LinksCurrent'
<1> SUFFICES ASSUME Watching' PROVE post'.links = Links'
  BY DEF LinksCurrent, Watching
<1>1. Watching => post.links = Links
  BY DEF LinksCurrent, Watching
<1>2. CASE session' = session
  <2>1. Links' = Links
    BY <1>2, LinksKept
  <2> QED BY <1>1, <1>2, <2>1, WatchMoves
<1>3. CASE session' # session
  <2>1. post' = post /\ Watching
    BY <1>3, WatchMoves
  <2>2. post.pc \in {"resolve", "decide", "authority", "rename"}
    BY <2>1 DEF Watching, Renaming, At
  <2>3. ASSUME NEW r \in Repls, session'[r] # session[r]
        PROVE \E line \in {"release", "reattach"} : Exists(r) /\ session'[r] = Append(session[r], line)
    <3>1. ~Created(r)
      <4>1. Created(r) => post'.pc \in {"act", "mark"}
        BY DEF Created
      <4> QED BY <2>1, <2>2, <4>1
    <3>2. ~RemoveSession(r)
      BY <2>2 DEF RemoveSession, At
    <3>3. PICK l \in Lines :
            /\ Exists(r) /\ session'[r] = Append(session[r], l)
            /\ l = "release" \/ (WriterAppends /\ l = queue[1].line)
      BY <2>3, <3>1, <3>2, SessionMove DEF Grows
    <3>4. WriterAppends => queue[1].line = "reattach"
      <4> SUFFICES ASSUME WriterAppends PROVE queue[1].line = "reattach"
        OBVIOUS
      <4>1. 1 \in DOMAIN queue /\ queue[1].owner \in {"post", "boot", "nobody"}
            /\ queue[1].owner # "post"
        BY <2>2, WriterWrites, QueueTyped DEF RecoveryInv
      <4> QED BY <4>1 DEF LinesOwned
    <3> QED BY <3>3, <3>4
  <2>4. Links' = Links
    BY <2>3, LinksKept
  <2> QED BY <1>1, <2>1, <2>4
<1> QED BY <1>2, <1>3

(***************************************************************************)
(* The request starts a replacement only if nobody did.                    *)
(***************************************************************************)
LEMMA WorldMoves ==
  ASSUME RecoveryInv, SpawnsOnce, [Next]_vars
  PROVE /\ \A r \in starting' : pane'[r] = "none"
        /\ Spawn \/ \A r \in Repls : Spawned(r)' => Spawned(r)
<1>0. /\ pane \in [Repls -> {"none", "live", "gone"}] /\ starting \subseteq Repls
      /\ \A r \in starting : pane[r] = "none"
  BY DEF RecoveryInv, Typed, TypeOK, SpawnsOnce
<1>1. CASE pane' = pane /\ starting' = starting
  BY <1>0, <1>1 DEF Spawned
<1>2. CASE Spawn
  <2>1. pane' = pane /\ (starting' = starting \cup {Mine} \/ starting' = starting)
        /\ post.pc = "execute" /\ ~post.reattach
    BY <1>2 DEF Spawn, At
  <2>2. ~Spawned(Mine)
    BY <2>1 DEF SpawnsOnce, At
  <2> QED BY <1>0, <1>2, <2>1, <2>2 DEF Spawned
<1>3. CASE \E r \in Repls : NewSession(r)
  <2>1. PICK r \in Repls : /\ r \in starting /\ starting' = starting \ {r}
                           /\ pane' = [pane EXCEPT ![r] = "live"]
    BY <1>3 DEF NewSession
  <2> QED BY <1>0, <2>1 DEF Spawned
<1>4. CASE \E r \in Repls : PaneEnds(r)
  <2>1. PICK r \in Repls : pane[r] = "live" /\ pane' = [pane EXCEPT ![r] = "gone"]
                           /\ starting' = starting
    BY <1>4 DEF PaneEnds
  <2> QED BY <1>0, <2>1 DEF Spawned
<1>5. CASE (\E q \in Requests : Begin(q)) \/ Resolve \/ Unreadable \/ Unclaimed \/ Committed \/ Conflict
           \/ ReconcileRefuses \/ Reconcile \/ Rename \/ Authority \/ NoAction \/ Planned
  BY <1>1, <1>5 DEF Begin, Resolve, Unreadable, Unclaimed, Committed, Conflict,
           ReconcileRefuses, Reconcile, Rename, Authority, NoAction, Planned, world
<1>6. CASE (\E r \in Repls : Mint(r)) \/ MintRefused \/ Mark \/ Reattach \/ Backfill \/ Send \/ Insert
           \/ Associate \/ Publish \/ Commit \/ Answer
  BY <1>1, <1>6 DEF Mint, MintRefused, Mark, Reattach, Backfill, Send, Insert, Associate,
           Publish, Commit, Answer, world
<1>7. CASE WriterAppends \/ Inventory \/ Boot \/ Restart \/ Drop \/ UNCHANGED vars
           \/ \E r \in Repls : RemoveSession(r)
  <2>1. pane' = pane /\ starting' = starting
    BY <1>7 DEF WriterAppends, Inventory, Boot, BootAttach, BootCheck, Restart, Drop, RemoveSession, world,
                vars
  <2> QED BY <1>1, <2>1
<1> QED BY <1>2, <1>3, <1>4, <1>5, <1>6, <1>7 DEF Next, Handle

\* The commit of a linked claim is always confirmed: the enumeration is current.
LEMMA AuthorityConfirms ==
  ASSUME RecoveryInv, OwnRequests, Undropped, Authority
  PROVE post'.pc = "associate_claim"
<1>1. post.pc = "authority" /\ post.claim = claim /\ post.links = Links
  BY DEF Authority, At, Undropped, SpawnsOnce, LinksCurrent
<1>2. Mine \in Repls /\ Exists(Mine) /\ post.claim.status = "committed"
  BY <1>1, MineIs DEF RecoveryInv, RequestSound
<1>3. Resolution(Links).kind = "valid" /\ Resolution(Links).claim = claim
  BY <1>2, Confirmed DEF Undropped
<1>4. Authoritative(Resolution(post.links), post.claim)
  BY <1>1, <1>2, <1>3 DEF Authoritative
<1> QED BY <1>4 DEF Authority, Goto, RecoveryInv, Typed, Posts

\* A request comes to its spawn only by a claim whose worker nobody spawned.
LEMMA SpawnsOnceStep ==
  ASSUME RecoveryInv, OwnRequests, Undropped, [Next]_vars
  PROVE SpawnsOnce'
<1>0. post \in Posts /\ IdlePost.pc = "idle" /\ IdlePost.claim = NoClaim /\ SpawnsOnce
      /\ (claim.status = "pending" => Loaded.claim = claim)
  BY LoadedTemps DEF RecoveryInv, Typed, IdlePost, Undropped
<1>1. /\ \A r \in starting' : pane'[r] = "none"
      /\ Spawn \/ \A r \in Repls : Spawned(r)' => Spawned(r)
  BY <1>0, WorldMoves
<1>2. CASE \/ /\ post'.pc \notin {"act", "mark", "execute", "authority"}
              /\ post'.pc = "rename" => post'.next \notin {"mark", "execute"}
           \/ post'.pc = "act" /\ post'.claim = NoClaim
  BY <1>1, <1>2 DEF SpawnsOnce, At, Renaming
<1>3. ASSUME post' = post, claim' = claim \/ ~StatusLocked PROVE SpawnsOnce'
  <2>1. ~Spawn
    BY <1>0, <1>3 DEF Spawn, At, Goto, End, Posts
  <2>2. At("execute") \/ Renaming("execute") => Mine \in Repls
    BY MineOf DEF RecoveryInv, RequestSound, At, Renaming
  <2>3. (At("execute") \/ Renaming("execute"))' => post'.reattach \/ ~Spawned(Mine)'
    <3> SUFFICES ASSUME (At("execute") \/ Renaming("execute"))', ~post'.reattach PROVE ~Spawned(Mine)'
      OBVIOUS
    <3> DEFINE m == Mine
    <3>1. m \in Repls /\ ~Spawned(m) /\ m' = m
      BY <1>0, <1>3, <2>2 DEF SpawnsOnce, At, Renaming, Mine
    <3>2. Spawned(m)' => Spawned(m)
      <4> HIDE DEF m
      <4> SUFFICES ASSUME Spawned(m)' PROVE Spawned(m)
        OBVIOUS
      <4>1. pane'[m] # "none" \/ m \in starting'
        BY <3>1 DEF Spawned
      <4> QED BY <1>1, <2>1, <3>1, <4>1 DEF Spawned
    <3> QED BY <3>1, <3>2
  <2> QED BY <1>0, <1>1, <1>3, <2>3 DEF SpawnsOnce, At, Renaming, StatusLocked
<1>4. CASE Rename
  <2>1. /\ post.pc = "rename" /\ post.next \in {"mark", "execute", "authority", "answer"}
        /\ post.claim # NoClaim /\ pane' = pane /\ starting' = starting
    BY <1>4 DEF Rename, RecoveryInv, RenameSound, RequestSound, At, world
  <2>2. \/ claim' = post.claim /\ post' = [post EXCEPT !.pc = post.next]
        \/ post' = IdlePost
    BY <1>4 DEF Rename, Goto, End
  <2>3. CASE claim' = post.claim /\ post' = [post EXCEPT !.pc = post.next]
    <3>1. post'.pc = post.next /\ post'.claim = post.claim /\ post'.reattach = post.reattach
      BY <1>0, <2>3 DEF Posts
    <3>2. post.next = "mark" => post.claim.status = "pending" /\ ~post.claim.started
      BY <1>0, <2>1 DEF RecoveryInv, MintSound, SpawnsOnce, Renaming, At
    <3>3. post.next = "execute" => post.reattach \/ ~Spawned(Mine)
      BY <1>0, <2>1 DEF SpawnsOnce, Renaming, At
    <3>4. Spawned(Mine)' <=> Spawned(Mine)
      BY <2>1, <3>1 DEF Spawned, Mine
    <3> QED BY <1>1, <2>1, <2>3, <3>1, <3>2, <3>3, <3>4 DEF SpawnsOnce, At, Renaming
  <2> QED BY <1>0, <1>2, <2>2, <2>3
<1>5. CASE Mark
  <2> DEFINE c == [Loaded.claim EXCEPT !.started = TRUE]
  <2>1. /\ post.pc = "mark" /\ post.claim = claim /\ claim.status = "pending"
        /\ post.reattach \/ ~claim.started
        /\ Loaded.claim = claim /\ claim # NoClaim
    BY <1>0, <1>5 DEF Mark, At, SpawnsOnce, NoClaim
  <2>2. /\ claim' = claim /\ pane' = pane /\ starting' = starting
        /\ post' = IF claim.started THEN [post EXCEPT !.pc = "execute", !.claim = claim]
                   ELSE [post EXCEPT !.pc = "rename", !.claim = c, !.next = "execute"]
    BY <1>5, <2>1 DEF Mark, world
  <2>3. CASE claim.started
    BY <1>0, <1>1, <2>1, <2>2, <2>3 DEF SpawnsOnce, At, Renaming, Posts
  <2>4. CASE ~claim.started
    <3>1. claim \in Claims /\ claim \in Held /\ claim.repl \in Repls
      BY <2>1, HeldFits, Fields DEF Held, Fits, RecoveryInv
    <3>2. ~Spawned(claim.repl)
      BY <2>4, <3>1 DEF RecoveryInv, MarkedBeforeSpawn
    <3>3. /\ post'.pc = "rename" /\ post'.next = "execute" /\ post'.claim = c /\ c.repl = claim.repl
      BY <1>0, <2>1, <2>2, <2>4, <3>1 DEF Posts, Claims
    <3> HIDE DEF c
    <3>4. ~Spawned(Mine)'
      BY <2>2, <3>2, <3>3 DEF Spawned, Mine
    <3> QED BY <1>1, <2>1, <2>2, <3>3, <3>4 DEF SpawnsOnce, At, Renaming
  <2> QED BY <2>3, <2>4
<1>6. CASE Reconcile
  <2> DEFINE c == Loaded.claim
             linked == Exists(c.repl) /\ Has(c.repl, "recovery_origin")
             done == [c EXCEPT !.status = "committed"]
  <2>1. /\ claim' = c /\ c.status = "pending" /\ ~Dead(c)
        /\ post' = IF linked
                     THEN [post EXCEPT !.pc = "rename", !.claim = done, !.next = "authority"]
                     ELSE [post EXCEPT !.pc = "act", !.claim = c,
                             !.reattach = Reattachable(c)]
    BY <1>6 DEF Reconcile, Pending
  <2>2. c.started => Reattachable(c)
    BY <2>1 DEF Dead, Reattachable
  <2> HIDE DEF c, linked, done
  <2>3. CASE linked
    <3>1. post'.pc = "rename" /\ post'.next = "authority"
      BY <1>0, <2>1, <2>3 DEF Posts
    <3> QED BY <1>2, <3>1
  <2>4. CASE ~linked
    <3>1. post'.pc = "act" /\ post'.claim = c /\ post'.reattach = Reattachable(c)
      BY <1>0, <2>1, <2>4 DEF Posts
    <3> QED BY <1>1, <2>1, <2>2, <3>1 DEF SpawnsOnce, At, Renaming
  <2> QED BY <2>3, <2>4
<1>7. CASE Authority
  BY <1>2, <1>7, AuthorityConfirms
<1>8. CASE Planned
  <2>1. /\ post.pc = "act" /\ post.claim # NoClaim /\ post' = [post EXCEPT !.pc = "mark"] /\ claim' = claim
    BY <1>8 DEF Planned, At, Goto, disk
  <2>2. post'.pc = "mark" /\ post'.claim = post.claim /\ post'.reattach = post.reattach
    BY <1>0, <2>1 DEF Posts
  <2> QED BY <1>0, <1>1, <2>1, <2>2 DEF SpawnsOnce, At, Renaming
<1>9. CASE \E r \in Repls : Mint(r)
  <2>1. PICK r \in Repls : Mint(r)
    BY <1>9
  <2>2. post'.pc = "rename" /\ post'.next = "mark" /\ ~post'.claim.started
    BY <1>0, <2>1 DEF Mint, Claim, Posts
  <2> QED BY <1>1, <2>2 DEF SpawnsOnce, At, Renaming
<1>10. CASE Unclaimed \/ Committed
  <2>1. post.claim = NoClaim
    BY <1>10 DEF Unclaimed, Committed, At, RecoveryInv, EarlySound
  <2> QED BY <1>0, <1>2, <1>10, <2>1 DEF Unclaimed, Committed, Goto, Posts
<1>11. CASE \E q \in Requests : Begin(q)
  <2>1. PICK q \in Requests : Begin(q)
    BY <1>11
  <2>2. \/ post'.pc = "resolve"
        \/ post' = post
    BY <2>1 DEF Begin, IdlePost
  <2>3. claim' = claim
    BY <2>1 DEF Begin, disk
  <2> QED BY <1>2, <1>3, <2>2, <2>3
<1>12. CASE Resolve \/ Unreadable \/ Conflict \/ ReconcileRefuses \/ NoAction \/ MintRefused
            \/ Reattach \/ Spawn \/ Backfill \/ Insert \/ Associate \/ Publish \/ Commit \/ Answer
  BY <1>0, <1>2, <1>12 DEF Resolve, Unreadable, Conflict, ReconcileRefuses, NoAction, MintRefused,
     Reattach, Spawn, Backfill, Insert, Associate, Publish, Commit, Answer, Goto, End, Posts
<1>13. CASE Send
  <2>1. post.next \in {"backfill", "insert", "commit"}
    BY <1>13 DEF Send, At, RecoveryInv, SendSound
  <2> QED BY <1>0, <1>2, <1>13, <2>1 DEF Send, Goto, Posts
<1>14. CASE WriterAppends
  <2>1. /\ claim' = claim
        /\ post' = [post EXCEPT !.pc = "send", !.todo = Tail(@)] \/ post' = post \/ post' = IdlePost
    BY <1>14, WriterWrites DEF disk
  <2> QED BY <1>0, <1>2, <1>3, <2>1 DEF Posts
<1>15. CASE \E r \in Repls : NewSession(r)
  <2>1. /\ claim' = claim
        /\ \/ post' = post \/ post' = IdlePost
           \/ post' = [post EXCEPT !.pc = "send", !.todo = <<"acquire", "run_meta">>, !.next = "backfill"]
    BY <1>15 DEF NewSession, End, disk
  <2> QED BY <1>0, <1>2, <1>3, <2>1 DEF Posts
<1>16. CASE Inventory
  BY <1>3, <1>16 DEF Inventory
<1>17. CASE Restart \/ Drop
  BY <1>0, <1>2, <1>17 DEF Restart, Drop, End
<1>18. CASE Boot \/ UNCHANGED vars \/ \E r \in Repls : PaneEnds(r) \/ RemoveSession(r)
  BY <1>3, <1>18 DEF Boot, BootAttach, BootCheck, PaneEnds, RemoveSession, vars, disk
<1> QED BY <1>4, <1>5, <1>6, <1>7, <1>8, <1>9, <1>10, <1>11, <1>12, <1>13, <1>14, <1>15, <1>16, <1>17,
           <1>18 DEF Next, Handle

(***************************************************************************)
(* RescueInv is inductive, and what follows.                               *)
(***************************************************************************)
LEMMA RescueStarts ==
  ASSUME Init
  PROVE RescueInv
<1>1. /\ RecoveryInv /\ claim = NoClaim /\ temp = <<>> /\ post.claim = NoClaim /\ post.pc = "idle"
      /\ queue = <<>> /\ starting = {}
  BY InitHolds DEF Init, IdlePost
<1>2. \A r \in Repls : ~Exists(r) /\ ~Complete(r) /\ session[r] = NoFile
  BY NoFileIs DEF Init, Exists
<1>3. OwnRequests
  BY <1>1 DEF OwnRequests, Held
<1>4. LinesOwned /\ SessionClaimed /\ BootLeavesPending
  BY <1>1, <1>2 DEF LinesOwned, SessionClaimed, BootLeavesPending
<1>5. LinksCurrent /\ SpawnsOnce
  BY <1>1 DEF LinksCurrent, SpawnsOnce, At, Renaming
<1>6. LinkedOnce
  BY <1>1, <1>2, NoFileValue DEF LinkedOnce, IsLink
<1> QED BY <1>1, <1>3, <1>4, <1>5, <1>6 DEF RescueInv, Undropped

\* Every step keeps it.
LEMMA RescueKeeps ==
  ASSUME RescueInv, [Next]_vars, [BootPasses]_vars
  PROVE RescueInv'
<1>1. RecoveryInv' /\ OwnRequests'
  BY StepKeeps, OwnStep DEF RescueInv
<1>2. ASSUME spent'.drop = 0 PROVE Undropped'
  <2>1. RecoveryInv /\ OwnRequests /\ ~Drop /\ Undropped
    BY <1>2, NotDropped DEF RescueInv
  <2>2. LinesOwned /\ LinkedOnce /\ LinksCurrent
    BY <2>1 DEF Undropped
  <2>3. LinesOwned' /\ LinkedOnce' /\ LinksCurrent'
    BY <2>1, <2>2, LinesOwnedStep, LinkedOnceStep, LinksCurrentStep
  <2>4. SessionClaimed' /\ BootLeavesPending' /\ SpawnsOnce'
    BY <2>1, SessionClaimedStep, BootLeavesPendingStep, SpawnsOnceStep
  <2> QED BY <2>3, <2>4 DEF Undropped
<1> QED BY <1>1, <1>2 DEF RescueInv

\* RescueInv holds throughout every behaviour in which boot passes by the sessions of
\* pending claims, for any number of replacements, requests, faults, crashes and deaths:
\* each claim is for the request its replacement was minted for, and until a request is
\* dropped a session is linked once, its claim stays on disk and boot's marker comes only
\* where the claim was committed before.
THEOREM RescueInvariance == Spec /\ [][BootPasses]_vars => []RescueInv
<1>1. Init => RescueInv
  BY RescueStarts
<1>2. RescueInv /\ [Next]_vars /\ [BootPasses]_vars => RescueInv'
  BY RescueKeeps
<1> QED BY <1>1, <1>2, PTL DEF Spec

\* What boot has marked belongs to a committed claim.
LEMMA RescueReserves ==
  ASSUME RescueInv
  PROVE PrefixReserved
<1> SUFFICES ASSUME claim.status = "pending", Exists(claim.repl), spent.drop = 0
             PROVE ~Has(claim.repl, "reattach")
  BY DEF PrefixReserved
<1>1. claim \in Held /\ claim # NoClaim /\ RecoveryInv
  BY DEF Held, NoClaim, RescueInv
<1>2. claim.repl \in Repls
  BY <1>1, HeldFits DEF Fits
<1> QED BY <1>2 DEF RescueInv, Undropped, BootLeavesPending, BootOf

\* PrefixReserved: if no boot pass takes up a session while a pending claim owns it, no
\* marker of boot's, delayed by the writer's queue or by a later restart, ever stands between
\* the lifecycle lines a pending claim has to complete: a committed claim never turns pending
\* again, and a session stays with its claim.
THEOREM PrefixStaysReserved == Spec /\ [][BootPasses]_vars => []PrefixReserved
<1>1. RescueInv => PrefixReserved
  BY RescueReserves
<1> QED BY <1>1, RescueInvariance, PTL

\* A pane appears only for a replacement whose spawn is running, and that one had none.
LEMMA NoRelaunch ==
  ASSUME RescueInv, [Next]_vars, NEW r \in Repls, pane[r] = "gone", spent.drop = 0
  PROVE pane'[r] = "gone"
<1>1. pane \in [Repls -> {"none", "live", "gone"}] /\ \A s \in starting : pane[s] = "none"
  BY DEF RescueInv, RecoveryInv, Typed, TypeOK, Undropped, SpawnsOnce
<1>2. CASE pane' = pane
  BY <1>2
<1>3. CASE \E s \in Repls : NewSession(s)
  <2>1. PICK s \in Repls : s \in starting /\ pane' = [pane EXCEPT ![s] = "live"]
    BY <1>3 DEF NewSession
  <2> QED BY <1>1, <2>1
<1>4. CASE \E s \in Repls : PaneEnds(s)
  <2>1. PICK s \in Repls : pane' = [pane EXCEPT ![s] = "gone"]
    BY <1>4 DEF PaneEnds
  <2> QED BY <1>1, <2>1
<1>5. CASE (\E q \in Requests : Begin(q)) \/ Resolve \/ Unreadable \/ Unclaimed \/ Committed \/ Conflict
           \/ ReconcileRefuses \/ Reconcile \/ Rename \/ Authority \/ NoAction \/ Planned
  BY <1>2, <1>5 DEF Begin, Resolve, Unreadable, Unclaimed, Committed, Conflict,
           ReconcileRefuses, Reconcile, Rename, Authority, NoAction, Planned, world
<1>6. CASE (\E s \in Repls : Mint(s)) \/ MintRefused \/ Mark \/ Reattach \/ Spawn \/ Backfill \/ Send \/ Insert
           \/ Associate \/ Publish \/ Commit \/ Answer
  BY <1>2, <1>6 DEF Mint, MintRefused, Mark, Reattach, Spawn, Backfill, Send, Insert, Associate,
           Publish, Commit, Answer, world
<1>7. CASE WriterAppends \/ Inventory \/ Boot \/ Restart \/ Drop \/ UNCHANGED vars
           \/ \E s \in Repls : RemoveSession(s)
  <2>1. pane' = pane
    BY <1>7 DEF WriterAppends, Inventory, Boot, BootAttach, BootCheck, Restart, Drop, RemoveSession, world,
                vars
  <2> QED BY <1>2, <2>1
<1> QED BY <1>3, <1>4, <1>5, <1>6, <1>7 DEF Next, Handle

\* NeverRelaunched: the spawn_started mark is durable before every spawn and a retry refuses
\* the claim of a dead handle, so a replacement that ended is not started again under the
\* same identity while no request was dropped, unless boot attaches a session that a pending
\* claim owns.
THEOREM NeverStartedAgain == Spec /\ [][BootPasses]_vars => NeverRelaunched
<1>1. RescueInv /\ [Next]_vars =>
         [\A r \in Repls : pane[r] = "gone" => pane'[r] = "gone" \/ spent.drop > 0]_vars
  <2> SUFFICES ASSUME RescueInv, [Next]_vars, NEW r \in Repls, pane[r] = "gone", ~(spent.drop > 0)
               PROVE pane'[r] = "gone"
    OBVIOUS
  <2>1. spent.drop \in Nat
    BY DEF RescueInv, RecoveryInv, Typed
  <2> QED BY <2>1, NoRelaunch
<1> QED BY <1>1, RescueInvariance, PTL DEF Spec, NeverRelaunched
=============================================================================
