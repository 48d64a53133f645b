--------------------------- MODULE RecoveryProofs ---------------------------
(***************************************************************************)
(* Proofs about RecoveryClaim: one replacement per origin, and answers that*)
(* stand, for every set of requests and replacements and every bound on    *)
(* faults, crashes, deaths and removals, in every behaviour in which boot  *)
(* takes up no session of a pending claim (BootPasses): every behaviour if *)
(* the origin ran in the project root, and every one without a restart.    *)
(* RecoveryInv is inductive; every action has its step lemma.              *)
(***************************************************************************)
EXTENDS RecoveryClaim, FiniteSetTheorems, SequenceTheorems, TLAPS

(***************************************************************************)
(* Types.                                                                  *)
(***************************************************************************)
LEMMA NoClaimTyped == NoClaim \in Claims /\ IdlePost \in Posts /\ NoClaim \in Held \cup {NoClaim}
BY DEF NoClaim, Claims, IdlePost, Posts, Pcs, Nexts

\* The fields, for the provers that do not look into a record type.
LEMMA Fields ==
  ASSUME Typed
  PROVE /\ claim \in Claims /\ post.claim \in Claims /\ \A k \in DOMAIN temp : temp[k] \in Claims
        /\ \A c \in Claims : /\ c.status \in {"none", "pending", "committed"}
                             /\ c.repl \in Repls \cup {None} /\ c.started \in BOOLEAN
                             /\ c.request \in Requests \cup {None}
        /\ Held \subseteq Claims
<1>1. temp \in Seq(Claims) /\ claim \in Claims /\ post.claim \in Claims
  BY DEF Typed, TypeOK, Posts
<1>2. \A k \in DOMAIN temp : temp[k] \in Claims
  BY <1>1
<1> QED BY <1>1, <1>2 DEF Held, Claims

\* A session append on its way to the writer.
Request == [repl : Repls, line : Lines, owner : {"post", "boot", "nobody"}]
\* A queued append names a replacement, a line and who waits for it.
LEMMA QueueTyped ==
  ASSUME Typed
  PROVE /\ queue \in Seq(Request) /\ Len(queue) \in Nat /\ DOMAIN queue = 1..Len(queue)
        /\ \A k \in DOMAIN queue : /\ queue[k] \in Request /\ queue[k].repl \in Repls
                                  /\ queue[k].line \in Lines
                                  /\ queue[k].owner \in {"post", "boot", "nobody"}
<1>1. queue \in Seq(Request)
  BY DEF Typed, TypeOK, Request
<1>2. Len(queue) \in Nat /\ DOMAIN queue = 1..Len(queue) /\ \A k \in DOMAIN queue : queue[k] \in Request
  BY <1>1
<1> QED BY <1>1, <1>2 DEF Request

\* Only the count of faults moves with a fault.
LEMMA FaultTyped ==
  ASSUME Typed, Fault \/ UNCHANGED spent
  PROVE spent' \in [{"fault", "stop", "drop", "death", "removal"} -> Nat] /\ spent'.stop = spent.stop
BY DEF Typed, Fault, Spend

\* A claim that fits: its replacement is in play, and what it says of the spawn is true.
Fits(c) ==
    c = NoClaim \/ /\ c.status # "none" /\ c.repl \in Repls
                   /\ InPlay(c.repl)
                   /\ c.status = "committed" =>
                        c.started /\ pane[c.repl] # "none" /\ (Exists(c.repl) => Complete(c.repl))
                   /\ Spawned(c.repl) => c.started

\* Every copy of a claim fits the world: its replacement is in play, and the spawn mark is true.
LEMMA HeldFits ==
  ASSUME RecoveryInv
  PROVE \A c \in Held : Fits(c)
<1> SUFFICES ASSUME NEW c \in Held PROVE Fits(c)
  OBVIOUS
<1>1. c \in Claims
  BY Fields DEF RecoveryInv
<1>2. CASE c.status = "none"
  BY <1>2 DEF RecoveryInv, ClaimsWhole, Fits
<1>3. CASE c.status # "none"
  <2>1. c.repl \in Repls /\ InPlay(c.repl)
    BY <1>1, <1>3, Fields DEF RecoveryInv, ClaimsWhole, InPlay
  <2> QED BY <1>3, <2>1 DEF RecoveryInv, ClaimsWhole, Fits, CommittedIsComplete, MarkedBeforeSpawn
<1> QED BY <1>2, <1>3

\* What keeps the replacements apart: no session or claim of another one comes up.
LEMMA PlayStep ==
  ASSUME RecoveryInv, Typed',
         \A c \in Held' : Fits(c),
         \A r \in Repls : /\ Exists(r)' => InPlay(r)
                          /\ Exists(r)' /\ pane[r] # "none" => Exists(r)
                          /\ Exists(r)' /\ Complete(r) => Complete(r)'
                          /\ pane[r] # "none" => pane'[r] # "none"
                          /\ Spawned(r)' => Spawned(r) \/ \A c \in Held' : c.repl = r => c.started
  PROVE /\ \A c \in Held' : /\ c.status = "none" => c = NoClaim
                            /\ c.status # "none" => c.repl # None
                            /\ c.status = "committed" => c.started /\ pane'[c.repl] # "none"
        /\ OneInPlay' /\ CommittedIsComplete' /\ MarkedBeforeSpawn'
<1>1. \A r \in Repls : InPlay(r)' => InPlay(r)
  BY RecoveryAssumption DEF InPlay, Fits, NoClaim
<1>2. OneInPlay'
  BY <1>1 DEF OneInPlay, RecoveryInv
<1>3. \A c \in Held' : /\ c.status = "none" => c = NoClaim
                       /\ c.status # "none" => c.repl # None
                       /\ c.status = "committed" => c.started /\ pane'[c.repl] # "none"
  BY RecoveryAssumption DEF Fits, NoClaim
<1>4. CommittedIsComplete'
  BY DEF CommittedIsComplete, Fits, NoClaim
<1>5. MarkedBeforeSpawn'
  BY RecoveryAssumption DEF MarkedBeforeSpawn, Fits, NoClaim
<1> QED BY <1>2, <1>3, <1>4, <1>5

(***************************************************************************)
(* What a step does not touch.                                             *)
(***************************************************************************)
SameSessions == UNCHANGED <<session, pane>>

\* Where no session changed, every question about one has its old answer.
LEMMA SessionsSame ==
  ASSUME SameSessions
  PROVE \A r : /\ Exists(r)' = Exists(r) /\ Complete(r)' = Complete(r)
               /\ \A line : Has(r, line)' = Has(r, line)
BY DEF SameSessions, Exists, Complete, Has

\* PlayStep, where sessions and panes stay.
LEMMA PlaySame ==
  ASSUME RecoveryInv, Typed', SameSessions, starting' \subseteq starting,
         \A c \in Held' : Fits(c)
  PROVE /\ \A c \in Held' : /\ c.status = "none" => c = NoClaim
                            /\ c.status # "none" => c.repl # None
                            /\ c.status = "committed" => c.started /\ pane'[c.repl] # "none"
        /\ OneInPlay' /\ CommittedIsComplete' /\ MarkedBeforeSpawn'
<1>1. \A r \in Repls : /\ Exists(r)' => InPlay(r)
                       /\ Exists(r)' /\ pane[r] # "none" => Exists(r)
                       /\ Exists(r)' /\ Complete(r) => Complete(r)'
                       /\ pane[r] # "none" => pane'[r] # "none"
                       /\ Spawned(r)' => Spawned(r)
  BY SessionsSame DEF InPlay, SameSessions, Spawned
<1> QED BY <1>1, PlayStep

\* The pending claim of an unfinished session stays.
LEMMA ClaimKept ==
  ASSUME RecoveryInv, SameSessions,
         claim.status = "pending" => claim'.status = "pending" /\ claim'.repl = claim.repl
  PROVE UnfinishedIsClaimed'
BY SessionsSame DEF RecoveryInv, UnfinishedIsClaimed

\* Sessions that are there, spawned before they were written, and the answers, stay so.
LEMMA WorldKept ==
  ASSUME RecoveryInv, SameSessions, starting' \subseteq starting, runs' \subseteq runs,
         edges \subseteq edges', answers' = answers
  PROVE ActiveHasSession' /\ LoggedWasSpawned' /\ RunsComplete' /\ AnswersSound'
<1>1. ActiveHasSession'
  BY SessionsSame DEF RecoveryInv, ActiveHasSession, Active, SameSessions
<1>2. LoggedWasSpawned'
  BY SessionsSame DEF RecoveryInv, LoggedWasSpawned, SameSessions
<1>3. RunsComplete'
  BY SessionsSame DEF RecoveryInv, RunsComplete
<1>4. AnswersSound'
  BY SessionsSame DEF RecoveryInv, AnswersSound, SameSessions
<1> QED BY <1>1, <1>2, <1>3, <1>4

\* An unchanged queue stays sound unless the request that waits for it ends.
LEMMA QueueKept ==
  ASSUME RecoveryInv, SameSessions, queue' = queue, ~At("wait") \/ post' = post
  PROVE QueueSound'
<1>1. \A k \in DOMAIN queue : queue[k].repl \in Repls
  BY QueueTyped DEF RecoveryInv
<1>2. CASE post' = post
  BY <1>1, <1>2, SessionsSame DEF RecoveryInv, QueueSound, SameSessions, At, Mine
<1>3. CASE ~At("wait")
  BY <1>1, <1>3, SessionsSame DEF RecoveryInv, QueueSound, SameSessions
<1> QED BY <1>2, <1>3

\* What the boot pass found stays found.
LEMMA BootKept ==
  ASSUME RecoveryInv, SameSessions, boot' = boot
  PROVE BootSound'
BY SessionsSame DEF RecoveryInv, BootSound, SameSessions

\* What is left to show of a step that leaves the replacements alone.
Requesting == EarlySound /\ MintSound /\ RenameSound /\ RequestSound /\ SendSound

\* A request that has ended owes nothing.
LEMMA Idle ==
  ASSUME Typed', post' = IdlePost
  PROVE Requesting'
BY DEF Requesting, EarlySound, MintSound, RenameSound, RequestSound, SendSound, IdlePost, At,
       Renaming, Sending, Finished, Edged, Driving

\* A step of the request that leaves sessions and panes alone keeps the invariant if the claims
\* it leaves fit and what it is about to do is sound.
LEMMA RequestStep ==
  ASSUME RecoveryInv, Typed', SameSessions, queue' = queue, boot' = boot,
         starting' \subseteq starting, runs' \subseteq runs, edges \subseteq edges', answers' = answers,
         ~At("wait") \/ post' = post, \A c \in Held' : Fits(c),
         \/ claim.status = "pending" => claim'.status = "pending" /\ claim'.repl = claim.repl
         \/ UnfinishedIsClaimed',
         \A k \in DOMAIN temp' : temp'[k].status # "none",
         TempUnmarked', Requesting'
  PROVE RecoveryInv'
<1>1. OneInPlay' /\ CommittedIsComplete' /\ MarkedBeforeSpawn' /\ ClaimsWhole'
  BY PlaySame DEF ClaimsWhole
<1>2. UnfinishedIsClaimed' /\ QueueSound' /\ BootSound'
  BY ClaimKept, QueueKept, BootKept
<1>3. ActiveHasSession' /\ LoggedWasSpawned' /\ RunsComplete' /\ AnswersSound'
  BY WorldKept
<1> QED BY <1>1, <1>2, <1>3 DEF RecoveryInv, Requesting

\* Only the lines of a spawned replacement are written: a complete session had a pane.
LEMMA CompleteIsSpawned ==
  ASSUME RecoveryInv, NEW r \in Repls, Exists(r), Complete(r)
  PROVE pane[r] # "none" /\ session[r] # <<>> /\ Has(r, "acquire")
<1>1. 1 \in DOMAIN Prefix /\ Prefix[1] = "acquire"
  BY DEF Prefix
<1>2. Has(r, "acquire")
  BY <1>1 DEF Complete
<1>3. session[r] # <<>>
  BY <1>2 DEF Has
<1> QED BY <1>2, <1>3 DEF RecoveryInv, LoggedWasSpawned

(***************************************************************************)
(* load_recovery_claim and the resolution of an enumeration.               *)
(***************************************************************************)
LEMMA LoadedIs ==
  ASSUME RecoveryInv
  PROVE /\ Loaded.claim \in Held /\ Loaded.claim \in Claims
        /\ Loaded.temp \in Seq(Claims) /\ Len(Loaded.temp) <= Len(temp)
        /\ \A k \in DOMAIN Loaded.temp : k \in DOMAIN temp /\ Loaded.temp[k] = temp[k]
                                          /\ Loaded.temp[k].started
        /\ claim # NoClaim => Loaded.claim = claim /\ Loaded.temp = temp
        /\ ~Ambiguous /\ Loaded.claim = NoClaim => claim = NoClaim /\ temp = <<>>
        /\ Loaded.temp = temp \/ Loaded.temp = <<>>
<1>1. temp \in Seq(Claims) /\ claim \in Claims /\ Len(temp) \in Nat
  BY DEF RecoveryInv, Typed, TypeOK
<1>2. CASE claim = NoClaim /\ Len(temp) = 1
  <2>1. Loaded = [claim |-> temp[1], temp |-> <<>>] /\ 1 \in DOMAIN temp
    BY <1>1, <1>2 DEF Loaded
  <2>2. temp[1] # NoClaim
    BY <2>1 DEF RecoveryInv, ClaimsWhole, NoClaim
  <2> QED BY <1>1, <1>2, <2>1, <2>2, Fields DEF Held, RecoveryInv
<1>3. CASE ~(claim = NoClaim /\ Len(temp) = 1)
  <2>1. Loaded = [claim |-> claim, temp |-> temp]
    BY <1>3 DEF Loaded
  <2>2. \A k \in DOMAIN temp : temp[k].started
    BY <1>3 DEF RecoveryInv, TempUnmarked
  <2>3. ~Ambiguous /\ claim = NoClaim => temp = <<>>
    BY <1>1, <1>3, EmptySeq DEF Ambiguous
  <2> QED BY <1>1, <2>1, <2>2, <2>3 DEF Held
<1> QED BY <1>2, <1>3


\* resolve_authoritative_recovery_claim over an enumeration, old or new.
LEMMA Resolved ==
  ASSUME RecoveryInv, NEW links \in SUBSET (Repls \X Nat),
         NEW res, res = Resolution(links)
  PROVE /\ Fits(res.claim) /\ res.claim \in Claims
        /\ res.temp \in Seq(Claims) /\ Len(res.temp) <= Len(temp)
        /\ \A k \in DOMAIN res.temp : res.temp[k] \in Held /\ res.temp[k].started
                                      /\ res.temp[k].status # "none"
        /\ claim.status = "pending" => res.claim = claim
        /\ res.claim \in Held \cup {NoClaim} \/ res.claim.started
        /\ res.kind = "missing" => /\ res.claim = NoClaim /\ res.temp = <<>> /\ links = {}
                                   /\ claim.status # "pending"
        /\ Authoritative(res, Loaded.claim) => /\ Loaded.claim.status = "committed"
                                               /\ res.claim = Loaded.claim
                                               /\ Exists(Loaded.claim.repl)
                                               /\ Complete(Loaded.claim.repl)
<1> DEFINE c == Loaded.claim
           rest == Loaded.temp
           answer(kind, f, t) == [kind |-> kind, claim |-> f, temp |-> t]
           named == {l[1] : l \in links}
           only == Snapshot(CHOOSE r \in named : TRUE)
<1>1. /\ c \in Held /\ c \in Claims /\ Fits(c) /\ rest \in Seq(Claims) /\ Len(rest) <= Len(temp)
      /\ \A k \in DOMAIN rest : rest[k] \in Held /\ rest[k].started /\ rest[k].status # "none"
      /\ claim.status = "pending" => c = claim
      /\ Len(temp) \in Nat /\ Len(rest) \in Nat /\ Fits(NoClaim) /\ NoClaim \in Claims
  <2>1. \A k \in DOMAIN rest : rest[k] \in Held /\ rest[k].status # "none"
    BY LoadedIs DEF Held, RecoveryInv, ClaimsWhole
  <2>2. claim.status = "pending" => claim # NoClaim
    BY DEF NoClaim
  <2>3. Fits(c) /\ Fits(NoClaim)
    BY LoadedIs, HeldFits DEF Fits
  <2>4. Len(temp) \in Nat /\ Len(rest) \in Nat
    BY LoadedIs DEF RecoveryInv, Typed, TypeOK
  <2> QED BY <2>1, <2>2, <2>3, <2>4, LoadedIs, NoClaimTyped
<1>2. links # {} /\ Verified(only) => Fits(only) /\ only \in Claims /\ only.started
  <2> SUFFICES ASSUME links # {}, Verified(only) PROVE Fits(only) /\ only \in Claims /\ only.started
    OBVIOUS
  <2> DEFINE r == CHOOSE x \in named : TRUE
  <2>1. named # {} /\ named \subseteq Repls
    OBVIOUS
  <2>2. r \in Repls
    BY <2>1
  <2>3. only = [status |-> "committed", repl |-> r, request |-> minted[r], started |-> TRUE]
    BY DEF Snapshot, Claim
  <2>6. minted[r] \in Requests \cup {None}
    BY <2>2 DEF RecoveryInv, Typed, TypeOK
  <2> HIDE DEF only, r
  <2>4. Exists(r) /\ Complete(r)
    <3>1. only.repl = r
      BY <2>3
    <3>2. Exists(only.repl) /\ Complete(only.repl)
      BY DEF Verified
    <3> QED BY <3>1, <3>2
  <2>5. pane[r] # "none"
    BY <2>2, <2>4, CompleteIsSpawned
  <2>7. only \in Claims
    BY <2>2, <2>3, <2>6 DEF Claims
  <2>8. Fits(only) /\ only.started
    BY <2>2, <2>3, <2>4, <2>5 DEF Fits, InPlay
  <2> QED BY <2>7, <2>8
<1> HIDE DEF named, only
<1>3. CASE c.status = "pending"
  <2>1. res = answer("valid", c, rest)
    BY <1>3 DEF Resolution
  <2> QED BY <1>1, <1>3, <2>1 DEF Authoritative
<1>4. CASE c.status = "committed" /\ Cardinality(links) = 1 /\ only = c /\ Verified(c)
  <2>1. res = answer("valid", c, rest)
    BY <1>4 DEF Resolution, only, named
  <2>2. claim.status # "pending"
    BY <1>1, <1>4
  <2> QED BY <1>1, <1>4, <2>1, <2>2 DEF Authoritative, Verified
<1>5. CASE c.status # "pending"
           /\ ~(c.status = "committed" /\ Cardinality(links) = 1 /\ only = c /\ Verified(c))
  <2>1. claim.status # "pending"
    BY <1>1, <1>5
  <2>2. CASE Cardinality(links) > 1
    <3>1. res = answer("quarantined", NoClaim, rest)
      BY <1>5, <2>2 DEF Resolution, only, named
    <3> QED BY <1>1, <2>1, <3>1 DEF Authoritative
  <2>3. CASE ~(Cardinality(links) > 1) /\ links # {} /\ Verified(only)
    <3>1. res = answer("reconstructed", only, rest)
      BY <1>5, <2>3 DEF Resolution, only, named
    <3> QED BY <1>1, <1>2, <2>1, <2>3, <3>1 DEF Authoritative, Verified
  <2>4. CASE ~(Cardinality(links) > 1) /\ links # {} /\ ~Verified(only)
    <3>1. res = answer("quarantined", NoClaim, rest)
      BY <1>5, <2>4 DEF Resolution, only, named
    <3> QED BY <1>1, <2>1, <3>1 DEF Authoritative
  <2>5. CASE ~(Cardinality(links) > 1) /\ links = {} /\ Len(rest) = 1
    <3>1. res = answer("quarantined", rest[1], <<>>)
      BY <1>5, <2>5 DEF Resolution, only, named
    <3>2. rest[1] \in Held /\ 1 \in DOMAIN rest /\ Fits(rest[1])
      BY <1>1, <2>5, HeldFits
    <3>3. rest[1] \in Claims
      BY <1>1, <3>2
    <3> QED BY <1>1, <2>1, <3>1, <3>2, <3>3 DEF Authoritative
  <2>6. CASE ~(Cardinality(links) > 1) /\ links = {} /\ Len(rest) # 1
    <3>1. res = answer(IF rest = <<>> THEN "missing" ELSE "quarantined", NoClaim, rest)
      BY <1>5, <2>6 DEF Resolution, only, named
    <3> QED BY <1>1, <2>1, <2>6, <3>1 DEF Authoritative
  <2> QED BY <2>2, <2>3, <2>4, <2>5, <2>6
<1> QED BY <1>3, <1>4, <1>5

(***************************************************************************)
(* The request, action by action.                                          *)
(***************************************************************************)
LEMMA HeldIs ==
  ASSUME Fits(claim'), Fits(post'.claim), \A k \in DOMAIN temp' : Fits(temp'[k])
  PROVE \A c \in Held' : Fits(c)
BY DEF Held

\* The types, for a step of the request on the claim files.
LEMMA TypedRequest ==
  ASSUME Typed, UNCHANGED <<session, pane, minted, runs, queue, boot, answers>>,
         starting' \subseteq Repls, edges' \subseteq Repls,
         post' \in Posts, claim' \in Claims, temp' \in Seq(Claims),
         Len(temp') <= spent.stop + (IF post'.pc = "rename" THEN 1 ELSE 0),
         Fault \/ UNCHANGED spent
  PROVE Typed'
<1>1. spent' \in [{"fault", "stop", "drop", "death", "removal"} -> Nat] /\ spent'.stop = spent.stop
  BY FaultTyped
<1>2. TypeOK'
  BY <1>1 DEF Typed, TypeOK, At
<1> QED BY <1>1, <1>2 DEF Typed

\* A temporary file in progress is counted apart.
LEMMA TempTyped ==
  ASSUME Typed
  PROVE /\ temp \in Seq(Claims) /\ Len(temp) \in Nat /\ spent.stop \in Nat
        /\ ~At("rename") => Len(temp) <= spent.stop
        /\ At("rename") => Len(temp) <= spent.stop + 1
BY DEF Typed, TypeOK
\* The same, where the whole invariant is at hand.
LEMMA TempLength ==
  ASSUME RecoveryInv
  PROVE /\ temp \in Seq(Claims) /\ Len(temp) \in Nat /\ spent.stop \in Nat
        /\ ~At("rename") => Len(temp) <= spent.stop
        /\ At("rename") => Len(temp) <= spent.stop + 1
BY TempTyped DEF RecoveryInv

\* The enumeration names replacements, and misses no session that holds its plan.
LEMMA LinksTyped ==
  ASSUME Typed
  PROVE /\ Links \in SUBSET (Repls \X Nat)
        /\ \A r \in Repls : Complete(r) => Links # {}
<1>1. \A r \in Repls : DOMAIN session[r] \subseteq Nat
  <2> SUFFICES ASSUME NEW r \in Repls PROVE DOMAIN session[r] \subseteq Nat
    OBVIOUS
  <2>1. session[r] \in Seq(Lines) \/ session[r] = NoFile
    BY DEF Typed, TypeOK
  <2>2. CASE session[r] \in Seq(Lines)
    BY <2>2
  <2>3. CASE session[r] = NoFile
    <3>1. NoFile \in Seq({"no file"})
      BY DEF NoFile
    <3>2. DOMAIN NoFile = 1..Len(NoFile) /\ Len(NoFile) \in Nat
      BY <3>1, LenProperties
    <3>3. DOMAIN NoFile \subseteq Nat
      BY <3>2
    <3> QED BY <2>3, <3>3
  <2> QED BY <2>1, <2>2, <2>3
<1>2. Links \in SUBSET (Repls \X Nat)
  BY <1>1 DEF Links
<1>3. ASSUME NEW r \in Repls, Complete(r)
      PROVE Links # {}
  <2>1. 4 \in DOMAIN Prefix /\ Prefix[4] = "recovery_origin"
    BY DEF Prefix
  <2>2. Has(r, "recovery_origin")
    BY <1>3, <2>1 DEF Complete
  <2>3. PICK k \in DOMAIN session[r] : session[r][k] = "recovery_origin"
    BY <2>2 DEF Has
  <2>4. <<r, k>> \in Links
    BY <1>3, <2>3 DEF Links
  <2> QED BY <2>4
<1> QED BY <1>2, <1>3

\* Begin: the enumeration at the start is empty only if no session is unclaimed.
LEMMA BeginStep ==
  ASSUME RecoveryInv, NEW q \in Requests, Begin(q)
  PROVE RecoveryInv'
<1>1. At("idle") /\ post.claim = NoClaim /\ ~At("wait") /\ ~At("rename")
  BY DEF Begin, RecoveryInv, EarlySound, At
<1>2. post'.claim = NoClaim /\ post' \in Posts /\ post'.pc \in {"idle", "resolve"}
      /\ (post'.pc = "resolve" => post'.links = Links)
  <2>1. CASE post' = [IdlePost EXCEPT !.pc = "resolve", !.request = q, !.links = Links]
    BY <2>1, LinksTyped, NoClaimTyped DEF RecoveryInv, IdlePost, Posts, Pcs
  <2>2. CASE UNCHANGED post
    BY <1>1, <2>2 DEF RecoveryInv, Typed, At
  <2> QED BY <2>1, <2>2 DEF Begin
<1>3. Typed'
  BY <1>1, <1>2, TempLength, TypedRequest DEF Begin, RecoveryInv, disk, world, Typed, TypeOK
<1>4. SameSessions /\ Held' = Held
  BY <1>1, <1>2 DEF Begin, SameSessions, disk, world, Held
<1>5. Requesting'
  <2>1. post'.pc = "resolve" /\ post'.links = {} => claim'.status = "pending" \/ NothingExists'
    <3> SUFFICES ASSUME post'.pc = "resolve", post'.links = {}, ~(claim.status = "pending")
                 PROVE NothingExists'
      BY DEF Begin, disk
    <3>1. \A r \in Repls : ~Complete(r)
      BY <1>2, LinksTyped DEF RecoveryInv
    <3>2. \A r \in Repls : ~Exists(r)
      BY <3>1 DEF RecoveryInv, UnfinishedIsClaimed
    <3> QED BY <1>4, <3>2, SessionsSame DEF NothingExists
  <2> QED BY <1>2, <2>1 DEF Requesting, EarlySound, MintSound, RenameSound, RequestSound, SendSound, At,
               Renaming, Sending, Finished, Edged, Driving
<1>6. TempUnmarked' /\ \A k \in DOMAIN temp' : temp'[k].status # "none"
  BY DEF Begin, disk, RecoveryInv, TempUnmarked, ClaimsWhole
<1>7. \A c \in Held' : Fits(c)
  BY <1>4, HeldFits
<1> QED BY <1>1, <1>3, <1>4, <1>5, <1>6, <1>7, RequestStep DEF Begin, disk, world

\* The request takes the claim as it is, or as load_recovery_claim promotes it.
Loading == \/ claim' = claim /\ temp' = temp
           \/ claim' = Loaded.claim /\ temp' = Loaded.temp

\* Promoting the one temporary claim leaves claims that fit.
LEMMA LoadingIs ==
  ASSUME RecoveryInv, Loading
  PROVE /\ claim' \in Claims /\ temp' \in Seq(Claims) /\ Len(temp') <= Len(temp)
        /\ Fits(claim') /\ \A k \in DOMAIN temp' : Fits(temp'[k]) /\ temp'[k].status # "none"
        /\ claim.status = "pending" => claim' = claim
        /\ TempUnmarked'
<1>1. claim.status = "pending" => claim # NoClaim
  BY DEF NoClaim
<1>2. CASE claim' = claim /\ temp' = temp
  <2>1. \A k \in DOMAIN temp : temp[k] \in Held /\ temp[k].status # "none"
    BY DEF Held, RecoveryInv, ClaimsWhole
  <2>2. claim \in Held /\ claim \in Claims /\ Len(temp) \in Nat
    BY TempLength, Fields DEF Held, RecoveryInv
  <2> QED BY <1>1, <1>2, <2>1, <2>2, HeldFits, TempLength DEF RecoveryInv, TempUnmarked
<1>3. CASE claim' = Loaded.claim /\ temp' = Loaded.temp
  <2>1. \A k \in DOMAIN Loaded.temp : /\ Loaded.temp[k] \in Held /\ Loaded.temp[k].started
                                      /\ Loaded.temp[k].status # "none"
    BY LoadedIs DEF Held, RecoveryInv, ClaimsWhole
  <2>2. \A k \in DOMAIN Loaded.temp : Fits(Loaded.temp[k])
    BY <2>1, HeldFits
  <2> QED BY <1>1, <1>3, <2>1, <2>2, HeldFits, LoadedIs DEF TempUnmarked
<1> QED BY <1>2, <1>3 DEF Loading

\* The request ends, with or without an answer.
LEMMA EndStep ==
  ASSUME RecoveryInv, End, Loading, ~At("wait"), ~At("rename"),
         UNCHANGED <<session, world, minted, edges, runs, queue, boot, answers>>,
         Fault \/ UNCHANGED spent
  PROVE RecoveryInv'
<1>1. post' = IdlePost /\ post'.claim = NoClaim /\ post' \in Posts /\ post'.pc = "idle"
  BY NoClaimTyped DEF End, IdlePost
<1>2. Typed'
  BY <1>1, LoadingIs, TempLength, TypedRequest DEF RecoveryInv, world, Typed, TypeOK
<1>3. \A c \in Held' : Fits(c)
  BY <1>1, LoadingIs, HeldIs DEF Fits
<1>4. SameSessions /\ Requesting'
  BY <1>1, <1>2, Idle DEF SameSessions, world
<1> QED BY <1>2, <1>3, <1>4, LoadingIs, RequestStep DEF world

\* Resolve: actions are offered only for a pending claim or where nothing is in play.
LEMMA ResolveStep ==
  ASSUME RecoveryInv, Resolve
  PROVE RecoveryInv'
<1> DEFINE res == Resolution(post.links)
<1>1. At("resolve") /\ post.claim = NoClaim /\ ~At("wait") /\ ~At("rename")
      /\ post.links \in SUBSET (Repls \X Nat)
  BY DEF Resolve, RecoveryInv, EarlySound, At, Typed, Posts
<1> HIDE DEF res
<1>2. SameSessions
  BY DEF Resolve, SameSessions, world
<1>3. CASE /\ post' = [post EXCEPT !.pc = "decide",
                         !.offered = res.kind = "missing" \/ res.claim.status = "pending"]
           /\ claim' = res.claim /\ temp' = res.temp /\ UNCHANGED spent
  <2>1. /\ Fits(res.claim) /\ res.claim \in Claims
        /\ res.temp \in Seq(Claims) /\ Len(res.temp) <= Len(temp)
        /\ \A k \in DOMAIN res.temp : res.temp[k] \in Held /\ res.temp[k].started
                                      /\ res.temp[k].status # "none"
        /\ claim.status = "pending" => res.claim = claim
        /\ res.kind = "missing" => /\ res.claim = NoClaim /\ res.temp = <<>> /\ post.links = {}
                                   /\ claim.status # "pending"
    BY <1>1, Resolved DEF res
  <2>2. post'.claim = NoClaim /\ post' \in Posts /\ post'.pc = "decide"
        /\ post'.offered = (res.kind = "missing" \/ res.claim.status = "pending")
    BY <1>1, <1>3 DEF RecoveryInv, Typed, Posts, Pcs
  <2>3. Typed'
    BY <1>1, <1>3, <2>1, <2>2, TempLength, TypedRequest DEF Resolve, world, RecoveryInv, Typed, TypeOK
  <2>4. \A c \in Held' : Fits(c)
    <3>1. \A k \in DOMAIN res.temp : Fits(res.temp[k])
      BY <2>1, HeldFits
    <3> QED BY <1>3, <2>1, <2>2, <3>1, HeldIs DEF Fits
  <2>5. post'.offered => claim'.status = "pending" \/ Fresh'
    <3> SUFFICES ASSUME res.kind = "missing" PROVE Fresh'
      BY <1>3, <2>2
    <3>1. \A r \in Repls : ~Exists(r)
      BY <1>1, <2>1 DEF RecoveryInv, EarlySound, NothingExists
    <3> QED BY <1>2, <1>3, <2>1, <3>1, SessionsSame DEF Fresh, NothingExists
  <2>6. Requesting'
    BY <2>2, <2>5 DEF Requesting, EarlySound, MintSound, RenameSound, RequestSound, SendSound, At,
               Renaming, Sending, Finished, Edged, Driving
  <2> QED BY <1>1, <1>2, <1>3, <2>1, <2>3, <2>4, <2>6, RequestStep DEF Resolve, world, TempUnmarked
<1>4. CASE Fault /\ post' = [post EXCEPT !.pc = "decide", !.offered = FALSE] /\ UNCHANGED disk
  <2>1. post'.claim = NoClaim /\ post' \in Posts /\ post'.pc = "decide" /\ ~post'.offered
    BY <1>1, <1>4 DEF RecoveryInv, Typed, Posts, Pcs
  <2>2. Loading
    BY <1>4 DEF Loading, disk
  <2>3. Typed'
    BY <1>1, <1>4, <2>1, <2>2, LoadingIs, TempLength, TypedRequest
       DEF Resolve, world, RecoveryInv, Typed, TypeOK
  <2>4. \A c \in Held' : Fits(c)
    BY <2>1, <2>2, LoadingIs, HeldIs DEF Fits
  <2>5. Requesting'
    BY <2>1 DEF Requesting, EarlySound, MintSound, RenameSound, RequestSound, SendSound, At,
               Renaming, Sending, Finished, Edged, Driving
  <2> QED BY <1>1, <1>2, <2>2, <2>3, <2>4, <2>5, LoadingIs, RequestStep DEF Resolve, world
<1> QED BY <1>3, <1>4 DEF Resolve, res

\* The refusals leave everything as load_recovery_claim found it.
LEMMA DecideStep ==
  ASSUME RecoveryInv, Unreadable \/ Conflict \/ ReconcileRefuses \/ NoAction \/ MintRefused
  PROVE RecoveryInv'
<1>1. /\ End /\ ~At("wait") /\ ~At("rename")
      /\ UNCHANGED <<session, world, minted, edges, runs, queue, boot, answers>>
      /\ Fault \/ UNCHANGED spent
  BY DEF Unreadable, Conflict, ReconcileRefuses, NoAction, MintRefused, At, Pending
<1>2. Loading
  BY DEF Loading, Unreadable, Conflict, ReconcileRefuses, NoAction, MintRefused, disk
<1> QED BY <1>1, <1>2, EndStep

\* The request goes on with the claim it has and the files as they are.
LEMMA GoStep ==
  ASSUME RecoveryInv, ~At("wait"), ~At("rename"),
         UNCHANGED <<disk, session, pane, minted, runs, queue, boot, answers>>,
         starting' \subseteq starting, edges' \subseteq Repls, edges \subseteq edges',
         Fault \/ UNCHANGED spent, post' \in Posts, post'.claim = post.claim,
         ~(post'.pc = "rename"), Requesting'
  PROVE RecoveryInv'
<1>1. Held' = Held
  BY DEF Held, disk
<1>2. Typed'
  BY TempLength, TypedRequest DEF RecoveryInv, Typed, TypeOK, disk
<1>3. \A c \in Held' : Fits(c)
  BY <1>1, HeldFits
<1>4. TempUnmarked' /\ \A k \in DOMAIN temp' : temp'[k].status # "none"
  BY DEF disk, RecoveryInv, TempUnmarked, ClaimsWhole
<1> QED BY <1>2, <1>3, <1>4, RequestStep DEF disk, SameSessions

\* Unclaimed: no claim file, so nothing in play if an action is offered.
LEMMA UnclaimedStep ==
  ASSUME RecoveryInv, Unclaimed
  PROVE RecoveryInv'
<1>1. At("decide") /\ ~At("wait") /\ ~At("rename") /\ post.claim = NoClaim
  BY DEF Unclaimed, RecoveryInv, EarlySound, At
<1>2. post' \in Posts /\ post'.claim = post.claim /\ post'.pc = "act" /\ post'.offered = post.offered
  BY DEF Unclaimed, Goto, RecoveryInv, Typed, Posts, Pcs
<1>3. claim = NoClaim /\ claim.status # "pending"
  BY LoadedIs DEF Unclaimed, NoClaim
<1>4. post'.offered => Fresh'
  <2>1. post.offered => Fresh
    BY <1>1, <1>3 DEF RecoveryInv, EarlySound
  <2>2. SameSessions
    BY DEF Unclaimed, SameSessions, world
  <2> QED BY <1>2, <2>1, <2>2, SessionsSame DEF Fresh, NothingExists, Unclaimed, disk
<1>5. Requesting'
  BY <1>1, <1>2, <1>4 DEF Requesting, EarlySound, MintSound, RenameSound, RequestSound, SendSound, At,
             Renaming, Sending, Finished, Edged, Driving
<1> QED BY <1>1, <1>2, <1>5, GoStep DEF Unclaimed, world, RecoveryInv, Typed, TypeOK

\* Committed: a claim that is passed over was not offered an action.
LEMMA CommittedStep ==
  ASSUME RecoveryInv, Committed
  PROVE RecoveryInv'
<1> DEFINE res == Resolution(post.links)
           c == Loaded.claim
<1>1. At("decide") /\ post.claim = NoClaim /\ ~At("wait") /\ ~At("rename")
      /\ post.links \in SUBSET (Repls \X Nat)
  BY DEF Committed, RecoveryInv, EarlySound, At, Typed, Posts
<1>2. SameSessions /\ c.status = "committed" /\ claim' = res.claim /\ temp' = res.temp
      /\ post' = IF ~Authoritative(res, c) THEN [post EXCEPT !.pc = "act"]
                     ELSE IF c.request = post.request
                     THEN [post EXCEPT !.pc = "associate_claim", !.claim = c]
                     ELSE IdlePost
  BY DEF Committed, SameSessions, world
<1>3. /\ Fits(res.claim) /\ res.claim \in Claims
      /\ res.temp \in Seq(Claims) /\ Len(res.temp) <= Len(temp)
      /\ \A k \in DOMAIN res.temp : res.temp[k] \in Held /\ res.temp[k].started
                                    /\ res.temp[k].status # "none"
      /\ claim.status = "pending" => res.claim = claim
      /\ Authoritative(res, c) => /\ c.status = "committed" /\ Exists(c.repl) /\ Complete(c.repl)
                                  /\ res.claim = c
  BY <1>1, Resolved
<1>4. c \in Claims /\ c \in Held /\ Fits(c) /\ c # NoClaim
  BY <1>2, LoadedIs, HeldFits DEF NoClaim
\* An offer was made only for a pending claim or none, so there is none to pass over.
<1>5. ~post.offered
  <2>1. claim.status # "pending" /\ ~Fresh
    <3>1. claim # NoClaim => c = claim
      BY LoadedIs
    <3>2. CASE claim = NoClaim
      <4>1. temp # <<>>
        BY <1>4, <3>2 DEF Loaded
      <4> QED BY <3>2, <4>1 DEF Fresh, NoClaim
    <3> QED BY <1>2, <3>1, <3>2 DEF Fresh
  <2> QED BY <1>1, <2>1 DEF RecoveryInv, EarlySound
<1> HIDE DEF res, c
<1>6. post' \in Posts /\ post'.pc \in {"act", "associate_claim", "idle"}
      /\ (post'.pc = "act" => ~post'.offered /\ post'.claim = NoClaim)
      /\ (post'.pc = "idle" => post'.claim = NoClaim)
      /\ (post'.pc = "associate_claim" => post'.claim = c /\ Authoritative(res, c))
  <2>1. CASE ~Authoritative(res, c)
    BY <1>1, <1>2, <1>5, <2>1 DEF RecoveryInv, Typed, Posts, Pcs
  <2>2. CASE Authoritative(res, c) /\ c.request = post.request
    BY <1>2, <1>4, <2>2 DEF RecoveryInv, Typed, Posts, Pcs
  <2>3. CASE Authoritative(res, c) /\ c.request # post.request
    <3>1. post' = IdlePost
      BY <1>2, <2>3
    <3> QED BY <3>1, NoClaimTyped DEF IdlePost
  <2> QED BY <2>1, <2>2, <2>3
<1>7. Typed'
  BY <1>1, <1>2, <1>3, <1>6, TempLength, TypedRequest DEF Committed, world, RecoveryInv, Typed, TypeOK
<1>8. \A d \in Held' : Fits(d)
  <2>1. \A k \in DOMAIN res.temp : Fits(res.temp[k])
    BY <1>3, HeldFits
  <2>2. Fits(post'.claim)
    BY <1>4, <1>6 DEF Fits
  <2> QED BY <1>2, <1>3, <2>1, <2>2, HeldIs
<1>9. Requesting'
  BY <1>2, <1>3, <1>4, <1>6, SessionsSame
     DEF Requesting, EarlySound, MintSound, RenameSound, RequestSound, SendSound, At,
             Renaming, Sending, Finished, Edged, Driving, Mine
<1> QED BY <1>1, <1>2, <1>3, <1>7, <1>8, <1>9, RequestStep DEF Committed, world, TempUnmarked

\* Planned: the plan that was found is carried on.
LEMMA PlannedStep ==
  ASSUME RecoveryInv, Planned
  PROVE RecoveryInv'
<1>1. At("act") /\ ~At("wait") /\ ~At("rename") /\ post.claim # NoClaim /\ ~Renaming("mark")
  BY DEF Planned, At, Renaming
<1>2. post' \in Posts /\ post'.claim = post.claim /\ post'.pc = "mark"
  BY DEF Planned, Goto, RecoveryInv, Typed, Posts, Pcs
<1>3. Exists(Mine)' /\ Mine' = Mine
  <2>1. SameSessions
    BY DEF Planned, SameSessions, world
  <2>2. Exists(Mine)
    BY <1>1 DEF RecoveryInv, RequestSound
  <2> QED BY <1>2, <2>1, <2>2 DEF SameSessions, Exists, Mine
<1>4. Requesting'
  BY <1>1, <1>2, <1>3 DEF Requesting, EarlySound, MintSound, RenameSound, RequestSound, SendSound, At,
             Renaming, Sending, Finished, Edged, Driving
<1> QED BY <1>1, <1>2, <1>4, GoStep DEF Planned, world, RecoveryInv, Typed, TypeOK

\* Mint: a second replacement cannot be minted, as nothing is in play.
LEMMA MintStep ==
  ASSUME RecoveryInv, NEW r \in Repls, Mint(r)
  PROVE RecoveryInv'
<1> DEFINE c == Claim("pending", r, post.request, FALSE)
<1>1. At("act") /\ ~At("wait") /\ ~At("rename") /\ post.claim = NoClaim
      /\ claim = NoClaim /\ temp = <<>> /\ NothingExists /\ ~Spawned(r)
  BY DEF Mint, At, RecoveryInv, EarlySound, Fresh, Unused, Spawned
<1>2. c \in Claims /\ c.status = "pending" /\ c.repl = r /\ c.started = FALSE /\ c # NoClaim
  BY DEF Claim, Claims, RecoveryInv, Typed, Posts, NoClaim
<1>3. /\ temp' = Append(temp, c) /\ claim' = claim
      /\ post' = [post EXCEPT !.pc = "rename", !.claim = c, !.next = "mark"]
  BY DEF Mint
<1> HIDE DEF c
<1>4. temp' = <<c>> /\ temp' \in Seq(Claims) /\ Len(temp') = 1 /\ DOMAIN temp' = {1} /\ temp'[1] = c
  BY <1>1, <1>2, <1>3
<1>5. post' \in Posts /\ post'.pc = "rename" /\ post'.claim = c /\ post'.next = "mark"
  BY <1>2, <1>3 DEF RecoveryInv, Typed, Posts, Pcs, Nexts
<1>6. Typed'
  <2>1. minted' \in [Repls -> Requests \cup {None}]
    BY DEF Mint, RecoveryInv, Typed, TypeOK, Posts
  <2>2. Len(temp') <= spent.stop + (IF At("rename")' THEN 1 ELSE 0)
    BY <1>4, <1>5, TempLength DEF At
  <2>3. TypeOK'
    BY <1>3, <1>4, <2>1, <2>2 DEF RecoveryInv, Typed, TypeOK, Mint, world
  <2> QED BY <1>5, <2>3 DEF RecoveryInv, Typed, Mint
<1>7. SameSessions
  BY DEF Mint, SameSessions, world
<1>8. Held' = {NoClaim, c}
  BY <1>1, <1>3, <1>4, <1>5 DEF Held
<1>9. /\ \A d \in Held' : d.status = "none" => d = NoClaim
      /\ \A d \in Held' : d.status # "none" => d.repl # None
      /\ \A d \in Held' : d.status # "committed"
      /\ \A d \in Held' : d.repl = r \/ d.repl = None
      /\ \A s \in Repls : ~Exists(s)'
      /\ ~Spawned(r)'
  <2>1. NoClaim.status = "none" /\ NoClaim.repl = None
    BY DEF NoClaim
  <2>2. ~Spawned(r)'
    BY <1>1 DEF Mint, world, Spawned
  <2>3. \A s \in Repls : ~Exists(s)'
    BY <1>1, <1>7, SessionsSame DEF NothingExists
  <2> QED BY <1>2, <1>8, <2>1, <2>2, <2>3, RecoveryAssumption
<1>10. OneInPlay' /\ CommittedIsComplete' /\ MarkedBeforeSpawn' /\ ClaimsWhole'
  <2>1. OneInPlay' /\ CommittedIsComplete'
    BY <1>9, RecoveryAssumption DEF OneInPlay, InPlay, CommittedIsComplete
  <2>2. MarkedBeforeSpawn'
    BY <1>9, RecoveryAssumption DEF MarkedBeforeSpawn
  <2>3. ClaimsWhole'
    BY <1>2, <1>4, <1>9 DEF ClaimsWhole
  <2> QED BY <2>1, <2>2, <2>3
<1>11. UnfinishedIsClaimed' /\ QueueSound' /\ BootSound'
       /\ ActiveHasSession' /\ LoggedWasSpawned' /\ RunsComplete' /\ AnswersSound'
  <2>1. UnfinishedIsClaimed'
    BY <1>9 DEF UnfinishedIsClaimed
  <2>2. QueueSound' /\ BootSound'
    BY <1>1, <1>7, QueueKept, BootKept DEF Mint
  <2> QED BY <1>7, <2>1, <2>2, WorldKept DEF Mint, world
<1>12. TempUnmarked'
  BY <1>1, <1>3, <1>4 DEF TempUnmarked
<1>13. Requesting'
  BY <1>1, <1>2, <1>3, <1>4, <1>5, <1>9
     DEF Requesting, EarlySound, MintSound, RenameSound, RequestSound, SendSound, At, NothingExists,
             Renaming, Sending, Finished, Edged, Driving, Mine
<1> QED BY <1>6, <1>10, <1>11, <1>12, <1>13 DEF RecoveryInv, Requesting

\* Authority: the committed claim is looked up in the old enumeration.
LEMMA AuthorityStep ==
  ASSUME RecoveryInv, Authority
  PROVE RecoveryInv'
<1> DEFINE res == Resolution(post.links)
<1>1. /\ At("authority") /\ ~At("wait") /\ ~At("rename") /\ ~Renaming("mark")
      /\ post.links \in SUBSET (Repls \X Nat) /\ post.claim \in Held
      /\ post.claim # NoClaim /\ Exists(Mine) /\ Complete(Mine) /\ post.claim.status = "committed"
  BY DEF Authority, RecoveryInv, RequestSound, At, Typed, Posts, Held, Renaming, Finished
<1>2. SameSessions /\ claim' = res.claim /\ temp' = res.temp
  BY DEF Authority, SameSessions, world
<1>3. /\ Fits(res.claim) /\ res.claim \in Claims
      /\ res.temp \in Seq(Claims) /\ Len(res.temp) <= Len(temp)
      /\ \A k \in DOMAIN res.temp : res.temp[k] \in Held /\ res.temp[k].started
                                    /\ res.temp[k].status # "none"
      /\ claim.status = "pending" => res.claim = claim
  BY <1>1, Resolved
<1>4. post' \in Posts /\ post'.claim = post.claim /\ post'.pc \in {"act", "associate_claim"}
  BY DEF Authority, Goto, RecoveryInv, Typed, Posts, Pcs
<1> HIDE DEF res
<1>5. Typed'
  BY <1>1, <1>2, <1>3, <1>4, TempLength, TypedRequest DEF Authority, world, RecoveryInv, Typed, TypeOK
<1>6. \A d \in Held' : Fits(d)
  <2>1. \A k \in DOMAIN res.temp : Fits(res.temp[k])
    BY <1>3, HeldFits
  <2> QED BY <1>1, <1>2, <1>3, <1>4, <2>1, HeldIs, HeldFits
<1>7. Requesting'
  BY <1>1, <1>2, <1>4, SessionsSame
     DEF Requesting, EarlySound, MintSound, RenameSound, RequestSound, SendSound, At,
             Renaming, Sending, Finished, Edged, Driving, Mine
<1> QED BY <1>1, <1>2, <1>3, <1>5, <1>6, <1>7, RequestStep DEF Authority, world, TempUnmarked

\* The first n elements of a sequence.
LEMMA Cut ==
  ASSUME NEW S, NEW s \in Seq(S), NEW n \in Int, 0 <= n, n <= Len(s)
  PROVE /\ SubSeq(s, 1, n) \in Seq(S) /\ Len(SubSeq(s, 1, n)) = n
        /\ \A i \in 1..n : SubSeq(s, 1, n)[i] = s[i]
<1>1. \A i \in 1..n : s[i] \in S
  OBVIOUS
<1>2. /\ SubSeq(s, 1, n) \in Seq(S)
      /\ Len(SubSeq(s, 1, n)) = IF 1 <= n THEN n - 1 + 1 ELSE 0
      /\ \A i \in 1..(n - 1 + 1) : SubSeq(s, 1, n)[i] = s[1 + i - 1]
  BY <1>1, SubSeqProperties
<1>3. n - 1 + 1 = n /\ \A i \in 1..n : 1 + i - 1 = i
  OBVIOUS
<1>4. Len(SubSeq(s, 1, n)) = n
  BY <1>2
<1>5. \A i \in 1..n : SubSeq(s, 1, n)[i] = s[i]
  BY <1>2, <1>3
<1> QED BY <1>2, <1>4, <1>5

\* Front(temp), the temporary files without the one in progress.
LEMMA FrontTyped ==
  ASSUME Typed
  PROVE /\ Front(temp) \in Seq(Claims)
        /\ At("rename") => Len(Front(temp)) <= spent.stop
        /\ \A k \in DOMAIN Front(temp) : k \in DOMAIN temp /\ Front(temp)[k] = temp[k]
        /\ Len(temp) <= 1 => Front(temp) = <<>>
<1>1. temp \in Seq(Claims) /\ Len(temp) \in Nat /\ spent.stop \in Nat
      /\ (At("rename") => Len(temp) <= spent.stop + 1)
  BY TempTyped
<1>2. CASE Len(temp) = 0
  <2>1. Front(temp) = <<>>
    BY <1>1, <1>2, SubSeqEmpty DEF Front
  <2> QED BY <1>1, <2>1
<1>3. CASE Len(temp) > 0
  <2> DEFINE n == Len(temp) - 1
  <2>1. n \in Int /\ 0 <= n /\ n <= Len(temp)
    BY <1>1, <1>3
  <2>2. Front(temp) = SubSeq(temp, 1, n)
    BY DEF Front
  <2> HIDE DEF n
  <2>3. /\ Front(temp) \in Seq(Claims) /\ Len(Front(temp)) = n
        /\ \A k \in 1..n : Front(temp)[k] = temp[k]
    BY <1>1, <2>1, <2>2, Cut
  <2>4. \A k \in DOMAIN Front(temp) : k \in DOMAIN temp /\ Front(temp)[k] = temp[k]
    BY <1>1, <2>1, <2>3
  <2>5. Len(temp) <= 1 => Front(temp) = <<>>
    BY <1>1, <1>3, <2>3, EmptySeq DEF n
  <2>6. At("rename") => Len(Front(temp)) <= spent.stop
    BY <1>1, <2>3 DEF n
  <2> QED BY <2>3, <2>4, <2>5, <2>6
<1> QED BY <1>1, <1>2, <1>3
\* The same, where the whole invariant is at hand.
LEMMA FrontIs ==
  ASSUME RecoveryInv
  PROVE /\ Front(temp) \in Seq(Claims)
        /\ At("rename") => Len(Front(temp)) <= spent.stop
        /\ \A k \in DOMAIN Front(temp) : k \in DOMAIN temp /\ Front(temp)[k] = temp[k]
        /\ Len(temp) <= 1 => Front(temp) = <<>>
BY FrontTyped DEF RecoveryInv

\* Append and concatenation of one claim.
LEMMA AppendIs ==
  ASSUME NEW s \in Seq(Claims), NEW d \in Claims
  PROVE /\ Append(s, d) \in Seq(Claims) /\ Len(Append(s, d)) = Len(s) + 1
        /\ s \o <<d>> = Append(s, d) /\ s \o <<>> = s
        /\ \A k \in DOMAIN Append(s, d) :
              \/ k \in DOMAIN s /\ Append(s, d)[k] = s[k]
              \/ Append(s, d)[k] = d
BY AppendProperties, AppendIsConcat, ConcatEmptySeq

\* The four planned lines.
LEMMA PrefixIs ==
  /\ Prefix \in Seq(Lines) /\ Len(Prefix) = 4 /\ DOMAIN Prefix = 1..4
  /\ Prefix[1] = "acquire" /\ Prefix[2] = "run_meta" /\ Prefix[3] = "prompt_draft"
  /\ Prefix[4] = "recovery_origin"
<1>1. Prefix[1] = "acquire" /\ Prefix[2] = "run_meta" /\ Prefix[3] = "prompt_draft"
      /\ Prefix[4] = "recovery_origin"
  BY DEF Prefix
<1>2. Prefix[1] \in Lines /\ Prefix[2] \in Lines /\ Prefix[3] \in Lines /\ Prefix[4] \in Lines
  BY DEF Lines
<1>3. "acquire" \in Lines /\ "run_meta" \in Lines /\ "prompt_draft" \in Lines
      /\ "recovery_origin" \in Lines
  BY <1>1, <1>2
<1>4. Prefix \in Seq(Lines)
  BY <1>3 DEF Prefix
<1>5. Len(Prefix) = 4
  BY DEF Prefix
<1> QED BY <1>1, <1>4, <1>5, LenProperties

\* The elements of a sequence after the first m.
LEMMA Rest ==
  ASSUME NEW S, NEW s \in Seq(S), NEW m \in Int, 0 <= m, m <= Len(s)
  PROVE /\ SubSeq(s, m + 1, Len(s)) \in Seq(S) /\ Len(SubSeq(s, m + 1, Len(s))) = Len(s) - m
        /\ \A i \in 1..(Len(s) - m) : SubSeq(s, m + 1, Len(s))[i] = s[m + i]
<1> DEFINE a == m + 1
           n == Len(s)
<1>1. a \in Int /\ n \in Int /\ \A i \in a..n : s[i] \in S
  OBVIOUS
<1>2. a = m + 1 /\ n = Len(s)
  OBVIOUS
<1> HIDE DEF a, n
<1>3. /\ SubSeq(s, a, n) \in Seq(S)
      /\ Len(SubSeq(s, a, n)) = IF a <= n THEN n - a + 1 ELSE 0
      /\ \A i \in 1..(n - a + 1) : SubSeq(s, a, n)[i] = s[a + i - 1]
  BY <1>1, SubSeqProperties
<1>4. n - a + 1 = Len(s) - m /\ \A i \in Int : a + i - 1 = m + i
  BY <1>1, <1>2
<1>5. Len(SubSeq(s, a, n)) = Len(s) - m
  BY <1>1, <1>2, <1>3
<1>6. \A i \in 1..(Len(s) - m) : SubSeq(s, a, n)[i] = s[m + i]
  BY <1>3, <1>4
<1> QED BY <1>2, <1>3, <1>5, <1>6

\* A session that is a prefix of the plan has its lines at their places.
LEMMA PrefixOf ==
  ASSUME Typed, NEW r \in Repls, Exists(r), IsPrefix(session[r], Prefix)
  PROVE /\ Len(session[r]) \in Nat /\ Len(session[r]) <= 4
        /\ \A j \in 1..Len(session[r]) : j \in DOMAIN session[r] /\ session[r][j] = Prefix[j]
<1>1. session[r] \in Seq(Lines)
  BY DEF Typed, TypeOK, Exists
<1>2. Prefix \in Seq(Lines) /\ Len(Prefix) = 4 /\ DOMAIN Prefix = 1..4
  BY PrefixIs
<1>3. Len(session[r]) \in Nat /\ Len(session[r]) <= 4 /\ DOMAIN session[r] = 1..Len(session[r])
  BY <1>1, <1>2 DEF IsPrefix
<1>4. SubSeq(session[r], 1, Len(session[r])) = session[r]
  BY <1>1, SubSeqFull
<1>5. \A j \in 1..Len(session[r]) : SubSeq(Prefix, 1, Len(session[r]))[j] = Prefix[j]
  BY <1>2, <1>3, Cut
<1> QED BY <1>3, <1>4, <1>5 DEF IsPrefix

\* A planned session that carries its link carries the whole plan.
LEMMA LinkedIsComplete ==
  ASSUME Typed, NEW r \in Repls, Exists(r), IsPrefix(session[r], Prefix), Has(r, "recovery_origin")
  PROVE Complete(r)
<1>1. session[r] \in Seq(Lines)
  BY DEF Typed, TypeOK, Exists
<1>2. PICK k \in DOMAIN session[r] : session[r][k] = "recovery_origin"
  BY DEF Has
<1>3. Prefix \in Seq(Lines) /\ Len(Prefix) = 4 /\ DOMAIN Prefix = 1..4
      /\ Prefix[1] = "acquire" /\ Prefix[2] = "run_meta" /\ Prefix[3] = "prompt_draft"
      /\ Prefix[4] = "recovery_origin"
  BY PrefixIs
<1>4. Len(session[r]) \in Nat /\ Len(session[r]) <= 4 /\ DOMAIN session[r] = 1..Len(session[r])
  BY <1>1, PrefixOf
<1>5. \A j \in 1..Len(session[r]) : session[r][j] = Prefix[j]
  BY PrefixOf
<1>6. k = 4
  BY <1>2, <1>3, <1>4, <1>5
<1>7. \A j \in DOMAIN Prefix : j \in DOMAIN session[r] /\ session[r][j] = Prefix[j]
  BY <1>2, <1>3, <1>4, <1>5, <1>6
<1> QED BY <1>7 DEF Complete, Has

\* The value that stands for no session file.
LEMMA NoFileValue == NoFile \in Seq({"no file"}) /\ \A k \in DOMAIN NoFile : NoFile[k] = "no file"
<1>1. NoFile \in Seq({"no file"})
  BY DEF NoFile
<1>2. DOMAIN NoFile = 1..Len(NoFile)
  BY <1>1, LenProperties
<1>3. \A k \in 1..Len(NoFile) : NoFile[k] \in {"no file"}
  BY <1>1, ElementOfSeq
<1> QED BY <1>1, <1>2, <1>3

\* A session that is not there holds no line.
LEMMA NoFileIs ==
  ASSUME NEW r, session[r] = NoFile
  PROVE ~Complete(r) /\ \A line \in Lines : ~Has(r, line)
<1>2. \A k \in DOMAIN NoFile : NoFile[k] = "no file"
  BY NoFileValue
<1>3. "no file" \notin Lines
  <2>1. \A k \in 1..4 : Prefix[k] # "no file"
    <3>1. \A k \in 1..4 : k = 1 \/ k = 2 \/ k = 3 \/ k = 4
      OBVIOUS
    <3> QED BY <3>1, PrefixIs
  <2> QED BY <2>1 DEF Lines
<1>4. \A line \in Lines : ~Has(r, line)
  BY <1>2, <1>3 DEF Has
<1>5. 1 \in DOMAIN Prefix /\ Prefix[1] \in Lines
  BY PrefixIs
<1> QED BY <1>4, <1>5 DEF Complete

\* The session of a replacement that was never spawned is created, for a claim that is pending.
LEMMA CreateStep ==
  ASSUME RecoveryInv, NEW r \in Repls, InPlay(r), ~Exists(r), pane[r] = "none",
         session' = [session EXCEPT ![r] = <<>>],
         UNCHANGED <<world, minted, edges, runs, queue, boot, answers, spent>>, ~At("wait"),
         post' \in Posts, claim' \in Claims, temp' \in Seq(Claims),
         Len(temp') <= spent.stop + (IF post'.pc = "rename" THEN 1 ELSE 0),
         \A c \in Held' : Fits(c), claim'.status = "pending" /\ claim'.repl = r,
         \A k \in DOMAIN temp' : temp'[k].status # "none",
         TempUnmarked', Requesting'
  PROVE RecoveryInv'
<1>1. Typed'
  <2>1. session' \in [Repls -> Seq(Lines) \cup {NoFile}]
    <3>1. <<>> \in Seq(Lines)
      OBVIOUS
    <3> QED BY <3>1 DEF RecoveryInv, Typed, TypeOK
  <2>2. TypeOK'
    BY <2>1 DEF RecoveryInv, Typed, TypeOK, world, At
  <2> QED BY <2>2 DEF RecoveryInv, Typed
<1>2. /\ \A s \in Repls : s # r => /\ session'[s] = session[s] /\ Exists(s)' = Exists(s)
                                   /\ Complete(s)' = Complete(s)
      /\ session'[r] = <<>> /\ Exists(r)' /\ pane' = pane /\ starting' = starting /\ ~Complete(r)
  <2>1. session'[r] = <<>> /\ \A s \in Repls : s # r => session'[s] = session[s]
    BY DEF RecoveryInv, Typed, TypeOK
  <2>2. <<>> # NoFile
    BY DEF NoFile
  <2>3. ~Complete(r)
    BY NoFileIs DEF Exists
  <2> QED BY <2>1, <2>2, <2>3 DEF Exists, Complete, Has, world
<1>3. OneInPlay' /\ CommittedIsComplete' /\ MarkedBeforeSpawn' /\ ClaimsWhole'
  <2>1. \A s \in Repls : /\ Exists(s)' => InPlay(s)
                         /\ Exists(s)' /\ pane[s] # "none" => Exists(s)
                         /\ Exists(s)' /\ Complete(s) => Complete(s)'
                         /\ pane[s] # "none" => pane'[s] # "none"
                         /\ Spawned(s)' => Spawned(s)
    BY <1>2 DEF InPlay, Spawned
  <2> QED BY <1>1, <2>1, PlayStep DEF ClaimsWhole
<1>4. UnfinishedIsClaimed'
  <2>1. \A s \in Repls : Exists(s) => s = r
    BY DEF RecoveryInv, OneInPlay, InPlay
  <2> QED BY <1>2, <2>1 DEF UnfinishedIsClaimed
<1>5. QueueSound'
  <2>1. \A k \in DOMAIN queue : queue[k].repl \in Repls /\ queue[k].repl # r
    BY QueueTyped DEF RecoveryInv, QueueSound
  <2> QED BY <1>2, <2>1 DEF RecoveryInv, QueueSound
<1>6. BootSound'
  <2>1. r \notin boot.todo /\ r # boot.at /\ boot.todo \subseteq Repls /\ boot.at \in Repls \cup {None}
    BY <1>2, RecoveryAssumption DEF RecoveryInv, BootSound, Typed
  <2> QED BY <1>2, <2>1 DEF RecoveryInv, BootSound
<1>7. ActiveHasSession' /\ LoggedWasSpawned' /\ RunsComplete' /\ AnswersSound'
  <2>1. r \notin runs /\ r \notin answers /\ runs \subseteq Repls /\ answers \subseteq Repls
    BY DEF RecoveryInv, Typed, TypeOK, AnswersSound
  <2>2. ActiveHasSession' /\ LoggedWasSpawned'
    BY <1>2 DEF RecoveryInv, ActiveHasSession, LoggedWasSpawned, Active
  <2>3. RunsComplete'
    BY <1>2, <2>1 DEF RecoveryInv, RunsComplete
  <2>4. AnswersSound'
    BY <1>2, <2>1 DEF RecoveryInv, AnswersSound
  <2> QED BY <2>2, <2>3, <2>4
<1> QED BY <1>1, <1>3, <1>4, <1>5, <1>6, <1>7 DEF RecoveryInv, Requesting

\* Reconcile: a session is created only for a replacement that was never spawned.
LEMMA ReconcileStep ==
  ASSUME RecoveryInv, Reconcile
  PROVE RecoveryInv'
<1> DEFINE c == Loaded.claim
           r == c.repl
           linked == Exists(r) /\ Has(r, "recovery_origin")
           done == [c EXCEPT !.status = "committed"]
<1>1. /\ At("decide") /\ post.claim = NoClaim /\ ~At("wait") /\ ~At("rename")
      /\ c.status = "pending" /\ ~Dead(c) /\ (Exists(r) => PrefixMatches(c))
      /\ session' = IF Exists(r) THEN session ELSE [session EXCEPT ![r] = <<>>]
      /\ claim' = c /\ temp' = Loaded.temp \o (IF linked THEN <<done>> ELSE <<>>)
      /\ post' = IF linked
                 THEN [post EXCEPT !.pc = "rename", !.claim = done, !.next = "authority"]
                 ELSE [post EXCEPT !.pc = "act", !.claim = c, !.reattach = Reattachable(c)]
  BY DEF Reconcile, Pending, At, RecoveryInv, EarlySound
<1>2. /\ c \in Held /\ c \in Claims /\ Fits(c) /\ c # NoClaim /\ r \in Repls /\ InPlay(r)
      /\ (Spawned(r) => c.started)
      /\ Loaded.temp \in Seq(Claims) /\ Len(Loaded.temp) <= Len(temp) /\ Len(Loaded.temp) \in Nat
      /\ \A k \in DOMAIN Loaded.temp : /\ Loaded.temp[k] \in Held /\ Loaded.temp[k].started
                                       /\ Loaded.temp[k].status # "none" /\ Fits(Loaded.temp[k])
  <2>1. c \in Held /\ c \in Claims /\ Fits(c) /\ c # NoClaim
    BY <1>1, LoadedIs, HeldFits DEF NoClaim
  <2>2. \A k \in DOMAIN Loaded.temp : /\ Loaded.temp[k] \in Held /\ Loaded.temp[k].started
                                      /\ Loaded.temp[k].status # "none"
    BY LoadedIs DEF Held, RecoveryInv, ClaimsWhole
  <2>3. \A k \in DOMAIN Loaded.temp : Fits(Loaded.temp[k])
    BY <2>2, HeldFits
  <2> QED BY <2>1, <2>2, <2>3, LoadedIs DEF Fits
<1>3. claim.status = "pending" => c = claim
  BY LoadedIs DEF NoClaim
<1>4. (Fault \/ UNCHANGED spent) /\ Len(Loaded.temp) <= spent.stop
  <2>1. ~At("rename")
    BY <1>1
  <2>2. Len(Loaded.temp) <= Len(temp) /\ Len(Loaded.temp) \in Nat
    BY <1>2
  <2>3. Len(Loaded.temp) <= spent.stop
    BY <2>1, <2>2, TempLength
  <2> QED BY <2>3 DEF Reconcile
<1>5. CASE linked
  <2>1. Complete(r)
    BY <1>1, <1>2, <1>5, LinkedIsComplete DEF RecoveryInv, PrefixMatches
  <2>2. pane[r] # "none" /\ c.started
    BY <1>2, <1>5, <2>1, CompleteIsSpawned DEF Spawned
  <2>3. done \in Claims /\ done.status = "committed" /\ done.repl = r /\ done.started /\ done # NoClaim
    BY <1>2, <2>2 DEF Claims, NoClaim
  <2>4. Fits(done)
    BY <1>2, <2>1, <2>2, <2>3 DEF Fits
  <2>5. /\ SameSessions /\ temp' = Append(Loaded.temp, done)
        /\ post' = [post EXCEPT !.pc = "rename", !.claim = done, !.next = "authority"]
    BY <1>1, <1>2, <1>5, <2>3, AppendIs DEF SameSessions, Reconcile, world
  <2> HIDE DEF done, c, linked
  <2>6. /\ temp' \in Seq(Claims) /\ Len(temp') = Len(Loaded.temp) + 1
        /\ \A k \in DOMAIN temp' : \/ k \in DOMAIN Loaded.temp /\ temp'[k] = Loaded.temp[k]
                                   \/ temp'[k] = done
    BY <1>2, <2>3, <2>5, AppendIs
  <2>7. post' \in Posts /\ post'.pc = "rename" /\ post'.claim = done /\ post'.next = "authority"
    BY <2>3, <2>5 DEF RecoveryInv, Typed, Posts, Pcs, Nexts
  <2>8. Typed'
    <3>1. Len(temp') <= spent.stop + 1
      <4>1. Len(temp') = Len(Loaded.temp) + 1 /\ Len(Loaded.temp) \in Nat
        BY <1>2, <2>6
      <4> QED BY <1>4, <4>1, TempLength
    <3> QED BY <1>1, <1>2, <1>4, <2>5, <2>6, <2>7, <3>1, TypedRequest
            DEF Reconcile, world, SameSessions, RecoveryInv, Typed, TypeOK
  <2>9. \A d \in Held' : Fits(d)
    BY <1>1, <1>2, <2>4, <2>6, <2>7, HeldIs
  <2>10. TempUnmarked' /\ \A k \in DOMAIN temp' : temp'[k].status # "none"
    BY <1>2, <2>3, <2>6 DEF TempUnmarked
  <2>11. Exists(Mine)'
    BY <1>5, <2>3, <2>5, <2>7, SessionsSame DEF Mine, linked
  <2>12. Requesting'
    BY <1>1, <1>2, <2>3, <2>7, <2>11
     DEF Requesting, EarlySound, MintSound, RenameSound, RequestSound, SendSound, At,
             Renaming, Sending, Finished, Edged, Driving
  <2> QED BY <1>1, <1>3, <2>5, <2>8, <2>9, <2>10, <2>12, RequestStep DEF Reconcile, world
<1>6. CASE ~linked
  <2>1. /\ temp' = Loaded.temp
        /\ post' = [post EXCEPT !.pc = "act", !.claim = c, !.reattach = Reattachable(c)]
    BY <1>1, <1>2, <1>6, AppendIs
  <2>2. Reattachable(c) \in BOOLEAN
    BY DEF Reattachable, Present
  <2> HIDE DEF c, linked, done
  <2>3. post' \in Posts /\ post'.pc = "act" /\ post'.claim = c
    BY <1>2, <2>1, <2>2 DEF RecoveryInv, Typed, Posts, Pcs
  <2>4. \A d \in Held' : Fits(d)
    BY <1>1, <1>2, <2>1, <2>3, HeldIs
  <2>5. TempUnmarked' /\ \A k \in DOMAIN temp' : temp'[k].status # "none"
    BY <1>2, <2>1 DEF TempUnmarked
  <2>6. Exists(Mine)' => Requesting'
    BY <1>2, <2>3
     DEF Requesting, EarlySound, MintSound, RenameSound, RequestSound, SendSound, At,
             Renaming, Sending, Finished, Edged, Driving
  <2>7. CASE Exists(r)
    <3>1. SameSessions
      BY <1>1, <2>7 DEF SameSessions, Reconcile, world
    <3>2. Typed'
      <4>1. claim' \in Claims /\ temp' \in Seq(Claims) /\ Len(temp') <= spent.stop
            /\ spent.stop \in Nat
        BY <1>1, <1>2, <1>4, <2>1, TempLength
      <4>2. Len(temp') <= spent.stop + (IF post'.pc = "rename" THEN 1 ELSE 0)
        BY <2>3, <4>1
      <4> QED BY <1>4, <2>3, <3>1, <4>1, <4>2, TypedRequest
         DEF Reconcile, world, SameSessions, RecoveryInv, Typed, TypeOK
    <3>3. Exists(Mine)'
      BY <2>3, <2>7, <3>1, SessionsSame DEF Mine
    <3> QED BY <1>1, <1>3, <2>4, <2>5, <2>6, <3>1, <3>2, <3>3, RequestStep DEF Reconcile, world
  <2>8. CASE ~Exists(r)
    <3>1. pane[r] = "none"
      <4>1. ~c.started
        BY <1>1, <1>2, <2>8 DEF Dead, Present, RecoveryInv, ActiveHasSession, Active
      <4> QED BY <1>2, <4>1 DEF Spawned
    <3>2. session' = [session EXCEPT ![r] = <<>>]
      BY <1>1, <2>8
    <3>3. Exists(Mine)'
      <4>1. session'[r] = <<>> /\ <<>> # NoFile
        BY <1>2, <3>2 DEF RecoveryInv, Typed, TypeOK, NoFile
      <4> QED BY <2>3, <4>1 DEF Mine, Exists
    <3>4. Len(temp') <= spent.stop
      BY <1>4, <2>1
    <3>5. claim' \in Claims /\ temp' \in Seq(Claims) /\ claim'.status = "pending" /\ claim'.repl = r
          /\ ~At("wait") /\ r \in Repls /\ InPlay(r)
      BY <1>1, <1>2, <2>1
    <3>6. UNCHANGED <<world, minted, edges, runs, queue, boot, answers, spent>>
      BY DEF Reconcile
    <3>7. Len(temp') <= spent.stop + (IF post'.pc = "rename" THEN 1 ELSE 0)
      BY <2>3, <3>4, TempLength
    <3> HIDE DEF r
    <3> QED BY <2>3, <2>4, <2>5, <2>6, <2>8, <3>1, <3>2, <3>3, <3>5, <3>6, <3>7, CreateStep
  <2> QED BY <2>7, <2>8
<1> QED BY <1>5, <1>6

\* One replacement is in play; once it was spawned every copy of its claim says so.
LEMMA AllStarted ==
  ASSUME RecoveryInv, NEW r \in Repls, InPlay(r), Spawned(r)
  PROVE \A c \in Held : c.started \/ c = NoClaim
<1> SUFFICES ASSUME NEW c \in Held, c # NoClaim PROVE c.started
  OBVIOUS
<1>1. c.repl \in Repls /\ InPlay(c.repl) /\ (Spawned(c.repl) => c.started)
  BY HeldFits DEF Fits
<1>2. c.repl = r
  BY <1>1 DEF RecoveryInv, OneInPlay
<1> QED BY <1>1, <1>2

\* What load_recovery_claim leaves: claims that fit, all marked.
LEMMA LoadedTemps ==
  ASSUME RecoveryInv
  PROVE /\ Loaded.temp \in Seq(Claims) /\ Len(Loaded.temp) \in Nat /\ Len(Loaded.temp) <= Len(temp)
        /\ \A k \in DOMAIN Loaded.temp : /\ Loaded.temp[k] \in Held /\ Loaded.temp[k].started
                                         /\ Loaded.temp[k].status # "none" /\ Fits(Loaded.temp[k])
        /\ Loaded.claim \in Held /\ Loaded.claim \in Claims /\ Fits(Loaded.claim)
        /\ claim.status = "pending" => Loaded.claim = claim
<1>1. \A k \in DOMAIN Loaded.temp : /\ Loaded.temp[k] \in Held /\ Loaded.temp[k].started
                                    /\ Loaded.temp[k].status # "none"
  BY LoadedIs DEF Held, RecoveryInv, ClaimsWhole
<1>2. \A k \in DOMAIN Loaded.temp : Fits(Loaded.temp[k])
  BY <1>1, HeldFits
<1>3. claim.status = "pending" => claim # NoClaim
  BY DEF NoClaim
<1>4. Loaded.temp \in Seq(Claims) /\ Len(Loaded.temp) \in Nat
  BY LoadedIs
<1> QED BY <1>1, <1>2, <1>3, <1>4, LoadedIs, HeldFits

\* Mark: from here on every copy of the claim is marked.
LEMMA MarkStep ==
  ASSUME RecoveryInv, Mark
  PROVE RecoveryInv'
<1> DEFINE l == Loaded.claim
           c == [l EXCEPT !.started = TRUE]
<1>1. /\ At("mark") /\ ~At("wait") /\ ~At("rename") /\ post.claim # NoClaim /\ Exists(Mine)
      /\ post.claim \in Held /\ Fits(post.claim) /\ Mine \in Repls /\ InPlay(Mine) /\ SameSessions
  <2>1. At("mark") /\ ~At("wait") /\ ~At("rename") /\ post.claim # NoClaim /\ Exists(Mine)
    BY DEF Mark, RecoveryInv, RequestSound, At, Renaming
  <2>2. post.claim \in Held /\ Fits(post.claim)
    BY HeldFits DEF Held
  <2> QED BY <2>1, <2>2 DEF Fits, Mine, InPlay, SameSessions, Mark, world
<1>2. /\ l \in Held /\ l \in Claims /\ Fits(l) /\ (claim.status = "pending" => l = claim)
      /\ Loaded.temp \in Seq(Claims) /\ Len(Loaded.temp) \in Nat /\ Len(Loaded.temp) <= spent.stop
      /\ \A k \in DOMAIN Loaded.temp : /\ Loaded.temp[k] \in Held /\ Loaded.temp[k].started
                                       /\ Loaded.temp[k].status # "none" /\ Fits(Loaded.temp[k])
  <2>1. Len(temp) <= spent.stop /\ Len(temp) \in Nat /\ spent.stop \in Nat
    BY <1>1, TempLength
  <2> QED BY <2>1, LoadedTemps
<1>3. CASE post.claim.status # "pending"
  <2>1. Goto("execute") /\ UNCHANGED disk
    BY <1>3 DEF Mark
  <2>2. Spawned(Mine)
    <3>1. post.claim.status = "committed"
      BY <1>1, <1>3, Fields DEF Fits, RecoveryInv
    <3> QED BY <1>1, <3>1 DEF Fits, Spawned, Mine
  <2>3. \A d \in Held : d.started \/ d = NoClaim
    BY <1>1, <2>2, AllStarted
  <2>4. post' \in Posts /\ post'.claim = post.claim /\ post'.pc = "execute"
    BY <2>1 DEF Goto, RecoveryInv, Typed, Posts, Pcs
  <2>5. Held' = Held /\ Exists(Mine)'
    BY <1>1, <2>1, <2>4, SessionsSame DEF Held, disk, Mine
  <2>6. Requesting'
    BY <1>1, <2>3, <2>4, <2>5
     DEF Requesting, EarlySound, MintSound, RenameSound, RequestSound, SendSound, At,
             Renaming, Sending, Finished, Edged, Driving
  <2> QED BY <1>1, <2>1, <2>4, <2>6, GoStep DEF Mark, world, RecoveryInv, Typed, TypeOK
<1>4. CASE post.claim.status = "pending" /\ l = NoClaim
  <2>1. End /\ UNCHANGED disk
    BY <1>4 DEF Mark
  <2>2. Loading
    BY <2>1 DEF Loading, disk
  <2> QED BY <1>1, <2>1, <2>2, EndStep DEF Mark
<1>5. CASE post.claim.status = "pending" /\ l # NoClaim
  <2>1. /\ claim' = l
        /\ IF l.status # "pending" \/ l.started
           THEN post' = [post EXCEPT !.pc = "execute", !.claim = l] /\ temp' = Loaded.temp
           ELSE /\ post' = [post EXCEPT !.pc = "rename", !.claim = c, !.next = "execute"]
                /\ temp' = Append(Loaded.temp, c)
    BY <1>5 DEF Mark
  <2>2. l.repl = Mine
    BY <1>1, <1>2, <1>5 DEF Fits, RecoveryInv, OneInPlay
  <2>3. c \in Claims /\ c.status = l.status /\ c.repl = l.repl /\ c.started
    BY <1>2 DEF Claims
  <2>4. l.status # "none" /\ (l.status # "pending" => l.started)
    BY <1>2, <1>5, Fields DEF Fits, RecoveryInv
  <2> HIDE DEF l, c
  <2>5. CASE l.status # "pending" \/ l.started
    <3>1. post' = [post EXCEPT !.pc = "execute", !.claim = l] /\ temp' = Loaded.temp
      BY <2>1, <2>5
    <3>2. post' \in Posts /\ post'.claim = l /\ post'.pc = "execute"
      BY <1>2, <3>1 DEF RecoveryInv, Typed, Posts, Pcs
    <3>3. Typed'
      <4>1. Len(temp') <= spent.stop + (IF post'.pc = "rename" THEN 1 ELSE 0)
        BY <1>2, <3>1, <3>2, TempLength
      <4> QED BY <1>2, <2>1, <3>1, <3>2, <4>1, TypedRequest DEF Mark, world, RecoveryInv, Typed, TypeOK
    <3>4. \A d \in Held' : Fits(d) /\ d.started
      <4>1. l.started
        BY <2>4, <2>5
      <4> QED BY <1>2, <2>1, <3>1, <3>2, <4>1 DEF Held
    <3>5. Exists(Mine)'
      BY <1>1, <2>2, <3>2, SessionsSame DEF Mine
    <3>6. Requesting'
      BY <1>5, <3>2, <3>4, <3>5
       DEF Requesting, EarlySound, MintSound, RenameSound, RequestSound, SendSound, At,
             Renaming, Sending, Finished, Edged, Driving
    <3>7. TempUnmarked' /\ \A k \in DOMAIN temp' : temp'[k].status # "none"
      BY <1>2, <3>1 DEF TempUnmarked
    <3> QED BY <1>1, <1>2, <2>1, <3>3, <3>4, <3>6, <3>7, RequestStep DEF Mark, world
  <2>6. CASE l.status = "pending" /\ ~l.started
    <3>1. /\ post' = [post EXCEPT !.pc = "rename", !.claim = c, !.next = "execute"]
          /\ temp' = Append(Loaded.temp, c)
      BY <2>1, <2>6
    <3>2. post' \in Posts /\ post'.claim = c /\ post'.pc = "rename" /\ post'.next = "execute"
      BY <2>3, <3>1 DEF RecoveryInv, Typed, Posts, Pcs, Nexts
    <3>3. /\ temp' \in Seq(Claims) /\ Len(temp') = Len(Loaded.temp) + 1
          /\ \A k \in DOMAIN temp' : \/ k \in DOMAIN Loaded.temp /\ temp'[k] = Loaded.temp[k]
                                     \/ temp'[k] = c
      BY <1>2, <2>3, <3>1, AppendIs
    <3>4. Typed'
      <4>1. Len(temp') <= spent.stop + (IF post'.pc = "rename" THEN 1 ELSE 0)
        BY <1>2, <3>2, <3>3, TempLength
      <4> QED BY <1>2, <2>1, <3>3, <3>2, <4>1, TypedRequest DEF Mark, world, RecoveryInv, Typed, TypeOK
    <3>5. Fits(c) /\ c # NoClaim
      BY <1>1, <2>2, <2>3, <2>6 DEF Fits, NoClaim
    <3>6. \A d \in Held' : Fits(d)
      BY <1>2, <2>1, <3>2, <3>3, <3>5, HeldIs
    <3>7. Exists(Mine)'
      BY <1>1, <2>2, <2>3, <3>2, SessionsSame DEF Mine
    <3>8. Requesting'
      BY <1>5, <2>1, <2>3, <2>6, <3>2, <3>5, <3>7
       DEF Requesting, EarlySound, MintSound, RenameSound, RequestSound, SendSound, At,
             Renaming, Sending, Finished, Edged, Driving
    <3>9. TempUnmarked' /\ \A k \in DOMAIN temp' : temp'[k].status # "none"
      BY <1>2, <2>3, <2>4, <3>3 DEF TempUnmarked
    <3> QED BY <1>1, <1>2, <2>1, <3>4, <3>6, <3>8, <3>9, RequestStep DEF Mark, world
  <2> QED BY <2>5, <2>6
<1> QED BY <1>3, <1>4, <1>5

\* Rename: a committed claim replaces a pending one only when the session is complete.
LEMMA RenameStep ==
  ASSUME RecoveryInv, Rename
  PROVE RecoveryInv'
<1>1. /\ At("rename") /\ ~At("wait") /\ post.claim # NoClaim /\ post.claim \in Held
      /\ Fits(post.claim) /\ Mine \in Repls /\ InPlay(Mine) /\ post.claim \in Claims
      /\ claim \in Held /\ Fits(claim) /\ claim \in Claims
  <2>1. At("rename") /\ ~At("wait") /\ post.claim # NoClaim
    BY DEF Rename, RecoveryInv, RequestSound, At
  <2> QED BY <2>1, HeldFits, Fields DEF Held, Fits, Mine, RecoveryInv
<1>2. /\ temp' \in Seq(Claims) /\ Len(temp') <= spent.stop /\ spent.stop \in Nat
      /\ \A k \in DOMAIN temp' : k \in DOMAIN temp /\ temp'[k] = temp[k]
      /\ Len(temp) <= 1 => temp' = <<>>
  BY <1>1, FrontIs, TempLength DEF Rename, TempGone
<1>3. /\ claim' \in {claim, post.claim} /\ (Fault \/ UNCHANGED spent)
      /\ UNCHANGED <<world, minted, edges, runs, queue, boot, answers>>
      /\ \/ claim' = post.claim /\ post' = [post EXCEPT !.pc = post.next] /\ UNCHANGED spent
         \/ post' = IdlePost
  BY DEF Rename, Goto, End
<1>4. post.next \in {"mark", "execute", "authority", "answer"}
  BY <1>1 DEF RecoveryInv, RenameSound
<1>5. post' \in Posts /\ post'.claim \in {NoClaim, post.claim} /\ post'.pc \in {"idle", post.next}
      /\ (post'.pc # "idle" => claim' = post.claim /\ post'.claim = post.claim /\ post'.next = post.next)
      /\ (post'.pc = "idle" => post' = IdlePost) /\ post'.pc # "rename"
  <2>1. CASE claim' = post.claim /\ post' = [post EXCEPT !.pc = post.next]
    BY <1>4, <2>1 DEF RecoveryInv, Typed, Posts, Pcs
  <2>2. CASE post' = IdlePost
    BY <1>4, <2>2, NoClaimTyped DEF IdlePost
  <2> QED BY <1>3, <2>1, <2>2
<1>6. claim' \in Claims /\ \A d \in Held' : Fits(d)
  <2>1. Fits(claim') /\ Fits(post'.claim) /\ claim' \in Claims
    BY <1>1, <1>3, <1>5 DEF Fits
  <2>2. \A k \in DOMAIN temp' : Fits(temp'[k])
    BY <1>2, HeldFits DEF Held
  <2> QED BY <2>1, <2>2, HeldIs
<1>7. \A k \in DOMAIN temp' : temp'[k].status # "none"
  BY <1>2 DEF RecoveryInv, ClaimsWhole
<1>8. Len(temp') <= spent.stop + (IF post'.pc = "rename" THEN 1 ELSE 0)
  BY <1>2, <1>5
<1>9. CASE post.next = "mark"
  <2>1. /\ NothingExists /\ claim = NoClaim /\ temp = <<post.claim>>
        /\ post.claim.status = "pending" /\ ~Spawned(Mine) /\ ~Exists(Mine)
    BY <1>1, <1>9 DEF RecoveryInv, MintSound, Renaming, NothingExists
  <2>2. temp' = <<>> /\ TempUnmarked'
    <3>1. Len(temp) = 1
      BY <1>1, <2>1
    <3>2. temp' = <<>>
      BY <1>2, <3>1
    <3> QED BY <3>2 DEF TempUnmarked
  <2>3. CASE post'.pc = "mark"
    <3>1. session' = [session EXCEPT ![Mine] = <<>>]
      BY <2>1, <2>3 DEF Rename, Mine
    <3>2. Exists(Mine)'
      <4>1. session'[Mine] = <<>> /\ <<>> # NoFile
        BY <1>1, <3>1 DEF RecoveryInv, Typed, TypeOK, NoFile
      <4> QED BY <1>5, <2>3, <4>1 DEF Mine, Exists
    <3>3. claim' = post.claim /\ post'.claim = post.claim
      BY <1>5, <2>3
    <3>4. Requesting'
      BY <1>1, <2>3, <3>2, <3>3
       DEF Requesting, EarlySound, MintSound, RenameSound, RequestSound, SendSound, At,
             Renaming, Sending, Finished, Edged, Driving
    <3>5. UNCHANGED spent
      BY <1>3, <2>3 DEF IdlePost
    <3>6. pane[Mine] = "none" /\ claim'.repl = Mine /\ claim'.status = "pending"
      BY <2>1, <3>3 DEF Spawned, Mine
    <3> QED BY <1>1, <1>2, <1>3, <1>5, <1>6, <1>7, <1>8, <2>1, <2>2, <3>1, <3>4, <3>5, <3>6, CreateStep
  <2>4. CASE post'.pc = "idle"
    <3>1. SameSessions
      BY <2>4 DEF Rename, SameSessions, world
    <3>2. Typed'
      BY <1>2, <1>3, <1>5, <1>6, <1>8, <3>1, TypedRequest
         DEF world, SameSessions, RecoveryInv, Typed, TypeOK
    <3>3. Requesting'
      BY <1>5, <2>4, <3>2, Idle
    <3>4. ~(claim.status = "pending")
      BY <2>1 DEF NoClaim
    <3> QED BY <1>1, <1>3, <1>6, <1>7, <2>2, <3>1, <3>2, <3>3, <3>4, RequestStep DEF world
  <2> QED BY <1>5, <1>9, <2>3, <2>4
<1>10. CASE post.next # "mark"
  <2>1. /\ claim # NoClaim /\ post.claim.started /\ Exists(Mine)
        /\ post.next = "execute" => post.claim.status = "pending"
        /\ post.next \in {"authority", "answer"} => /\ post.claim.status = "committed"
                                                   /\ Complete(Mine)
        /\ post.next = "answer" => Mine \in edges
    BY <1>1, <1>10 DEF RecoveryInv, RenameSound, RequestSound, Renaming, CommittedIsComplete, Mine, Edged
  <2>2. claim.repl = Mine
    BY <1>1, <2>1 DEF Fits, RecoveryInv, OneInPlay
  <2>3. SameSessions
    BY <1>5, <1>10 DEF Rename, SameSessions, world
  <2>4. Typed'
    BY <1>2, <1>3, <1>5, <1>6, <1>8, <2>3, TypedRequest
       DEF world, SameSessions, RecoveryInv, Typed, TypeOK
  <2>5. (\A k \in DOMAIN temp' : temp'[k].started) /\ TempUnmarked'
    BY <1>2, <2>1 DEF RecoveryInv, TempUnmarked
  <2>6. \/ claim.status = "pending" => claim'.status = "pending" /\ claim'.repl = claim.repl
        \/ UnfinishedIsClaimed'
    <3>1. CASE claim' = claim \/ post.next = "execute"
      BY <1>3, <2>1, <2>2, <3>1 DEF Mine
    <3>2. CASE post.next \in {"authority", "answer"}
      <4>1. \A r \in Repls : Exists(r) => r = Mine
        BY <1>1 DEF RecoveryInv, OneInPlay, InPlay
      <4>2. UnfinishedIsClaimed'
        BY <2>1, <2>3, <3>2, <4>1, SessionsSame DEF UnfinishedIsClaimed
      <4> QED BY <4>2
    <3> QED BY <1>4, <1>10, <3>1, <3>2
  <2>7. Requesting'
    <3>1. CASE post'.pc = "idle"
      BY <1>5, <2>4, <3>1, Idle
    <3>2. CASE post'.pc \in {"execute", "authority", "answer"}
      <4>1. claim' = post.claim /\ post'.claim = post.claim /\ post'.pc = post.next
        BY <1>5, <3>2
      <4>2. \A d \in Held' : d.started
        BY <2>1, <2>5, <4>1 DEF Held
      <4>3. Mine' = Mine /\ Exists(Mine)' /\ (Complete(Mine) => Complete(Mine)') /\ edges' = edges
        BY <1>3, <2>1, <2>3, <4>1, SessionsSame DEF Mine
      <4> QED BY <1>1, <2>1, <3>2, <4>1, <4>2, <4>3
          DEF Requesting, EarlySound, MintSound, RenameSound, RequestSound, SendSound, At,
             Renaming, Sending, Finished, Edged, Driving
    <3> QED BY <1>4, <1>5, <1>10, <3>1, <3>2
  <2> QED BY <1>1, <1>3, <1>6, <1>7, <2>3, <2>4, <2>5, <2>6, <2>7, RequestStep DEF world
<1> QED BY <1>9, <1>10

\* A step that leaves the claim, the sessions and the panes alone.
LEMMA PlainStep ==
  ASSUME RecoveryInv, Typed', SameSessions, disk' = disk, post'.claim \in {NoClaim, post.claim},
         MarkedBeforeSpawn', ActiveHasSession', RunsComplete', QueueSound', BootSound',
         AnswersSound', Requesting'
  PROVE RecoveryInv'
<1>1. Held' \subseteq Held \cup {NoClaim}
  BY DEF Held, disk
<1>2. ClaimsWhole'
  <2>1. NoClaim.status = "none"
    BY DEF NoClaim
  <2> QED BY <1>1, <2>1 DEF RecoveryInv, ClaimsWhole, disk, SameSessions
<1>3. OneInPlay' /\ CommittedIsComplete'
  <2>1. \A r \in Repls : InPlay(r)' => InPlay(r)
    BY <1>1, SessionsSame, RecoveryAssumption DEF InPlay, NoClaim
  <2>2. CommittedIsComplete'
    BY <1>1, SessionsSame DEF RecoveryInv, CommittedIsComplete, NoClaim
  <2> QED BY <2>1, <2>2 DEF RecoveryInv, OneInPlay
<1>4. UnfinishedIsClaimed' /\ LoggedWasSpawned' /\ TempUnmarked'
  <2>1. UnfinishedIsClaimed'
    BY SessionsSame DEF RecoveryInv, UnfinishedIsClaimed, disk
  <2>2. LoggedWasSpawned'
    BY SessionsSame DEF RecoveryInv, LoggedWasSpawned, SameSessions
  <2> QED BY <2>1, <2>2 DEF RecoveryInv, TempUnmarked, disk
<1> QED BY <1>2, <1>3, <1>4 DEF RecoveryInv, Requesting

\* The claim the request holds, and its replacement.
LEMMA MineIs ==
  ASSUME RecoveryInv, post.pc \notin {"idle", "resolve", "decide", "act", "rename"}
  PROVE /\ post.claim # NoClaim /\ Mine \in Repls /\ Exists(Mine) /\ InPlay(Mine)
        /\ post.claim \in Held /\ Fits(post.claim) /\ post.claim \in Claims
        /\ Finished => Complete(Mine) /\ pane[Mine] # "none"
        /\ post.pc \in Driving => \A c \in Held : c.started \/ c = NoClaim
        /\ \A r \in Repls : InPlay(r) => r = Mine
<1>1. post.claim # NoClaim /\ Exists(Mine) /\ (Finished => Complete(Mine))
      /\ (post.pc \in Driving => \A c \in Held : c.started \/ c = NoClaim)
  BY DEF RecoveryInv, RequestSound, At, Renaming
<1>2. post.claim \in Held /\ Fits(post.claim) /\ post.claim \in Claims
  BY HeldFits, Fields DEF Held, RecoveryInv
<1>3. Mine \in Repls /\ InPlay(Mine)
  BY <1>1, <1>2 DEF Fits, Mine
<1>4. Finished => pane[Mine] # "none"
  BY <1>1, <1>3, CompleteIsSpawned
<1> QED BY <1>1, <1>2, <1>3, <1>4 DEF RecoveryInv, OneInPlay

\* The request goes on to its next action; what it asks of the rest still holds.
LEMMA MineKept ==
  ASSUME RecoveryInv, post.pc \notin {"idle", "resolve", "decide", "act", "rename"},
         SameSessions, disk' = disk, post'.claim = post.claim
  PROVE /\ Mine' = Mine /\ Exists(Mine)' /\ Held' = Held
        /\ Complete(Mine)' = Complete(Mine) /\ \A line : Has(Mine, line)' = Has(Mine, line)
        /\ post.pc \in Driving => \A c \in Held' : c.started \/ c = NoClaim
<1>1. Mine' = Mine /\ Held' = Held
  BY DEF Mine, Held, disk
<1> QED BY <1>1, MineIs, SessionsSame DEF Exists, Complete, Has, SameSessions

\* Reattach: a replacement with a run record has its whole plan.
LEMMA ReattachStep ==
  ASSUME RecoveryInv, Reattach
  PROVE RecoveryInv'
<1>1. /\ post.pc = "execute" /\ ~At("wait") /\ ~At("rename")
      /\ SameSessions /\ disk' = disk
  BY DEF Reattach, At, SameSessions, world
<1>2. CASE post' = IdlePost
  BY <1>1, <1>2, EndStep DEF Reattach, End, Loading, disk
<1>3. CASE post' # IdlePost
  <2>1. \/ post' = [post EXCEPT !.pc = "associate"] /\ Mine \in runs
        \/ post' = [post EXCEPT !.pc = "backfill"] /\ pane[Mine] = "live"
    BY <1>3 DEF Reattach, Goto, End
  <2>2. post' \in Posts /\ post'.claim = post.claim /\ post'.pc \in {"associate", "backfill"}
        /\ (post'.pc = "associate" => Mine \in runs) /\ (post'.pc = "backfill" => pane[Mine] = "live")
    BY <2>1 DEF RecoveryInv, Typed, Posts, Pcs
  <2>3. Mine \in runs => Complete(Mine)
    BY <1>1, MineIs DEF RecoveryInv, RunsComplete
  <2>4. Requesting'
    BY <1>1, <2>2, <2>3, MineIs, MineKept
     DEF Requesting, EarlySound, MintSound, RenameSound, RequestSound, SendSound, At,
             Renaming, Sending, Finished, Edged, Driving, SameSessions
  <2> QED BY <1>1, <2>2, <2>4, GoStep DEF Reattach, world, RecoveryInv, Typed, TypeOK
<1> QED BY <1>2, <1>3

\* Spawn: the mark stands in every copy of the claim.
LEMMA SpawnStep ==
  ASSUME RecoveryInv, Spawn
  PROVE RecoveryInv'
<1>1. post.pc = "execute" /\ ~At("wait") /\ ~At("rename") /\ disk' = disk /\ SameSessions
  BY DEF Spawn, At, SameSessions
<1>2. CASE End /\ starting' = starting
  BY <1>1, <1>2, EndStep DEF Spawn, Loading, disk, world
<1>3. CASE starting' = starting \cup {Mine} /\ Goto("spawning") /\ UNCHANGED spent
  <2>1. post' \in Posts /\ post'.claim = post.claim /\ post'.pc = "spawning"
    BY <1>3 DEF Goto, RecoveryInv, Typed, Posts, Pcs
  <2>2. /\ Mine \in Repls /\ Exists(Mine) /\ Held' = Held
        /\ \A c \in Held : c.started \/ c = NoClaim
    BY <1>1, <2>1, MineIs, MineKept DEF Driving
  <2>3. Typed'
    <3>1. Len(temp') <= spent.stop + (IF post'.pc = "rename" THEN 1 ELSE 0)
      BY <1>1, <2>1, TempLength DEF disk
    <3> QED BY <1>1, <1>3, <2>1, <2>2, <3>1, TypedRequest DEF Spawn, disk, RecoveryInv, Typed, TypeOK
  <2>4. MarkedBeforeSpawn'
    BY <2>2, RecoveryAssumption DEF MarkedBeforeSpawn, NoClaim
  <2>5. ActiveHasSession'
    BY <1>1, <1>3, <2>2, SessionsSame DEF RecoveryInv, ActiveHasSession, Active, SameSessions
  <2>6. RunsComplete' /\ QueueSound' /\ BootSound' /\ AnswersSound'
    <3>1. RunsComplete' /\ AnswersSound'
      BY <1>1, SessionsSame DEF RecoveryInv, RunsComplete, AnswersSound, SameSessions, Spawn
    <3> QED BY <1>1, <3>1, QueueKept, BootKept DEF Spawn
  <2>7. Requesting'
    BY <1>1, <2>1, <2>2, MineIs, MineKept
     DEF Requesting, EarlySound, MintSound, RenameSound, RequestSound, SendSound, At,
             Renaming, Sending, Finished, Edged, Driving
  <2> QED BY <1>1, <2>1, <2>3, <2>4, <2>5, <2>6, <2>7, PlainStep
<1> QED BY <1>2, <1>3 DEF Spawn

\* Backfill: what is not in the session is about to be sent.
LEMMA BackfillStep ==
  ASSUME RecoveryInv, Backfill
  PROVE RecoveryInv'
<1>1. post.pc = "backfill" /\ ~At("wait") /\ ~At("rename") /\ SameSessions /\ disk' = disk
  BY DEF Backfill, At, SameSessions, world
<1>2. /\ Mine \in Repls /\ Exists(Mine) /\ pane[Mine] # "none" /\ post.claim # NoClaim
      /\ \A c \in Held : c.started \/ c = NoClaim
  BY <1>1, MineIs DEF Driving, RecoveryInv, SendSound
<1>3. CASE ~PrefixMatches(post.claim)
  BY <1>1, <1>3, EndStep DEF Backfill, Loading, disk
<1>4. CASE PrefixMatches(post.claim)
  <2> DEFINE m == Len(session[Mine])
             rest == SubSeq(Prefix, m + 1, Len(Prefix))
  <2>1. post' = [post EXCEPT !.pc = "send", !.next = "insert", !.todo = rest]
    BY <1>4 DEF Backfill
  <2>2. /\ m \in Nat /\ m <= 4
        /\ \A j \in 1..m : j \in DOMAIN session[Mine] /\ session[Mine][j] = Prefix[j]
    BY <1>2, <1>4, PrefixOf DEF PrefixMatches, Mine, RecoveryInv
  <2>3. /\ rest \in Seq(Lines) /\ Len(rest) = 4 - m
        /\ \A i \in 1..(4 - m) : rest[i] = Prefix[m + i]
    <3> HIDE DEF m
    <3>1. m \in Int /\ 0 <= m /\ m <= Len(Prefix) /\ Len(Prefix) = 4 /\ Prefix \in Seq(Lines)
      BY <2>2, PrefixIs
    <3>2. /\ rest \in Seq(Lines) /\ Len(rest) = Len(Prefix) - m
          /\ \A i \in 1..(Len(Prefix) - m) : rest[i] = Prefix[m + i]
      BY <3>1, Rest
    <3> QED BY <3>1, <3>2
  <2> HIDE DEF rest, m
  <2>4. post' \in Posts /\ post'.claim = post.claim /\ post'.pc = "send" /\ post'.next = "insert"
        /\ post'.todo = rest
    BY <2>1, <2>3 DEF RecoveryInv, Typed, Posts, Pcs, Nexts
  <2>5. \A k \in DOMAIN Prefix :
             Has(Mine, Prefix[k]) \/ \E j \in DOMAIN rest : rest[j] = Prefix[k]
    <3> SUFFICES ASSUME NEW k \in 1..4
                 PROVE Has(Mine, Prefix[k]) \/ \E j \in DOMAIN rest : rest[j] = Prefix[k]
      BY PrefixIs
    <3>1. CASE k <= m
      BY <2>2, <3>1 DEF Has
    <3>2. CASE k > m
      <4>1. k - m \in 1..(4 - m) /\ m + (k - m) = k
        BY <2>2, <3>2
      <4>2. k - m \in DOMAIN rest /\ rest[k - m] = Prefix[k]
        BY <2>3, <4>1
      <4> QED BY <4>2
    <3> QED BY <2>2, <3>1, <3>2
  <2>6. pane'[Mine'] # "none" /\ Mine' = Mine
    BY <1>1, <1>2, <2>4, MineKept DEF SameSessions
  <2>7. Requesting'
    BY <1>1, <1>2, <2>4, <2>5, <2>6, MineKept
     DEF Requesting, EarlySound, MintSound, RenameSound, RequestSound, SendSound, At,
             Renaming, Sending, Finished, Edged, Driving
  <2> QED BY <1>1, <2>4, <2>7, GoStep DEF Backfill, world, RecoveryInv, Typed, TypeOK
<1> QED BY <1>3, <1>4

\* Publish: the link is sent, or there already.
LEMMA PublishStep ==
  ASSUME RecoveryInv, Publish
  PROVE RecoveryInv'
<1>1. post.pc = "publish" /\ ~At("wait") /\ ~At("rename") /\ SameSessions /\ disk' = disk
      /\ Finished /\ Edged /\ edges' = edges
  BY DEF Publish, At, SameSessions, world, Finished, Edged
<1>2. /\ Mine \in Repls /\ Exists(Mine) /\ pane[Mine] # "none" /\ post.claim # NoClaim
      /\ Complete(Mine) /\ Mine \in edges
      /\ \A c \in Held : c.started \/ c = NoClaim
  BY <1>1, MineIs DEF Driving, RecoveryInv, RequestSound
<1>3. post' \in Posts /\ post'.claim = post.claim /\ post'.pc = "send" /\ post'.next = "commit"
  <2>1. "recovery_origin" \in Lines
    BY PrefixIs DEF Lines
  <2>2. <<>> \in Seq(Lines) /\ <<"recovery_origin">> \in Seq(Lines)
    BY <2>1
  <2> QED BY <2>2 DEF Publish, RecoveryInv, Typed, Posts, Pcs, Nexts
<1>4. pane'[Mine'] # "none" /\ Mine' = Mine
  BY <1>1, <1>2, <1>3, MineKept DEF SameSessions
<1>5. Requesting'
  BY <1>1, <1>2, <1>3, <1>4, MineKept
     DEF Requesting, EarlySound, MintSound, RenameSound, RequestSound, SendSound, At,
             Renaming, Sending, Finished, Edged, Driving
<1> QED BY <1>1, <1>3, <1>5, GoStep DEF Publish, world, RecoveryInv, Typed, TypeOK

\* Associate: the ledger edge comes before the answer.
LEMMA AssociateStep ==
  ASSUME RecoveryInv, Associate
  PROVE RecoveryInv'
<1>1. post.pc \in {"associate", "associate_claim"} /\ ~At("wait") /\ ~At("rename") /\ SameSessions
      /\ disk' = disk /\ Finished
  BY DEF Associate, At, SameSessions, world, Finished
<1>2. /\ Mine \in Repls /\ Exists(Mine) /\ pane[Mine] # "none" /\ post.claim # NoClaim
      /\ Complete(Mine)
      /\ post.pc = "associate" => \A c \in Held : c.started \/ c = NoClaim
  BY <1>1, MineIs DEF Driving
<1>3. CASE Fault /\ End /\ UNCHANGED edges
  BY <1>1, <1>3, EndStep DEF Associate, Loading, disk
<1>4. CASE /\ edges' = edges \cup {Mine}
           /\ Goto(IF At("associate") THEN "publish" ELSE "answer")
           /\ UNCHANGED spent
  <2>1. post' \in Posts /\ post'.claim = post.claim
        /\ post'.pc = (IF post.pc = "associate" THEN "publish" ELSE "answer")
    BY <1>4 DEF Goto, At, RecoveryInv, Typed, Posts, Pcs
  <2>2. Mine' \in edges' /\ edges' \subseteq Repls
    BY <1>2, <1>4, <2>1 DEF Mine, RecoveryInv, Typed, TypeOK
  <2>3. Requesting'
    BY <1>1, <1>2, <2>1, <2>2, MineKept
     DEF Requesting, EarlySound, MintSound, RenameSound, RequestSound, SendSound, At,
             Renaming, Sending, Finished, Edged, Driving
  <2> QED BY <1>1, <1>4, <2>1, <2>2, <2>3, GoStep DEF Associate, world, RecoveryInv, Typed, TypeOK
<1> QED BY <1>3, <1>4 DEF Associate

\* Commit: the claim that is committed is marked and its session complete.
LEMMA CommitStep ==
  ASSUME RecoveryInv, Commit
  PROVE RecoveryInv'
<1> DEFINE l == Loaded.claim
           c == [l EXCEPT !.status = "committed"]
<1>1. post.pc = "commit" /\ ~At("wait") /\ ~At("rename") /\ SameSessions
      /\ Finished /\ Edged /\ edges' = edges
  BY DEF Commit, At, SameSessions, world, Finished, Edged
<1>2. /\ Mine \in Repls /\ Exists(Mine) /\ pane[Mine] # "none" /\ post.claim # NoClaim
      /\ Complete(Mine) /\ Mine \in edges /\ InPlay(Mine)
      /\ \A d \in Held : d.started \/ d = NoClaim
  BY <1>1, MineIs DEF Driving, RecoveryInv, RequestSound
<1>3. CASE End /\ UNCHANGED disk
  BY <1>1, <1>3, EndStep DEF Commit, Loading, disk
<1>4. CASE ~(End /\ UNCHANGED disk)
  <2>1. /\ claim' = l /\ temp' = Append(Loaded.temp, c) /\ l.repl = Mine
        /\ post' = [post EXCEPT !.pc = "rename", !.claim = c, !.next = "answer"]
    BY <1>4 DEF Commit
  <2>2. /\ l \in Held /\ l \in Claims /\ Fits(l) /\ (claim.status = "pending" => l = claim)
        /\ Loaded.temp \in Seq(Claims) /\ Len(Loaded.temp) \in Nat /\ Len(Loaded.temp) <= spent.stop
        /\ \A k \in DOMAIN Loaded.temp : /\ Loaded.temp[k] \in Held /\ Loaded.temp[k].started
                                         /\ Loaded.temp[k].status # "none" /\ Fits(Loaded.temp[k])
        /\ l # NoClaim /\ l.started
    <3>1. Len(temp) <= spent.stop /\ Len(temp) \in Nat /\ spent.stop \in Nat
      BY <1>1, TempLength
    <3>2. l # NoClaim
      BY <1>2, <2>1, RecoveryAssumption DEF NoClaim
    <3> QED BY <1>2, <3>1, <3>2, LoadedTemps
  <2>3. c \in Claims /\ c.status = "committed" /\ c.repl = Mine /\ c.started /\ c # NoClaim
    BY <1>2, <2>1, <2>2 DEF Claims, NoClaim
  <2>4. Fits(c)
    BY <1>2, <2>3 DEF Fits
  <2> HIDE DEF l, c
  <2>5. /\ temp' \in Seq(Claims) /\ Len(temp') = Len(Loaded.temp) + 1
        /\ \A k \in DOMAIN temp' : \/ k \in DOMAIN Loaded.temp /\ temp'[k] = Loaded.temp[k]
                                   \/ temp'[k] = c
    BY <2>1, <2>2, <2>3, AppendIs
  <2>6. post' \in Posts /\ post'.claim = c /\ post'.pc = "rename" /\ post'.next = "answer"
    BY <2>1, <2>3 DEF RecoveryInv, Typed, Posts, Pcs, Nexts
  <2>7. Typed'
    <3>1. Len(temp') <= spent.stop + (IF post'.pc = "rename" THEN 1 ELSE 0)
      BY <2>2, <2>5, <2>6, TempLength
    <3> QED BY <2>1, <2>2, <2>5, <2>6, <3>1, TypedRequest DEF Commit, world, RecoveryInv, Typed, TypeOK
  <2>8. \A d \in Held' : Fits(d)
    BY <2>1, <2>2, <2>4, <2>5, <2>6, HeldIs
  <2>9. TempUnmarked' /\ \A k \in DOMAIN temp' : temp'[k].status # "none"
    BY <2>2, <2>3, <2>5 DEF TempUnmarked
  <2>10. Mine' = Mine /\ Exists(Mine)' /\ Mine' \in edges'
    <3>1. Mine' = Mine
      BY <2>3, <2>6 DEF Mine
    <3> QED BY <1>1, <1>2, <3>1, SessionsSame DEF Exists, SameSessions
  <2>11. Requesting'
    BY <2>1, <2>2, <2>3, <2>6, <2>10
     DEF Requesting, EarlySound, MintSound, RenameSound, RequestSound, SendSound, At,
             Renaming, Sending, Finished, Edged, Driving
  <2> QED BY <1>1, <2>1, <2>2, <2>7, <2>8, <2>9, <2>11, RequestStep DEF Commit, world
<1> QED BY <1>3, <1>4

\* Answer: the client is given a replacement with its edge and its whole session.
LEMMA AnswerStep ==
  ASSUME RecoveryInv, Answer
  PROVE RecoveryInv'
<1>1. post.pc = "answer" /\ ~At("wait") /\ ~At("rename") /\ SameSessions /\ disk' = disk
      /\ Finished /\ Edged
  BY DEF Answer, At, SameSessions, world, Finished, Edged
<1>2. /\ Mine \in Repls /\ Exists(Mine) /\ pane[Mine] # "none" /\ Complete(Mine) /\ Mine \in edges
  BY <1>1, MineIs DEF RecoveryInv, RequestSound
<1>3. post' = IdlePost /\ post'.claim = NoClaim /\ post' \in Posts /\ post'.pc = "idle"
  BY NoClaimTyped DEF Answer, End, IdlePost
<1>4. answers' = answers \cup {Mine}
  BY DEF Answer
<1>5. Typed'
  <2>1. Len(temp') <= spent'.stop + (IF post'.pc = "rename" THEN 1 ELSE 0)
    BY <1>1, <1>3, TempLength DEF Answer, disk
  <2>2. TypeOK'
    BY <1>1, <1>2, <1>4, <2>1 DEF Answer, disk, world, RecoveryInv, Typed, TypeOK, At
  <2> QED BY <1>3, <2>2 DEF Answer, RecoveryInv, Typed
<1>6. AnswersSound'
  BY <1>1, <1>2, <1>4, SessionsSame DEF RecoveryInv, AnswersSound, Answer, SameSessions
<1>7. MarkedBeforeSpawn' /\ ActiveHasSession' /\ RunsComplete'
  <2>1. Held' \subseteq Held \cup {NoClaim}
    BY <1>1, <1>3 DEF Held, disk
  <2>2. MarkedBeforeSpawn'
    BY <2>1, RecoveryAssumption DEF RecoveryInv, MarkedBeforeSpawn, Spawned, Answer, world, NoClaim
  <2> QED BY <1>1, <2>2, SessionsSame
          DEF RecoveryInv, ActiveHasSession, Active, RunsComplete, Answer, world, SameSessions
<1>8. QueueSound' /\ BootSound' /\ Requesting'
  BY <1>1, <1>3, <1>5, QueueKept, BootKept, Idle DEF Answer
<1> QED BY <1>1, <1>3, <1>5, <1>6, <1>7, <1>8, PlainStep

\* A step that leaves the claim alone; sessions and panes go forward.
LEMMA MoveStep ==
  ASSUME RecoveryInv, Typed', disk' = disk, post'.claim \in {NoClaim, post.claim},
         \A r \in Repls : /\ Exists(r)' => Exists(r)
                          /\ Exists(r)' /\ Complete(r) => Complete(r)'
                          /\ pane[r] # "none" => pane'[r] # "none"
                          /\ Spawned(r)' => Spawned(r)
                          /\ Exists(r)' /\ session'[r] # <<>> => session[r] # <<>> \/ pane[r] # "none",
         ActiveHasSession', RunsComplete', QueueSound', BootSound', AnswersSound', Requesting'
  PROVE RecoveryInv'
<1>1. \A c \in Held' : Fits(c)
  <2>1. Held' \subseteq Held \cup {NoClaim}
    BY DEF Held, disk
  <2> QED BY <2>1, HeldFits DEF Fits
<1>2. OneInPlay' /\ CommittedIsComplete' /\ MarkedBeforeSpawn' /\ ClaimsWhole'
  <2>1. \A r \in Repls : /\ Exists(r)' => InPlay(r)
                         /\ Exists(r)' /\ pane[r] # "none" => Exists(r)
                         /\ Exists(r)' /\ Complete(r) => Complete(r)'
                         /\ pane[r] # "none" => pane'[r] # "none"
                         /\ Spawned(r)' => Spawned(r)
    BY DEF InPlay
  <2>2. \A k \in DOMAIN temp' : temp'[k].status # "none"
    BY DEF RecoveryInv, ClaimsWhole, disk
  <2> QED BY <1>1, <2>1, <2>2, PlayStep DEF ClaimsWhole
<1>3. UnfinishedIsClaimed' /\ LoggedWasSpawned' /\ TempUnmarked'
  <2>1. UnfinishedIsClaimed'
    BY DEF RecoveryInv, UnfinishedIsClaimed, disk
  <2>2. LoggedWasSpawned'
    BY DEF RecoveryInv, LoggedWasSpawned
  <2> QED BY <2>1, <2>2 DEF RecoveryInv, TempUnmarked, disk
<1> QED BY <1>2, <1>3 DEF RecoveryInv, Requesting

\* The request's claim names a replacement in play.
LEMMA MineOf ==
  ASSUME RecoveryInv, post.claim # NoClaim
  PROVE Mine \in Repls /\ InPlay(Mine)
BY HeldFits DEF Held, Fits, Mine

\* The request waits while sessions and panes go forward.
LEMMA StillRequesting ==
  ASSUME RecoveryInv, UNCHANGED <<disk, post, edges>>,
         \A r \in Repls : /\ Exists(r)' = Exists(r)
                          /\ Complete(r) => Complete(r)'
                          /\ \A k \in DOMAIN Prefix : Has(r, Prefix[k]) => Has(r, Prefix[k])'
                          /\ pane[r] # "none" => pane'[r] # "none"
                          /\ Spawned(r)' => Spawned(r)
  PROVE Requesting'
<1>1. Held' = Held /\ Mine' = Mine /\ post' = post /\ claim' = claim /\ temp' = temp /\ edges' = edges
  BY DEF Held, Mine, disk
<1>2. NothingExists' = NothingExists
  BY DEF NothingExists
<1>3. post.claim # NoClaim => Mine \in Repls
  BY MineOf
<1>4. EarlySound'
  BY <1>1, <1>2 DEF RecoveryInv, EarlySound, At, Fresh
<1>5. RenameSound' /\ (Renaming("mark") => post.claim # NoClaim)
  BY <1>1 DEF RecoveryInv, RequestSound, RenameSound, At, Renaming
<1>6. MintSound'
  BY <1>1, <1>2, <1>3, <1>5 DEF RecoveryInv, MintSound, At, Renaming
<1>7. RequestSound'
  <2>1. Finished => post.claim # NoClaim
    BY DEF RecoveryInv, RequestSound, Finished, Sending, At
  <2> QED BY <1>1, <1>3, <2>1
          DEF RecoveryInv, RequestSound, At, Renaming, Finished, Edged, Sending
<1>8. SendSound'
  <2>1. post.pc \in {"backfill", "send", "wait"} => post.claim # NoClaim
    BY DEF RecoveryInv, RequestSound
  <2> QED BY <1>1, <1>3, <2>1 DEF RecoveryInv, SendSound, At, Sending
<1> QED BY <1>4, <1>5, <1>6, <1>7, <1>8 DEF Requesting

\* PlaySame's hypotheses, where nothing moves.
LEMMA AllSame ==
  ASSUME SameSessions, starting' \subseteq starting
  PROVE \A r \in Repls :
          /\ Exists(r)' = Exists(r) /\ Complete(r)' = Complete(r)
          /\ \A k \in DOMAIN Prefix : Has(r, Prefix[k]) => Has(r, Prefix[k])'
          /\ pane[r] # "none" => pane'[r] # "none"
          /\ Spawned(r)' => Spawned(r)
BY SessionsSame DEF SameSessions, Spawned

\* The spawn marks stay.
LEMMA MarkedKept ==
  ASSUME RecoveryInv, disk' = disk, post'.claim \in {NoClaim, post.claim}, SameSessions,
         starting' \subseteq starting
  PROVE MarkedBeforeSpawn' /\ ActiveHasSession'
<1>1. Held' \subseteq Held \cup {NoClaim}
  BY DEF Held, disk
<1>2. MarkedBeforeSpawn'
  BY <1>1, RecoveryAssumption, AllSame DEF RecoveryInv, MarkedBeforeSpawn, NoClaim
<1> QED BY <1>2, SessionsSame DEF RecoveryInv, ActiveHasSession, Active, SameSessions

\* One more request for the writer.
LEMMA QueueGrows ==
  ASSUME RecoveryInv, NEW d \in Request, queue' = Append(queue, d)
  PROVE /\ queue' \in Seq(Request) /\ Len(queue') = Len(queue) + 1 /\ DOMAIN queue' = 1..(Len(queue) + 1)
        /\ DOMAIN queue = 1..Len(queue) /\ Len(queue) \in Nat
        /\ \A k \in DOMAIN queue : queue'[k] = queue[k]
        /\ queue'[Len(queue) + 1] = d
<1>1. queue \in Seq(Request) /\ Len(queue) \in Nat /\ DOMAIN queue = 1..Len(queue)
  BY QueueTyped DEF RecoveryInv
<1> QED BY <1>1, AppendProperties

\* Send: the next line goes to the writer, or there is none left and the plan is complete.
LEMMA SendStep ==
  ASSUME RecoveryInv, Send
  PROVE RecoveryInv'
<1>1. post.pc = "send" /\ ~At("wait") /\ ~At("rename") /\ SameSessions /\ disk' = disk
      /\ edges' = edges /\ starting' = starting
  BY DEF Send, At, SameSessions, world
<1>2. /\ Mine \in Repls /\ Exists(Mine) /\ pane[Mine] # "none" /\ post.claim # NoClaim
      /\ \A c \in Held : c.started \/ c = NoClaim
      /\ post.next \in {"backfill", "insert", "commit"}
      /\ post.next = "commit" => Complete(Mine) /\ Mine \in edges
      /\ post.next = "insert" => \A k \in DOMAIN Prefix :
             Has(Mine, Prefix[k]) \/ \E j \in DOMAIN post.todo : post.todo[j] = Prefix[k]
      /\ post.todo \in Seq(Lines)
  BY <1>1, MineIs DEF Driving, RecoveryInv, SendSound, RequestSound, Sending, Finished, Edged, Typed, Posts
<1>3. CASE post.todo = <<>>
  <2>1. post' = [post EXCEPT !.pc = post.next] /\ queue' = queue
    BY <1>3 DEF Send, Goto
  <2>2. post' \in Posts /\ post'.claim = post.claim /\ post'.pc = post.next /\ post'.next = post.next
    BY <1>2, <2>1 DEF RecoveryInv, Typed, Posts, Pcs
  <2>3. post.next = "insert" => Complete(Mine)
    BY <1>2, <1>3 DEF Complete
  <2>4. pane'[Mine'] # "none" /\ Mine' = Mine
    BY <1>1, <1>2, <2>2, MineKept DEF SameSessions
  <2>5. Requesting'
    BY <1>1, <1>2, <2>2, <2>3, <2>4, MineKept
     DEF Requesting, EarlySound, MintSound, RenameSound, RequestSound, SendSound, At,
             Renaming, Sending, Finished, Edged, Driving
  <2>6. post'.pc # "rename"
    BY <1>2, <2>2
  <2> QED BY <1>1, <2>1, <2>2, <2>5, <2>6, GoStep DEF Send, world, RecoveryInv, Typed, TypeOK
<1>4. CASE post.todo # <<>>
  <2> DEFINE d == [repl |-> Mine, line |-> Head(post.todo), owner |-> "post"]
  <2>1. queue' = Append(queue, d) /\ post' = [post EXCEPT !.pc = "wait"]
    BY <1>4 DEF Send, Goto
  <2>2. post' \in Posts /\ post'.claim = post.claim /\ post'.pc = "wait" /\ post'.next = post.next
        /\ post'.todo = post.todo
    BY <1>2, <2>1 DEF RecoveryInv, Typed, Posts, Pcs
  <2>3. d \in Request /\ d.repl = Mine /\ d.line = Head(post.todo) /\ d.owner = "post"
    BY <1>2, <1>4, HeadTailProperties DEF Request
  <2> HIDE DEF d
  <2>4. /\ queue' \in Seq(Request) /\ DOMAIN queue' = 1..(Len(queue) + 1)
        /\ DOMAIN queue = 1..Len(queue) /\ Len(queue) \in Nat
        /\ \A k \in DOMAIN queue : queue'[k] = queue[k]
        /\ queue'[Len(queue) + 1] = d
    BY <2>1, <2>3, QueueGrows
  <2>5. \A k \in DOMAIN queue' :
            \/ /\ k \in DOMAIN queue /\ queue'[k] = queue[k] /\ queue[k].owner # "post"
               /\ queue[k].repl \in Repls
            \/ k = Len(queue) + 1 /\ queue'[k] = d
    <3>1. \A k \in DOMAIN queue : queue[k].owner # "post" /\ queue[k].repl \in Repls
      BY <1>1, QueueTyped DEF RecoveryInv, QueueSound
    <3> QED BY <2>4, <3>1
  <2>6. Mine' = Mine
    BY <2>2 DEF Mine
  <2>7. QueueSound'
    <3>1. \A k \in DOMAIN queue' :
             /\ Exists(queue[k].repl)' /\ pane'[queue'[k].repl] # "none"
             /\ queue'[k].owner = "boot" => Complete(queue[k].repl)'
             /\ queue'[k].owner = "post" =>
                   /\ At("wait")' /\ queue'[k].repl = Mine'
                   /\ post'.todo # <<>> /\ queue'[k].line = Head(post'.todo)
      <4> SUFFICES ASSUME NEW k \in DOMAIN queue'
                   PROVE /\ Exists(queue[k].repl)' /\ pane'[queue'[k].repl] # "none"
                         /\ queue'[k].owner = "boot" => Complete(queue[k].repl)'
                         /\ queue'[k].owner = "post" =>
                               /\ At("wait")' /\ queue'[k].repl = Mine'
                               /\ post'.todo # <<>> /\ queue'[k].line = Head(post'.todo)
        OBVIOUS
      <4>1. CASE k \in DOMAIN queue /\ queue'[k] = queue[k] /\ queue[k].owner # "post"
        <5>1. /\ Exists(queue[k].repl) /\ pane[queue[k].repl] # "none"
              /\ queue[k].owner = "boot" => Complete(queue[k].repl)
          BY <4>1 DEF RecoveryInv, QueueSound
        <5>2. /\ Exists(queue[k].repl)' = Exists(queue[k].repl)
              /\ Complete(queue[k].repl)' = Complete(queue[k].repl)
          BY <1>1, <4>1 DEF SameSessions, Exists, Complete, Has
        <5> QED BY <1>1, <4>1, <5>1, <5>2 DEF SameSessions
      <4>2. CASE queue'[k] = d
        <5>1. queue'[k].repl = Mine /\ pane' = pane
          BY <1>1, <2>3, <4>2 DEF SameSessions
        <5>2. Exists(queue[k].repl)'
          BY <1>1, <1>2, <5>1 DEF SameSessions, Exists
        <5> QED BY <1>2, <1>4, <2>2, <2>3, <2>6, <4>2, <5>1, <5>2 DEF At
      <4> QED BY <2>5, <4>1, <4>2
    <3>2. \A j, k \in DOMAIN queue' : queue'[j].owner = "post" /\ queue'[k].owner = "post" => j = k
      BY <2>5
    <3> QED BY <3>1, <3>2 DEF QueueSound
  <2>8. Typed'
    <3>1. Len(temp') <= spent'.stop + (IF At("rename")' THEN 1 ELSE 0)
      BY <1>1, <2>2, TempLength DEF Send, disk, At
    <3>2. TypeOK'
      BY <1>1, <2>4, <3>1 DEF Request, Send, disk, world, RecoveryInv, Typed, TypeOK
    <3> QED BY <2>2, <3>2 DEF Send, RecoveryInv, Typed
  <2>9. BootSound' /\ RunsComplete' /\ AnswersSound' /\ MarkedBeforeSpawn' /\ ActiveHasSession'
    <3>1. RunsComplete' /\ AnswersSound'
      BY <1>1, SessionsSame DEF RecoveryInv, RunsComplete, AnswersSound, SameSessions, Send
    <3> QED BY <1>1, <2>2, <3>1, BootKept, MarkedKept DEF Send
  <2>10. Requesting'
    <3>1. \A line : Has(Mine, line)' = Has(Mine, line)
      BY <1>1, <2>2, MineKept
    <3>2. pane'[Mine'] # "none"
      BY <1>1, <1>2, <2>6 DEF SameSessions
    <3>3. SendSound'
      BY <1>2, <2>2, <2>6, <3>1, <3>2 DEF SendSound, Sending
    <3> QED BY <1>1, <1>2, <2>2, <3>3, MineKept
     DEF Requesting, EarlySound, MintSound, RenameSound, RequestSound, At,
             Renaming, Sending, Finished, Edged, Driving
  <2> QED BY <1>1, <2>2, <2>7, <2>8, <2>9, <2>10, PlainStep
<1> QED BY <1>3, <1>4

\* Insert: the run record goes in once the plan is complete.
LEMMA InsertStep ==
  ASSUME RecoveryInv, Insert
  PROVE RecoveryInv'
<1>1. post.pc = "insert" /\ ~At("wait") /\ ~At("rename") /\ SameSessions /\ disk' = disk /\ Finished
      /\ edges' = edges /\ starting' = starting
  BY DEF Insert, At, SameSessions, world, Finished
<1>2. /\ Mine \in Repls /\ Exists(Mine) /\ pane[Mine] # "none" /\ post.claim # NoClaim
      /\ Complete(Mine) /\ \A c \in Held : c.started \/ c = NoClaim
  BY <1>1, MineIs DEF Driving
<1>3. post' \in Posts /\ post'.claim = post.claim /\ post'.pc = "associate"
  BY DEF Insert, Goto, RecoveryInv, Typed, Posts, Pcs
<1>4. Typed'
  <2>1. Len(temp') <= spent'.stop + (IF At("rename")' THEN 1 ELSE 0)
    BY <1>1, <1>3, TempLength DEF Insert, disk, At
  <2>2. runs' \subseteq {r \in Repls : pane'[r] # "none"}
    BY <1>1, <1>2 DEF Insert, RecoveryInv, Typed, TypeOK, SameSessions
  <2>3. TypeOK'
    BY <1>1, <2>1, <2>2 DEF Insert, disk, world, RecoveryInv, Typed, TypeOK
  <2> QED BY <1>3, <2>3 DEF Insert, RecoveryInv, Typed
<1>5. RunsComplete' /\ AnswersSound'
  BY <1>1, <1>2, SessionsSame DEF RecoveryInv, RunsComplete, AnswersSound, SameSessions, Insert
<1>6. QueueSound' /\ BootSound' /\ MarkedBeforeSpawn' /\ ActiveHasSession'
  BY <1>1, <1>3, QueueKept, BootKept, MarkedKept DEF Insert
<1>7. Requesting'
  BY <1>1, <1>2, <1>3, MineKept
   DEF Requesting, EarlySound, MintSound, RenameSound, RequestSound, SendSound, At,
           Renaming, Sending, Finished, Edged, Driving
<1> QED BY <1>1, <1>3, <1>4, <1>5, <1>6, <1>7, PlainStep

\* Inventory: GET /api/runs resolves between the request's status-locked parts.
LEMMA InventoryStep ==
  ASSUME RecoveryInv, Inventory
  PROVE RecoveryInv'
<1> DEFINE res == Resolution(Links)
<1>1. /\ claim' = res.claim /\ temp' = res.temp /\ post' = post /\ SameSessions /\ ~At("rename")
      /\ ~StatusLocked /\ edges' = edges
  BY DEF Inventory, SameSessions, world, StatusLocked, At
<1>2. /\ Fits(res.claim) /\ res.claim \in Claims
      /\ res.temp \in Seq(Claims) /\ Len(res.temp) <= Len(temp)
      /\ \A k \in DOMAIN res.temp : res.temp[k] \in Held /\ res.temp[k].started
                                    /\ res.temp[k].status # "none"
      /\ claim.status = "pending" => res.claim = claim
      /\ res.claim \in Held \cup {NoClaim} \/ res.claim.started
  BY LinksTyped, Resolved DEF RecoveryInv
<1> HIDE DEF res
<1>3. post.claim \in Held /\ Fits(post.claim) /\ post.claim \in Claims /\ post \in Posts
  BY HeldFits, Fields DEF Held, RecoveryInv, Typed
<1>4. Typed'
  <2>1. Len(temp') <= spent.stop + (IF post'.pc = "rename" THEN 1 ELSE 0)
    <3>1. Len(temp) <= spent.stop /\ Len(temp) \in Nat /\ spent.stop \in Nat
      BY <1>1, TempLength
    <3>2. Len(res.temp) <= Len(temp) /\ Len(res.temp) \in Nat
      BY <1>2
    <3> QED BY <1>1, <3>1, <3>2 DEF At
  <2> QED BY <1>1, <1>2, <1>3, <2>1, TypedRequest DEF Inventory, world, RecoveryInv, Typed, TypeOK
<1>5. \A d \in Held' : Fits(d)
  <2>1. \A k \in DOMAIN res.temp : Fits(res.temp[k])
    BY <1>2, HeldFits
  <2> QED BY <1>1, <1>2, <1>3, <2>1, HeldIs
<1>6. TempUnmarked' /\ \A k \in DOMAIN temp' : temp'[k].status # "none"
  BY <1>1, <1>2 DEF TempUnmarked
<1>7. Requesting'
  <2>1. /\ Mine' = Mine /\ (Exists(Mine)' = Exists(Mine)) /\ (Complete(Mine)' = Complete(Mine))
        /\ \A k \in DOMAIN Prefix : Has(Mine, Prefix[k])' = Has(Mine, Prefix[k])
        /\ pane' = pane
    BY <1>1 DEF Mine, SameSessions, Exists, Complete, Has
  <2>2. EarlySound' /\ MintSound' /\ RenameSound'
    <3>1. post.pc \notin {"resolve", "decide", "act", "rename"}
      BY <1>1 DEF StatusLocked
    <3> QED BY <1>1, <3>1 DEF RecoveryInv, EarlySound, MintSound, RenameSound, At, Renaming
  <2>3. post.pc \in Driving => \A c \in Held' : c.started \/ c = NoClaim
    <3> SUFFICES ASSUME post.pc \in Driving PROVE \A c \in Held' : c.started \/ c = NoClaim
      OBVIOUS
    <3>1. \A c \in Held : c.started \/ c = NoClaim
      BY DEF RecoveryInv, RequestSound
    <3>2. (claim'.started \/ claim' = NoClaim) /\ (post.claim.started \/ post.claim = NoClaim)
      BY <1>1, <1>2, <1>3, <3>1
    <3> QED BY <1>1, <1>2, <3>1, <3>2 DEF Held
  <2>4. RequestSound'
    BY <1>1, <2>1, <2>3 DEF RecoveryInv, RequestSound, At, Renaming, Finished, Edged, Sending
  <2>5. SendSound'
    BY <1>1, <2>1 DEF RecoveryInv, SendSound, At, Sending
  <2> QED BY <2>2, <2>4, <2>5 DEF Requesting
<1> QED BY <1>1, <1>2, <1>4, <1>5, <1>6, <1>7, RequestStep DEF Inventory, world

\* The types, for a step of the boot pass.
LEMMA TypedBoot ==
  ASSUME Typed, UNCHANGED <<disk, session, world, minted, edges, runs, post, answers>>,
         queue' \in Seq(Request),
         boot' \in [todo : SUBSET Repls, at : Repls \cup {None}, sent : BOOLEAN],
         Fault \/ UNCHANGED spent
  PROVE Typed'
<1>1. spent' \in [{"fault", "stop", "drop", "death", "removal"} -> Nat] /\ spent'.stop = spent.stop
  BY FaultTyped
<1>2. TypeOK'
  BY <1>1 DEF Typed, TypeOK, At, disk, world, Request
<1> QED BY <1>1, <1>2 DEF Typed

\* The boot pass leaves the request and the replacements as they are.
LEMMA BootStep ==
  ASSUME RecoveryInv, UNCHANGED <<disk, session, world, minted, edges, runs, post, answers>>,
         Typed', QueueSound', BootSound'
  PROVE RecoveryInv'
<1>1. SameSessions /\ starting' \subseteq starting /\ disk' = disk /\ post' = post
  BY DEF SameSessions, world
<1>2. MarkedBeforeSpawn' /\ ActiveHasSession'
  BY <1>1, MarkedKept
<1>3. RunsComplete' /\ AnswersSound'
  BY <1>1, SessionsSame DEF RecoveryInv, RunsComplete, AnswersSound, SameSessions
<1>4. Requesting'
  BY <1>1, AllSame, StillRequesting
<1> QED BY <1>1, <1>2, <1>3, <1>4, PlainStep

\* The states of the boot pass.
Boots == [todo : SUBSET Repls, at : Repls \cup {None}, sent : BOOLEAN]
\* BootCheck: an unfinished session is owned by a pending claim, and BootPasses
\* has boot pass it by.
LEMMA BootCheckStep ==
  ASSUME RecoveryInv, BootPasses, NEW r \in Repls, BootCheck(r)
  PROVE RecoveryInv'
<1>1. /\ UNCHANGED <<disk, session, world, minted, edges, runs, queue, post, answers>>
      /\ r \in boot.todo /\ boot.at = None /\ (Fault \/ UNCHANGED spent) /\ SameSessions
  BY DEF BootCheck, SameSessions, world
<1>2. boot' = [boot EXCEPT !.todo = @ \ {r}, !.at = IF Owned(r) THEN None ELSE r]
      \/ boot' = [boot EXCEPT !.todo = @ \ {r}]
  BY DEF BootCheck
<1>3. boot' \in [todo : SUBSET Repls, at : Repls \cup {None}, sent : BOOLEAN]
      /\ boot'.todo \subseteq boot.todo /\ (boot'.at = None \/ boot'.at = r)
  <2>1. boot \in [todo : SUBSET Repls, at : Repls \cup {None}, sent : BOOLEAN]
    BY DEF RecoveryInv, Typed
  <2>2. CASE boot' = [boot EXCEPT !.todo = @ \ {r}, !.at = IF Owned(r) THEN None ELSE r]
    <3> DEFINE a == IF Owned(r) THEN None ELSE r
               t == boot.todo \ {r}
    <3>1. boot' = [boot EXCEPT !.todo = t, !.at = a]
      BY <2>2
    <3>2. boot \in Boots
      BY <2>1 DEF Boots
    <3>3. t \in SUBSET Repls /\ t \subseteq boot.todo
      BY <2>1
    <3>4. a \in Repls \cup {None} /\ (a = None \/ a = r)
      OBVIOUS
    <3> HIDE DEF a, t
    <3>5. boot' \in Boots /\ boot'.todo = t /\ boot'.at = a
      BY <3>1, <3>2, <3>3, <3>4 DEF Boots
    <3> QED BY <3>3, <3>4, <3>5 DEF Boots
  <2>3. CASE boot' = [boot EXCEPT !.todo = @ \ {r}]
    <3> DEFINE t == boot.todo \ {r}
    <3>1. boot' = [boot EXCEPT !.todo = t]
      BY <2>3
    <3>2. boot \in Boots
      BY <2>1 DEF Boots
    <3>3. t \in SUBSET Repls /\ t \subseteq boot.todo
      BY <2>1
    <3> HIDE DEF t
    <3>4. boot' \in Boots /\ boot'.todo = t /\ boot'.at = boot.at
      BY <3>1, <3>2, <3>3 DEF Boots
    <3>5. boot.at = None
      BY <1>1
    <3> QED BY <3>3, <3>4, <3>5 DEF Boots
  <2> QED BY <1>2, <2>2, <2>3
<1>4. Exists(r) /\ (boot'.at = r => Complete(r))
  <2>1. Exists(r) /\ r # None
    BY <1>1, RecoveryAssumption DEF RecoveryInv, BootSound
  <2>2. boot'.at = r => ~(claim.status = "pending" /\ claim.repl = r)
    BY <1>1, <2>1 DEF BootPasses
  <2> QED BY <2>1, <2>2 DEF RecoveryInv, UnfinishedIsClaimed
<1>5. BootSound'
  BY <1>1, <1>3, <1>4, SessionsSame DEF RecoveryInv, BootSound, SameSessions
<1>6. Typed' /\ QueueSound'
  BY <1>1, <1>3, TypedBoot, QueueKept, QueueTyped DEF RecoveryInv
<1> QED BY <1>1, <1>5, <1>6, BootStep

\* BootAttach: its marker line goes to a session that holds its plan.
LEMMA BootAttachStep ==
  ASSUME RecoveryInv, BootAttach
  PROVE RecoveryInv'
<1>1. /\ UNCHANGED <<disk, session, world, minted, edges, runs, post, answers, spent>>
      /\ SameSessions /\ boot.at \in Repls /\ Exists(boot.at) /\ Complete(boot.at)
  BY DEF BootAttach, SameSessions, world, RecoveryInv, BootSound, Typed
<1>2. CASE boot' = [boot EXCEPT !.at = None] /\ UNCHANGED queue
  <2>1. boot' \in [todo : SUBSET Repls, at : Repls \cup {None}, sent : BOOLEAN]
        /\ boot'.todo = boot.todo /\ boot'.at = None
    BY <1>2 DEF RecoveryInv, Typed
  <2>2. BootSound'
    BY <1>1, <2>1, SessionsSame DEF RecoveryInv, BootSound, SameSessions
  <2>3. Typed' /\ QueueSound'
    BY <1>1, <1>2, <2>1, TypedBoot, QueueKept, QueueTyped DEF RecoveryInv
  <2> QED BY <1>1, <2>2, <2>3, BootStep
<1>3. CASE ~(boot' = [boot EXCEPT !.at = None] /\ UNCHANGED queue)
  <2> DEFINE d == [repl |-> boot.at, line |-> "reattach", owner |-> "boot"]
  <2>1. boot' = [boot EXCEPT !.sent = TRUE] /\ queue' = Append(queue, d) /\ pane[boot.at] = "live"
    BY <1>3 DEF BootAttach
  <2>2. boot' \in [todo : SUBSET Repls, at : Repls \cup {None}, sent : BOOLEAN]
        /\ boot'.todo = boot.todo /\ boot'.at = boot.at
    BY <2>1 DEF RecoveryInv, Typed
  <2>3. BootSound'
    BY <1>1, <2>2, SessionsSame DEF RecoveryInv, BootSound, SameSessions
  <2>4. d \in Request /\ d.repl = boot.at /\ d.owner = "boot"
    BY <1>1 DEF Request, Lines
  <2> HIDE DEF d
  <2>5. /\ queue' \in Seq(Request) /\ DOMAIN queue' = 1..(Len(queue) + 1)
        /\ DOMAIN queue = 1..Len(queue) /\ Len(queue) \in Nat
        /\ \A k \in DOMAIN queue : queue'[k] = queue[k]
        /\ queue'[Len(queue) + 1] = d
    BY <2>1, <2>4, QueueGrows
  <2>6. \A k \in DOMAIN queue' : \/ k \in DOMAIN queue /\ queue'[k] = queue[k]
                                 \/ queue'[k] = d
    BY <2>5
  <2>7. QueueSound'
    <3>1. ASSUME NEW k \in DOMAIN queue'
          PROVE /\ Exists(queue[k].repl)' /\ pane'[queue'[k].repl] # "none"
                /\ queue'[k].owner = "boot" => Complete(queue[k].repl)'
                /\ queue'[k].owner = "post" =>
                      /\ At("wait")' /\ queue'[k].repl = Mine'
                      /\ post'.todo # <<>> /\ queue'[k].line = Head(post'.todo)
      <4>1. CASE k \in DOMAIN queue /\ queue'[k] = queue[k]
        <5>1. /\ Exists(queue[k].repl)' = Exists(queue[k].repl)
              /\ Complete(queue[k].repl)' = Complete(queue[k].repl)
          BY <1>1, <4>1 DEF SameSessions, Exists, Complete, Has
        <5> QED BY <1>1, <4>1, <5>1 DEF RecoveryInv, QueueSound, SameSessions, At, Mine
      <4>2. CASE queue'[k] = d
        <5>1. Exists(queue[k].repl)' /\ Complete(queue[k].repl)'
          BY <1>1, <2>4, <4>2 DEF SameSessions, Exists, Complete, Has
        <5> QED BY <1>1, <2>1, <2>4, <4>2, <5>1 DEF SameSessions
      <4> QED BY <2>6, <4>1, <4>2
    <3>2. \A j, k \in DOMAIN queue' : queue'[j].owner = "post" /\ queue'[k].owner = "post" => j = k
      BY <2>4, <2>6 DEF RecoveryInv, QueueSound
    <3> QED BY <3>1, <3>2 DEF QueueSound
  <2>8. Typed'
    BY <1>1, <2>2, <2>5, TypedBoot DEF RecoveryInv
  <2> QED BY <1>1, <2>3, <2>7, <2>8, BootStep
<1> QED BY <1>2, <1>3

\* A boot candidate's session is there and was written.
LEMMA CandidateIs ==
  ASSUME NEW r \in Repls, Candidate(r)
  PROVE Exists(r) /\ session[r] # <<>>
<1>1. "acquire" \in Lines
  BY PrefixIs DEF Lines
<1>2. Has(r, "acquire")
  BY DEF Candidate
<1>3. session[r] # <<>>
  BY <1>2 DEF Has
<1> QED BY <1>1, <1>2, <1>3, NoFileIs DEF Exists

\* Spending moves one count.
LEMMA SpendTyped ==
  ASSUME Typed, NEW what \in {"fault", "stop", "drop", "death", "removal"}, NEW bound, Spend(what, bound)
  PROVE /\ spent' \in [{"fault", "stop", "drop", "death", "removal"} -> Nat]
        /\ spent'.stop = spent.stop + (IF what = "stop" THEN 1 ELSE 0)
        /\ spent.stop \in Nat
BY DEF Typed, Spend

\* Restart: what was in memory is gone, and one more temporary file may stay.
LEMMA RestartStep ==
  ASSUME RecoveryInv, Restart
  PROVE RecoveryInv'
<1>1. /\ SameSessions /\ starting' = starting /\ edges' = edges /\ answers' = answers
      /\ minted' = minted /\ claim' = claim
      /\ post' = IdlePost /\ queue' = <<>> /\ runs' = {}
      /\ boot' = [IdleBoot EXCEPT !.todo = {r \in Repls : Candidate(r)}]
      /\ temp' \in {temp, Front(temp)}
  BY DEF Restart, SameSessions, world, TempGone
<1>2. post'.claim = NoClaim /\ post' \in Posts /\ post'.pc = "idle"
  BY <1>1, NoClaimTyped DEF IdlePost
<1>3. boot' \in [todo : SUBSET Repls, at : Repls \cup {None}, sent : BOOLEAN]
      /\ boot'.at = None /\ boot'.todo = {r \in Repls : Candidate(r)}
  BY <1>1 DEF IdleBoot
<1>4. /\ spent' \in [{"fault", "stop", "drop", "death", "removal"} -> Nat]
      /\ spent'.stop = spent.stop + 1 /\ spent.stop \in Nat
  BY SpendTyped DEF Restart, RecoveryInv
<1>5. /\ temp' \in Seq(Claims) /\ Len(temp') <= spent.stop + 1
      /\ \A k \in DOMAIN temp' : k \in DOMAIN temp /\ temp'[k] = temp[k]
      /\ Len(temp) <= 1 => temp' = temp \/ temp' = <<>>
      /\ temp' # temp => At("rename")
  <2>1. CASE temp' = temp
    BY <2>1, TempLength
  <2>2. CASE temp' = Front(temp) /\ At("rename")
    <3>1. /\ Len(Front(temp)) <= spent.stop /\ Front(temp) \in Seq(Claims)
          /\ \A k \in DOMAIN Front(temp) : k \in DOMAIN temp /\ Front(temp)[k] = temp[k]
          /\ Len(temp) <= 1 => Front(temp) = <<>>
      BY <2>2, FrontIs
    <3>2. Len(Front(temp)) \in Nat
      BY <3>1
    <3> QED BY <1>4, <2>2, <3>1, <3>2
  <2>3. temp' = temp \/ (temp' = Front(temp) /\ At("rename"))
    BY DEF Restart, TempGone
  <2> QED BY <2>1, <2>2, <2>3
<1>6. Typed'
  <2>1. Len(temp') <= spent'.stop + (IF At("rename")' THEN 1 ELSE 0)
    BY <1>2, <1>4, <1>5 DEF At
  <2>2. TypeOK'
    BY <1>1, <1>5, <2>1 DEF RecoveryInv, Typed, TypeOK, SameSessions
  <2> QED BY <1>2, <1>3, <1>4, <2>2 DEF Typed
<1>7. \A c \in Held' : Fits(c)
  <2>1. Held' \subseteq Held \cup {NoClaim}
    BY <1>1, <1>2, <1>5 DEF Held
  <2> QED BY <2>1, HeldFits DEF Fits
<1>8. OneInPlay' /\ CommittedIsComplete' /\ MarkedBeforeSpawn' /\ ClaimsWhole'
  <2>1. \A k \in DOMAIN temp' : temp'[k].status # "none"
    BY <1>5 DEF RecoveryInv, ClaimsWhole
  <2> QED BY <1>1, <1>6, <1>7, <2>1, PlaySame DEF ClaimsWhole
<1>9. UnfinishedIsClaimed' /\ ActiveHasSession' /\ LoggedWasSpawned' /\ RunsComplete' /\ AnswersSound'
  BY <1>1, ClaimKept, WorldKept
<1>10. TempUnmarked'
  <2>1. CASE claim = NoClaim /\ Len(temp) = 1
    BY <1>1, <1>5, <2>1 DEF TempUnmarked
  <2>2. CASE ~(claim = NoClaim /\ Len(temp) = 1)
    BY <1>5, <2>2 DEF RecoveryInv, TempUnmarked
  <2> QED BY <2>1, <2>2
<1>11. QueueSound' /\ BootSound'
  <2>1. QueueSound'
    BY <1>1 DEF QueueSound
  <2>2. BootSound'
    BY <1>1, <1>3, CandidateIs, SessionsSame DEF BootSound, SameSessions
  <2> QED BY <2>1, <2>2
<1>12. Requesting'
  BY <1>1, <1>6, Idle
<1> QED BY <1>6, <1>8, <1>9, <1>10, <1>11, <1>12 DEF RecoveryInv, Requesting

\* Drop: the request is gone, its append is not.
LEMMA DropStep ==
  ASSUME RecoveryInv, Drop
  PROVE RecoveryInv'
<1>1. /\ SameSessions /\ disk' = disk /\ starting' = starting /\ edges' = edges /\ answers' = answers
      /\ minted' = minted /\ runs' = runs /\ boot' = boot /\ post' = IdlePost /\ ~At("rename")
      /\ queue' = [k \in DOMAIN queue |->
                     IF queue[k].owner = "post" THEN [queue[k] EXCEPT !.owner = "nobody"]
                     ELSE queue[k]]
  BY DEF Drop, SameSessions, world, End, At
<1>2. post'.claim = NoClaim /\ post' \in Posts /\ post'.pc = "idle"
  BY <1>1, NoClaimTyped DEF IdlePost
<1>3. /\ spent' \in [{"fault", "stop", "drop", "death", "removal"} -> Nat]
      /\ spent'.stop = spent.stop
  BY SpendTyped DEF Drop, RecoveryInv, Typed
<1>4. /\ queue' \in Seq(Request) /\ DOMAIN queue' = DOMAIN queue
      /\ \A k \in DOMAIN queue : /\ queue'[k].repl = queue[k].repl /\ queue'[k].owner # "post"
                                 /\ queue'[k].owner = "boot" => queue[k].owner = "boot"
  <2>1. \A k \in DOMAIN queue : queue'[k] \in Request /\ queue'[k].repl = queue[k].repl
                                /\ queue'[k].owner # "post"
                                /\ (queue'[k].owner = "boot" => queue[k].owner = "boot")
    <3> SUFFICES ASSUME NEW k \in DOMAIN queue
                 PROVE queue'[k] \in Request /\ queue'[k].repl = queue[k].repl
                       /\ queue'[k].owner # "post"
                       /\ (queue'[k].owner = "boot" => queue[k].owner = "boot")
      OBVIOUS
    <3>1. queue[k] \in Request
      BY QueueTyped DEF RecoveryInv
    <3>2. queue'[k] = IF queue[k].owner = "post" THEN [queue[k] EXCEPT !.owner = "nobody"] ELSE queue[k]
      BY <1>1
    <3> QED BY <3>1, <3>2 DEF Request
  <2>2. DOMAIN queue' = DOMAIN queue
    BY <1>1
  <2>3. queue' \in Seq(Request)
    <3>1. DOMAIN queue = 1..Len(queue) /\ Len(queue) \in Nat
      BY QueueTyped DEF RecoveryInv
    <3>2. queue' \in [1..Len(queue) -> Request]
      BY <1>1, <2>1, <3>1
    <3> QED BY <3>1, <3>2, SeqDef
  <2> QED BY <2>1, <2>2, <2>3
<1>5. Typed'
  <2>1. Len(temp') <= spent'.stop + (IF At("rename")' THEN 1 ELSE 0)
    BY <1>1, <1>2, <1>3, TempLength DEF At, disk
  <2>2. TypeOK'
    BY <1>1, <1>4, <2>1 DEF RecoveryInv, Typed, TypeOK, SameSessions, disk, Request
  <2> QED BY <1>1, <1>2, <1>3, <2>2 DEF RecoveryInv, Typed
<1>6. QueueSound'
  <2>1. ASSUME NEW k \in DOMAIN queue'
        PROVE /\ Exists(queue[k].repl)' /\ pane'[queue'[k].repl] # "none"
              /\ queue'[k].owner = "boot" => Complete(queue[k].repl)'
    <3>1. /\ Exists(queue[k].repl) /\ pane[queue[k].repl] # "none"
          /\ queue[k].owner = "boot" => Complete(queue[k].repl)
      BY <1>4 DEF RecoveryInv, QueueSound
    <3>2. /\ Exists(queue[k].repl)' = Exists(queue[k].repl)
          /\ Complete(queue[k].repl)' = Complete(queue[k].repl)
      BY <1>1, <1>4 DEF SameSessions, Exists, Complete, Has
    <3> QED BY <1>1, <1>4, <3>1, <3>2 DEF SameSessions
  <2> QED BY <1>4, <2>1 DEF QueueSound
<1>7. MarkedBeforeSpawn' /\ ActiveHasSession' /\ BootSound' /\ Requesting'
  BY <1>1, <1>2, <1>5, MarkedKept, BootKept, Idle
<1>8. RunsComplete' /\ AnswersSound'
  BY <1>1, SessionsSame DEF RecoveryInv, RunsComplete, AnswersSound, SameSessions
<1> QED BY <1>1, <1>2, <1>5, <1>6, <1>7, <1>8, PlainStep

(***************************************************************************)
(* The sessions and the panes.                                             *)
(***************************************************************************)
\* A line is appended to a session that is there.
LEMMA Grown ==
  ASSUME Typed, NEW r \in Repls, Exists(r), NEW line \in Lines,
         session' = [session EXCEPT ![r] = Append(@, line)]
  PROVE /\ session' \in [Repls -> Seq(Lines) \cup {NoFile}]
        /\ Has(r, line)'
        /\ \A s \in Repls : /\ Exists(s)' = Exists(s)
                            /\ Complete(s) => Complete(s)'
                            /\ \A l : Has(s, l) => Has(s, l)'
                            /\ session[s] # <<>> => session'[s] # <<>>
                            /\ s # r => session'[s] = session[s]
                            /\ s # r => Complete(s)' = Complete(s)
<1>1. session[r] \in Seq(Lines) /\ session[r] # NoFile
  BY DEF Typed, TypeOK, Exists
<1>2. /\ session'[r] = Append(session[r], line)
      /\ \A s \in Repls : s # r => session'[s] = session[s]
  BY DEF Typed, TypeOK
<1>3. /\ session'[r] \in Seq(Lines) /\ Len(session'[r]) = Len(session[r]) + 1
      /\ DOMAIN session[r] = 1..Len(session[r]) /\ DOMAIN session'[r] = 1..(Len(session[r]) + 1)
      /\ \A k \in 1..Len(session[r]) : session'[r][k] = session[r][k]
      /\ session'[r][Len(session[r]) + 1] = line
      /\ Len(session[r]) \in Nat
  BY <1>1, <1>2, AppendProperties
<1>4. \A l : Has(r, l) => Has(r, l)'
  BY <1>3 DEF Has
<1>5. Has(r, line)'
  <2>1. Len(session[r]) + 1 \in DOMAIN session'[r]
    BY <1>3
  <2> QED BY <1>3, <2>1 DEF Has
<1>6. Exists(r)'
  <2>1. SUFFICES ASSUME session'[r] = NoFile PROVE FALSE
    BY DEF Exists
  <2>2. session'[r][Len(session[r]) + 1] = "no file"
    <3>1. Len(session[r]) + 1 \in DOMAIN session'[r]
      BY <1>3
    <3> QED BY <2>1, <3>1, NoFileValue
  <2>3. "no file" \notin Lines
    <3>1. \A k \in 1..4 : Prefix[k] # "no file"
      <4>1. \A k \in 1..4 : k = 1 \/ k = 2 \/ k = 3 \/ k = 4
        OBVIOUS
      <4> QED BY <4>1, PrefixIs
    <3> QED BY <3>1 DEF Lines
  <2> QED BY <1>3, <2>2, <2>3
<1>7. \A s \in Repls : s # r => /\ Exists(s)' = Exists(s) /\ Complete(s)' = Complete(s)
                                /\ \A l : Has(s, l)' = Has(s, l)
  BY <1>2 DEF Exists, Complete, Has
<1>8. Complete(r) => Complete(r)'
  BY <1>4 DEF Complete
<1>9. session'[r] # <<>>
  BY <1>3
<1>10. session' \in [Repls -> Seq(Lines) \cup {NoFile}]
  BY <1>3 DEF Typed, TypeOK
<1>11. ASSUME NEW s \in Repls
       PROVE /\ Exists(s)' = Exists(s)
             /\ Complete(s) => Complete(s)'
             /\ \A l : Has(s, l) => Has(s, l)'
             /\ session[s] # <<>> => session'[s] # <<>>
             /\ s # r => session'[s] = session[s]
             /\ s # r => Complete(s)' = Complete(s)
  <2>1. CASE s = r
    BY <1>4, <1>6, <1>8, <1>9, <2>1
  <2>2. CASE s # r
    BY <1>2, <1>7, <2>2
  <2> QED BY <2>1, <2>2
<1> QED BY <1>5, <1>10, <1>11

\* NewSession: a pane comes up for a replacement whose session is there.
LEMMA NewSessionStep ==
  ASSUME RecoveryInv, NEW r \in Repls, NewSession(r)
  PROVE RecoveryInv'
<1>1. /\ r \in starting /\ starting' = starting \ {r} /\ pane' = [pane EXCEPT ![r] = "live"]
      /\ UNCHANGED <<disk, session, minted, edges, runs, queue, boot, answers, spent>>
      /\ \/ post' = post
         \/ post' = IdlePost
         \/ /\ post.pc = "spawning" /\ Mine = r
            /\ post' = [post EXCEPT !.pc = "send", !.todo = <<"acquire", "run_meta">>,
                          !.next = "backfill"]
  BY DEF NewSession, End, At
<1>2. /\ pane' \in [Repls -> {"none", "live", "gone"}] /\ pane'[r] = "live"
      /\ \A s \in Repls : s # r => pane'[s] = pane[s]
  BY <1>1 DEF RecoveryInv, Typed, TypeOK
<1>3. \A s \in Repls : /\ Exists(s)' = Exists(s) /\ Complete(s)' = Complete(s)
                       /\ \A line : Has(s, line)' = Has(s, line)
                       /\ pane[s] # "none" => pane'[s] # "none"
                       /\ Spawned(s)' => Spawned(s)
                       /\ Active(s)' => Active(s)
  BY <1>1, <1>2 DEF Exists, Complete, Has, Spawned, Active
<1>4. post' \in Posts /\ post'.claim \in {NoClaim, post.claim}
      /\ (post' = post \/ post'.pc \in {"idle", "send"})
  <2>1. CASE post' = post
    BY <2>1 DEF RecoveryInv, Typed
  <2>2. CASE post' = IdlePost
    BY <2>2, NoClaimTyped DEF IdlePost
  <2>3. CASE post' = [post EXCEPT !.pc = "send", !.todo = <<"acquire", "run_meta">>, !.next = "backfill"]
    <3>1. "acquire" \in Lines /\ "run_meta" \in Lines
      BY PrefixIs DEF Lines
    <3>2. <<"acquire", "run_meta">> \in Seq(Lines)
      BY <3>1
    <3> QED BY <2>3, <3>2 DEF RecoveryInv, Typed, Posts, Pcs, Nexts
  <2> QED BY <1>1, <2>1, <2>2, <2>3
<1>5. Typed'
  <2>1. Len(temp') <= spent'.stop + (IF At("rename")' THEN 1 ELSE 0)
    <3>1. CASE post' = post
      BY <1>1, <3>1 DEF RecoveryInv, Typed, TypeOK, disk, At
    <3>2. CASE ~At("rename")
      BY <1>1, <1>4, <3>2, TempLength DEF disk, At
    <3>3. CASE At("rename") /\ post' = IdlePost
      <4>1. FALSE
        BY <3>3 DEF NewSession, At, End, IdlePost
      <4> QED BY <4>1
    <3> QED BY <1>1, <3>1, <3>2, <3>3 DEF At
  <2>2. runs' \subseteq {s \in Repls : pane'[s] # "none"}
    BY <1>1, <1>3 DEF RecoveryInv, Typed, TypeOK
  <2>3. TypeOK'
    BY <1>1, <1>2, <2>1, <2>2 DEF RecoveryInv, Typed, TypeOK, disk
  <2> QED BY <1>1, <1>4, <2>3 DEF RecoveryInv, Typed
<1>6. ActiveHasSession' /\ RunsComplete' /\ AnswersSound' /\ BootSound'
  <2>1. ActiveHasSession' /\ RunsComplete' /\ AnswersSound'
    BY <1>1, <1>3 DEF RecoveryInv, ActiveHasSession, RunsComplete, AnswersSound, Typed, TypeOK
  <2>2. BootSound'
    <3>1. boot.todo \subseteq Repls /\ boot.at \in Repls \cup {None}
      BY DEF RecoveryInv, Typed
    <3> QED BY <1>1, <1>3, <3>1 DEF RecoveryInv, BootSound
  <2> QED BY <2>1, <2>2
<1>7. QueueSound'
  <2>1. \A k \in DOMAIN queue : queue[k].repl \in Repls
    BY QueueTyped DEF RecoveryInv
  <2>2. CASE post' = post
    <3>1. Mine' = Mine /\ (At("wait"))' = At("wait")
      BY <2>2 DEF Mine, At
    <3> QED BY <1>1, <1>3, <2>1, <2>2, <3>1 DEF RecoveryInv, QueueSound
  <2>3. CASE post' # post
    <3>1. ~At("wait")
      BY <2>3 DEF NewSession, At
    <3> QED BY <1>1, <1>3, <2>1, <3>1 DEF RecoveryInv, QueueSound
  <2> QED BY <2>2, <2>3
<1>8. Requesting'
  <2>1. CASE post' = post
    BY <1>1, <1>3, <2>1, StillRequesting
  <2>2. CASE post' = IdlePost
    BY <1>5, <2>2, Idle
  <2>3. CASE /\ post.pc = "spawning" /\ Mine = r
             /\ post' = [post EXCEPT !.pc = "send", !.todo = <<"acquire", "run_meta">>,
                          !.next = "backfill"]
    <3>1. post'.pc = "send" /\ post'.next = "backfill" /\ post'.claim = post.claim
      BY <2>3 DEF RecoveryInv, Typed, Posts
    <3>2. /\ Exists(Mine) /\ post.claim # NoClaim /\ Mine \in Repls
          /\ \A c \in Held : c.started \/ c = NoClaim
      BY <2>3, MineIs DEF Driving
    <3>3. Mine' = Mine /\ Held' = Held /\ Exists(Mine)' /\ pane'[Mine'] # "none"
      <4>1. Mine' = Mine /\ Held' = Held
        BY <1>1, <3>1 DEF Mine, Held, disk
      <4>2. Exists(Mine)'
        BY <1>1, <3>2, <4>1 DEF Exists
      <4> QED BY <1>2, <2>3, <4>1, <4>2
    <3> QED BY <1>1, <3>1, <3>2, <3>3
     DEF Requesting, EarlySound, MintSound, RenameSound, RequestSound, SendSound, At,
             Renaming, Sending, Finished, Edged, Driving
  <2> QED BY <1>1, <2>1, <2>2, <2>3
<1> QED BY <1>1, <1>3, <1>4, <1>5, <1>6, <1>7, <1>8, MoveStep

\* PaneEnds: the session of the dead replacement stays, with its release.
LEMMA PaneEndsStep ==
  ASSUME RecoveryInv, NEW r \in Repls, PaneEnds(r)
  PROVE RecoveryInv'
<1>1. /\ pane[r] = "live" /\ pane' = [pane EXCEPT ![r] = "gone"] /\ runs' = runs \ {r}
      /\ session' = IF r \in runs THEN [session EXCEPT ![r] = Append(@, "release")] ELSE session
      /\ UNCHANGED <<disk, starting, minted, edges, queue, post, boot, answers>>
  BY DEF PaneEnds
<1>2. /\ spent' \in [{"fault", "stop", "drop", "death", "removal"} -> Nat]
      /\ spent'.stop = spent.stop
  BY SpendTyped DEF PaneEnds, RecoveryInv, Typed
<1>3. /\ pane' \in [Repls -> {"none", "live", "gone"}] /\ pane'[r] = "gone"
      /\ \A s \in Repls : s # r => pane'[s] = pane[s]
  BY <1>1 DEF RecoveryInv, Typed, TypeOK
<1>4. /\ session' \in [Repls -> Seq(Lines) \cup {NoFile}]
      /\ \A s \in Repls : /\ Exists(s)' = Exists(s)
                          /\ Complete(s) => Complete(s)'
                          /\ \A l : Has(s, l) => Has(s, l)'
                          /\ session[s] # <<>> => session'[s] # <<>>
                          /\ s # r => session'[s] = session[s]
  <2>1. Exists(r)
    BY <1>1 DEF RecoveryInv, ActiveHasSession, Active
  <2>2. CASE r \in runs
    <3>1. "release" \in Lines
      BY DEF Lines
    <3>2. session' = [session EXCEPT ![r] = Append(@, "release")]
      BY <1>1, <2>2
    <3> QED BY <2>1, <3>1, <3>2, Grown DEF RecoveryInv
  <2>3. CASE r \notin runs
    <3>1. session' = session
      BY <1>1, <2>3
    <3> QED BY <3>1 DEF Exists, Complete, Has, RecoveryInv, Typed, TypeOK
  <2> QED BY <2>2, <2>3
<1>5. \A s \in Repls : /\ pane[s] # "none" => pane'[s] # "none"
                       /\ Spawned(s)' => Spawned(s)
                       /\ Active(s)' => Active(s)
                       /\ Exists(s)' /\ session'[s] # <<>> => session[s] # <<>> \/ pane[s] # "none"
  BY <1>1, <1>3, <1>4 DEF Spawned, Active
<1>6. Typed'
  <2>1. runs' \subseteq {s \in Repls : pane'[s] # "none"}
    BY <1>1, <1>5 DEF RecoveryInv, Typed, TypeOK
  <2>2. TypeOK'
    BY <1>1, <1>2, <1>3, <1>4, <2>1 DEF RecoveryInv, Typed, TypeOK, disk, At
  <2> QED BY <1>1, <1>2, <2>2 DEF RecoveryInv, Typed
<1>7. ActiveHasSession' /\ RunsComplete' /\ AnswersSound' /\ BootSound'
  <2>1. ActiveHasSession' /\ RunsComplete' /\ AnswersSound'
    BY <1>1, <1>4, <1>5 DEF RecoveryInv, ActiveHasSession, RunsComplete, AnswersSound, Typed, TypeOK
  <2>2. BootSound'
    <3>1. boot.todo \subseteq Repls /\ boot.at \in Repls \cup {None}
      BY DEF RecoveryInv, Typed
    <3> QED BY <1>1, <1>4, <3>1 DEF RecoveryInv, BootSound
  <2> QED BY <2>1, <2>2
<1>8. QueueSound'
  <2>1. \A k \in DOMAIN queue : queue[k].repl \in Repls
    BY QueueTyped DEF RecoveryInv
  <2>2. Mine' = Mine /\ (At("wait"))' = At("wait")
    BY <1>1 DEF Mine, At
  <2> QED BY <1>1, <1>4, <1>5, <2>1, <2>2 DEF RecoveryInv, QueueSound
<1>9. Requesting'
  BY <1>1, <1>4, <1>5, StillRequesting
<1> QED BY <1>1, <1>4, <1>5, <1>6, <1>7, <1>8, <1>9, MoveStep

\* RemoveSession: nobody is at work on a session that is removed.
LEMMA RemoveSessionStep ==
  ASSUME RecoveryInv, NEW r \in Repls, RemoveSession(r)
  PROVE RecoveryInv'
<1>1. /\ pane[r] = "gone" /\ r \notin starting /\ At("idle") /\ queue = <<>> /\ boot = IdleBoot
      /\ session' = [session EXCEPT ![r] = NoFile]
      /\ UNCHANGED <<disk, world, minted, edges, runs, queue, post, boot, answers>>
  BY DEF RemoveSession
<1>2. /\ spent' \in [{"fault", "stop", "drop", "death", "removal"} -> Nat]
      /\ spent'.stop = spent.stop
  BY SpendTyped DEF RemoveSession, RecoveryInv, Typed
<1>3. /\ session' \in [Repls -> Seq(Lines) \cup {NoFile}] /\ ~Exists(r)'
      /\ \A s \in Repls : s # r => /\ Exists(s)' = Exists(s) /\ Complete(s)' = Complete(s)
                                   /\ session'[s] = session[s]
      /\ pane' = pane /\ starting' = starting
  <2>1. /\ session' \in [Repls -> Seq(Lines) \cup {NoFile}] /\ session'[r] = NoFile
        /\ \A s \in Repls : s # r => session'[s] = session[s]
    BY <1>1 DEF RecoveryInv, Typed, TypeOK
  <2> QED BY <1>1, <2>1 DEF Exists, Complete, Has, world
<1>4. \A s \in Repls : /\ Exists(s)' => Exists(s)
                       /\ Exists(s)' /\ Complete(s) => Complete(s)'
                       /\ pane[s] # "none" => pane'[s] # "none"
                       /\ Spawned(s)' => Spawned(s)
                       /\ Exists(s)' /\ session'[s] # <<>> => session[s] # <<>> \/ pane[s] # "none"
  BY <1>3 DEF Spawned
<1>5. Typed'
  <2>1. TypeOK'
    BY <1>1, <1>2, <1>3 DEF RecoveryInv, Typed, TypeOK, disk, world, At
  <2> QED BY <1>1, <1>2, <2>1 DEF RecoveryInv, Typed
<1>6. ActiveHasSession' /\ RunsComplete' /\ AnswersSound'
  BY <1>1, <1>3 DEF RecoveryInv, ActiveHasSession, Active, RunsComplete, AnswersSound, Typed, TypeOK
<1>7. QueueSound' /\ BootSound'
  BY <1>1 DEF QueueSound, BootSound, IdleBoot
<1>8. Requesting'
  <2>1. post.pc = "idle" /\ post.claim = NoClaim
    BY <1>1 DEF At, RecoveryInv, EarlySound
  <2> QED BY <1>1, <2>1 DEF Requesting, EarlySound, MintSound, RenameSound, RequestSound, SendSound, At,
             Renaming, Sending, Finished, Edged, Driving
<1> QED BY <1>1, <1>4, <1>5, <1>6, <1>7, <1>8, MoveStep

\* The writer takes the oldest request off its queue.
LEMMA QueueTailTyped ==
  ASSUME Typed, queue # <<>>, queue' = Tail(queue)
  PROVE /\ queue' \in Seq(Request) /\ 1 \in DOMAIN queue /\ Head(queue) = queue[1]
        /\ \A k \in DOMAIN queue' : k \in Nat /\ k + 1 \in DOMAIN queue /\ k + 1 # 1
                                    /\ queue'[k] = queue[k + 1]
<1>1. queue \in Seq(Request) /\ Len(queue) \in Nat /\ DOMAIN queue = 1..Len(queue)
  BY QueueTyped
<1>2. /\ Tail(queue) \in Seq(Request) /\ Len(Tail(queue)) = Len(queue) - 1
      /\ \A i \in 1..Len(Tail(queue)) : Tail(queue)[i] = queue[i + 1]
  BY <1>1, HeadTailProperties
<1>3. Len(queue) > 0 /\ Head(queue) = queue[1]
  BY <1>1, EmptySeq
<1>4. DOMAIN queue' = 1..(Len(queue) - 1)
  BY <1>1, <1>2, <1>3
<1> QED BY <1>1, <1>2, <1>3, <1>4
\* The same, where the whole invariant is at hand.
LEMMA QueueTail ==
  ASSUME RecoveryInv, queue # <<>>, queue' = Tail(queue)
  PROVE /\ queue' \in Seq(Request) /\ 1 \in DOMAIN queue /\ Head(queue) = queue[1]
        /\ \A k \in DOMAIN queue' : k \in Nat /\ k + 1 \in DOMAIN queue /\ k + 1 # 1
                                    /\ queue'[k] = queue[k + 1]
BY QueueTailTyped DEF RecoveryInv

\* What stays queued goes to a session that is there still.
LEMMA QueueTailSound ==
  ASSUME RecoveryInv, queue # <<>>, queue' = Tail(queue), pane' = pane,
         \A r \in Repls : Exists(r)' = Exists(r) /\ (Complete(r) => Complete(r)'),
         post' = post \/ Head(queue).owner = "post"
  PROVE QueueSound'
<1>1. /\ 1 \in DOMAIN queue /\ Head(queue) = queue[1]
      /\ \A k \in DOMAIN queue' : k \in Nat /\ k + 1 \in DOMAIN queue /\ k + 1 # 1
                                  /\ queue'[k] = queue[k + 1]
  BY QueueTail
<1>2. ASSUME NEW k \in DOMAIN queue'
      PROVE /\ Exists(queue[k].repl)' /\ pane'[queue'[k].repl] # "none"
            /\ queue'[k].owner = "boot" => Complete(queue[k].repl)'
            /\ queue'[k].owner = "post" =>
                  /\ At("wait")' /\ queue'[k].repl = Mine'
                  /\ post'.todo # <<>> /\ queue'[k].line = Head(post'.todo)
  <2>1. /\ k + 1 \in DOMAIN queue /\ k + 1 # 1 /\ queue'[k] = queue[k + 1]
        /\ queue[k + 1].repl \in Repls
    BY <1>1, QueueTyped DEF RecoveryInv
  <2>2. /\ Exists(queue[k + 1].repl) /\ pane[queue[k + 1].repl] # "none"
        /\ queue[k + 1].owner = "boot" => Complete(queue[k + 1].repl)
    BY <2>1 DEF RecoveryInv, QueueSound
  <2>3. /\ Exists(queue[k].repl)' /\ (queue'[k].owner = "boot" => Complete(queue[k].repl)')
    <3> DEFINE s == queue[k + 1].repl
    <3>1. s \in Repls /\ Exists(s) /\ (queue[k + 1].owner = "boot" => Complete(s))
      BY <2>1, <2>2
    <3>2. s = queue'[k].repl /\ queue[k + 1].owner = queue'[k].owner
      BY <2>1
    <3> HIDE DEF s
    <3>3. session'[s] # NoFile
      BY <3>1 DEF Exists
    <3>4. queue'[k].owner = "boot" => \A j \in DOMAIN Prefix :
             \E i \in DOMAIN session'[s] : session'[s][i] = Prefix[j]
      <4> SUFFICES ASSUME queue'[k].owner = "boot"
                   PROVE \A j \in DOMAIN Prefix :
                           \E i \in DOMAIN session'[s] : session'[s][i] = Prefix[j]
        OBVIOUS
      <4>1. Complete(s) /\ s \in Repls
        BY <3>1, <3>2
      <4>2. \A r \in Repls : Complete(r) => \A j \in DOMAIN Prefix :
                           \E i \in DOMAIN session'[r] : session'[r][i] = Prefix[j]
        <5>1. \A r \in Repls : Complete(r) => Complete(r)'
          OBVIOUS
        <5> QED BY <5>1 DEF Complete, Has
      <4> QED BY <4>1, <4>2
    <3> QED BY <3>2, <3>3, <3>4 DEF Exists, Complete, Has
  <2>4. queue'[k].owner = "post" =>
            /\ At("wait")' /\ queue'[k].repl = Mine'
            /\ post'.todo # <<>> /\ queue'[k].line = Head(post'.todo)
    <3> SUFFICES ASSUME queue'[k].owner = "post"
                 PROVE /\ At("wait")' /\ queue'[k].repl = Mine'
                       /\ post'.todo # <<>> /\ queue'[k].line = Head(post'.todo)
      OBVIOUS
    <3>1. queue[k + 1].owner = "post"
      BY <2>1
    <3>2. queue[1].owner # "post"
      BY <1>1, <2>1, <3>1 DEF RecoveryInv, QueueSound
    <3>3. post' = post
      BY <1>1, <3>2
    <3> QED BY <2>1, <3>1, <3>3 DEF RecoveryInv, QueueSound, At, Mine
  <2> QED BY <2>1, <2>2, <2>3, <2>4
<1>3. \A j, k \in DOMAIN queue' : queue'[j].owner = "post" /\ queue'[k].owner = "post" => j = k
  <2> SUFFICES ASSUME NEW j \in DOMAIN queue', NEW k \in DOMAIN queue',
                      queue'[j].owner = "post", queue'[k].owner = "post"
               PROVE j = k
    OBVIOUS
  <2>1. j + 1 \in DOMAIN queue /\ k + 1 \in DOMAIN queue /\ j \in Nat /\ k \in Nat
        /\ queue[j + 1].owner = "post" /\ queue[k + 1].owner = "post"
    BY <1>1
  <2>2. j + 1 = k + 1
    BY <2>1 DEF RecoveryInv, QueueSound
  <2> QED BY <2>1, <2>2
<1> QED BY <1>2, <1>3 DEF QueueSound

\* WriterAppends: a session only grows, and what was sent is there.
LEMMA WriterAppendsStep ==
  ASSUME RecoveryInv, WriterAppends
  PROVE RecoveryInv'
<1> DEFINE a == Head(queue)
<1>1. /\ queue # <<>> /\ queue' = Tail(queue) /\ pane' = pane /\ starting' = starting
      /\ UNCHANGED <<disk, minted, edges, answers>>
  BY DEF WriterAppends, world
<1>0. PICK r \in Repls, line \in Lines : r = a.repl /\ line = a.line
  <2>1. 1 \in DOMAIN queue /\ a = queue[1]
    BY <1>1, QueueTail
  <2> HIDE DEF a
  <2>2. a.repl \in Repls /\ a.line \in Lines
    BY <2>1, QueueTyped DEF RecoveryInv
  <2> QED BY <2>2
<1>2. /\ a \in Request /\ Exists(r) /\ pane[r] # "none"
      /\ a.owner = "boot" => Complete(r)
      /\ a.owner = "post" => /\ post.pc = "wait" /\ r = Mine
                             /\ post.todo # <<>> /\ line = Head(post.todo)
  <2>1. 1 \in DOMAIN queue /\ a = queue[1]
    BY <1>1, QueueTail
  <2> HIDE DEF a
  <2>2. queue[1] \in Request /\ queue[1].repl \in Repls /\ queue[1].line \in Lines
    BY <2>1, QueueTyped DEF RecoveryInv
  <2>3. /\ Exists(queue[1].repl) /\ pane[queue[1].repl] # "none"
        /\ queue[1].owner = "boot" => Complete(queue[1].repl)
        /\ queue[1].owner = "post" =>
              /\ post.pc = "wait" /\ queue[1].repl = Mine
              /\ post.todo # <<>> /\ queue[1].line = Head(post.todo)
    BY <2>1 DEF RecoveryInv, QueueSound, At
  <2> QED BY <1>0, <2>1, <2>2, <2>3
<1>3. \/ /\ session' = [session EXCEPT ![r] = Append(@, line)] /\ UNCHANGED spent
         /\ post' = IF a.owner # "post" THEN post ELSE [post EXCEPT !.pc = "send", !.todo = Tail(@)]
         /\ IF a.owner = "boot"
            THEN runs' = runs \cup {r} /\ boot' = [boot EXCEPT !.at = None, !.sent = FALSE]
            ELSE UNCHANGED <<runs, boot>>
      \/ /\ Fault /\ UNCHANGED <<session, runs>>
         /\ post' = IF a.owner = "post" THEN IdlePost ELSE post
         /\ boot' = IF a.owner = "boot" THEN [boot EXCEPT !.at = None, !.sent = FALSE] ELSE boot
  <2>1. \/ /\ session' = [session EXCEPT ![r] = IF @ = NoFile THEN <<line>>
                                                    ELSE Append(@, line)]
           /\ UNCHANGED spent
           /\ post' = IF a.owner # "post" THEN post ELSE [post EXCEPT !.pc = "send", !.todo = Tail(@)]
           /\ IF a.owner = "boot"
              THEN runs' = runs \cup {r} /\ boot' = [boot EXCEPT !.at = None, !.sent = FALSE]
              ELSE UNCHANGED <<runs, boot>>
        \/ /\ Fault /\ UNCHANGED <<session, runs>>
           /\ post' = IF a.owner = "post" THEN IdlePost ELSE post
           /\ boot' = IF a.owner = "boot" THEN [boot EXCEPT !.at = None, !.sent = FALSE] ELSE boot
    BY <1>0 DEF WriterAppends
  <2>2. session[r] # NoFile
    BY <1>2 DEF Exists
  <2> HIDE DEF a
  <2> QED BY <2>1, <2>2
<1> HIDE DEF a
<1>4. /\ session' \in [Repls -> Seq(Lines) \cup {NoFile}]
      /\ \A s \in Repls : /\ Exists(s)' = Exists(s)
                          /\ Complete(s) => Complete(s)'
                          /\ \A l : Has(s, l) => Has(s, l)'
                          /\ session[s] # <<>> => session'[s] # <<>>
                          /\ s # r => session'[s] = session[s]
  <2>1. CASE session' = [session EXCEPT ![r] = Append(@, line)]
    BY <1>2, <2>1, Grown DEF RecoveryInv
  <2>2. CASE session' = session
    BY <2>2 DEF Exists, Complete, Has, RecoveryInv, Typed, TypeOK
  <2> QED BY <1>3, <2>1, <2>2
<1>5. /\ boot' \in [todo : SUBSET Repls, at : Repls \cup {None}, sent : BOOLEAN]
      /\ boot'.todo = boot.todo /\ boot'.at \in {None, boot.at}
  <2>1. boot' = boot \/ boot' = [boot EXCEPT !.at = None, !.sent = FALSE]
    BY <1>3
  <2>2. CASE boot' = boot
    BY <2>2 DEF RecoveryInv, Typed
  <2>3. CASE boot' = [boot EXCEPT !.at = None, !.sent = FALSE]
    BY <2>3 DEF RecoveryInv, Typed
  <2> QED BY <2>1, <2>2, <2>3
<1>6. runs' = runs \/ (runs' = runs \cup {r} /\ a.owner = "boot")
  BY <1>3
<1>7. \/ post' = post
      \/ a.owner = "post" /\ post' = IdlePost
      \/ /\ a.owner = "post" /\ post' = [post EXCEPT !.pc = "send", !.todo = Tail(@)]
         /\ session' = [session EXCEPT ![r] = Append(@, line)]
  BY <1>3
<1>8. post.todo \in Seq(Lines)
  BY DEF RecoveryInv, Typed, Posts
<1>9. post' \in Posts /\ post'.claim \in {NoClaim, post.claim} /\ (post' # post => post'.pc \in {"idle", "send"})
  <2>1. CASE post' = post
    BY <2>1 DEF RecoveryInv, Typed
  <2>2. CASE post' = IdlePost
    BY <2>2, NoClaimTyped DEF IdlePost
  <2>3. CASE a.owner = "post" /\ post' = [post EXCEPT !.pc = "send", !.todo = Tail(@)]
    <3>1. Tail(post.todo) \in Seq(Lines)
      BY <1>2, <1>8, <2>3, HeadTailProperties
    <3> QED BY <2>3, <3>1 DEF RecoveryInv, Typed, Posts, Pcs
  <2> QED BY <1>7, <2>1, <2>2, <2>3
<1>10. Typed'
  <2>1. spent' \in [{"fault", "stop", "drop", "death", "removal"} -> Nat] /\ spent'.stop = spent.stop
    BY <1>3, FaultTyped DEF RecoveryInv
  <2>2. Len(temp') <= spent'.stop + (IF At("rename")' THEN 1 ELSE 0)
    <3>1. CASE post' = post
      BY <1>1, <2>1, <3>1 DEF RecoveryInv, Typed, TypeOK, disk, At
    <3>2. CASE post' # post
      <4>1. ~At("rename") /\ post'.pc # "rename"
        BY <1>2, <1>7, <1>9, <3>2 DEF At
      <4> QED BY <1>1, <2>1, <4>1, TempLength DEF disk, At
    <3> QED BY <3>1, <3>2
  <2>3. runs' \subseteq {s \in Repls : pane'[s] # "none"}
    BY <1>1, <1>2, <1>6 DEF RecoveryInv, Typed, TypeOK
  <2>4. queue' \in Seq(Request)
    BY <1>1, QueueTail
  <2>5. TypeOK'
    BY <1>1, <1>4, <2>2, <2>3, <2>4 DEF RecoveryInv, Typed, TypeOK, disk, Request
  <2> QED BY <1>5, <1>9, <2>1, <2>5 DEF Typed
<1>11. ActiveHasSession' /\ RunsComplete' /\ AnswersSound' /\ BootSound'
  <2>1. ActiveHasSession'
    BY <1>1, <1>4 DEF RecoveryInv, ActiveHasSession, Active
  <2>2. RunsComplete'
    BY <1>2, <1>4, <1>6 DEF RecoveryInv, RunsComplete, Typed, TypeOK
  <2>3. AnswersSound'
    BY <1>1, <1>4 DEF RecoveryInv, AnswersSound, Typed, TypeOK
  <2>4. BootSound'
    <3>1. boot.todo \subseteq Repls /\ boot.at \in Repls \cup {None}
      BY DEF RecoveryInv, Typed
    <3> QED BY <1>4, <1>5, <3>1 DEF RecoveryInv, BootSound
  <2> QED BY <2>1, <2>2, <2>3, <2>4
<1>12. QueueSound'
  <2>1. post' = post \/ Head(queue).owner = "post"
    BY <1>7 DEF a
  <2> QED BY <1>1, <1>4, <2>1, QueueTailSound
<1>13. Requesting'
  <2>1. CASE post' = post
    <3>1. \A s \in Repls : /\ Exists(s)' = Exists(s)
                           /\ Complete(s) => Complete(s)'
                           /\ \A k \in DOMAIN Prefix : Has(s, Prefix[k]) => Has(s, Prefix[k])'
                           /\ pane[s] # "none" => pane'[s] # "none"
                           /\ Spawned(s)' => Spawned(s)
      BY <1>1, <1>4 DEF Spawned
    <3>2. UNCHANGED <<disk, post, edges>>
      BY <1>1, <2>1
    <3> QED BY <3>1, <3>2, StillRequesting
  <2>2. CASE post' = IdlePost
    BY <1>10, <2>2, Idle
  <2>3. CASE /\ a.owner = "post" /\ post' = [post EXCEPT !.pc = "send", !.todo = Tail(@)]
             /\ session' = [session EXCEPT ![r] = Append(@, line)]
    <3>1. post'.pc = "send" /\ post'.next = post.next /\ post'.claim = post.claim
          /\ post'.todo = Tail(post.todo) /\ post.pc = "wait" /\ r = Mine
          /\ post.todo # <<>> /\ line = Head(post.todo)
      BY <1>2, <2>3 DEF RecoveryInv, Typed, Posts
    <3>2. /\ Mine \in Repls /\ Exists(Mine) /\ pane[Mine] # "none" /\ post.claim # NoClaim
          /\ \A c \in Held : c.started \/ c = NoClaim
          /\ post.next \in {"backfill", "insert", "commit"}
          /\ post.next = "commit" => Complete(Mine) /\ Mine \in edges
          /\ post.next = "insert" => \A k \in DOMAIN Prefix :
                 Has(Mine, Prefix[k]) \/ \E j \in DOMAIN post.todo : post.todo[j] = Prefix[k]
      BY <3>1, MineIs DEF Driving, RecoveryInv, SendSound, RequestSound, Sending, Finished, Edged
    <3>3. Mine' = Mine /\ Held' = Held /\ pane'[Mine'] # "none" /\ edges' = edges
      BY <1>1, <3>1, <3>2 DEF Mine, Held, disk
    <3>4. Has(r, line)'
      BY <1>2, <2>3, Grown DEF RecoveryInv
    <3>5. /\ Exists(Mine)' /\ (Complete(Mine) => Complete(Mine)')
          /\ \A l : Has(Mine, l) => Has(Mine, l)'
          /\ Has(Mine, line)'
      <4>1. /\ Exists(r)' /\ (Complete(r) => Complete(r)') /\ (\A l : Has(r, l) => Has(r, l)')
            /\ session'[r] # NoFile /\ Exists(r)
        BY <1>2, <1>4 DEF Exists
      <4> QED BY <3>1, <3>3, <3>4, <4>1 DEF Exists, Complete, Has
    <3>6. post.next = "insert" => \A k \in DOMAIN Prefix :
             Has(Mine, Prefix[k])' \/ \E j \in DOMAIN post'.todo : post'.todo[j] = Prefix[k]
      <4> SUFFICES ASSUME post.next = "insert", NEW k \in DOMAIN Prefix, ~Has(Mine, Prefix[k])'
                   PROVE \E j \in DOMAIN post'.todo : post'.todo[j] = Prefix[k]
        OBVIOUS
      <4>1. PICK j \in DOMAIN post.todo : post.todo[j] = Prefix[k]
        BY <3>2, <3>5
      <4>2. /\ Len(post.todo) \in Nat /\ DOMAIN post.todo = 1..Len(post.todo)
            /\ Tail(post.todo) \in Seq(Lines) /\ Len(Tail(post.todo)) = Len(post.todo) - 1
            /\ \A i \in 1..Len(Tail(post.todo)) : Tail(post.todo)[i] = post.todo[i + 1]
            /\ Head(post.todo) = post.todo[1]
        BY <1>8, <3>1, HeadTailProperties
      <4>3. CASE j = 1
        <5>1. line = Prefix[k]
          BY <3>1, <4>1, <4>2, <4>3
        <5> QED BY <3>5, <5>1
      <4>4. CASE j # 1
        <5>1. j - 1 \in 1..Len(Tail(post.todo)) /\ (j - 1) + 1 = j
          BY <4>2, <4>4
        <5>2. Tail(post.todo)[j - 1] = Prefix[k] /\ j - 1 \in DOMAIN Tail(post.todo)
          BY <4>1, <4>2, <5>1
        <5> QED BY <3>1, <5>2
      <4> QED BY <4>3, <4>4
    <3>7. SendSound'
      BY <3>1, <3>2, <3>3, <3>6 DEF SendSound, Sending
    <3> QED BY <3>1, <3>2, <3>3, <3>5, <3>7
     DEF Requesting, EarlySound, MintSound, RenameSound, RequestSound, At,
             Renaming, Sending, Finished, Edged, Driving
  <2> QED BY <1>7, <2>1, <2>2, <2>3
<1>14. \A s \in Repls : /\ pane[s] # "none" => pane'[s] # "none"
                        /\ Spawned(s)' => Spawned(s)
                        /\ Exists(s)' /\ session'[s] # <<>> => session[s] # <<>> \/ pane[s] # "none"
  BY <1>1, <1>2, <1>4 DEF Spawned
<1> QED BY <1>1, <1>4, <1>9, <1>10, <1>11, <1>12, <1>13, <1>14, MoveStep

(***************************************************************************)
(* The theorems.  They are about an origin that ran in the project root:   *)
(* for another one boot does not see who owns a session, and TLC finds two *)
(* replacements (see the README).                                          *)
(***************************************************************************)
LEMMA InitHolds ==
  ASSUME Init
  PROVE RecoveryInv
<1>1. Typed
  <2>1. temp \in Seq(Claims) /\ queue \in Seq(Request) /\ Len(temp) = 0
    BY DEF Init
  <2>2. spent \in [{"fault", "stop", "drop", "death", "removal"} -> Nat] /\ spent.stop = 0
    <3>1. spent = [fault |-> 0, stop |-> 0, drop |-> 0, death |-> 0, removal |-> 0]
      BY DEF Init
    <3> QED BY <3>1
  <2>3. TypeOK
    BY <2>1, <2>2, NoClaimTyped DEF Init, TypeOK, Request, At, IdlePost
  <2>4. post \in Posts /\ boot \in [todo : SUBSET Repls, at : Repls \cup {None}, sent : BOOLEAN]
    BY NoClaimTyped DEF Init, IdleBoot
  <2> QED BY <2>2, <2>3, <2>4 DEF Typed
<1>2. /\ Held = {NoClaim} /\ temp = <<>> /\ DOMAIN temp = {} /\ NoClaim.status = "none"
      /\ NoClaim.repl = None /\ post.pc = "idle" /\ post.claim = NoClaim
      /\ \A r \in Repls : ~Exists(r) /\ ~Spawned(r) /\ ~Active(r)
  <2>1. temp = <<>> /\ DOMAIN temp = {} /\ post.pc = "idle" /\ post.claim = NoClaim
    BY DEF Init, IdlePost
  <2>2. \A r \in Repls : ~Exists(r) /\ ~Spawned(r) /\ ~Active(r)
    BY DEF Init, Exists, Spawned, Active
  <2> QED BY <2>1, <2>2 DEF Held, Init, NoClaim
<1>3. /\ ClaimsWhole /\ OneInPlay /\ ActiveHasSession /\ UnfinishedIsClaimed /\ CommittedIsComplete
      /\ MarkedBeforeSpawn /\ LoggedWasSpawned /\ TempUnmarked /\ AnswersSound
  BY <1>2, RecoveryAssumption
     DEF Init, ClaimsWhole, OneInPlay, InPlay, ActiveHasSession, UnfinishedIsClaimed,
         CommittedIsComplete, MarkedBeforeSpawn, LoggedWasSpawned, TempUnmarked, AnswersSound
<1>4. RunsComplete /\ QueueSound /\ BootSound
  BY DEF Init, RunsComplete, QueueSound, BootSound, IdleBoot
<1>5. Requesting
  BY <1>2 DEF Requesting, EarlySound, MintSound, RenameSound, RequestSound, SendSound, At,
              Renaming, Sending, Finished, Edged, Driving
<1> QED BY <1>1, <1>3, <1>4, <1>5 DEF RecoveryInv, Requesting

\* A step that changes nothing.
LEMMA StuttersHold ==
  ASSUME RecoveryInv, UNCHANGED vars
  PROVE RecoveryInv'
<1>1. /\ UNCHANGED <<disk, session, world, minted, edges, runs, queue, post, boot, answers, spent>>
      /\ SameSessions
  BY DEF vars, SameSessions, world
<1>2. Typed' /\ QueueSound' /\ BootSound'
  <2>1. Typed'
    BY <1>1 DEF RecoveryInv, Typed, TypeOK, disk, world, At
  <2> QED BY <1>1, <2>1, QueueKept, BootKept
<1> QED BY <1>1, <1>2, BootStep

\* Every step keeps the invariant.
LEMMA StepKeeps ==
  ASSUME RecoveryInv, [Next]_vars, [BootPasses]_vars
  PROVE RecoveryInv'
<1>1. CASE \E q \in Requests : Begin(q)
  BY <1>1, BeginStep
<1>2. CASE Resolve \/ Unreadable \/ Unclaimed \/ Committed \/ Conflict \/ ReconcileRefuses
           \/ Reconcile \/ NoAction \/ Planned \/ MintRefused
  BY <1>2, ResolveStep, DecideStep, UnclaimedStep, CommittedStep, ReconcileStep, PlannedStep
<1>3. CASE Rename \/ Authority \/ Mark \/ \E r \in Repls : Mint(r)
  BY <1>3, RenameStep, AuthorityStep, MarkStep, MintStep
<1>4. CASE Reattach \/ Spawn \/ Backfill \/ Send \/ Insert \/ Associate \/ Publish \/ Commit \/ Answer
  BY <1>4, ReattachStep, SpawnStep, BackfillStep, SendStep, InsertStep, AssociateStep, PublishStep,
     CommitStep, AnswerStep
<1>5. CASE WriterAppends \/ Inventory \/ Restart \/ Drop
  BY <1>5, WriterAppendsStep, InventoryStep, RestartStep, DropStep
<1>6. CASE Boot /\ BootPasses
  BY <1>6, BootAttachStep, BootCheckStep DEF Boot
<1>7. CASE \E r \in Repls : NewSession(r) \/ PaneEnds(r) \/ RemoveSession(r)
  BY <1>7, NewSessionStep, PaneEndsStep, RemoveSessionStep
<1>8. CASE UNCHANGED vars
  BY <1>8, StuttersHold
<1> QED BY <1>1, <1>2, <1>3, <1>4, <1>5, <1>6, <1>7, <1>8 DEF Next, Handle

\* RecoveryInv holds throughout every behaviour in which boot passes by the sessions of
\* pending claims, for any number of replacements, requests, faults, crashes and deaths.
THEOREM RecoveryInvariance == Spec /\ [][BootPasses]_vars => []RecoveryInv
<1>1. Init => RecoveryInv
  BY InitHolds
<1>2. RecoveryInv /\ [Next]_vars /\ [BootPasses]_vars => RecoveryInv'
  BY StepKeeps
<1> QED BY <1>1, <1>2, PTL DEF Spec

\* Two active replacements would both be in play.
LEMMA InvOnce ==
  ASSUME RecoveryInv
  PROVE OneReplacement
<1> DEFINE S == {r \in Repls : pane[r] = "live" \/ r \in starting}
<1>1. \A r, s \in S : r = s
  BY DEF RecoveryInv, ActiveHasSession, Active, OneInPlay, InPlay
<1>2. CASE S = {}
  <2>1. Cardinality(S) = 0
    BY <1>2, FS_EmptySet
  <2> QED BY <2>1 DEF OneReplacement
<1>3. CASE S # {}
  <2>1. PICK x : x \in S
    BY <1>3
  <2>2. S = {x}
    BY <1>1, <2>1
  <2>3. Cardinality(S) = 1
    BY <2>2, FS_Singleton
  <2> QED BY <2>3 DEF OneReplacement
<1> QED BY <1>2, <1>3

\* OneReplacement: POST /recover never leaves two replacement workers of one origin running
\* or starting, whatever crashed, failed or was dropped on the way, unless boot attaches a
\* session that a pending claim owns.
THEOREM RescuedOnce == Spec /\ [][BootPasses]_vars => []OneReplacement
<1>1. RecoveryInv => OneReplacement
  BY InvOnce
<1> QED BY <1>1, RecoveryInvariance, PTL

\* A replacement that was answered is the one in play as long as its session is there.
LEMMA InvAnswers ==
  ASSUME RecoveryInv
  PROVE AnswersStand
<1> SUFFICES ASSUME NEW r \in answers
             PROVE /\ r \in edges
                   /\ Exists(r) => Has(r, "recovery_origin") /\ claim.repl \in {r, None}
  BY DEF AnswersStand
<1>1. r \in Repls /\ r \in edges /\ (Exists(r) => Complete(r))
  BY DEF RecoveryInv, AnswersSound, Typed, TypeOK
<1>2. Exists(r) => Has(r, "recovery_origin")
  <2>1. 4 \in DOMAIN Prefix /\ Prefix[4] = "recovery_origin"
    BY PrefixIs
  <2> QED BY <1>1, <2>1 DEF Complete
<1>3. Exists(r) => claim.repl \in {r, None}
  <2>1. claim \in Held /\ claim.repl \in Repls \cup {None}
    BY Fields DEF Held, RecoveryInv
  <2> QED BY <1>1, <2>1 DEF RecoveryInv, OneInPlay, InPlay
<1> QED BY <1>1, <1>2, <1>3

\* AnswersStand: the replacement a client was told of keeps its link and its ledger edge, and
\* no claim comes to name another one, unless boot attaches a session that a pending claim
\* owns.
THEOREM AnswersKept == Spec /\ [][BootPasses]_vars => []AnswersStand
<1>1. RecoveryInv => AnswersStand
  BY InvAnswers
<1> QED BY <1>1, RecoveryInvariance, PTL

(***************************************************************************)
(* Types, whatever boot takes up.                                          *)
(***************************************************************************)
\* A claim that names a replacement, or no claim.
Named(c) == c \in Claims /\ (c.status = "none" => c = NoClaim) /\ (c.status # "none" => c.repl # None)

\* One that is used names one of the replacements.
LEMMA NamedIs ==
  /\ Named(NoClaim) /\ NoClaim.status = "none" /\ NoClaim.repl = None
  /\ \A c : Named(c) /\ c # NoClaim =>
         /\ c \in Claims /\ c.repl \in Repls /\ c.status \in {"pending", "committed"}
<1>1. Named(NoClaim) /\ NoClaim.status = "none" /\ NoClaim.repl = None
  BY NoClaimTyped DEF Named, NoClaim
<1>2. ASSUME NEW c, Named(c), c # NoClaim
      PROVE c \in Claims /\ c.repl \in Repls /\ c.status \in {"pending", "committed"}
  <2>1. c \in Claims /\ c.status # "none" /\ c.repl # None
    BY <1>2 DEF Named
  <2> QED BY <2>1 DEF Claims
<1> QED BY <1>1, <1>2

\* What is on disk and with the request.
LEMMA AllNamed ==
  ASSUME TypeInv
  PROVE /\ Named(claim) /\ Named(post.claim)
        /\ \A k \in DOMAIN temp : Named(temp[k]) /\ temp[k].status # "none"
        /\ post.claim # NoClaim => Mine \in Repls
<1>1. \A c \in Held : Named(c)
  BY Fields DEF TypeInv, ClaimsNamed, Named
<1>2. Named(claim) /\ Named(post.claim) /\ \A k \in DOMAIN temp : Named(temp[k])
  BY <1>1 DEF Held
<1> QED BY <1>2, NamedIs DEF TypeInv, ClaimsNamed, Mine

\* What load_recovery_claim answers.
LEMMA LoadedNamed ==
  ASSUME TypeInv
  PROVE /\ Named(Loaded.claim) /\ Loaded.temp \in Seq(Claims)
        /\ Len(Loaded.temp) \in Nat /\ Len(Loaded.temp) <= Len(temp)
        /\ \A k \in DOMAIN Loaded.temp : Named(Loaded.temp[k]) /\ Loaded.temp[k].status # "none"
        /\ claim # NoClaim => Loaded.claim = claim /\ Loaded.temp = temp
<1>1. temp \in Seq(Claims) /\ Len(temp) \in Nat
  BY TempTyped DEF TypeInv
<1>2. CASE claim = NoClaim /\ Len(temp) = 1
  <2>1. Loaded = [claim |-> temp[1], temp |-> <<>>] /\ 1 \in DOMAIN temp
    BY <1>1, <1>2 DEF Loaded
  <2> QED BY <1>1, <1>2, <2>1, AllNamed
<1>3. CASE ~(claim = NoClaim /\ Len(temp) = 1)
  <2>1. Loaded = [claim |-> claim, temp |-> temp]
    BY <1>3 DEF Loaded
  <2> QED BY <1>1, <2>1, AllNamed
<1> QED BY <1>2, <1>3

\* What the resolution of an enumeration leaves on disk.
LEMMA ResolvedNamed ==
  ASSUME TypeInv, NEW links \in SUBSET (Repls \X Nat), NEW res, res = Resolution(links)
  PROVE /\ Named(res.claim) /\ res.temp \in Seq(Claims)
        /\ Len(res.temp) \in Nat /\ Len(res.temp) <= Len(temp)
        /\ \A k \in DOMAIN res.temp : Named(res.temp[k]) /\ res.temp[k].status # "none"
        /\ claim.status = "pending" => res.claim = claim
        /\ Authoritative(res, Loaded.claim) => Exists(Loaded.claim.repl)
<1> DEFINE c == Loaded.claim
           rest == Loaded.temp
           answer(kind, f, t) == [kind |-> kind, claim |-> f, temp |-> t]
           named == {l[1] : l \in links}
           only == Snapshot(CHOOSE r \in named : TRUE)
<1>1. /\ Named(c) /\ rest \in Seq(Claims) /\ Len(rest) \in Nat /\ Len(rest) <= Len(temp)
      /\ \A k \in DOMAIN rest : Named(rest[k]) /\ rest[k].status # "none"
      /\ claim.status = "pending" => c = claim
      /\ Named(NoClaim) /\ Len(temp) \in Nat
  BY LoadedNamed, NamedIs, TempTyped DEF TypeInv
<1>2. links # {} => Named(only)
  <2> SUFFICES ASSUME links # {} PROVE Named(only)
    OBVIOUS
  <2> DEFINE r == CHOOSE x \in named : TRUE
  <2>1. r \in Repls
    <3>1. named # {} /\ named \subseteq Repls
      OBVIOUS
    <3> QED BY <3>1
  <2>2. minted[r] \in Requests \cup {None}
    BY <2>1 DEF TypeInv, Typed, TypeOK
  <2>3. only = [status |-> "committed", repl |-> r, request |-> minted[r], started |-> TRUE]
    BY DEF Snapshot, Claim
  <2> HIDE DEF only, r
  <2>4. only \in Claims
    BY <2>1, <2>2, <2>3 DEF Claims
  <2> QED BY <2>1, <2>3, <2>4, RecoveryAssumption DEF Named
<1> HIDE DEF named, only
<1>3. CASE c.status = "pending"
  <2>1. res = answer("valid", c, rest)
    BY <1>3 DEF Resolution
  <2> QED BY <1>1, <1>3, <2>1 DEF Authoritative
<1>4. CASE c.status = "committed" /\ Cardinality(links) = 1 /\ only = c /\ Verified(c)
  <2>1. res = answer("valid", c, rest)
    BY <1>4 DEF Resolution, only, named
  <2> QED BY <1>1, <1>4, <2>1 DEF Verified
<1>5. CASE c.status # "pending"
           /\ ~(c.status = "committed" /\ Cardinality(links) = 1 /\ only = c /\ Verified(c))
  <2>1. claim.status # "pending"
    BY <1>1, <1>5
  <2>2. CASE Cardinality(links) > 1
    <3>1. res = answer("quarantined", NoClaim, rest)
      BY <1>5, <2>2 DEF Resolution, only, named
    <3> QED BY <1>1, <2>1, <3>1 DEF Authoritative
  <2>3. CASE ~(Cardinality(links) > 1) /\ links # {} /\ Verified(only)
    <3>1. res = answer("reconstructed", only, rest)
      BY <1>5, <2>3 DEF Resolution, only, named
    <3> QED BY <1>1, <1>2, <2>1, <2>3, <3>1 DEF Authoritative, Verified
  <2>4. CASE ~(Cardinality(links) > 1) /\ links # {} /\ ~Verified(only)
    <3>1. res = answer("quarantined", NoClaim, rest)
      BY <1>5, <2>4 DEF Resolution, only, named
    <3> QED BY <1>1, <2>1, <3>1 DEF Authoritative
  <2>5. CASE ~(Cardinality(links) > 1) /\ links = {} /\ Len(rest) = 1
    <3>1. res = answer("quarantined", rest[1], <<>>)
      BY <1>5, <2>5 DEF Resolution, only, named
    <3>2. Named(rest[1])
      BY <1>1, <2>5
    <3> QED BY <1>1, <2>1, <3>1, <3>2 DEF Authoritative
  <2>6. CASE ~(Cardinality(links) > 1) /\ links = {} /\ Len(rest) # 1
    <3>1. res = answer(IF rest = <<>> THEN "missing" ELSE "quarantined", NoClaim, rest)
      BY <1>5, <2>6 DEF Resolution, only, named
    <3> QED BY <1>1, <2>1, <2>6, <3>1 DEF Authoritative
  <2> QED BY <2>2, <2>3, <2>4, <2>5, <2>6
<1> QED BY <1>3, <1>4, <1>5

\* What the types ask of where the request is.
Placed == RequestNamed /\ (post.pc \in {"send", "wait"} => post.next \in {"backfill", "insert", "commit"})
          /\ (At("insert") \/ At("backfill") \/ Sending("backfill") \/ Sending("insert")
                 => pane[Mine] # "none")

\* A request that has ended is nowhere.
LEMMA Ended ==
  ASSUME post' = IdlePost
  PROVE Placed' /\ post' \in Posts /\ post'.claim = NoClaim /\ post'.pc = "idle"
<1>1. post'.claim = NoClaim /\ post'.pc = "idle" /\ post' \in Posts
  BY NoClaimTyped DEF IdlePost
<1> QED BY <1>1, NamedIs DEF Placed, RequestNamed, Renaming, Sending, At

\* A step of the request: sessions are created and spawns begin, never the other way.
LEMMA WideStep ==
  ASSUME TypeInv, ~At("wait"), UNCHANGED <<pane, runs, queue, boot, answers>>,
         session' \in [Repls -> Seq(Lines) \cup {NoFile}], \A r \in Repls : Exists(r) => Exists(r)',
         minted' \in [Repls -> Requests \cup {None}],
         starting' \subseteq Repls, \A r \in starting' : r \in starting \/ Exists(r),
         edges' \subseteq Repls, post' \in Posts, temp' \in Seq(Claims),
         Named(claim'), Named(post'.claim),
         \A k \in DOMAIN temp' : Named(temp'[k]) /\ temp'[k].status # "none",
         Len(temp') <= spent.stop + (IF post'.pc = "rename" THEN 1 ELSE 0),
         Fault \/ UNCHANGED spent, Placed'
  PROVE TypeInv'
<1>1. spent' \in [{"fault", "stop", "drop", "death", "removal"} -> Nat] /\ spent'.stop = spent.stop
  BY FaultTyped DEF TypeInv
<1>2. TypeOK'
  BY <1>1 DEF TypeInv, Typed, TypeOK, At, Named
<1>3. Typed'
  BY <1>1, <1>2 DEF TypeInv, Typed
<1>4. ClaimsNamed'
  BY DEF ClaimsNamed, Held, Named
<1>5. ActiveHasSession'
  BY DEF TypeInv, ActiveHasSession, Active
<1>6. SpawnedFirst'
  BY DEF TypeInv, SpawnedFirst, Placed
<1>7. Awaited'
  BY DEF TypeInv, Awaited
<1> QED BY <1>3, <1>4, <1>5, <1>6, <1>7 DEF TypeInv, Placed

\* One on the claim files, the ledger or itself.
LEMMA FileStep ==
  ASSUME TypeInv, ~At("wait"), UNCHANGED <<session, world, minted, runs, queue, boot, answers>>,
         edges' \subseteq Repls, post' \in Posts, temp' \in Seq(Claims),
         Named(claim'), Named(post'.claim),
         \A k \in DOMAIN temp' : Named(temp'[k]) /\ temp'[k].status # "none",
         Len(temp') <= spent.stop + (IF post'.pc = "rename" THEN 1 ELSE 0),
         Fault \/ UNCHANGED spent, Placed'
  PROVE TypeInv'
<1>1. /\ UNCHANGED <<pane, starting, session, minted>> /\ starting \subseteq Repls
      /\ session \in [Repls -> Seq(Lines) \cup {NoFile}] /\ minted \in [Repls -> Requests \cup {None}]
  BY DEF world, TypeInv, Typed, TypeOK
<1>2. \A r \in Repls : Exists(r) => Exists(r)'
  BY <1>1 DEF Exists
<1> QED BY <1>1, <1>2, WideStep

\* One that writes no claim.
LEMMA BareStep ==
  ASSUME TypeInv, ~At("wait"), UNCHANGED <<disk, session, world, minted, runs, queue, boot, answers>>,
         edges' \subseteq Repls, ~At("rename"), post' \in Posts, Named(post'.claim),
         Fault \/ UNCHANGED spent, Placed'
  PROVE TypeInv'
<1>1. /\ temp \in Seq(Claims) /\ Len(temp) \in Nat /\ spent.stop \in Nat /\ Len(temp) <= spent.stop
      /\ claim' = claim /\ temp' = temp
  BY TempTyped DEF TypeInv, disk
<1> QED BY <1>1, AllNamed, FileStep

\* The request begins, ends, or goes on with the files as load_recovery_claim leaves them.
LEMMA BeginTypes ==
  ASSUME TypeInv, NEW q \in Requests, Begin(q)
  PROVE TypeInv'
<1>1. At("idle") /\ ~At("wait") /\ post.claim = NoClaim /\ edges' \subseteq Repls /\ (Fault \/ UNCHANGED spent)
  BY DEF Begin, TypeInv, RequestNamed, At, Typed, TypeOK
<1>2. CASE post' = [IdlePost EXCEPT !.pc = "resolve", !.request = q, !.links = Links]
  <2>1. post' \in Posts /\ post'.claim = NoClaim /\ post'.pc = "resolve"
    BY <1>2, LinksTyped, NoClaimTyped DEF TypeInv, IdlePost, Posts, Pcs
  <2>2. Placed'
    BY <2>1, NamedIs DEF Placed, RequestNamed, Renaming, Sending, At
  <2> QED BY <1>1, <2>1, <2>2, NamedIs, BareStep DEF Begin, At
<1>3. CASE UNCHANGED post
  <2>1. post' \in Posts /\ post'.claim = NoClaim /\ post'.pc = "idle"
    BY <1>1, <1>3 DEF TypeInv, Typed, At
  <2>2. Placed'
    BY <2>1, NamedIs DEF Placed, RequestNamed, Renaming, Sending, At
  <2> QED BY <1>1, <2>1, <2>2, NamedIs, BareStep DEF Begin, At
<1> QED BY <1>2, <1>3 DEF Begin

LEMMA EndTypes ==
  ASSUME TypeInv, End, Loading, ~At("rename"), ~At("wait"),
         UNCHANGED <<session, world, minted, runs, queue, boot, answers>>, edges' \subseteq Repls,
         Fault \/ UNCHANGED spent
  PROVE TypeInv'
<1>1. Placed' /\ post' \in Posts /\ post'.claim = NoClaim /\ post'.pc = "idle"
  BY Ended DEF End
<1>2. temp \in Seq(Claims) /\ Len(temp) \in Nat /\ spent.stop \in Nat /\ Len(temp) <= spent.stop
  BY TempTyped DEF TypeInv
<1>3. /\ Named(claim') /\ temp' \in Seq(Claims) /\ Len(temp') <= spent.stop
      /\ \A k \in DOMAIN temp' : Named(temp'[k]) /\ temp'[k].status # "none"
  BY <1>2, AllNamed, LoadedNamed DEF Loading
<1> QED BY <1>1, <1>2, <1>3, NamedIs, FileStep

LEMMA RefusalTypes ==
  ASSUME TypeInv, Unreadable \/ Conflict \/ ReconcileRefuses \/ NoAction \/ MintRefused
  PROVE TypeInv'
<1>1. /\ End /\ ~At("rename") /\ ~At("wait") /\ Loading
      /\ UNCHANGED <<session, world, minted, edges, runs, queue, boot, answers>>
      /\ Fault \/ UNCHANGED spent
  BY DEF Unreadable, Conflict, ReconcileRefuses, NoAction, MintRefused, At, Pending, Loading, disk
<1>2. edges' \subseteq Repls
  BY <1>1 DEF TypeInv, Typed, TypeOK
<1> QED BY <1>1, <1>2, EndTypes

LEMMA ResolveTypes ==
  ASSUME TypeInv, Resolve
  PROVE TypeInv'
<1> DEFINE res == Resolution(post.links)
<1>1. /\ At("resolve") /\ ~At("wait") /\ post.claim = NoClaim /\ post.links \in SUBSET (Repls \X Nat) /\ post \in Posts
      /\ edges' \subseteq Repls /\ (Fault \/ UNCHANGED spent)
      /\ UNCHANGED <<session, world, minted, runs, queue, boot, answers>>
  BY DEF Resolve, TypeInv, RequestNamed, At, Typed, TypeOK, Posts
<1>2. temp \in Seq(Claims) /\ Len(temp) \in Nat /\ spent.stop \in Nat /\ Len(temp) <= spent.stop
  BY <1>1, TempTyped DEF TypeInv, At
<1>3. /\ Named(res.claim) /\ res.temp \in Seq(Claims) /\ Len(res.temp) <= spent.stop
      /\ \A k \in DOMAIN res.temp : Named(res.temp[k]) /\ res.temp[k].status # "none"
  BY <1>1, <1>2, ResolvedNamed
<1> DEFINE b == res.kind = "missing" \/ res.claim.status = "pending"
<1>4. /\ b \in BOOLEAN
      /\ \/ post' = [post EXCEPT !.pc = "decide", !.offered = b] /\ claim' = res.claim /\ temp' = res.temp
         \/ post' = [post EXCEPT !.pc = "decide", !.offered = FALSE] /\ claim' = claim /\ temp' = temp
  BY DEF Resolve, disk
<1> HIDE DEF b, res
<1>5. post' \in Posts /\ post'.claim = NoClaim /\ post'.pc = "decide"
  BY <1>1, <1>4 DEF Posts, Pcs
<1>6. Placed'
  BY <1>5, NamedIs DEF Placed, RequestNamed, Renaming, Sending, At
<1>7. /\ Named(claim') /\ temp' \in Seq(Claims) /\ Len(temp') <= spent.stop
      /\ \A k \in DOMAIN temp' : Named(temp'[k]) /\ temp'[k].status # "none"
  BY <1>2, <1>3, <1>4, AllNamed
<1> QED BY <1>1, <1>2, <1>5, <1>6, <1>7, NamedIs, FileStep

LEMMA UnclaimedTypes ==
  ASSUME TypeInv, Unclaimed
  PROVE TypeInv'
<1>1. /\ At("decide") /\ ~At("wait") /\ post.claim = NoClaim /\ edges' \subseteq Repls
      /\ post' \in Posts /\ post'.claim = NoClaim /\ post'.pc = "act"
  BY DEF Unclaimed, Goto, TypeInv, RequestNamed, At, Typed, TypeOK, Posts, Pcs
<1>2. Placed'
  BY <1>1, NamedIs DEF Placed, RequestNamed, Renaming, Sending, At
<1> QED BY <1>1, <1>2, NamedIs, BareStep DEF Unclaimed, At

LEMMA CommittedTypes ==
  ASSUME TypeInv, Committed
  PROVE TypeInv'
<1> DEFINE res == Resolution(post.links)
           c == Loaded.claim
<1>1. /\ At("decide") /\ ~At("wait") /\ post.claim = NoClaim /\ post.links \in SUBSET (Repls \X Nat) /\ post \in Posts
      /\ edges' \subseteq Repls /\ UNCHANGED <<session, world, minted, runs, queue, boot, answers, spent>>
      /\ c.status = "committed"
  BY DEF Committed, TypeInv, RequestNamed, At, Typed, TypeOK, Posts
<1>2. spent.stop \in Nat /\ Len(temp) <= spent.stop /\ Len(temp) \in Nat
  BY <1>1, TempTyped DEF TypeInv, At
<1>3. /\ Named(res.claim) /\ res.temp \in Seq(Claims) /\ Len(res.temp) <= spent.stop
      /\ \A k \in DOMAIN res.temp : Named(res.temp[k]) /\ res.temp[k].status # "none"
      /\ Authoritative(res, c) => Exists(c.repl)
      /\ Named(c) /\ c # NoClaim
  BY <1>1, <1>2, ResolvedNamed, LoadedNamed, NamedIs
<1>4. /\ claim' = res.claim /\ temp' = res.temp
      /\ post' = IF ~Authoritative(res, c) THEN [post EXCEPT !.pc = "act"]
                 ELSE IF c.request = post.request
                 THEN [post EXCEPT !.pc = "associate_claim", !.claim = c]
                 ELSE IdlePost
  BY DEF Committed
<1> HIDE DEF res, c
<1>5. post' \in Posts /\ Named(post'.claim) /\ Placed' /\ post'.pc # "rename"
  <2>1. CASE post' = [post EXCEPT !.pc = "act"]
    <3>1. post' \in Posts /\ post'.claim = NoClaim /\ post'.pc = "act"
      BY <1>1, <2>1 DEF Posts, Pcs
    <3> QED BY <3>1, NamedIs DEF Placed, RequestNamed, Renaming, Sending, At
  <2>2. CASE post' = [post EXCEPT !.pc = "associate_claim", !.claim = c] /\ Authoritative(res, c)
    <3>1. post' \in Posts /\ post'.claim = c /\ post'.pc = "associate_claim"
      BY <1>1, <1>3, <2>2 DEF Posts, Pcs, Named
    <3>2. Exists(Mine)'
      BY <1>1, <1>3, <2>2, <3>1 DEF Exists, Mine
    <3> QED BY <1>3, <3>1, <3>2 DEF Placed, RequestNamed, Renaming, Sending, At
  <2>3. CASE post' = IdlePost
    BY <2>3, Ended, NamedIs
  <2> QED BY <1>4, <2>1, <2>2, <2>3
<1> QED BY <1>1, <1>2, <1>3, <1>4, <1>5, FileStep

LEMMA PlannedTypes ==
  ASSUME TypeInv, Planned
  PROVE TypeInv'
<1>1. /\ At("act") /\ ~At("wait") /\ post.claim # NoClaim /\ edges' \subseteq Repls
      /\ post' \in Posts /\ post'.claim = post.claim /\ post'.pc = "mark"
      /\ claim' = claim /\ session' = session
  BY DEF Planned, Goto, TypeInv, At, Typed, TypeOK, Posts, Pcs, disk
<1>2. /\ Exists(Mine) /\ (post.claim.status = "pending" => claim = post.claim)
  BY <1>1 DEF TypeInv, RequestNamed, Renaming, At
<1>3. Placed'
  BY <1>1, <1>2 DEF Placed, RequestNamed, Renaming, Sending, At, Exists, Mine
<1> QED BY <1>1, <1>3, AllNamed, BareStep DEF Planned, At

\* A session is created where there is none.
LEMMA CreatedTyped ==
  ASSUME TypeInv, NEW r \in Repls, session' = [session EXCEPT ![r] = <<>>]
  PROVE /\ session' \in [Repls -> Seq(Lines) \cup {NoFile}]
        /\ \A s \in Repls : Exists(s) => Exists(s)'
        /\ Exists(r)'
<1>1. <<>> \in Seq(Lines) /\ <<>> # NoFile
  BY DEF NoFile
<1> QED BY <1>1 DEF TypeInv, Typed, TypeOK, Exists

\* Reconcile and Rename: the session of the pending claim is there from now on.
LEMMA ReconcileTypes ==
  ASSUME TypeInv, Reconcile
  PROVE TypeInv'
<1>1. /\ At("decide") /\ ~At("wait") /\ post.claim = NoClaim /\ post \in Posts /\ edges' \subseteq Repls
      /\ UNCHANGED <<pane, starting, minted, edges, runs, queue, boot, answers, spent>>
      /\ starting \subseteq Repls /\ minted \in [Repls -> Requests \cup {None}]
      /\ session \in [Repls -> Seq(Lines) \cup {NoFile}]
      /\ Loaded.claim.status = "pending"
  BY DEF Reconcile, Pending, TypeInv, RequestNamed, At, Typed, TypeOK, world
<1>2. spent.stop \in Nat /\ Len(temp) <= spent.stop /\ Len(temp) \in Nat
  BY <1>1, TempTyped DEF TypeInv, At
<1>3. PICK c, r, rest, b : c = Loaded.claim /\ r = c.repl /\ rest = Loaded.temp /\ b = Reattachable(c)
  OBVIOUS
<1>4. /\ Named(c) /\ c \in Claims /\ c # NoClaim /\ r \in Repls /\ c.status = "pending"
      /\ rest \in Seq(Claims) /\ Len(rest) \in Nat /\ Len(rest) <= spent.stop
      /\ \A k \in DOMAIN rest : Named(rest[k]) /\ rest[k].status # "none"
      /\ b \in BOOLEAN
  <2>1. b \in BOOLEAN
    BY <1>3 DEF Reattachable, Present, Has, Exists
  <2> QED BY <1>1, <1>2, <1>3, <2>1, LoadedNamed, NamedIs
<1> DEFINE linked == Exists(r) /\ Has(r, "recovery_origin")
           done == [c EXCEPT !.status = "committed"]
<1>5. /\ session' = (IF Exists(r) THEN session ELSE [session EXCEPT ![r] = <<>>])
      /\ claim' = c
      /\ temp' = rest \o (IF linked THEN <<done>> ELSE <<>>)
      /\ post' = (IF linked
                  THEN [post EXCEPT !.pc = "rename", !.claim = done, !.next = "authority"]
                  ELSE [post EXCEPT !.pc = "act", !.claim = c, !.reattach = b])
  BY <1>3 DEF Reconcile
<1>6. /\ session' \in [Repls -> Seq(Lines) \cup {NoFile}]
      /\ \A x \in Repls : Exists(x) => Exists(x)'
      /\ Exists(r)'
  <2>1. CASE Exists(r)
    BY <1>1, <1>5, <2>1 DEF Exists
  <2>2. CASE ~Exists(r)
    BY <1>4, <1>5, <2>2, CreatedTyped
  <2> QED BY <2>1, <2>2
<1>7. CASE linked
  <2>1. done \in Claims /\ done.status = "committed" /\ done.repl = r /\ Named(done) /\ done # NoClaim
    BY <1>3, <1>4, NamedIs DEF Claims, Named
  <2>2. /\ temp' = rest \o <<done>>
        /\ post' = [post EXCEPT !.pc = "rename", !.claim = done, !.next = "authority"]
    BY <1>5, <1>7
  <2> HIDE DEF done, linked
  <2>3. /\ temp' \in Seq(Claims) /\ Len(temp') = Len(rest) + 1
        /\ \A k \in DOMAIN temp' : \/ k \in DOMAIN rest /\ temp'[k] = rest[k]
                                   \/ temp'[k] = done
    BY <1>4, <2>1, <2>2, AppendIs
  <2>4. post' \in Posts /\ post'.pc = "rename" /\ post'.claim = done /\ post'.next = "authority"
    BY <1>1, <2>1, <2>2 DEF Posts, Pcs, Nexts
  <2>5. Exists(Mine)'
    BY <1>6, <2>1, <2>4 DEF Exists, Mine
  <2>6. Placed'
    BY <2>1, <2>4, <2>5 DEF Placed, RequestNamed, Renaming, Sending, At
  <2>7. Len(temp') <= spent.stop + (IF post'.pc = "rename" THEN 1 ELSE 0)
    BY <1>2, <1>4, <2>3, <2>4
  <2>8. \A k \in DOMAIN temp' : Named(temp'[k]) /\ temp'[k].status # "none"
    BY <1>4, <2>1, <2>3
  <2>9. Named(claim') /\ Named(post'.claim)
    BY <1>4, <1>5, <2>1, <2>4
  <2> QED BY <1>1, <1>6, <2>3, <2>4, <2>6, <2>7, <2>8, <2>9, WideStep
<1>8. CASE ~linked
  <2>1. temp' = rest /\ post' = [post EXCEPT !.pc = "act", !.claim = c, !.reattach = b]
    BY <1>4, <1>5, <1>8, AppendIs, ConcatEmptySeq
  <2>2. post' \in Posts /\ post'.pc = "act" /\ post'.claim = c
    BY <1>1, <1>4, <2>1 DEF Posts, Pcs
  <2>3. Exists(Mine)'
    BY <1>3, <1>6, <2>2 DEF Exists, Mine
  <2>4. Placed'
    BY <1>5, <2>2, <2>3 DEF Placed, RequestNamed, Renaming, Sending, At
  <2>5. Len(temp') <= spent.stop + (IF post'.pc = "rename" THEN 1 ELSE 0)
    BY <1>2, <1>4, <2>1, <2>2
  <2>6. Named(claim') /\ Named(post'.claim)
    BY <1>4, <1>5, <2>2
  <2> QED BY <1>1, <1>4, <1>6, <2>1, <2>2, <2>4, <2>5, <2>6, WideStep
<1> QED BY <1>7, <1>8

LEMMA RenameTypes ==
  ASSUME TypeInv, Rename
  PROVE TypeInv'
<1>1. /\ At("rename") /\ ~At("wait") /\ post.claim # NoClaim /\ post \in Posts /\ edges' \subseteq Repls
      /\ UNCHANGED <<pane, starting, minted, edges, runs, queue, boot, answers>>
      /\ starting \subseteq Repls /\ minted \in [Repls -> Requests \cup {None}]
      /\ session \in [Repls -> Seq(Lines) \cup {NoFile}]
      /\ post.next \in {"mark", "execute", "authority", "answer"}
      /\ Mine \in Repls /\ (Fault \/ UNCHANGED spent)
      /\ (post.next # "mark" => Exists(Mine))
      /\ (post.next = "authority" => post.claim.status = "committed")
  BY AllNamed DEF Rename, TypeInv, RequestNamed, At, Renaming, Typed, TypeOK, world
<1>2. /\ temp' = Front(temp) /\ temp' \in Seq(Claims) /\ Len(temp') <= spent.stop /\ spent.stop \in Nat
      /\ Len(temp') \in Nat
      /\ \A k \in DOMAIN temp' : k \in DOMAIN temp /\ temp'[k] = temp[k]
  BY <1>1, FrontTyped, TempTyped DEF Rename, TempGone, TypeInv
<1>3. \A k \in DOMAIN temp' : Named(temp'[k]) /\ temp'[k].status # "none"
  BY <1>2, AllNamed
<1>4. CASE claim' = post.claim /\ post' = [post EXCEPT !.pc = post.next]
  <2>1. post' \in Posts /\ post'.pc = post.next /\ post'.claim = post.claim /\ post'.next = post.next
    BY <1>1, <1>4 DEF Posts, Pcs
  <2>2. /\ session' \in [Repls -> Seq(Lines) \cup {NoFile}]
        /\ \A x \in Repls : Exists(x) => Exists(x)'
        /\ Exists(Mine)'
    <3>1. PICK r \in Repls : r = Mine
      BY <1>1
    <3>2. \/ session' = session /\ Exists(r)
          \/ session' = [session EXCEPT ![r] = <<>>]
      BY <1>1, <2>1, <3>1 DEF Rename, Mine
    <3>3. /\ session' \in [Repls -> Seq(Lines) \cup {NoFile}]
          /\ \A x \in Repls : Exists(x) => Exists(x)'
          /\ Exists(r)'
      BY <1>1, <3>2, CreatedTyped DEF Exists
    <3>4. Mine' = r
      BY <2>1, <3>1 DEF Mine
    <3> QED BY <3>3, <3>4 DEF Exists
  <2>3. Placed'
    BY <1>1, <1>4, <2>1, <2>2 DEF Placed, RequestNamed, Renaming, Sending, At
  <2>4. Named(claim') /\ Named(post'.claim)
    BY <1>4, <2>1, AllNamed
  <2>5. Len(temp') <= spent.stop + (IF post'.pc = "rename" THEN 1 ELSE 0)
    BY <1>1, <1>2, <2>1
  <2> QED BY <1>1, <1>2, <1>3, <2>1, <2>2, <2>3, <2>4, <2>5, WideStep
<1>5. CASE post' = IdlePost /\ claim' \in {claim, post.claim}
  <2>1. Placed' /\ post' \in Posts /\ post'.claim = NoClaim /\ post'.pc = "idle"
    BY <1>5, Ended
  <2>2. session' = session
    BY <2>1 DEF Rename
  <2>3. Named(claim') /\ Named(post'.claim)
    BY <1>5, <2>1, AllNamed, NamedIs
  <2>4. \A x \in Repls : Exists(x) => Exists(x)'
    BY <2>2 DEF Exists
  <2>5. Len(temp') <= spent.stop + (IF post'.pc = "rename" THEN 1 ELSE 0)
    BY <1>2, <2>1
  <2> QED BY <1>1, <1>2, <1>3, <2>1, <2>2, <2>3, <2>4, <2>5, WideStep
<1> QED BY <1>4, <1>5 DEF Rename, Goto, End

\* The other steps on the claim files.
LEMMA AuthorityTypes ==
  ASSUME TypeInv, Authority
  PROVE TypeInv'
<1> DEFINE res == Resolution(post.links)
<1>1. /\ At("authority") /\ ~At("wait") /\ post.claim # NoClaim /\ post \in Posts /\ edges' \subseteq Repls
      /\ post.links \in SUBSET (Repls \X Nat) /\ post.claim.status = "committed" /\ Exists(Mine)
      /\ UNCHANGED <<session, world, minted, runs, queue, boot, answers, spent>>
      /\ claim' = res.claim /\ temp' = res.temp
      /\ \E to \in {"associate_claim", "act"} : post' = [post EXCEPT !.pc = to]
  BY DEF Authority, Goto, TypeInv, RequestNamed, At, Renaming, Typed, TypeOK, Posts
<1>2. spent.stop \in Nat /\ Len(temp) <= spent.stop /\ Len(temp) \in Nat
  BY <1>1, TempTyped DEF TypeInv, At
<1>3. /\ Named(res.claim) /\ res.temp \in Seq(Claims) /\ Len(res.temp) <= spent.stop
      /\ \A k \in DOMAIN res.temp : Named(res.temp[k]) /\ res.temp[k].status # "none"
  BY <1>1, <1>2, ResolvedNamed
<1> HIDE DEF res
<1>4. post' \in Posts /\ post'.pc \in {"associate_claim", "act"} /\ post'.claim = post.claim
  BY <1>1 DEF Posts, Pcs
<1>5. Placed'
  BY <1>1, <1>4 DEF Placed, RequestNamed, Renaming, Sending, At, Exists, Mine
<1> QED BY <1>1, <1>2, <1>3, <1>4, <1>5, AllNamed, FileStep

LEMMA MintTypes ==
  ASSUME TypeInv, NEW r \in Repls, Mint(r)
  PROVE TypeInv'
<1> DEFINE c == Claim("pending", r, post.request, FALSE)
<1>1. /\ At("act") /\ ~At("wait") /\ post \in Posts /\ edges' \subseteq Repls
      /\ UNCHANGED <<pane, starting, session, edges, runs, queue, boot, answers, spent>>
      /\ starting \subseteq Repls /\ minted \in [Repls -> Requests \cup {None}]
      /\ session \in [Repls -> Seq(Lines) \cup {NoFile}]
      /\ claim' = claim /\ temp' = Append(temp, c)
      /\ post' = [post EXCEPT !.pc = "rename", !.claim = c, !.next = "mark"]
      /\ minted' = [minted EXCEPT ![r] = post.request] /\ post.request \in Requests \cup {None}
  BY DEF Mint, TypeInv, Typed, TypeOK, world, Posts, At
<1>2. spent.stop \in Nat /\ Len(temp) <= spent.stop /\ Len(temp) \in Nat /\ temp \in Seq(Claims)
  BY <1>1, TempTyped DEF TypeInv, At
<1>3. c \in Claims /\ c.status = "pending" /\ c.repl = r /\ Named(c) /\ c # NoClaim
  BY <1>1, RecoveryAssumption, NamedIs DEF Claim, Claims, Named
<1> HIDE DEF c
<1>4. /\ temp' \in Seq(Claims) /\ Len(temp') = Len(temp) + 1
      /\ \A k \in DOMAIN temp' : \/ k \in DOMAIN temp /\ temp'[k] = temp[k]
                                 \/ temp'[k] = c
  BY <1>1, <1>2, <1>3, AppendIs
<1>5. post' \in Posts /\ post'.pc = "rename" /\ post'.claim = c /\ post'.next = "mark"
  BY <1>1, <1>3 DEF Posts, Pcs, Nexts
<1>6. Placed'
  BY <1>3, <1>5 DEF Placed, RequestNamed, Renaming, Sending, At
<1>7. Len(temp') <= spent.stop + (IF post'.pc = "rename" THEN 1 ELSE 0)
  BY <1>2, <1>4, <1>5
<1>8. /\ Named(claim') /\ Named(post'.claim)
      /\ \A k \in DOMAIN temp' : Named(temp'[k]) /\ temp'[k].status # "none"
  BY <1>1, <1>3, <1>4, <1>5, AllNamed
<1>9. /\ minted' \in [Repls -> Requests \cup {None}]
      /\ \A x \in Repls : Exists(x) => Exists(x)'
  BY <1>1 DEF Exists
<1> QED BY <1>1, <1>4, <1>5, <1>6, <1>7, <1>8, <1>9, WideStep

LEMMA MarkTypes ==
  ASSUME TypeInv, Mark
  PROVE TypeInv'
<1>1. /\ At("mark") /\ ~At("wait") /\ ~At("rename") /\ post.claim # NoClaim /\ post \in Posts /\ edges' \subseteq Repls
      /\ Exists(Mine) /\ (post.claim.status = "pending" => claim = post.claim)
      /\ UNCHANGED <<session, world, minted, runs, queue, boot, answers, spent>>
  BY DEF Mark, TypeInv, RequestNamed, At, Renaming, Typed, TypeOK
<1>2. /\ spent.stop \in Nat /\ Len(temp) <= spent.stop /\ Len(temp) \in Nat /\ temp \in Seq(Claims)
      /\ Named(post.claim) /\ post.claim \in Claims
  BY <1>1, TempTyped, AllNamed, NamedIs DEF TypeInv
<1>3. CASE post.claim.status # "pending"
  <2>1. post' \in Posts /\ post'.pc = "execute" /\ post'.claim = post.claim
    BY <1>1, <1>3 DEF Mark, Goto, Posts, Pcs
  <2>2. Placed'
    BY <1>1, <2>1 DEF Placed, RequestNamed, Renaming, Sending, At, Exists, Mine
  <2> QED BY <1>1, <1>2, <1>3, <2>1, <2>2, BareStep DEF Mark
<1>4. CASE post.claim.status = "pending"
  <2>1. /\ claim = post.claim /\ claim # NoClaim /\ Loaded.claim = claim /\ Loaded.temp = temp
    BY <1>1, <1>4, LoadedNamed
  <2> DEFINE c == [claim EXCEPT !.started = TRUE]
  <2>2. /\ claim' = claim
        /\ \/ post' = [post EXCEPT !.pc = "execute", !.claim = claim] /\ temp' = temp
           \/ /\ post' = [post EXCEPT !.pc = "rename", !.claim = c, !.next = "execute"]
              /\ temp' = Append(temp, c)
    BY <1>4, <2>1 DEF Mark
  <2>3. /\ c \in Claims /\ c.status = "pending" /\ c.repl = Mine /\ Named(c) /\ c # NoClaim
    BY <1>2, <1>4, <2>1, NamedIs DEF Claims, Named, Mine
  <2> HIDE DEF c
  <2>4. CASE post' = [post EXCEPT !.pc = "execute", !.claim = claim] /\ temp' = temp
    <3>1. post' \in Posts /\ post'.pc = "execute" /\ post'.claim = post.claim
      BY <1>1, <1>2, <2>1, <2>4 DEF Posts, Pcs
    <3>2. Placed'
      BY <1>1, <3>1 DEF Placed, RequestNamed, Renaming, Sending, At, Exists, Mine
    <3> QED BY <1>1, <1>2, <2>2, <2>4, <3>1, <3>2, BareStep DEF disk
  <2>5. CASE /\ post' = [post EXCEPT !.pc = "rename", !.claim = c, !.next = "execute"]
             /\ temp' = Append(temp, c)
    <3>1. post' \in Posts /\ post'.pc = "rename" /\ post'.claim = c /\ post'.next = "execute"
      BY <1>1, <2>3, <2>5 DEF Posts, Pcs, Nexts
    <3>2. Placed'
      BY <1>1, <2>3, <3>1 DEF Placed, RequestNamed, Renaming, Sending, At, Exists, Mine
    <3>3. /\ temp' \in Seq(Claims) /\ Len(temp') = Len(temp) + 1
          /\ \A k \in DOMAIN temp' : \/ k \in DOMAIN temp /\ temp'[k] = temp[k]
                                     \/ temp'[k] = c
      BY <1>2, <2>3, <2>5, AppendIs
    <3>4. /\ Named(claim') /\ Named(post'.claim)
          /\ \A k \in DOMAIN temp' : Named(temp'[k]) /\ temp'[k].status # "none"
      BY <2>2, <2>3, <3>1, <3>3, AllNamed
    <3>5. Len(temp') <= spent.stop + (IF post'.pc = "rename" THEN 1 ELSE 0)
      BY <1>2, <3>1, <3>3
    <3> QED BY <1>1, <3>1, <3>2, <3>3, <3>4, <3>5, FileStep
  <2> QED BY <2>2, <2>4, <2>5
<1> QED BY <1>3, <1>4

LEMMA CommitTypes ==
  ASSUME TypeInv, Commit
  PROVE TypeInv'
<1>1. /\ At("commit") /\ ~At("wait") /\ ~At("rename") /\ post.claim # NoClaim /\ post \in Posts /\ edges' \subseteq Repls
      /\ Exists(Mine) /\ Mine \in Repls
      /\ UNCHANGED <<session, world, minted, runs, queue, boot, answers, spent>>
  BY AllNamed DEF Commit, TypeInv, RequestNamed, At, Renaming, Typed, TypeOK
<1>2. spent.stop \in Nat /\ Len(temp) <= spent.stop /\ Len(temp) \in Nat
  BY <1>1, TempTyped DEF TypeInv
<1>3. CASE End /\ UNCHANGED disk
  BY <1>1, <1>3, EndTypes DEF Loading, disk
<1>4. CASE ~(End /\ UNCHANGED disk)
  <2> DEFINE l == Loaded.claim
             rest == Loaded.temp
             c == [l EXCEPT !.status = "committed"]
  <2>1. /\ claim' = l /\ temp' = Append(rest, c) /\ l.repl = Mine
        /\ post' = [post EXCEPT !.pc = "rename", !.claim = c, !.next = "answer"]
    BY <1>4 DEF Commit
  <2>2. /\ Named(l) /\ rest \in Seq(Claims) /\ Len(rest) \in Nat /\ Len(rest) <= spent.stop
        /\ \A k \in DOMAIN rest : Named(rest[k]) /\ rest[k].status # "none"
    BY <1>2, LoadedNamed
  <2>3. c \in Claims /\ c.status = "committed" /\ c.repl = Mine /\ Named(c) /\ c # NoClaim
    BY <1>1, <2>1, <2>2, RecoveryAssumption, NamedIs DEF Claims, Named
  <2> HIDE DEF c, l, rest
  <2>4. post' \in Posts /\ post'.pc = "rename" /\ post'.claim = c /\ post'.next = "answer"
    BY <1>1, <2>1, <2>3 DEF Posts, Pcs, Nexts
  <2>5. Placed'
    BY <1>1, <2>3, <2>4 DEF Placed, RequestNamed, Renaming, Sending, At, Exists, Mine
  <2>6. /\ temp' \in Seq(Claims) /\ Len(temp') = Len(rest) + 1
        /\ \A k \in DOMAIN temp' : \/ k \in DOMAIN rest /\ temp'[k] = rest[k]
                                   \/ temp'[k] = c
    BY <2>1, <2>2, <2>3, AppendIs
  <2>7. /\ Named(claim') /\ Named(post'.claim)
        /\ \A k \in DOMAIN temp' : Named(temp'[k]) /\ temp'[k].status # "none"
    BY <2>1, <2>2, <2>3, <2>4, <2>6
  <2>8. Len(temp') <= spent.stop + (IF post'.pc = "rename" THEN 1 ELSE 0)
    BY <1>2, <2>2, <2>4, <2>6
  <2> QED BY <1>1, <2>4, <2>5, <2>6, <2>7, <2>8, FileStep
<1> QED BY <1>3, <1>4

\* The steps that leave the claim files alone.
LEMMA ClaimsStay ==
  ASSUME TypeInv, disk' = disk, post'.claim \in {NoClaim, post.claim},
         Typed', ActiveHasSession', Placed', Awaited',
         \A k \in DOMAIN queue' : queue'[k].owner = "boot" => pane'[queue'[k].repl] # "none"
  PROVE TypeInv'
<1>1. Held' \subseteq Held \cup {NoClaim}
  BY DEF Held, disk
<1>2. ClaimsNamed'
  BY <1>1, NamedIs DEF TypeInv, ClaimsNamed, disk
<1>3. SpawnedFirst'
  BY DEF SpawnedFirst, Placed
<1> QED BY <1>2, <1>3 DEF TypeInv, Placed

\* The request stays where it is.
LEMMA StillPlaced ==
  ASSUME TypeInv, post' = post, claim' = claim \/ post.pc \notin {"act", "mark"},
         \A r \in Repls : Exists(r) => Exists(r)',
         \A r \in Repls : pane[r] # "none" => pane'[r] # "none"
  PROVE Placed'
<1>1. Mine' = Mine /\ (post.claim # NoClaim => Mine \in Repls)
  BY AllNamed DEF Mine
<1>2. post.claim # NoClaim /\ Exists(Mine) => Exists(Mine)'
  <2> SUFFICES ASSUME post.claim # NoClaim, Exists(Mine) PROVE Exists(Mine)'
    OBVIOUS
  <2>1. PICK r \in Repls : r = Mine
    BY <1>1
  <2>2. Exists(r) /\ Mine' = r
    BY <1>1, <2>1 DEF Exists
  <2> QED BY <2>1, <2>2 DEF Exists
<1>3. RequestNamed'
  BY <1>1, <1>2 DEF TypeInv, RequestNamed, Renaming, At
<1>4. At("insert") \/ At("backfill") \/ Sending("backfill") \/ Sending("insert") => post.claim # NoClaim
  BY DEF TypeInv, RequestNamed, Sending, At
<1> QED BY <1>1, <1>3, <1>4 DEF TypeInv, SpawnedFirst, Placed, Sending, At

\* The request goes on with the claim and the files it has.
LEMMA GoTypes ==
  ASSUME TypeInv, NEW to \in {"associate", "backfill", "spawning", "execute", "insert", "commit",
                             "publish", "answer"},
         post.pc \notin {"idle", "resolve", "decide", "act", "rename"},
         post' = [post EXCEPT !.pc = to], session' = session, pane' = pane,
         to \in {"backfill", "insert"} => pane[Mine] # "none"
  PROVE Placed' /\ post' \in Posts /\ post'.claim = post.claim /\ post'.pc = to /\ Named(post'.claim)
<1>1. post' \in Posts /\ post'.claim = post.claim /\ post'.pc = to
  BY DEF TypeInv, Typed, Posts, Pcs
<1>2. post.claim # NoClaim /\ Exists(Mine)
  BY DEF TypeInv, RequestNamed, Renaming, At
<1>3. Mine' = Mine /\ Exists(Mine)'
  BY <1>1, <1>2 DEF Exists, Mine
<1>4. Placed'
  BY <1>1, <1>2, <1>3 DEF Placed, RequestNamed, Renaming, Sending, At
<1> QED BY <1>1, <1>4, AllNamed

LEMMA ReattachTypes ==
  ASSUME TypeInv, Reattach
  PROVE TypeInv'
<1>1. /\ At("execute") /\ ~At("wait") /\ ~At("rename") /\ edges' \subseteq Repls /\ session' = session /\ pane' = pane
      /\ UNCHANGED <<disk, session, world, minted, runs, queue, boot, answers, spent>>
  BY DEF Reattach, TypeInv, At, Typed, TypeOK, world
<1>2. CASE End
  BY <1>1, <1>2, EndTypes DEF Loading, disk
<1>3. CASE Goto("associate")
  BY <1>1, <1>3, GoTypes, BareStep DEF Goto, At
<1>4. CASE Goto("backfill") /\ pane[Mine] = "live"
  BY <1>1, <1>4, GoTypes, BareStep DEF Goto, At
<1> QED BY <1>2, <1>3, <1>4 DEF Reattach

LEMMA SpawnTypes ==
  ASSUME TypeInv, Spawn
  PROVE TypeInv'
<1>1. /\ At("execute") /\ ~At("wait") /\ ~At("rename") /\ edges' \subseteq Repls /\ post.claim # NoClaim /\ Exists(Mine)
      /\ Mine \in Repls
      /\ UNCHANGED <<disk, session, pane, minted, runs, queue, boot, answers>>
      /\ session \in [Repls -> Seq(Lines) \cup {NoFile}] /\ minted \in [Repls -> Requests \cup {None}]
      /\ starting \subseteq Repls /\ \A r \in Repls : Exists(r) => Exists(r)'
  BY AllNamed DEF Spawn, TypeInv, RequestNamed, Renaming, At, Typed, TypeOK, Exists
<1>2. CASE starting' = starting \cup {Mine} /\ Goto("spawning") /\ UNCHANGED spent
  <2>1. Placed' /\ post' \in Posts /\ post'.pc = "spawning" /\ Named(post'.claim)
    BY <1>1, <1>2, GoTypes DEF Goto, At
  <2>2. /\ temp' \in Seq(Claims) /\ Named(claim')
        /\ \A k \in DOMAIN temp' : Named(temp'[k]) /\ temp'[k].status # "none"
        /\ Len(temp') <= spent.stop + (IF post'.pc = "rename" THEN 1 ELSE 0)
    BY <1>1, <2>1, AllNamed, TempTyped DEF disk, TypeInv
  <2>3. starting' \subseteq Repls /\ \A r \in starting' : r \in starting \/ Exists(r)
    BY <1>1, <1>2
  <2> QED BY <1>1, <1>2, <2>1, <2>2, <2>3, WideStep
<1>3. CASE End /\ UNCHANGED starting /\ (Fault \/ UNCHANGED spent)
  BY <1>1, <1>3, EndTypes DEF Loading, disk, world
<1> QED BY <1>2, <1>3 DEF Spawn

LEMMA AssociateTypes ==
  ASSUME TypeInv, Associate
  PROVE TypeInv'
<1>1. /\ post.pc \in {"associate", "associate_claim"} /\ ~At("wait") /\ ~At("rename") /\ post.claim # NoClaim
      /\ Mine \in Repls /\ edges' \subseteq Repls /\ session' = session /\ pane' = pane
      /\ UNCHANGED <<disk, session, world, minted, runs, queue, boot, answers>>
  <2>1. post.pc \in {"associate", "associate_claim"}
    BY DEF Associate, At
  <2>2. post.claim # NoClaim /\ Mine \in Repls
    BY <2>1, AllNamed DEF TypeInv, RequestNamed
  <2> QED BY <2>1, <2>2 DEF Associate, TypeInv, At, Typed, TypeOK, world
<1>2. CASE End /\ Fault
  BY <1>1, <1>2, EndTypes DEF Loading, disk
<1>3. CASE Goto("publish") /\ UNCHANGED spent
  BY <1>1, <1>3, GoTypes, BareStep DEF Goto, At
<1>4. CASE Goto("answer") /\ UNCHANGED spent
  BY <1>1, <1>4, GoTypes, BareStep DEF Goto, At
<1> QED BY <1>2, <1>3, <1>4 DEF Associate

\* Backfill: what is missing of the plan, in order.
LEMMA BackfillTypes ==
  ASSUME TypeInv, Backfill
  PROVE TypeInv'
<1>1. /\ At("backfill") /\ ~At("wait") /\ ~At("rename") /\ post.claim # NoClaim /\ Mine \in Repls
      /\ Exists(Mine) /\ pane[Mine] # "none" /\ edges' \subseteq Repls /\ post \in Posts
      /\ UNCHANGED <<disk, session, world, minted, runs, queue, boot, answers, spent>>
      /\ session' = session /\ pane' = pane
  BY AllNamed DEF Backfill, TypeInv, RequestNamed, Renaming, SpawnedFirst, At, Typed, TypeOK, world
<1>2. CASE ~PrefixMatches(post.claim)
  BY <1>1, <1>2, EndTypes DEF Backfill, Loading, disk
<1>3. CASE PrefixMatches(post.claim)
  <2> DEFINE m == Len(session[Mine])
             rest == SubSeq(Prefix, m + 1, Len(Prefix))
  <2>1. post' = [post EXCEPT !.pc = "send", !.next = "insert", !.todo = rest]
    BY <1>3 DEF Backfill
  <2>2. m \in Nat /\ m <= 4
    BY <1>1, <1>3, PrefixOf DEF PrefixMatches, Mine, TypeInv
  <2>3. rest \in Seq(Lines)
    <3> HIDE DEF m
    <3>1. m \in Int /\ 0 <= m /\ m <= Len(Prefix) /\ Prefix \in Seq(Lines)
      BY <2>2, PrefixIs
    <3> QED BY <3>1, Rest
  <2> HIDE DEF rest, m
  <2>4. post' \in Posts /\ post'.claim = post.claim /\ post'.pc = "send" /\ post'.next = "insert"
    BY <1>1, <2>1, <2>3 DEF Posts, Pcs, Nexts
  <2>5. Mine' = Mine /\ Exists(Mine)'
    BY <1>1, <2>4 DEF Mine, Exists
  <2>6. Placed'
    BY <1>1, <2>4, <2>5 DEF Placed, RequestNamed, Renaming, Sending, At
  <2> QED BY <1>1, <2>4, <2>6, AllNamed, BareStep
<1> QED BY <1>2, <1>3

\* Publish: the link, unless it is there.
LEMMA PublishTypes ==
  ASSUME TypeInv, Publish
  PROVE TypeInv'
<1>1. /\ At("publish") /\ ~At("wait") /\ ~At("rename") /\ post.claim # NoClaim /\ Mine \in Repls
      /\ Exists(Mine) /\ edges' \subseteq Repls /\ post \in Posts
      /\ UNCHANGED <<disk, session, world, minted, runs, queue, boot, answers, spent>>
      /\ session' = session
  BY AllNamed DEF Publish, TypeInv, RequestNamed, Renaming, At, Typed, TypeOK
<1>2. post' \in Posts /\ post'.claim = post.claim /\ post'.pc = "send" /\ post'.next = "commit"
  <2>1. "recovery_origin" \in Lines
    BY PrefixIs DEF Lines
  <2>2. <<>> \in Seq(Lines) /\ <<"recovery_origin">> \in Seq(Lines)
    BY <2>1
  <2> QED BY <1>1, <2>2 DEF Publish, Posts, Pcs, Nexts
<1>3. Mine' = Mine /\ Exists(Mine)'
  BY <1>1, <1>2 DEF Mine, Exists
<1>4. Placed'
  BY <1>1, <1>2, <1>3 DEF Placed, RequestNamed, Renaming, Sending, At
<1> QED BY <1>1, <1>2, <1>4, AllNamed, BareStep

\* The queue grows by one append.
LEMMA QueueGrowsTyped ==
  ASSUME Typed, NEW d \in Request, queue' = Append(queue, d)
  PROVE /\ queue' \in Seq(Request)
        /\ \A k \in DOMAIN queue' : \/ k \in DOMAIN queue /\ queue'[k] = queue[k]
                                    \/ k = Len(queue) + 1 /\ queue'[k] = d
<1>1. queue \in Seq(Request) /\ Len(queue) \in Nat /\ DOMAIN queue = 1..Len(queue)
  BY QueueTyped
<1> QED BY <1>1, AppendProperties

\* Send: the next line goes to the writer, or there is none left.
LEMMA SendTypes ==
  ASSUME TypeInv, Send
  PROVE TypeInv'
<1>1. /\ At("send") /\ ~At("wait") /\ ~At("rename") /\ post.claim # NoClaim /\ Mine \in Repls
      /\ Exists(Mine) /\ edges' \subseteq Repls /\ post \in Posts /\ post.todo \in Seq(Lines)
      /\ post.next \in {"backfill", "insert", "commit"}
      /\ post.next # "commit" => pane[Mine] # "none"
      /\ UNCHANGED <<disk, session, world, minted, runs, boot, answers, spent>>
      /\ session' = session /\ pane' = pane
  BY AllNamed DEF Send, TypeInv, RequestNamed, Renaming, SpawnedFirst, Sending, At, Typed, TypeOK, Posts, world
<1>2. CASE post.todo = <<>>
  <2>1. /\ UNCHANGED queue /\ Goto(post.next)
    BY <1>2 DEF Send
  <2>2. Placed' /\ post' \in Posts /\ Named(post'.claim)
    <3>1. PICK to \in {"backfill", "insert", "commit"} : to = post.next
      BY <1>1
    <3>2. post' = [post EXCEPT !.pc = to]
      BY <2>1, <3>1 DEF Goto
    <3>3. post.pc \notin {"idle", "resolve", "decide", "act", "rename"}
      BY <1>1 DEF At
    <3> QED BY <1>1, <3>1, <3>2, <3>3, GoTypes
  <2> QED BY <1>1, <2>1, <2>2, BareStep
<1>3. CASE post.todo # <<>>
  <2> DEFINE d == [repl |-> Mine, line |-> Head(post.todo), owner |-> "post"]
  <2>1. queue' = Append(queue, d) /\ post' = [post EXCEPT !.pc = "wait"]
    BY <1>3 DEF Send, Goto
  <2>2. d \in Request /\ d.owner = "post"
    <3>1. Head(post.todo) \in Lines
      BY <1>1, <1>3, HeadTailProperties
    <3> QED BY <1>1, <3>1 DEF Request
  <2> HIDE DEF d
  <2>3. /\ queue' \in Seq(Request)
        /\ \A k \in DOMAIN queue' : \/ k \in DOMAIN queue /\ queue'[k] = queue[k]
                                    \/ k = Len(queue) + 1 /\ queue'[k] = d
    BY <2>1, <2>2, QueueGrowsTyped DEF TypeInv
  <2>4. post' \in Posts /\ post'.claim = post.claim /\ post'.pc = "wait" /\ post'.next = post.next
        /\ post'.todo = post.todo
    BY <1>1, <2>1 DEF Posts, Pcs
  <2>5. Mine' = Mine /\ Exists(Mine)'
    BY <1>1, <2>4 DEF Mine, Exists
  <2>6. Placed'
    BY <1>1, <2>4, <2>5 DEF Placed, RequestNamed, Renaming, Sending, At
  <2>7. \A k \in DOMAIN queue : queue[k].owner # "post"
    BY <1>1 DEF TypeInv, Awaited
  <2>8. Awaited'
    BY <1>3, <2>2, <2>3, <2>4, <2>7 DEF Awaited, At
  <2>9. Typed'
    <3>1. Len(temp') <= spent'.stop + (IF At("rename")' THEN 1 ELSE 0)
      BY <1>1, <2>4, TempTyped DEF TypeInv, disk, At
    <3>2. TypeOK'
      BY <1>1, <2>3, <3>1 DEF TypeInv, Typed, TypeOK, Request, disk, world
    <3> QED BY <1>1, <2>4, <3>2 DEF TypeInv, Typed
  <2>10. ActiveHasSession'
    BY <1>1 DEF TypeInv, ActiveHasSession, Active, Exists, world
  <2>11. \A k \in DOMAIN queue' : queue'[k].owner = "boot" => pane'[queue'[k].repl] # "none"
    BY <1>1, <2>2, <2>3 DEF TypeInv, SpawnedFirst
  <2> QED BY <1>1, <2>4, <2>6, <2>8, <2>9, <2>10, <2>11, ClaimsStay
<1> QED BY <1>2, <1>3

\* Insert: the record of a replacement whose pane is there.
LEMMA InsertTypes ==
  ASSUME TypeInv, Insert
  PROVE TypeInv'
<1>1. /\ At("insert") /\ ~At("wait") /\ ~At("rename") /\ post.claim # NoClaim /\ Mine \in Repls
      /\ pane[Mine] # "none" /\ runs' = runs \cup {Mine} /\ post' = [post EXCEPT !.pc = "associate"]
      /\ UNCHANGED <<disk, session, world, minted, edges, queue, boot, answers, spent>>
      /\ session' = session /\ pane' = pane
  BY AllNamed DEF Insert, Goto, TypeInv, RequestNamed, SpawnedFirst, At, world
<1>2. Placed' /\ post' \in Posts /\ post'.claim = post.claim /\ post'.pc = "associate"
  <2>1. post.pc \notin {"idle", "resolve", "decide", "act", "rename"}
    BY <1>1 DEF At
  <2> QED BY <1>1, <2>1, GoTypes
<1>3. Typed'
  <2>1. Len(temp') <= spent'.stop + (IF At("rename")' THEN 1 ELSE 0)
    BY <1>1, <1>2, TempTyped DEF TypeInv, disk, At
  <2>2. runs' \subseteq {r \in Repls : pane'[r] # "none"}
    BY <1>1 DEF TypeInv, Typed, TypeOK
  <2>3. TypeOK'
    BY <1>1, <2>1, <2>2 DEF TypeInv, Typed, TypeOK, disk, world
  <2> QED BY <1>1, <1>2, <2>3 DEF TypeInv, Typed
<1>4. ActiveHasSession'
  BY <1>1 DEF TypeInv, ActiveHasSession, Active, Exists, world
<1>5. Awaited' /\ \A k \in DOMAIN queue' : queue'[k].owner = "boot" => pane'[queue'[k].repl] # "none"
  BY <1>1 DEF TypeInv, Awaited, SpawnedFirst
<1> QED BY <1>1, <1>2, <1>3, <1>4, <1>5, ClaimsStay

\* Answer: the replacement of the claim is handed out.
LEMMA AnswerTypes ==
  ASSUME TypeInv, Answer
  PROVE TypeInv'
<1>1. /\ At("answer") /\ ~At("wait") /\ ~At("rename") /\ post.claim # NoClaim /\ Mine \in Repls
      /\ answers' = answers \cup {Mine} /\ post' = IdlePost
      /\ UNCHANGED <<disk, session, world, minted, edges, runs, queue, boot, spent>>
  BY AllNamed DEF Answer, End, TypeInv, RequestNamed, At
<1>2. Placed' /\ post' \in Posts /\ post'.claim = NoClaim /\ post'.pc = "idle"
  BY <1>1, Ended
<1>3. Typed'
  <2>1. Len(temp') <= spent'.stop + (IF At("rename")' THEN 1 ELSE 0)
    BY <1>1, <1>2, TempTyped DEF TypeInv, disk, At
  <2>2. TypeOK'
    BY <1>1, <2>1 DEF TypeInv, Typed, TypeOK, disk, world
  <2> QED BY <1>1, <1>2, <2>2 DEF TypeInv, Typed
<1>4. ActiveHasSession'
  BY <1>1 DEF TypeInv, ActiveHasSession, Active, Exists, world
<1>5. Awaited' /\ \A k \in DOMAIN queue' : queue'[k].owner = "boot" => pane'[queue'[k].repl] # "none"
  BY <1>1 DEF TypeInv, Awaited, SpawnedFirst, world
<1> QED BY <1>1, <1>2, <1>3, <1>4, <1>5, ClaimsStay

\* NewSession: the pane comes up, and the request that waits for it writes its first lines.
LEMMA NewSessionTypes ==
  ASSUME TypeInv, NEW r \in Repls, NewSession(r)
  PROVE TypeInv'
<1>1. /\ r \in starting /\ starting' = starting \ {r} /\ pane' = [pane EXCEPT ![r] = "live"]
      /\ UNCHANGED <<disk, session, minted, edges, runs, queue, boot, answers, spent>>
      /\ \/ post' = post
         \/ At("spawning") /\ post' = IdlePost
         \/ /\ At("spawning") /\ Mine = r
            /\ post' = [post EXCEPT !.pc = "send", !.todo = <<"acquire", "run_meta">>,
                          !.next = "backfill"]
  BY DEF NewSession, End
<1>2. /\ pane' \in [Repls -> {"none", "live", "gone"}] /\ pane'[r] = "live"
      /\ \A s \in Repls : s # r => pane'[s] = pane[s]
      /\ \A s \in Repls : Exists(s)' = Exists(s) /\ (pane[s] # "none" => pane'[s] # "none")
  BY <1>1 DEF TypeInv, Typed, TypeOK, Exists
<1>3. /\ Placed' /\ post' \in Posts /\ post'.claim \in {NoClaim, post.claim}
      /\ post' = post \/ (At("spawning") /\ post'.pc \in {"idle", "send"})
  <2>1. CASE post' = post
    <3>1. Placed'
      BY <1>1, <1>2, <2>1, StillPlaced DEF disk
    <3> QED BY <2>1, <3>1 DEF TypeInv, Typed
  <2>2. CASE At("spawning") /\ post' = IdlePost
    BY <2>2, Ended
  <2>3. CASE /\ At("spawning") /\ Mine = r
             /\ post' = [post EXCEPT !.pc = "send", !.todo = <<"acquire", "run_meta">>,
                           !.next = "backfill"]
    <3>1. "acquire" \in Lines /\ "run_meta" \in Lines
      BY PrefixIs DEF Lines
    <3>2. <<"acquire", "run_meta">> \in Seq(Lines)
      BY <3>1
    <3>3. post' \in Posts /\ post'.claim = post.claim /\ post'.pc = "send" /\ post'.next = "backfill"
      BY <2>3, <3>2 DEF TypeInv, Typed, Posts, Pcs, Nexts
    <3>4. post.claim # NoClaim /\ Exists(r) /\ Mine' = r
      BY <2>3, <3>3 DEF TypeInv, RequestNamed, Renaming, At, Mine, Exists
    <3>5. Exists(Mine)' /\ pane'[Mine'] # "none"
      BY <1>2, <3>4 DEF Exists
    <3>6. Placed'
      BY <3>3, <3>4, <3>5 DEF Placed, RequestNamed, Renaming, Sending, At
    <3> QED BY <2>3, <3>3, <3>6
  <2> QED BY <1>1, <2>1, <2>2, <2>3
<1>4. Typed'
  <2>1. Len(temp') <= spent'.stop + (IF At("rename")' THEN 1 ELSE 0)
    <3>1. CASE post' = post
      BY <1>1, <3>1 DEF TypeInv, Typed, TypeOK, disk, At
    <3>2. CASE At("spawning") /\ post'.pc \in {"idle", "send"}
      BY <1>1, <3>2, TempTyped DEF TypeInv, disk, At
    <3> QED BY <1>3, <3>1, <3>2
  <2>2. runs' \subseteq {s \in Repls : pane'[s] # "none"}
    BY <1>1, <1>2 DEF TypeInv, Typed, TypeOK
  <2>3. TypeOK'
    BY <1>1, <1>2, <2>1, <2>2 DEF TypeInv, Typed, TypeOK, disk
  <2> QED BY <1>1, <1>3, <2>3 DEF TypeInv, Typed
<1>5. ActiveHasSession'
  BY <1>1, <1>2 DEF TypeInv, ActiveHasSession, Active
<1>6. Awaited'
  <2>1. CASE post' = post
    BY <1>1, <2>1 DEF TypeInv, Awaited, At
  <2>2. CASE At("spawning")
    BY <1>1, <2>2 DEF TypeInv, Awaited, At
  <2> QED BY <1>3, <2>1, <2>2
<1>7. \A k \in DOMAIN queue' : queue'[k].owner = "boot" => pane'[queue'[k].repl] # "none"
  <2>1. \A k \in DOMAIN queue : queue[k].repl \in Repls
    BY QueueTyped DEF TypeInv
  <2> QED BY <1>1, <1>2, <2>1 DEF TypeInv, SpawnedFirst
<1> QED BY <1>1, <1>3, <1>4, <1>5, <1>6, <1>7, ClaimsStay DEF disk

\* Inventory: what GET /api/runs leaves on disk.
LEMMA InventoryTypes ==
  ASSUME TypeInv, Inventory
  PROVE TypeInv'
<1> DEFINE res == Resolution(Links)
<1>1. /\ claim' = res.claim /\ temp' = res.temp /\ post' = post /\ ~At("rename")
      /\ post.pc \notin {"act", "mark"}
      /\ UNCHANGED <<session, world, minted, edges, runs, queue, boot, answers, spent>>
      /\ pane' = pane /\ session' = session
  BY DEF Inventory, StatusLocked, At, world
<1>2. spent.stop \in Nat /\ Len(temp) <= spent.stop /\ Len(temp) \in Nat
  BY <1>1, TempTyped DEF TypeInv
<1>3. /\ Named(res.claim) /\ res.temp \in Seq(Claims) /\ Len(res.temp) <= spent.stop
      /\ \A k \in DOMAIN res.temp : Named(res.temp[k]) /\ res.temp[k].status # "none"
  <2>1. Links \in SUBSET (Repls \X Nat)
    BY LinksTyped DEF TypeInv
  <2> QED BY <1>2, <2>1, ResolvedNamed
<1> HIDE DEF res
<1>4. Typed'
  <2>1. Len(temp') <= spent'.stop + (IF At("rename")' THEN 1 ELSE 0)
    BY <1>1, <1>2, <1>3 DEF At
  <2>2. TypeOK'
    BY <1>1, <1>3, <2>1 DEF TypeInv, Typed, TypeOK, world, Named
  <2> QED BY <1>1, <2>2 DEF TypeInv, Typed
<1>5. ClaimsNamed'
  BY <1>1, <1>3, AllNamed DEF ClaimsNamed, Held, Named
<1>6. ActiveHasSession' /\ \A r \in Repls : Exists(r) => Exists(r)'
  BY <1>1 DEF TypeInv, ActiveHasSession, Active, Exists, world
<1>7. Placed'
  BY <1>1, <1>6, StillPlaced
<1>8. Awaited' /\ SpawnedFirst'
  BY <1>1, <1>7 DEF TypeInv, Awaited, SpawnedFirst, Placed, At
<1> QED BY <1>4, <1>5, <1>6, <1>7, <1>8 DEF TypeInv, Placed

\* The boot pass.
LEMMA PassTypes ==
  ASSUME TypeInv, UNCHANGED <<disk, session, world, minted, edges, runs, post, answers>>, Typed', Awaited',
         \A k \in DOMAIN queue' : queue'[k].owner = "boot" => pane'[queue'[k].repl] # "none"
  PROVE TypeInv'
<1>1. pane' = pane /\ session' = session /\ claim' = claim /\ post' = post /\ starting' = starting
  BY DEF world, disk
<1>2. ActiveHasSession' /\ \A r \in Repls : Exists(r) => Exists(r)'
  BY <1>1 DEF TypeInv, ActiveHasSession, Active, Exists
<1>3. Placed'
  BY <1>1, <1>2, StillPlaced
<1> QED BY <1>1, <1>2, <1>3, ClaimsStay

LEMMA BootCheckTypes ==
  ASSUME TypeInv, NEW r \in Repls, BootCheck(r)
  PROVE TypeInv'
<1>1. /\ UNCHANGED <<disk, session, world, minted, edges, runs, queue, post, answers>>
      /\ Fault \/ UNCHANGED spent
      /\ pane' = pane
  BY DEF BootCheck, world
<1> DEFINE t == boot.todo \ {r}
           a == IF Owned(r) THEN None ELSE r
<1>2. /\ t \in SUBSET Repls /\ a \in Repls \cup {None} /\ boot \in Boots
      /\ boot' = [boot EXCEPT !.todo = t, !.at = a] \/ boot' = [boot EXCEPT !.todo = t]
  BY DEF BootCheck, TypeInv, Typed, Boots
<1> HIDE DEF t, a
<1>3. boot' \in [todo : SUBSET Repls, at : Repls \cup {None}, sent : BOOLEAN]
  BY <1>2 DEF Boots
<1>4. Typed'
  BY <1>1, <1>3, TypedBoot, QueueTyped DEF TypeInv
<1>5. Awaited' /\ \A k \in DOMAIN queue' : queue'[k].owner = "boot" => pane'[queue'[k].repl] # "none"
  BY <1>1 DEF TypeInv, Awaited, SpawnedFirst, At
<1> QED BY <1>1, <1>4, <1>5, PassTypes

LEMMA BootAttachTypes ==
  ASSUME TypeInv, BootAttach
  PROVE TypeInv'
<1>1. /\ UNCHANGED <<disk, session, world, minted, edges, runs, post, answers, spent>>
      /\ boot.at \in Repls /\ pane' = pane /\ post' = post
  BY DEF BootAttach, TypeInv, Typed, world
<1>2. CASE boot' = [boot EXCEPT !.at = None] /\ UNCHANGED queue
  <2>1. boot' \in [todo : SUBSET Repls, at : Repls \cup {None}, sent : BOOLEAN]
    BY <1>2 DEF TypeInv, Typed
  <2>2. Typed'
    BY <1>1, <1>2, <2>1, TypedBoot, QueueTyped DEF TypeInv
  <2>3. Awaited' /\ \A k \in DOMAIN queue' : queue'[k].owner = "boot" => pane'[queue'[k].repl] # "none"
    BY <1>1, <1>2 DEF TypeInv, Awaited, SpawnedFirst, At
  <2> QED BY <1>1, <2>2, <2>3, PassTypes
<1>3. CASE ~(boot' = [boot EXCEPT !.at = None] /\ UNCHANGED queue)
  <2> DEFINE d == [repl |-> boot.at, line |-> "reattach", owner |-> "boot"]
  <2>1. boot' = [boot EXCEPT !.sent = TRUE] /\ queue' = Append(queue, d) /\ pane[boot.at] = "live"
    BY <1>3 DEF BootAttach
  <2>2. boot' \in [todo : SUBSET Repls, at : Repls \cup {None}, sent : BOOLEAN]
    BY <2>1 DEF TypeInv, Typed
  <2>3. d \in Request /\ d.repl = boot.at /\ d.owner = "boot"
    BY <1>1 DEF Request, Lines
  <2> HIDE DEF d
  <2>4. /\ queue' \in Seq(Request)
        /\ \A k \in DOMAIN queue' : \/ k \in DOMAIN queue /\ queue'[k] = queue[k]
                                    \/ k = Len(queue) + 1 /\ queue'[k] = d
    BY <2>1, <2>3, QueueGrowsTyped DEF TypeInv
  <2>5. Typed'
    BY <1>1, <2>2, <2>4, TypedBoot DEF TypeInv
  <2>6. Awaited'
    BY <1>1, <2>3, <2>4 DEF TypeInv, Awaited, At
  <2>7. \A k \in DOMAIN queue' : queue'[k].owner = "boot" => pane'[queue'[k].repl] # "none"
    BY <1>1, <2>1, <2>3, <2>4 DEF TypeInv, SpawnedFirst
  <2> QED BY <1>1, <2>5, <2>6, <2>7, PassTypes
<1> QED BY <1>2, <1>3

\* A session with a line in it is there.
LEMMA WrittenIs ==
  ASSUME NEW s \in Seq(Lines), s # <<>>
  PROVE s # NoFile
<1>1. 1 \in DOMAIN s /\ s[1] \in Lines
  <2>1. Len(s) \in Nat /\ Len(s) # 0 /\ DOMAIN s = 1..Len(s)
    BY EmptySeq
  <2> QED BY <2>1
<1>2. "no file" \notin Lines
  <2>1. \A k \in 1..4 : Prefix[k] # "no file"
    <3>1. \A k \in 1..4 : k = 1 \/ k = 2 \/ k = 3 \/ k = 4
      OBVIOUS
    <3> QED BY <3>1, PrefixIs
  <2> QED BY <2>1 DEF Lines
<1>3. \A k \in DOMAIN NoFile : NoFile[k] = "no file"
  BY NoFileValue
<1> QED BY <1>1, <1>2, <1>3

\* The writer: a session takes one more line, and one that was removed its first.
LEMMA LineTyped ==
  ASSUME Typed, NEW r \in Repls, NEW line \in Lines, NEW s,
         s = IF session[r] = NoFile THEN <<line>> ELSE Append(session[r], line)
  PROVE s \in Seq(Lines) /\ s # NoFile
<1>1. s \in Seq(Lines) /\ s # <<>>
  <2>1. CASE session[r] = NoFile
    BY <2>1
  <2>2. CASE session[r] # NoFile
    <3>1. session[r] \in Seq(Lines)
      BY <2>2 DEF Typed, TypeOK
    <3> QED BY <2>2, <3>1, AppendProperties
  <2> QED BY <2>1, <2>2
<1> QED BY <1>1, WrittenIs

LEMMA WriterAppendsTypes ==
  ASSUME TypeInv, WriterAppends
  PROVE TypeInv'
<1> DEFINE a == Head(queue)
<1>1. /\ queue # <<>> /\ queue' = Tail(queue) /\ pane' = pane /\ starting' = starting
      /\ UNCHANGED <<disk, minted, edges, answers>>
  BY DEF WriterAppends, world
<1>2. /\ queue' \in Seq(Request) /\ 1 \in DOMAIN queue /\ a = queue[1]
      /\ \A k \in DOMAIN queue' : k \in Nat /\ k + 1 \in DOMAIN queue /\ k + 1 # 1
                                  /\ queue'[k] = queue[k + 1]
  BY <1>1, QueueTailTyped DEF TypeInv
<1>3. /\ a.owner = "boot" => pane[a.repl] # "none"
      /\ a.owner = "post" => /\ At("wait") /\ post.todo # <<>>
                             /\ \A k \in DOMAIN queue' : queue'[k].owner # "post"
  <2> HIDE DEF a
  <2>1. \A k \in DOMAIN queue : queue[k].owner = "post" /\ a.owner = "post" => k = 1
    BY <1>2 DEF TypeInv, Awaited
  <2> QED BY <1>2, <2>1 DEF TypeInv, Awaited, SpawnedFirst
<1>4. PICK r \in Repls, line \in Lines : r = a.repl /\ line = a.line
  <2> HIDE DEF a
  <2>1. a.repl \in Repls /\ a.line \in Lines
    BY <1>2, QueueTyped DEF TypeInv
  <2> QED BY <2>1
<1>5. \/ /\ session' = [session EXCEPT ![r] = IF @ = NoFile THEN <<line>> ELSE Append(@, line)]
         /\ UNCHANGED spent
         /\ post' = IF a.owner # "post" THEN post ELSE [post EXCEPT !.pc = "send", !.todo = Tail(@)]
         /\ IF a.owner = "boot"
            THEN runs' = runs \cup {r} /\ boot' = [boot EXCEPT !.at = None, !.sent = FALSE]
            ELSE UNCHANGED <<runs, boot>>
      \/ /\ Fault /\ UNCHANGED <<session, runs>>
         /\ post' = IF a.owner = "post" THEN IdlePost ELSE post
         /\ boot' = IF a.owner = "boot" THEN [boot EXCEPT !.at = None, !.sent = FALSE] ELSE boot
  BY <1>4 DEF WriterAppends
<1> HIDE DEF a
<1>6. /\ session' \in [Repls -> Seq(Lines) \cup {NoFile}]
      /\ \A s \in Repls : Exists(s) => Exists(s)'
  <2>1. CASE session' = session
    BY <2>1 DEF TypeInv, Typed, TypeOK, Exists
  <2>2. CASE session' = [session EXCEPT ![r] = IF @ = NoFile THEN <<line>> ELSE Append(@, line)]
    <3> DEFINE new == IF session[r] = NoFile THEN <<line>> ELSE Append(session[r], line)
    <3>1. new \in Seq(Lines) /\ new # NoFile
      BY LineTyped DEF TypeInv
    <3>2. session' = [session EXCEPT ![r] = new]
      BY <2>2
    <3> HIDE DEF new
    <3> QED BY <3>1, <3>2 DEF TypeInv, Typed, TypeOK, Exists
  <2> QED BY <1>5, <2>1, <2>2
<1>7. boot' \in [todo : SUBSET Repls, at : Repls \cup {None}, sent : BOOLEAN]
  <2>1. boot' = boot \/ boot' = [boot EXCEPT !.at = None, !.sent = FALSE]
    BY <1>5
  <2> QED BY <2>1 DEF TypeInv, Typed
<1>8. runs' \subseteq {s \in Repls : pane'[s] # "none"}
  <2>1. runs' = runs \/ (runs' = runs \cup {r} /\ pane[r] # "none")
    BY <1>3, <1>4, <1>5
  <2> QED BY <1>1, <2>1 DEF TypeInv, Typed, TypeOK
<1>9. \/ post' = post /\ a.owner # "post"
      \/ a.owner = "post" /\ post' = IdlePost
      \/ a.owner = "post" /\ post' = [post EXCEPT !.pc = "send", !.todo = Tail(@)]
  BY <1>5
<1>10. Placed' /\ post' \in Posts /\ post'.claim \in {NoClaim, post.claim}
       /\ (post' # post => ~At("rename") /\ post'.pc # "rename")
  <2>1. CASE post' = post
    <3>1. Placed'
      BY <1>1, <1>6, <2>1, StillPlaced DEF disk
    <3> QED BY <2>1, <3>1 DEF TypeInv, Typed
  <2>2. CASE a.owner = "post" /\ post' = IdlePost
    BY <1>3, <2>2, Ended DEF At
  <2>3. CASE a.owner = "post" /\ post' = [post EXCEPT !.pc = "send", !.todo = Tail(@)]
    <3>1. post.todo \in Seq(Lines) /\ post \in Posts
      BY DEF TypeInv, Typed, Posts
    <3>2. Tail(post.todo) \in Seq(Lines)
      BY <1>3, <2>3, <3>1, HeadTailProperties
    <3>3. post' \in Posts /\ post'.claim = post.claim /\ post'.pc = "send" /\ post'.next = post.next
      BY <2>3, <3>1, <3>2 DEF Posts, Pcs
    <3>4. /\ post.claim # NoClaim /\ Exists(Mine) /\ Mine' = Mine /\ Mine \in Repls
          /\ post.next \in {"backfill", "insert", "commit"}
          /\ post.next # "commit" => pane[Mine] # "none"
      <4>1. post.pc = "wait" /\ Mine' = Mine
        BY <1>3, <2>3, <3>3 DEF At, Mine
      <4>2. post.claim # NoClaim /\ Exists(Mine)
        BY <4>1 DEF TypeInv, RequestNamed, Renaming, At
      <4> QED BY <4>1, <4>2, AllNamed DEF TypeInv, SpawnedFirst, Sending
    <3>5. PICK m \in Repls : m = Mine
      BY <3>4
    <3>6. Exists(m)'
      BY <1>6, <3>4, <3>5
    <3>7. Exists(Mine)' /\ (post.next # "commit" => pane'[Mine'] # "none")
      BY <1>1, <3>4, <3>5, <3>6 DEF Exists
    <3>8. Placed'
      BY <3>3, <3>4, <3>7 DEF Placed, RequestNamed, Renaming, Sending, At
    <3>9. ~At("rename")
      BY <1>3, <2>3 DEF At
    <3> QED BY <3>3, <3>8, <3>9
  <2> QED BY <1>9, <2>1, <2>2, <2>3
<1>11. Typed'
  <2>1. spent' \in [{"fault", "stop", "drop", "death", "removal"} -> Nat] /\ spent'.stop = spent.stop
    BY <1>5, FaultTyped DEF TypeInv
  <2>2. Len(temp') <= spent'.stop + (IF At("rename")' THEN 1 ELSE 0)
    <3>1. CASE post' = post
      BY <1>1, <2>1, <3>1 DEF TypeInv, Typed, TypeOK, disk, At
    <3>2. CASE post' # post
      BY <1>1, <1>10, <2>1, <3>2, TempTyped DEF TypeInv, disk, At
    <3> QED BY <3>1, <3>2
  <2>3. TypeOK'
    BY <1>1, <1>2, <1>6, <1>8, <2>2 DEF TypeInv, Typed, TypeOK, Request, disk
  <2> QED BY <1>7, <1>10, <2>1, <2>3 DEF Typed
<1>12. ActiveHasSession'
  BY <1>1, <1>6 DEF TypeInv, ActiveHasSession, Active
<1>13. Awaited'
  <2>1. CASE a.owner = "post"
    BY <1>3, <2>1 DEF Awaited
  <2>2. CASE a.owner # "post"
    <3>1. post' = post
      BY <1>9, <2>2
    <3>2. ASSUME NEW j \in DOMAIN queue', NEW k \in DOMAIN queue', queue'[j].owner = "post",
                 queue'[k].owner = "post"
          PROVE j = k
      <4>1. j + 1 = k + 1 /\ j \in Nat /\ k \in Nat
        BY <1>2, <3>2 DEF TypeInv, Awaited
      <4> QED BY <4>1
    <3> QED BY <1>2, <3>1, <3>2 DEF TypeInv, Awaited, At
  <2> QED BY <2>1, <2>2
<1>14. \A k \in DOMAIN queue' : queue'[k].owner = "boot" => pane'[queue'[k].repl] # "none"
  BY <1>1, <1>2 DEF TypeInv, SpawnedFirst
<1> QED BY <1>1, <1>10, <1>11, <1>12, <1>13, <1>14, ClaimsStay

\* Restart: what was in memory is gone, and one more temporary file may stay.
LEMMA RestartTypes ==
  ASSUME TypeInv, Restart
  PROVE TypeInv'
<1>1. /\ UNCHANGED <<claim, session, pane, starting, minted, edges, answers>>
      /\ post' = IdlePost /\ queue' = <<>> /\ runs' = {}
      /\ boot' = [IdleBoot EXCEPT !.todo = {r \in Repls : Candidate(r)}]
  BY DEF Restart, world
<1>2. Placed' /\ post' \in Posts /\ post'.claim = NoClaim /\ post'.pc = "idle"
  BY <1>1, Ended
<1>3. boot' \in [todo : SUBSET Repls, at : Repls \cup {None}, sent : BOOLEAN]
  BY <1>1 DEF IdleBoot
<1>4. /\ spent' \in [{"fault", "stop", "drop", "death", "removal"} -> Nat]
      /\ spent'.stop = spent.stop + 1 /\ spent.stop \in Nat
  BY SpendTyped DEF Restart, TypeInv
<1>5. /\ temp' \in Seq(Claims) /\ Len(temp') <= spent.stop + 1
      /\ \A k \in DOMAIN temp' : k \in DOMAIN temp /\ temp'[k] = temp[k]
  <2>1. CASE temp' = temp
    BY <2>1, TempTyped DEF TypeInv
  <2>2. CASE temp' = Front(temp) /\ At("rename")
    <3>1. /\ Len(Front(temp)) <= spent.stop /\ Front(temp) \in Seq(Claims)
          /\ \A k \in DOMAIN Front(temp) : k \in DOMAIN temp /\ Front(temp)[k] = temp[k]
      BY <2>2, FrontTyped DEF TypeInv
    <3>2. Len(Front(temp)) \in Nat
      BY <3>1
    <3> QED BY <1>4, <2>2, <3>1, <3>2
  <2>3. temp' = temp \/ (temp' = Front(temp) /\ At("rename"))
    BY DEF Restart, TempGone
  <2> QED BY <2>1, <2>2, <2>3
<1>6. Typed'
  <2>1. Len(temp') <= spent'.stop + (IF At("rename")' THEN 1 ELSE 0)
    BY <1>2, <1>4, <1>5 DEF At
  <2>2. TypeOK'
    BY <1>1, <1>5, <2>1 DEF TypeInv, Typed, TypeOK
  <2> QED BY <1>2, <1>3, <1>4, <2>2 DEF Typed
<1>7. ClaimsNamed'
  <2>1. Held' \subseteq Held \cup {NoClaim}
    BY <1>1, <1>2, <1>5 DEF Held
  <2> QED BY <1>5, <2>1, NamedIs DEF TypeInv, ClaimsNamed
<1>8. ActiveHasSession' /\ Awaited' /\ SpawnedFirst'
  BY <1>1, <1>2 DEF TypeInv, ActiveHasSession, Active, Exists, Awaited, SpawnedFirst, Placed, At
<1> QED BY <1>2, <1>6, <1>7, <1>8 DEF TypeInv, Placed

\* Drop: nobody waits for what the request had queued.
LEMMA DropTypes ==
  ASSUME TypeInv, Drop
  PROVE TypeInv'
<1>1. /\ UNCHANGED <<disk, session, pane, starting, minted, edges, runs, boot, answers>>
      /\ post' = IdlePost /\ ~At("rename")
      /\ queue' = [k \in DOMAIN queue |->
                     IF queue[k].owner = "post" THEN [queue[k] EXCEPT !.owner = "nobody"]
                     ELSE queue[k]]
  BY DEF Drop, world, End, At
<1>2. Placed' /\ post' \in Posts /\ post'.claim = NoClaim /\ post'.pc = "idle"
  BY <1>1, Ended
<1>3. /\ spent' \in [{"fault", "stop", "drop", "death", "removal"} -> Nat]
      /\ spent'.stop = spent.stop
  BY SpendTyped DEF Drop, TypeInv, Typed
<1>4. \A k \in DOMAIN queue : /\ queue'[k] \in Request /\ queue'[k].repl = queue[k].repl
                              /\ queue'[k].owner # "post"
                              /\ queue'[k].owner = "boot" => queue[k].owner = "boot"
  <2> SUFFICES ASSUME NEW k \in DOMAIN queue
               PROVE /\ queue'[k] \in Request /\ queue'[k].repl = queue[k].repl
                     /\ queue'[k].owner # "post"
                     /\ queue'[k].owner = "boot" => queue[k].owner = "boot"
    OBVIOUS
  <2>1. queue[k] \in Request
    BY QueueTyped DEF TypeInv
  <2>2. queue'[k] = IF queue[k].owner = "post" THEN [queue[k] EXCEPT !.owner = "nobody"] ELSE queue[k]
    BY <1>1
  <2> QED BY <2>1, <2>2 DEF Request
<1>5. DOMAIN queue' = DOMAIN queue /\ queue' \in Seq(Request)
  <2>1. DOMAIN queue = 1..Len(queue) /\ Len(queue) \in Nat
    BY QueueTyped DEF TypeInv
  <2>2. queue' \in [1..Len(queue) -> Request]
    BY <1>1, <1>4, <2>1
  <2> QED BY <1>1, <2>1, <2>2, SeqDef
<1>6. Typed'
  <2>1. Len(temp') <= spent'.stop + (IF At("rename")' THEN 1 ELSE 0)
    BY <1>1, <1>2, <1>3, TempTyped DEF TypeInv, At, disk
  <2>2. TypeOK'
    BY <1>1, <1>5, <2>1 DEF TypeInv, Typed, TypeOK, disk, Request
  <2> QED BY <1>1, <1>2, <1>3, <2>2 DEF TypeInv, Typed
<1>7. ActiveHasSession'
  BY <1>1 DEF TypeInv, ActiveHasSession, Active, Exists
<1>8. Awaited' /\ \A k \in DOMAIN queue' : queue'[k].owner = "boot" => pane'[queue'[k].repl] # "none"
  BY <1>1, <1>4, <1>5 DEF TypeInv, Awaited, SpawnedFirst
<1> QED BY <1>1, <1>2, <1>6, <1>7, <1>8, ClaimsStay

\* PaneEnds: a run that is released has its session.
LEMMA PaneEndsTypes ==
  ASSUME TypeInv, NEW r \in Repls, PaneEnds(r)
  PROVE TypeInv'
<1>1. /\ pane[r] = "live" /\ pane' = [pane EXCEPT ![r] = "gone"] /\ runs' = runs \ {r}
      /\ session' = IF r \in runs THEN [session EXCEPT ![r] = Append(@, "release")] ELSE session
      /\ UNCHANGED <<disk, starting, minted, edges, queue, post, boot, answers>>
  BY DEF PaneEnds
<1>2. /\ spent' \in [{"fault", "stop", "drop", "death", "removal"} -> Nat]
      /\ spent'.stop = spent.stop
  BY SpendTyped DEF PaneEnds, TypeInv, Typed
<1>3. /\ pane' \in [Repls -> {"none", "live", "gone"}] /\ pane'[r] = "gone"
      /\ \A s \in Repls : s # r => pane'[s] = pane[s]
      /\ \A s \in Repls : pane[s] # "none" => pane'[s] # "none"
  BY <1>1 DEF TypeInv, Typed, TypeOK
<1>4. /\ session' \in [Repls -> Seq(Lines) \cup {NoFile}]
      /\ \A s \in Repls : Exists(s)' = Exists(s)
  <2>1. Exists(r)
    BY <1>1 DEF TypeInv, ActiveHasSession, Active
  <2>2. CASE r \in runs
    <3>1. "release" \in Lines
      BY DEF Lines
    <3>2. session' = [session EXCEPT ![r] = Append(@, "release")]
      BY <1>1, <2>2
    <3> QED BY <2>1, <3>1, <3>2, Grown DEF TypeInv
  <2>3. CASE r \notin runs
    <3>1. session' = session
      BY <1>1, <2>3
    <3> QED BY <3>1 DEF Exists, TypeInv, Typed, TypeOK
  <2> QED BY <2>2, <2>3
<1>5. Typed'
  <2>1. runs' \subseteq {s \in Repls : pane'[s] # "none"}
    BY <1>1, <1>3 DEF TypeInv, Typed, TypeOK
  <2>2. TypeOK'
    BY <1>1, <1>2, <1>3, <1>4, <2>1 DEF TypeInv, Typed, TypeOK, disk, At
  <2> QED BY <1>1, <1>2, <2>2 DEF TypeInv, Typed
<1>6. Placed'
  BY <1>1, <1>3, <1>4, StillPlaced DEF disk
<1>7. ActiveHasSession'
  BY <1>1, <1>3, <1>4 DEF TypeInv, ActiveHasSession, Active
<1>8. Awaited' /\ \A k \in DOMAIN queue' : queue'[k].owner = "boot" => pane'[queue'[k].repl] # "none"
  <2>1. \A k \in DOMAIN queue : queue[k].repl \in Repls
    BY QueueTyped DEF TypeInv
  <2>2. Awaited'
    BY <1>1 DEF TypeInv, Awaited, At
  <2> QED BY <1>1, <1>3, <2>1, <2>2 DEF TypeInv, SpawnedFirst
<1>9. post'.claim \in {NoClaim, post.claim}
  BY <1>1
<1> QED BY <1>1, <1>5, <1>6, <1>7, <1>8, <1>9, ClaimsStay DEF disk

\* RemoveSession: no request is at work on it.
LEMMA RemoveSessionTypes ==
  ASSUME TypeInv, NEW r \in Repls, RemoveSession(r)
  PROVE TypeInv'
<1>1. /\ pane[r] = "gone" /\ r \notin starting /\ At("idle") /\ queue = <<>>
      /\ session' = [session EXCEPT ![r] = NoFile]
      /\ UNCHANGED <<disk, pane, starting, minted, edges, runs, queue, post, boot, answers>>
  BY DEF RemoveSession, world
<1>2. /\ spent' \in [{"fault", "stop", "drop", "death", "removal"} -> Nat]
      /\ spent'.stop = spent.stop
  BY SpendTyped DEF RemoveSession, TypeInv, Typed
<1>3. /\ session' \in [Repls -> Seq(Lines) \cup {NoFile}]
      /\ \A s \in Repls : s # r => session'[s] = session[s]
  BY <1>1 DEF TypeInv, Typed, TypeOK
<1>4. Typed'
  <2>1. TypeOK'
    BY <1>1, <1>2, <1>3 DEF TypeInv, Typed, TypeOK, disk, At
  <2> QED BY <1>1, <1>2, <2>1 DEF TypeInv, Typed
<1>5. ActiveHasSession'
  BY <1>1, <1>3 DEF TypeInv, ActiveHasSession, Active, Exists
<1>6. Placed'
  BY <1>1, NamedIs DEF TypeInv, RequestNamed, Placed, Renaming, Sending, At
<1>7. Awaited' /\ \A k \in DOMAIN queue' : queue'[k].owner = "boot" => pane'[queue'[k].repl] # "none"
  BY <1>1 DEF TypeInv, Awaited, SpawnedFirst, At
<1>8. post'.claim \in {NoClaim, post.claim}
  BY <1>1
<1> QED BY <1>1, <1>4, <1>5, <1>6, <1>7, <1>8, ClaimsStay DEF disk

\* The beginning, and the steps that change nothing.
LEMMA InitTypes ==
  ASSUME Init
  PROVE TypeInv
<1>1. Typed /\ ActiveHasSession
  BY InitHolds DEF RecoveryInv
<1>2. /\ Held = {NoClaim} /\ temp = <<>> /\ DOMAIN temp = {} /\ post.pc = "idle" /\ post.claim = NoClaim
      /\ queue = <<>> /\ DOMAIN queue = {}
  <2>1. temp = <<>> /\ DOMAIN temp = {} /\ post.pc = "idle" /\ post.claim = NoClaim
        /\ queue = <<>> /\ DOMAIN queue = {} /\ claim = NoClaim
    BY DEF Init, IdlePost
  <2> QED BY <2>1 DEF Held
<1>3. ClaimsNamed /\ RequestNamed /\ SpawnedFirst /\ Awaited
  BY <1>2, NamedIs DEF ClaimsNamed, RequestNamed, SpawnedFirst, Awaited, Renaming, Sending, At
<1> QED BY <1>1, <1>3 DEF TypeInv

LEMMA StutterTypes ==
  ASSUME TypeInv, UNCHANGED vars
  PROVE TypeInv'
<1>1. UNCHANGED <<disk, session, world, minted, edges, runs, queue, post, boot, answers, spent>>
  BY DEF vars
<1>2. pane' = pane
  BY <1>1 DEF world
<1>3. Typed'
  BY <1>1, QueueTyped, TypedBoot DEF TypeInv, Typed
<1>4. Awaited' /\ \A k \in DOMAIN queue' : queue'[k].owner = "boot" => pane'[queue'[k].repl] # "none"
  BY <1>1, <1>2 DEF TypeInv, Awaited, SpawnedFirst, At
<1> QED BY <1>1, <1>3, <1>4, PassTypes

\* Every step keeps the types, wherever the origin ran.
LEMMA StepTypes ==
  ASSUME TypeInv, [Next]_vars
  PROVE TypeInv'
<1>1. CASE \E q \in Requests : Begin(q)
  BY <1>1, BeginTypes
<1>2. CASE Resolve \/ Unreadable \/ Unclaimed \/ Committed \/ Conflict \/ ReconcileRefuses
           \/ Reconcile \/ NoAction \/ Planned \/ MintRefused
  BY <1>2, ResolveTypes, RefusalTypes, UnclaimedTypes, CommittedTypes, ReconcileTypes, PlannedTypes
<1>3. CASE Rename \/ Authority \/ Mark \/ \E r \in Repls : Mint(r)
  BY <1>3, RenameTypes, AuthorityTypes, MarkTypes, MintTypes
<1>4. CASE Reattach \/ Spawn \/ Backfill \/ Send \/ Insert \/ Associate \/ Publish \/ Commit \/ Answer
  BY <1>4, ReattachTypes, SpawnTypes, BackfillTypes, SendTypes, InsertTypes, AssociateTypes, PublishTypes,
     CommitTypes, AnswerTypes
<1>5. CASE WriterAppends \/ Inventory \/ Restart \/ Drop \/ UNCHANGED vars
  BY <1>5, WriterAppendsTypes, InventoryTypes, RestartTypes, DropTypes, StutterTypes
<1>6. CASE Boot
  BY <1>6, BootAttachTypes, BootCheckTypes DEF Boot
<1>7. CASE \E r \in Repls : NewSession(r) \/ PaneEnds(r) \/ RemoveSession(r)
  BY <1>7, NewSessionTypes, PaneEndsTypes, RemoveSessionTypes
<1> QED BY <1>1, <1>2, <1>3, <1>4, <1>5, <1>6, <1>7 DEF Next, Handle

LEMMA TypesHold == Spec => []TypeInv
<1>1. Init => TypeInv
  BY InitTypes
<1>2. TypeInv /\ [Next]_vars => TypeInv'
  BY StepTypes
<1> QED BY <1>1, <1>2, PTL DEF Spec

\* TypeOK: types, no more temporary claims than crashes, and run records only of replacements
\* that were spawned; in the project root and in a managed worktree alike.
THEOREM TypeCorrect == Spec => []TypeOK
<1>1. TypeInv => TypeOK
  BY DEF TypeInv, Typed
<1> QED BY <1>1, TypesHold, PTL

(***************************************************************************)
(* The behaviours that keep BootPasses.                                    *)
(***************************************************************************)
\* The boot pass of a daemon that never restarted has nothing to take up.
Quiet == boot.todo = {} /\ boot.at = None

\* Only a check of the boot pass takes up a session.
LEMMA OnlyChecks ==
  ASSUME Typed, [Next]_vars
  PROVE \/ boot' = boot
        \/ boot'.at = None /\ (boot'.todo = boot.todo \/ Restart)
        \/ boot'.at = boot.at /\ boot'.todo = boot.todo
        \/ \E s \in Repls : BootCheck(s)
<1>0. boot \in Boots
  BY DEF Typed, Boots
<1>1. CASE (\E q \in Requests : Begin(q)) \/ Resolve \/ Unreadable \/ Unclaimed \/ Committed \/ Conflict
           \/ ReconcileRefuses \/ Reconcile \/ Rename \/ Authority \/ NoAction \/ Planned
  BY <1>1 DEF Begin, Resolve, Unreadable, Unclaimed, Committed, Conflict,
           ReconcileRefuses, Reconcile, Rename, Authority, NoAction, Planned
<1>2. CASE (\E s \in Repls : Mint(s)) \/ MintRefused \/ Mark \/ Reattach \/ Spawn \/ Backfill \/ Send
           \/ Insert \/ Associate \/ Publish \/ Commit \/ Answer
  BY <1>2 DEF Mint, MintRefused, Mark, Reattach, Spawn, Backfill, Send, Insert, Associate,
           Publish, Commit, Answer
<1>3. CASE WriterAppends
  <2>1. boot' = boot \/ boot' = [boot EXCEPT !.at = None, !.sent = FALSE]
    BY <1>3 DEF WriterAppends
  <2> QED BY <1>0, <2>1 DEF Boots
<1>4. CASE Restart
  <2>1. boot' = [IdleBoot EXCEPT !.todo = {r \in Repls : Candidate(r)}]
    BY <1>4 DEF Restart
  <2> QED BY <1>4, <2>1 DEF IdleBoot
<1>5. CASE BootAttach
  <2>1. boot' = [boot EXCEPT !.sent = TRUE] \/ boot' = [boot EXCEPT !.at = None]
    BY <1>5 DEF BootAttach
  <2> QED BY <1>0, <2>1 DEF Boots
<1>6. CASE Inventory \/ Drop \/ UNCHANGED vars
           \/ \E s \in Repls : NewSession(s) \/ PaneEnds(s) \/ RemoveSession(s)
  BY <1>6 DEF Inventory, Drop, NewSession, PaneEnds, RemoveSession, vars
<1> QED BY <1>1, <1>2, <1>3, <1>4, <1>5, <1>6 DEF Next, Handle, Boot

\* In the project root a check finds the owner of a session.
LEMMA CheckAsks ==
  ASSUME Typed, WorktreeIsRoot, NEW s \in Repls, BootCheck(s), NEW r \in Repls, boot'.at = r
  PROVE ~(claim.status = "pending" /\ claim.repl = r)
<1> DEFINE t == boot.todo \ {s}
           a == IF Owned(s) THEN None ELSE s
<1>1. /\ boot \in Boots /\ boot.at = None /\ r # None
      /\ boot' = [boot EXCEPT !.todo = t, !.at = a] \/ boot' = [boot EXCEPT !.todo = t]
  BY RecoveryAssumption DEF BootCheck, Typed, Boots
<1> HIDE DEF t, a
<1>2. a = r
  BY <1>1 DEF Boots
<1> QED BY <1>1, <1>2 DEF a, Owned

\* In the project root boot asks who owns a session; without a restart there is none to ask for.
\* So every behaviour of a rescue in the project root keeps BootPasses, and every one without a
\* restart does.
THEOREM BootAsks ==
  ASSUME WorktreeIsRoot \/ MaxStops = 0
  PROVE Spec => [][BootPasses]_vars
<1>1. CASE WorktreeIsRoot
  <2>1. TypeInv /\ [Next]_vars => [BootPasses]_vars
    <3> SUFFICES ASSUME TypeInv, [Next]_vars, NEW r \in Repls, boot'.at = r, boot.at # r
                 PROVE ~(claim.status = "pending" /\ claim.repl = r)
      BY DEF BootPasses
    <3>1. r # None
      BY RecoveryAssumption
    <3>2. \E s \in Repls : BootCheck(s)
      BY <3>1, OnlyChecks DEF TypeInv
    <3> QED BY <1>1, <3>2, CheckAsks DEF TypeInv
  <2> QED BY <2>1, TypesHold, PTL DEF Spec
<1>2. CASE MaxStops = 0
  <2>1. Init => Quiet
    BY DEF Init, Quiet, IdleBoot
  <2>2. TypeInv /\ Quiet /\ [Next]_vars => Quiet' /\ [BootPasses]_vars
    <3> SUFFICES ASSUME TypeInv, Quiet, [Next]_vars PROVE Quiet' /\ BootPasses
      OBVIOUS
    <3>1. ~Restart
      <4>1. spent.stop \in Nat
        BY DEF TypeInv, Typed
      <4> QED BY <1>2, <4>1 DEF Restart, Spend
    <3>2. ~\E s \in Repls : BootCheck(s)
      BY DEF Quiet, BootCheck
    <3>3. boot'.at = None /\ boot'.todo = {}
      BY <3>1, <3>2, OnlyChecks DEF TypeInv, Quiet
    <3> QED BY <3>3, RecoveryAssumption DEF Quiet, BootPasses
  <2> QED BY <2>1, <2>2, TypesHold, PTL DEF Spec
<1> QED BY <1>1, <1>2

=============================================================================
