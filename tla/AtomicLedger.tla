---------------------------- MODULE AtomicLedger ----------------------------
(***************************************************************************)
(* What the ledger writer promises the callers of its single transactions, *)
(* with no queue, cache, file or sync in it: a request takes effect at one *)
(* moment and once, an acknowledgement follows its effect, or a durable    *)
(* group that has the same entry and rewrites, and what was acknowledged   *)
(* leaves the ledger only when somebody else replaces the file.  Writer is *)
(* shown to implement it.                                                  *)
(***************************************************************************)
CONSTANTS
    Calls,      \* calls that run or look up a single transaction
    ReqOf,      \* their request ids
    Serving     \* the groups of transactions that may stand for each of them

VARIABLES
    current,    \* the calls whose effect the ledger tells of
    past,       \* the calls whose effect an earlier ledger file told of
    grouped,    \* the groups that are durable, in whichever ledger file
    answer      \* what each call was told: "none", "ok" or "declined"

vars == <<current, past, grouped, answer>>

Init == current = {} /\ past = {} /\ grouped = {} /\ answer = [c \in Calls |-> "none"]

Told(c, S) == \E d \in S : ReqOf[d] = ReqOf[c]
Served(c) == Serving[c] \cap grouped # {}

Apply(c) ==
    /\ ~Told(c, current)
    /\ current' = current \cup {c}
    /\ UNCHANGED <<past, answer>>

Acknowledge(c) ==
    /\ answer[c] = "none" /\ (Told(c, current \cup past) \/ Served(c))
    /\ answer' = [answer EXCEPT ![c] = "ok"]
    /\ UNCHANGED <<current, past>>

Decline(S) ==
    /\ \A c \in S : answer[c] = "none"
    /\ answer' = [c \in Calls |-> IF c \in S THEN "declined" ELSE answer[c]]
    /\ UNCHANGED <<current, past>>

\* A crash takes effects that nobody was promised.
Crash(S) ==
    /\ \A d \in S, c \in Calls :
          answer[c] = "ok" /\ ReqOf[c] = ReqOf[d] => Told(c, past) \/ Served(c)
    /\ current' = current \ S
    /\ UNCHANGED <<past, answer>>

Replaced(S) ==
    /\ current' = current \ S
    /\ past' = past \cup S
    /\ UNCHANGED answer

Regrouped == UNCHANGED <<current, past, answer>>

\* Whatever else happens, a durable group stays one.
Next ==
    /\ grouped \subseteq grouped'
    /\ \/ \E c \in Calls : Apply(c) \/ Acknowledge(c)
       \/ \E S \in SUBSET Calls : Decline(S)
       \/ \E S \in SUBSET current : Crash(S) \/ Replaced(S)
       \/ Regrouped

Spec == Init /\ [][Next]_vars
=============================================================================
