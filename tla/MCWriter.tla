------------------------------ MODULE MCWriter ------------------------------
(* Instances of Writer for TLC. *)
EXTENDS Writer, TLC

CONSTANTS c1, c2, c3, c4, r1, f1, f2, i1, i2

\* A group with identity i2 has an entry that a single transaction would give identity i1.
EntryIdentity == [i \in Idents |-> i1]
OneRequest == [c \in Calls |-> r1]

\* A transaction of two files asked for with and without its mutation id, and a group
\* with the same entry asked for twice.
OnceKind == [c \in Calls |-> IF c \in {c1, c2} THEN "single" ELSE "multi"]
OnceIdent == [c \in Calls |-> IF c \in {c1, c2} THEN i1 ELSE i2]
OnceNamed == [c \in Calls |-> c = c1]
OnceFiles == [c \in Calls |-> IF c \in {c1, c2} THEN <<f1, f2>> ELSE <<>>]
Symmetry == Permutations({c3, c4})

\* A transaction that is looked up, an append that reuses its request id, and a call that
\* is refused.
EndKind == [c \in Calls |-> CASE c = c2 -> "single" [] c = c3 -> "recover" [] OTHER -> "append"]
EndIdent == [c \in Calls |-> i1]
EndNamed == [c \in Calls |-> c \in {c2, c3}]
EndFiles == [c \in Calls |-> IF c = c2 THEN <<f1>> ELSE <<>>]
=============================================================================
