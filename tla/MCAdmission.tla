----------------------------- MODULE MCAdmission -----------------------------
(* Small instances of Admission for TLC. *)
EXTENDS Admission, TLC

CONSTANTS r1, r2, k1, w1

\* Two attempts of one task, in the task's one worktree.
OneTaskKey == (r1 :> k1) @@ (r2 :> k1)
OneTaskWt == (r1 :> w1) @@ (r2 :> w1)

Interchangeable == Permutations({r1, r2})

=============================================================================
