---- MODULE MCProjection ----
(* Instances of Projection for TLC. *)
EXTENDS Projection, TLC

\* append_tx writes a transaction alone; a mutation writes several files.
EachAlone == {<<p>> : p \in Path}
OneOrTwo == {s \in EachAlone \cup Path \X Path : Cardinality(Elements(s)) = Len(s)}

Symmetry == Permutations(Writer) \cup Permutations(Refresher)
====
