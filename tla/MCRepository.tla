----------------------------- MODULE MCRepository -----------------------------
(* The repository of Repository.tla with one snapshot of one chunk.           *)
EXTENDS Repository, TLC

CONSTANTS c1, s1

OneChunk == {c1}
OneSnapshot == {s1}

\* The snapshot reaches the chunk.
OneNeeds == (s1 :> {c1}) @@ (c1 :> {})

\* Before the host loses the repository, it does nothing but commit and pack.
LossComesFirst ==
  disasters = 0 => \A d \in Disc : disc[d].state \in {"unknown", "packed"}

Symmetry == Permutations(Disc)
===============================================================================
