----------------------------- MODULE MCNextBlock -----------------------------
(* NextBlock.tla with the small repository of MCRepository.tla.              *)
EXTENDS NextBlock, MCRepository

CONSTANTS d1, d2

\* A lost repository packed the chunk on disc d1, then the snapshot on d2.
ChunkThenSnapshot == (d1 :> {c1}) @@ (d2 :> {s1})
EarlierNames == (d1 :> {d1}) @@ (d2 :> {d1, d2})
EarlierNum == (d1 :> 0) @@ (d2 :> 1)
NewestOrBoth == {{d2}, {d1, d2}}

==============================================================================
