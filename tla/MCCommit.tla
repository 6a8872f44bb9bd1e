-------------------------------- MODULE MCCommit --------------------------------
(* Commit.tla with two files that change and four chunks.                     *)
EXTENDS Commit, TLC

CONSTANTS p1, p2, c1, c2, c3, c4

\* A file of two chunks that changes into another of two, and a file that has
\* a chunk of the first version of the other one.
OneChange == (p1 :> <<<<c1, c2>>, <<c3, c4>>>>) @@ (p2 :> <<<<c1>>>>)

BothPaths == <<p1, p2>>

\* A chunk on a disc, one whose chunk file is missing, and one that was lost.
OldRepository == (c2 :> "OnDisc") @@ (c1 :> "Staged") @@ (c4 :> "Lost")

================================================================================
