------------------------------- MODULE MCRestore -------------------------------
(* Restore.tla with two files, three chunks and two discs.                    *)
EXTENDS Restore, TLC

CONSTANTS f1, f2, c1, c2, c3, d1, d2

\* The first file lies on two discs; the second holds one chunk two times.
One == (f1 :> <<c1, c2>>) @@ (f2 :> <<c2, c1, c2>>)
Small == (f1 :> <<c1, c2>>) @@ (f2 :> <<c2>>)
Other == (f1 :> <<c3, c1>>) @@ (f2 :> <<c2>>)

OneSnapshot == {One}
TwoSnapshots == {Small, Other}

BothFiles == <<f1, f2>>
OneFile == <<f1>>

Apart == (d1 :> {c1}) @@ (d2 :> {c2, c3})
Numbered == <<d1, d2>>

NoLoss == {{}}
NoneOrFirst == {{}, {d1}}

================================================================================
