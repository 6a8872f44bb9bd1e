------------------------------- MODULE MCCatalog -------------------------------
(* Three discs of a lost repository for Catalog. *)
EXTENDS Catalog

Reaches == ("s1" :> {"t1", "b1"}) @@ ("s2" :> {"t2", "b1", "b2"}) @@ ("s3" :> {"t2", "t3"})
             @@ ("s4" :> {"t2", "b4"})
Times == [s1 |-> 1, s2 |-> 4, s3 |-> 7]
Record(n, s, t) == [name |-> n, snap |-> s, time |-> t]
R1 == Record("N", "s1", 2)
R2 == {Record("M", "s2", 5), Record("N", "s2", 5)}
R3 == Record("N", "s3", 8)

\* Disc 1 holds the first snapshot, disc 2 what the second one adds, disc 3 the
\* third one; each disc carries the snapshot objects and refs of those before.
ThreeDiscs == <<
  [objects |-> {"s1", "t1", "b1"}, refs |-> {R1}, names |-> {}],
  [objects |-> {"s1", "s2", "t2", "b2"}, refs |-> {R1} \cup R2, names |-> {1}],
  [objects |-> {"s1", "s2", "s3", "t3"}, refs |-> {R1, R3} \cup R2, names |-> {1, 2}]>>
TwoDiscs == SubSeq(ThreeDiscs, 1, 2)
TwoTimes == [s1 |-> 1, s2 |-> 4]

Copy(bad, intact) == [bad |-> bad, tables |-> intact]
BadData == <<{Copy({"b1"}, TRUE)}, {Copy({"t2"}, TRUE)}>>
BadData3 == Append(BadData, {})
BadSnapshot == <<{}, {Copy({"s2"}, TRUE)}>>
None == << >>
One == <<"s4">>
================================================================================
