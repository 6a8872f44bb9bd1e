------------------------------ MODULE MCPackOrder ------------------------------
(* PackOrder.tla with two snapshots that share a blob and a chunk, and with a *)
(* snapshot of a blob of fourteen chunks after a small one.                   *)
EXTENDS PackOrder, TLC

Discs == 1 .. 3

\* The first snapshot: tree 6, blob 7 with the chunks 5 and 2.  The second
\* one: tree 1 with the same blob, and blob 3 with the chunk 2.
Shared == (8 :> <<6>>) @@ (6 :> <<7>>) @@ (7 :> <<5, 2>>)
            @@ (4 :> <<1>>) @@ (1 :> <<7, 3>>) @@ (3 :> <<2>>) @@ (5 :> << >>) @@ (2 :> << >>)
SharedTime == (8 :> 1) @@ (4 :> 2)
Large == [i \in 1 .. 8 |-> 150 * 2048]

New == [log |-> [i \in Item |-> NoRecord], file |-> [i \in Item |-> "missing"],
        disc |-> [d \in Disc |-> "unused"]]

\* A lost repository with the first snapshot: disc 2 gave the snapshot object
\* and its tree, disc 1 with all else is lost.
Recovered ==
  [log |-> [New.log EXCEPT ![8] = OnDiscOf(2), ![6] = OnDiscOf(2)],
   file |-> [New.file EXCEPT ![8] = "good", ![6] = "good"],
   disc |-> [New.disc EXCEPT ![1] = "lost", ![2] = "freed"]]

NewOrRecovered == {New, Recovered}
OnlyNew == {New}

\* The same with an empty file in the first snapshot, which disc 3 gave.
WithEmpty == [Shared EXCEPT ![6] = <<7, 9>>] @@ (9 :> << >>)
LargeToo == [i \in 1 .. 9 |-> 150 * 2048]
OnlyRecovered ==
  {[log |-> [Recovered.log EXCEPT ![9] = OnDiscOf(3)],
    file |-> [Recovered.file EXCEPT ![9] = "good"],
    disc |-> [Recovered.disc EXCEPT ![3] = "freed"]]}

\* A snapshot of an empty tree, then one with this tree and a blob of fourteen
\* chunks.
Many == (20 :> <<19>>) @@ (19 :> << >>) @@ (18 :> <<17>>) @@ (17 :> <<16, 19>>)
          @@ (16 :> [k \in 1 .. 14 |-> k]) @@ [k \in 1 .. 14 |-> << >>]
Chunks == 1 .. 14
ManyTime == (20 :> 1) @@ (18 :> 2)
Small == [i \in (1 .. 14) \cup (16 .. 20) |-> 700]

================================================================================
