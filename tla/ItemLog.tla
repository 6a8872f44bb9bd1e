------------------------------- MODULE ItemLog -------------------------------
(***************************************************************************)
(* The item log (internal/stage/log.go): the newest record of one item,    *)
(* and the record that an item needs when the state of its disc changed    *)
(* (internal/stage/repair.go).  An item is a chunk, or a snapshot, tree or *)
(* blob object.                                                            *)
(*                                                                         *)
(* The run number of a record is left out: it always is the run of the     *)
(* disc that the record names.  Of the reasons only "disc lost" on a       *)
(* Staged record is ever read, so every other reason is "other".           *)
(***************************************************************************)
CONSTANTS Disc,    \* the discs
          NoDisc   \* the disc of a record that names none

ASSUME NoDiscAssumption == NoDisc \notin Disc

Reasons == {"disc lost", "other"}

\* Record.check: a Staged record names no disc, every other one names one.
Record == [state : {"Staged"}, disc : {NoDisc}, reason : Reasons]
            \cup [state : {"Packed", "OnDisc", "Lost"}, disc : Disc, reason : {"other"}]

NoRecord == [state |-> "none", disc |-> NoDisc, reason |-> "other"]

Staged       == [state |-> "Staged", disc |-> NoDisc, reason |-> "other"]
StagedByLoss == [state |-> "Staged", disc |-> NoDisc, reason |-> "disc lost"]
PackedOn(d)  == [state |-> "Packed", disc |-> d, reason |-> "other"]
OnDiscOf(d)  == [state |-> "OnDisc", disc |-> d, reason |-> "other"]
LostOf(d)    == [state |-> "Lost", disc |-> d, reason |-> "other"]

\* The items that EnsureStaged (commit) and EnsureOnDisc (recover) record.
NotKnown(r) == r.state \in {"none", "Lost"}

\* State.OnDisc: the record names the disc that took the item.
Taken(r) == r.state \in {"Packed", "OnDisc", "Lost"}

\* Writer.OnDisc: commit writes no chunk file for an item that a disc holds.
OnADisc(r) == r.state \in {"Packed", "OnDisc"}

\* The slip that stages an item and keeps the disc of its record.
FollowKeepsDisc(s, r, held) ==
  CASE s \in {"lost", "undone"} /\ r.state = "Packed" -> [r EXCEPT !.state = "Staged"]
    [] OTHER -> r

(***************************************************************************)
(* itemRepair: the record that an item needs on a disc in the state s.     *)
(* held tells that the catalog holds the item as a good object.  An item   *)
(* that already follows the state keeps its record.                        *)
(***************************************************************************)
Follow(s, r, held) ==
  CASE s = "lost" /\ (r.state = "Packed" \/ (r.state = "OnDisc" /\ held))
           -> StagedByLoss
    [] s = "lost" /\ r.state = "OnDisc" /\ ~held -> LostOf(r.disc)
    [] s = "undone" /\ r.state = "Packed" -> Staged
    [] s = "on disc only" /\ r.state \in {"Packed", "Lost"} -> OnDiscOf(r.disc)
    [] OTHER -> r
=============================================================================
