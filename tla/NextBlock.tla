------------------------------- MODULE NextBlock -------------------------------
(***************************************************************************)
(* The `next:' block (cmd/noahsark/next.go and cmd_status.go) over the     *)
(* repository of Repository.tla, and an operator who follows it: after any *)
(* commands, stops and losses the operator does what the block says, and   *)
(* nothing else, command after command.                                    *)
(***************************************************************************)
EXTENDS Repository

CONSTANTS
  OldContent, OldNames, OldNum, OldBurnt, \* the discs of a lost repository
  FirstDisc   \* the identity that pack takes first; the others are like it

\* What TablesInv of the proofs says of every disc that pack wrote: it names
\* itself, and only discs that were written; so does each disc that was burned.
ASSUME OldDiscsAssumption ==
  /\ OldContent \in [Disc -> SUBSET Item] /\ OldNames \in [Disc -> SUBSET Disc]
  /\ OldNum \in [Disc -> Nat] /\ OldBurnt \subseteq SUBSET Disc
  /\ \A d \in Disc : OldContent[d] # {} \/ OldNames[d] # {} => d \in OldNames[d]
  /\ \A d \in Disc : \A e \in OldNames[d] : e \in OldNames[e]
  /\ \A burned \in OldBurnt : \A d \in burned : d \in OldNames[d]

VARIABLES
  waits,  \* the lost discs whose Lost event is newer than each snapshot
  told    \* the block that the operator follows, Free before

nvars == <<vars, waits, told>>

Say(step, d) == [step |-> step, disc |-> d]
Free == Say("free", NoDisc)

--------------------------------------------------------------------------------
(* nextBlock. *)

\* summarizeDiscs: the discs of the ledger that are not undone, by number.
Shown == {d \in ledger : disc[d].state # "undone"}
Lowest(S) == {d \in S : \A e \in S : num[d] <= num[e]}

WaitsForCommit(d) == disc[d].state = "lost" /\ disc[d].before \in {"on disc only", "missing"}

Failed == {d \in Shown : disc[d].state = "on disc only" /\ disc[d].failed}
FoundOnDiscOnly(d) == disc[d].state = "on disc only" /\ disc[d].found

\* The slip that asks only for the check of a burned disc.
ToBurnMarked == {d \in Shown : disc[d].state = "burned" \/ FoundOnDiscOnly(d)}

ToBurn == {d \in Shown : disc[d].state \in {"packed", "burned"} \/ FoundOnDiscOnly(d)}
StagedFiles == {i \in Item : item[i].state = "Staged" /\ i \in Readable}

\* The slip that does not look for the disc root.
BurnBlockBlind(d) ==
  Say(IF FoundOnDiscOnly(d) \/ (disc[d].state = "burned" /\ ~disc[d].failed) THEN "verify" ELSE "burn", d)

\* burnBlock: verify, a new disc from the disc root, or disc lost.
BurnBlock(d) ==
  CASE FoundOnDiscOnly(d) \/ (disc[d].state = "burned" /\ ~disc[d].failed) -> Say("verify", d)
    [] ~FoundOnDiscOnly(d) /\ (disc[d].state = "packed" \/ disc[d].failed) ->
         Say(IF d \in root THEN "burn" ELSE "lost", d)

\* The first match in this order; the discs of a step that share the lowest
\* number go in any order.
Blocks ==
  IF ToRepair # {} THEN {Say("gc", NoDisc)}
  ELSE IF Shown \cap InState("missing") # {} THEN {Say("missing", d) : d \in Lowest(Shown \cap InState("missing"))}
  ELSE IF Failed # {} THEN {Say("lost", d) : d \in Lowest(Failed)}
  ELSE IF Shown \cap waits # {} THEN {Say("commit", NoDisc)}
  ELSE IF ToBurn # {} THEN {BurnBlock(d) : d \in Lowest(ToBurn)}
  ELSE IF Shown \cap InState("verified") # {} THEN {Say("gc", NoDisc)}
  ELSE IF StagedFiles # {} THEN {Say("pack", NoDisc)}
  ELSE IF objects \cap Snapshot = {} THEN {Say("commit", NoDisc)}
  ELSE {Say("nothing", NoDisc)}

--------------------------------------------------------------------------------
(* The operator. *)

\* The state that LoseRepository leaves.
LostHost ==
  /\ disc = [d \in Disc |-> UnknownDisc] /\ item = [i \in Item |-> NoRecord]
  /\ index = {} /\ objects = {} /\ ledger = {} /\ files = {} /\ root = {}
  /\ content = OldContent /\ names = OldNames /\ num = OldNum /\ burnt \in OldBurnt
  /\ cmd = Idle /\ 0 < Disasters /\ disasters = Disasters
  /\ proof = [d \in Disc |-> {}] /\ owed = NothingOwed

\* A repository begins new, or with the discs of a lost one.
NextInit == (Init \/ LostHost) /\ waits = {} /\ told = Free

\* A snapshot that commit wrote is newer than each Lost event so far.
SnapshotWritten == cmd'.at = "commit" /\ cmd.at = "open"
Waiting ==
  waits' = IF SnapshotWritten THEN {}
           ELSE {d \in Disc : WaitsForCommit(d)' /\ (d \in waits \/ disc[d].state # "lost")}

FirstDiscFirst == \A d \in root' \ root : d = FirstDisc \/ ~Fresh(FirstDisc)

\* Any command, stop or burn, until the operator begins to follow the block;
\* `disc burned' is told of no disc that was not burned.  The repository is
\* lost where a run begins: what a loss leaves is LostHost for its discs.
Anything ==
  /\ told = Free /\ Next /\ FirstDiscFirst /\ disasters' = disasters
  /\ \A d \in Disc : disc'[d].state = "burned" => d \in burnt
  /\ Waiting /\ UNCHANGED told

\* The operator reads the block and starts its command, after the burn of a
\* copy when it has one; without a disc root there is nothing to burn.
Begin ==
  /\ cmd = Idle
  /\ \E b \in Blocks :
       /\ told' = b
       /\ \/ (b.step = "nothing" \/ (b.step = "burn" /\ b.disc \notin root))
             /\ told # b /\ UNCHANGED vars
          \/ b.step = "burn" /\ b.disc \notin burnt /\ Burn(b.disc)
          \/ b.step # "nothing" /\ (b.step = "burn" => b.disc \in burnt \cap root) /\ Open
  /\ Waiting

\* The command of the block.  A missing disc turns up or is named lost.
Command(d) ==
  CASE told.step = "gc" -> GcEvents
    [] told.step = "missing" -> Recover(d) \/ DiscLost(d)
    [] told.step = "lost" -> DiscLost(d)
    [] told.step = "commit" -> (\E s \in Snapshot : CommitWrites(s)) /\ SnapshotWritten
    [] told.step \in {"verify", "burn"} -> VerifyFails(d) \/ VerifyReads(d)
    [] told.step = "pack" -> PackBegins
    [] OTHER -> FALSE

\* The rest of a command, to its end.
Goes ==
  \/ RepairDisc \/ VerifyRecords \/ LostItems \/ LostRoot
  \/ GcItems \/ GcUnlink
  \/ RecoverLedger \/ RecoverItems \/ RecoverEvents \/ RecheckItems \/ RecheckEvent
  \/ CommitRecords
  \/ PackRemoves \/ FinishPack \/ FinishEvent
  \/ \E d \in Disc : FinishStage(d) \/ PackPlans(d)
  \/ PackTree \/ PackTables \/ PackRow \/ PackItems \/ PackEvent
  \/ (Selections = {} \/ cmd.at = "packFails") /\ PackFails

Follows == Begin \/ (told # Free /\ (Command(told.disc) \/ Goes) /\ FirstDiscFirst /\ Waiting /\ UNCHANGED told)

\* A copy that reads well.
GoodCheck == told # Free /\ VerifyReads(told.disc) /\ Waiting /\ UNCHANGED told

NextFollows == Anything \/ Follows

\* The operator goes on, each command runs to its end, and a disc that is
\* burned and checked again and again reads well at last.
FollowSpec == NextInit /\ [][NextFollows]_nvars /\ WF_nvars(told # Free /\ Follows) /\ SF_nvars(GoodCheck)

--------------------------------------------------------------------------------
(* Properties. *)

Rests == told.step = "nothing"

\* Bound: the model has no new disc for the pack.
OutOfDiscs == told.step = "pack" /\ ~\E d \in Disc : Fresh(d)

\* From every state that any commands, stops and losses leave, the operator who
\* follows the blocks comes to "nothing to do": no block names a command that
\* the repository refuses, and no block comes back for ever.
EventuallyRests == told # Free ~> Rests \/ OutOfDiscs

\* At "nothing to do" no data waits on the host: each item that the log knows
\* is on a disc that was checked, or was lost with one.  A pack that stopped
\* before its Packed event is left out.
RestedIsOnDiscs ==
  Rests /\ Interrupted = {} => \A i \in Item : item[i].state \in {"none", "OnDisc", "Lost"}

\* The same after every pack that stopped.
RestIsSafe == Rests => \A i \in Item : item[i].state \in {"none", "OnDisc", "Lost"}

================================================================================
