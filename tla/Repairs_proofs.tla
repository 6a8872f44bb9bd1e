---------------------------- MODULE Repairs_proofs ----------------------------
(***************************************************************************)
(* Proofs about the repairs of the item records, and about the operator    *)
(* who follows the `next:' block, for every set of discs and items, with   *)
(* stops in every command.                                                 *)
(*                                                                         *)
(* A repair of a disc that is not burned means that a command stopped, when*)
(* the copies are undamaged and no root is burned before its Packed event. *)
(* RepairsAreOwed is not inductive: an event changes the state of a disc   *)
(* under all the records that name it, and it is owed only what a command  *)
(* asked for.  RepairInv says which records a disc in each state can have, *)
(* so that no other event leaves a record behind its disc, and that each   *)
(* record that is behind is owed until it is written.                      *)
(*                                                                         *)
(* A command that starts its work owes no record, when batches are whole:  *)
(* EventsFollowed needs ClearInv (openLogs finds each record that is behind*)
(* its disc, whatever left it so) and FollowInv (what is owed is what the  *)
(* states of the discs still ask for), also with damage and early burns.   *)
(***************************************************************************)
EXTENDS NextBlock, Repository_proofs

\* The record r names a disc whose state asks for another record.
Behind(r) ==
  /\ r.disc \in Disc
  /\ \/ disc[r.disc].state = "lost" /\ r.state \in {"Packed", "OnDisc"}
     \/ disc[r.disc].state = "undone" /\ r.state = "Packed"
     \/ disc[r.disc].state = "on disc only" /\ r.state \in {"Packed", "Lost"}

\* A disc whose items are on copies: recover read it, or gc freed it.
AwayStates == {"missing", "on disc only"}
Away(d) ==
  \/ disc[d].state = "unknown" /\ d \in burnt
  \/ disc[d].state \in AwayStates
  \/ disc[d].state = "lost" /\ disc[d].before \in AwayStates

\* Packed is a record of a disc with its row, OnDisc and Lost of one that is away.
Fits(r) ==
  /\ r.state = "Packed" => /\ disc[r.disc].state # "missing"
                           /\ disc[r.disc].state = "unknown" => r.disc \in root \cap ledger
  /\ r.state \in {"OnDisc", "Lost"} => Away(r.disc)

EventSteps == {"lost", "found", "undone"}

ItemsFit == \A i \in Item : Fits(item[i])

\* What the plans of openLogs, and the command that runs, still write.
PlansFit ==
  /\ cmd.at # "repair" => cmd.plans = {}
  /\ \A p, q \in cmd.plans : p.disc = q.disc => p = q
  /\ \A p \in cmd.plans : \A i \in DOMAIN p.recs : Fits(p.recs[i]) /\ ~Behind(p.recs[i])

CommandFits ==
  /\ cmd.at \in {"recover", "recoverItems"} => cmd.items = content[cmd.disc]
  /\ cmd.at \in RecoverSteps => cmd.discs \subseteq names[cmd.disc]
  /\ cmd.at = "recoverEvents" =>
       \A i \in Item : ~(item[i].state = "Lost" /\ item[i].disc = cmd.disc)
  /\ cmd.at \in {"freed", "unlink"} => \A d \in cmd.discs : disc[d].state = "on disc only"
  /\ cmd.at \in {"lost", "lostRoot"} => disc[cmd.disc].state = "lost"

\* The steps at which records may be behind: the event was the last write.
OwedSteps == {"idle", "repair", "freed"} \cup EventSteps

\* Each record that is behind its disc is owed.
BehindIsOwed ==
  \A i \in Item : Behind(item[i]) =>
    /\ i \in DOMAIN owed
    /\ ~Behind(owed[i])
    /\ owed[i].disc \in {NoDisc, item[i].disc}

\* A command that goes on after the event, or that repairs, is about to write it.
BehindIsNext ==
  \A i \in Item : Behind(item[i]) =>
    /\ cmd.at \in OwedSteps
    /\ cmd.at \in EventSteps => item[i].disc = cmd.disc
    /\ cmd.at = "freed" => item[i].disc \in cmd.discs /\ item[i].state = "Packed"
    /\ cmd.at = "repair" => \E p \in cmd.plans : p.disc = item[i].disc /\ i \in DOMAIN p.recs
    /\ \A p \in cmd.plans : i \in DOMAIN p.recs => p.disc = item[i].disc

PlansAreBehind ==
  \A p \in cmd.plans : disc[p.disc].state # "burned" =>
    \E i \in DOMAIN p.recs : Behind(item[i]) /\ item[i].disc = p.disc

RepairInv == ItemsFit /\ PlansFit /\ CommandFits /\ BehindIsOwed /\ BehindIsNext /\ PlansAreBehind

\* What the other proofs know of each state.
KnownInv == TypeOK /\ CommandOK /\ DataInv /\ HolderInv /\ BurntInv /\ NumberInv /\ UndoneInv

-----------------------------------------------------------------------------
(* Facts about records and events. *)

LEMMA RecordsTyped ==
  ASSUME TypeOK
  PROVE  /\ \A i \in Item : item[i].state \in {"Packed", "OnDisc", "Lost"} => item[i].disc \in Disc
         /\ \A i \in Item : item[i].state \in {"none", "Staged"} => item[i].disc = NoDisc
         /\ \A i \in Item : item[i] \in Record \cup {NoRecord}
  BY DEF TypeOK, Record, NoRecord

LEMMA NewRecordFields ==
  /\ Staged.state = "Staged" /\ StagedByLoss.state = "Staged" /\ NoRecord.state = "none"
  /\ Staged.disc = NoDisc /\ StagedByLoss.disc = NoDisc /\ NoRecord.disc = NoDisc
  /\ \A d : /\ PackedOn(d).state = "Packed" /\ PackedOn(d).disc = d
            /\ OnDiscOf(d).state = "OnDisc" /\ OnDiscOf(d).disc = d
            /\ LostOf(d).state = "Lost" /\ LostOf(d).disc = d
  BY DEF Staged, StagedByLoss, NoRecord, PackedOn, OnDiscOf, LostOf

\* A record that names no disc fits and is not behind.
LEMMA StagedFits ==
  /\ Fits(Staged) /\ ~Behind(Staged) /\ Fits(StagedByLoss) /\ ~Behind(StagedByLoss)
  /\ Fits(NoRecord) /\ ~Behind(NoRecord)
  BY NewRecordFields, NoDiscAssumption DEF Fits, Behind

HostStates == {"packed", "burned", "verified"}
CheckEvents == {"BurnRecorded", "BurnRemoved", "CheckOK", "CheckFailed", "MarkedVerified", "VerifyUndone"}

\* What Freed and NamedMissing give.
LEMMA AwayEvents ==
  ASSUME NEW r \in DiscInfo
  PROVE  /\ Permits(r, "Freed") => Apply(r, "Freed").state = "on disc only"
         /\ Permits(r, "NamedMissing") => Apply(r, "NamedMissing").state = "missing"
<1>1. Targets(r, "Freed") \subseteq {"on disc only"} /\ Targets(r, "NamedMissing") \subseteq {"missing"}
  BY DEF Targets, Moves
<1> QED
  BY <1>1, ApplyType

-----------------------------------------------------------------------------
(* Steps that leave no record behind, or change none. *)

\* After a step at which no record is behind.
LEMMA CleanStep ==
  ASSUME ItemsFit', CommandFits', cmd'.plans = {}, \A i \in Item : ~Behind(item[i])'
  PROVE  RepairInv'
  BY DEF RepairInv, PlansFit, BehindIsOwed, BehindIsNext, PlansAreBehind

\* The command ends, or waits, and no record changes.
LEMMA IdleStep ==
  ASSUME RepairInv, cmd'.at = "idle", cmd'.plans = {}, item' = item, owed' = owed, disc' = disc, ItemsFit'
  PROVE  RepairInv'
<1>1. \A i \in Item : Behind(item[i])' <=> Behind(item[i])
  BY DEF Behind
<1>2. \A i \in Item : Behind(owed[i])' <=> Behind(owed[i])
  BY DEF Behind
<1>3. CommandFits' /\ PlansFit' /\ PlansAreBehind'
  BY DEF CommandFits, RecoverSteps, PlansFit, PlansAreBehind
<1>4. BehindIsOwed'
  BY <1>1, <1>2 DEF RepairInv, BehindIsOwed
<1>5. BehindIsNext'
  BY DEF BehindIsNext, OwedSteps, EventSteps
<1> QED
  BY <1>3, <1>4, <1>5 DEF RepairInv

LEMMA NoneBehind ==
  ASSUME RepairInv, cmd.at \notin OwedSteps
  PROVE  \A i \in Item : ~Behind(item[i])
  BY DEF RepairInv, BehindIsNext

\* A disc that a Packed record names keeps its row and its directory.
RowsStay == \A d \in Disc : d \in root \cap ledger /\ ~Known(d) => d \in root' \cap ledger'

LEMMA FitsStay ==
  ASSUME TypeOK, ItemsFit, disc' = disc, item' = item, burnt \subseteq burnt', RowsStay
  PROVE  ItemsFit'
<1> SUFFICES ASSUME NEW i \in Item PROVE Fits(item[i])'
  BY DEF ItemsFit
<1>1. Fits(item[i])
  BY DEF ItemsFit
<1>2. item[i].state \in {"Packed", "OnDisc", "Lost"} => item[i].disc \in Disc
  BY RecordsTyped
<1> QED
  BY <1>1, <1>2 DEF Fits, Away, RowsStay, Known

\* A step of a command that works, or an end: no record and no disc changes.
LEMMA StillStep ==
  ASSUME TypeOK, RepairInv, disc' = disc, item' = item, owed' = owed, burnt \subseteq burnt', RowsStay,
         cmd'.plans = {}, cmd'.at = "idle" \/ cmd.at \notin OwedSteps, CommandFits'
  PROVE  RepairInv'
<1>1. ItemsFit'
  BY FitsStay DEF RepairInv
<1>2. CASE cmd'.at = "idle"
  BY <1>1, <1>2, IdleStep
<1>3. CASE cmd.at \notin OwedSteps
  <2>1. \A i \in Item : ~Behind(item[i])'
    BY <1>3, NoneBehind DEF Behind
  <2> QED
    BY <1>1, <2>1, CleanStep
<1> QED
  BY <1>2, <1>3

-----------------------------------------------------------------------------
(* Steps of a command at work: no record was behind before. *)

\* The steps at which CommandFits asks for something.
FitSteps == RecoverSteps \cup {"freed", "unlink", "lost", "lostRoot"}

LEMMA NothingToFit ==
  ASSUME cmd'.at \notin FitSteps
  PROVE  CommandFits'
  BY DEF CommandFits, FitSteps, RecoverSteps

\* The commands that the actions build.
LEMMA BuiltCommands ==
  /\ Idle.at = "idle" /\ Idle.plans = {}
  /\ \A a, d : Go(a, d).at = a /\ Go(a, d).disc = d /\ Go(a, d).plans = {}
  /\ \A a, d, I : [Go(a, d) EXCEPT !.items = I].at = a /\ [Go(a, d) EXCEPT !.items = I].plans = {}
  /\ \A a, c : c \in Cmd => /\ [c EXCEPT !.at = a].at = a /\ [c EXCEPT !.at = a].disc = c.disc
                            /\ [c EXCEPT !.at = a].discs = c.discs /\ [c EXCEPT !.at = a].items = c.items
                            /\ [c EXCEPT !.at = a].plans = c.plans
  BY DEF Idle, Go, Cmd

\* A batch of records that fit and follow their discs.
LEMMA WorkStep ==
  ASSUME TypeOK, RepairInv, cmd.at \notin OwedSteps, disc' = disc, burnt \subseteq burnt', RowsStay,
         NEW S \in SUBSET Item, NEW recs \in [S -> Record],
         \A i \in S : Fits(recs[i]) /\ ~Behind(recs[i]),
         \A i \in Item : item'[i] = item[i] \/ (i \in S /\ item'[i] = recs[i]),
         cmd'.plans = {}, CommandFits'
  PROVE  RepairInv'
<1>1. ASSUME NEW i \in Item
      PROVE  Fits(item[i])' /\ ~Behind(item[i])'
  <2>1. PICK r : r = item'[i]
    OBVIOUS
  <2>2. Fits(r) /\ ~Behind(r) /\ (r.state \in {"Packed", "OnDisc", "Lost"} => r.disc \in Disc)
    <3>1. CASE r = item[i]
      BY <3>1, NoneBehind, RecordsTyped DEF RepairInv, ItemsFit
    <3>2. CASE i \in S /\ r = recs[i]
      BY <3>2 DEF Record
    <3> QED
      BY <2>1, <3>1, <3>2
  <2>3. ~Behind(item[i])'
    BY <2>1, <2>2 DEF Behind
  <2>4. Fits(item[i])'
    BY <2>1, <2>2 DEF Fits, Away, RowsStay, Known
  <2> QED
    BY <2>3, <2>4
<1> QED
  BY <1>1, CleanStep DEF ItemsFit

LEMMA RowsKept ==
  ASSUME root \subseteq root', ledger \subseteq ledger'
  PROVE  RowsStay
  BY DEF RowsStay

\* The batches that stage items.
LEMMA StagingBatch ==
  ASSUME TypeOK, RepairInv, cmd.at \notin OwedSteps, disc' = disc, burnt' = burnt, RowsStay,
         NEW S \in SUBSET Item, NEW next \in Cmd, AppendItems(All(S, Staged), next),
         next.plans = {}, next.at \notin FitSteps
  PROVE  RepairInv'
<1>1. All(S, Staged) \in [S -> Record] /\ \A i \in S : All(S, Staged)[i] = Staged
  BY RecordTypes DEF All
<1>2. /\ cmd' \in {next, Idle}
      /\ \A i \in Item : item'[i] = item[i] \/ (i \in S /\ item'[i] = All(S, Staged)[i])
  BY <1>1, AppendItemsType
<1>3. cmd'.plans = {} /\ cmd'.at \notin FitSteps
  BY <1>2, BuiltCommands DEF FitSteps, RecoverSteps
<1>4. \A i \in S : Fits(All(S, Staged)[i]) /\ ~Behind(All(S, Staged)[i])
  BY <1>1, StagedFits
<1> QED
  BY <1>1, <1>2, <1>3, <1>4, NothingToFit, WorkStep

LEMMA RepairStages ==
  ASSUME TypeOK, RepairInv, CommitRecords \/ \E d \in Disc : FinishStage(d) \/ PackPlans(d)
  PROVE  RepairInv'
<1>1. CASE CommitRecords
  <2>1. {i \in cmd.items : NotKnown(item[i])} \in SUBSET Item
    BY DEF TypeOK, Cmd
  <2>2. Idle \in Cmd /\ Idle.plans = {} /\ Idle.at \notin FitSteps
    BY GoType, BuiltCommands DEF FitSteps, RecoverSteps
  <2>3. RowsStay /\ cmd.at \notin OwedSteps
    BY <1>1, RowsKept DEF CommitRecords, staging, OwedSteps, EventSteps
  <2> QED
    BY <1>1, <2>1, <2>2, <2>3, StagingBatch DEF CommitRecords
<1>2. ASSUME NEW d \in Disc, FinishStage(d) PROVE RepairInv'
  <2>1. PICK ids : ids = {i \in content[d] : item[i].state \in {"none", "Staged"}}
    OBVIOUS
  <2>2. ids \subseteq Item
    BY <2>1 DEF TypeOK
  <2>3. AppendItems(All({i \in ids : item[i].state = "none"}, Staged), [Go("finishPack", d) EXCEPT !.items = ids])
    BY <1>2, <2>1 DEF FinishStage
  <2>4. /\ [Go("finishPack", d) EXCEPT !.items = ids] \in Cmd
        /\ [Go("finishPack", d) EXCEPT !.items = ids].at = "finishPack"
        /\ [Go("finishPack", d) EXCEPT !.items = ids].plans = {}
    BY <2>2, BuiltCommands DEF Go, Idle, Cmd, Steps
  <2>5. RowsStay /\ cmd.at \notin OwedSteps /\ disc' = disc /\ burnt' = burnt
    BY <1>2, RowsKept DEF FinishStage, staging, OwedSteps, EventSteps
  <2>6. {i \in ids : item[i].state = "none"} \in SUBSET Item
    BY <2>2
  <2> QED
    BY <2>3, <2>4, <2>5, <2>6, StagingBatch DEF FitSteps, RecoverSteps
<1>3. ASSUME NEW d \in Disc, PackPlans(d) PROVE RepairInv'
  <2>1. PICK S \in SUBSET Item : AppendItems(All(S, Staged), Go("packTree", d))
    BY <1>3 DEF PackPlans, Readable, TypeOK, Item
  <2>2. Go("packTree", d) \in Cmd /\ Go("packTree", d).plans = {} /\ Go("packTree", d).at \notin FitSteps
    BY GoType DEF FitSteps, RecoverSteps, Steps
  <2>3. RowsStay /\ cmd.at \notin OwedSteps /\ disc' = disc /\ burnt' = burnt
    BY <1>3, RowsKept DEF PackPlans, OwedSteps, EventSteps
  <2> QED
    BY <2>1, <2>2, <2>3, StagingBatch
<1> QED
  BY <1>1, <1>2, <1>3

\* The batches of pack: the disc has its row and its directory, and no event.
LEMMA RepairPacks ==
  ASSUME TypeOK, CommandOK, CommandTables, RepairInv, FinishPack \/ PackItems
  PROVE  RepairInv'
<1>1. PICK S, d : S = cmd.items /\ d = cmd.disc
  OBVIOUS
<1>2. S \in SUBSET Item /\ d \in Disc /\ disc[d].state = "unknown" /\ d \in root \cap ledger
  BY <1>1 DEF FinishPack, PackItems, TypeOK, Cmd, CommandOK, NewDiscSteps, MakeSteps, DiscSteps, Steps, CommandTables, RowSteps
<1>3. PICK a \in {"finishEvent", "packEvent"} : AppendItems(All(S, PackedOn(d)), Go(a, d))
  BY <1>1 DEF FinishPack, PackItems
<1>4. All(S, PackedOn(d)) \in [S -> Record] /\ \A i \in S : All(S, PackedOn(d))[i] = PackedOn(d)
  BY <1>2, RecordTypes DEF All
<1>5. Go(a, d) \in Cmd /\ Go(a, d).plans = {} /\ Go(a, d).at = a
  BY <1>2, GoType DEF Steps
<1>6. /\ cmd' \in {Go(a, d), Idle}
      /\ \A i \in Item : item'[i] = item[i] \/ (i \in S /\ item'[i] = All(S, PackedOn(d))[i])
  BY <1>2, <1>3, <1>4, <1>5, AppendItemsType
<1>7. cmd'.plans = {} /\ cmd'.at \notin FitSteps
  BY <1>5, <1>6, BuiltCommands DEF FitSteps, RecoverSteps
<1>8. Fits(PackedOn(d)) /\ ~Behind(PackedOn(d))
  BY <1>2, NewRecordFields DEF Fits, Behind
<1>9. RowsStay /\ disc' = disc /\ burnt' = burnt /\ cmd.at \notin OwedSteps
  BY RowsKept DEF FinishPack, PackItems, staging, OwedSteps, EventSteps
<1> QED
  BY <1>2, <1>4, <1>6, <1>7, <1>8, <1>9, NothingToFit, WorkStep

\* The records of a recover, or of a check after it, name the disc that it read.
LEMMA RecoverBatch ==
  ASSUME TypeOK, CommandOK, BurntInv, RepairInv, NEW a \in {"recoverEvents", "recheckEvent"}, EnsureOnDisc(a),
         cmd.at \in {"recoverItems", "recheck"}, CommandFits'
  PROVE  RepairInv'
<1>1. PICK S, d : S = {i \in cmd.items : NotKnown(item[i])} /\ d = cmd.disc
  OBVIOUS
<1>2. S \in SUBSET Item /\ cmd \in Cmd
  BY <1>1 DEF TypeOK, Cmd
<1>3. /\ d \in Disc
      /\ \/ disc[d].state \in {"unknown", "missing"} /\ d \in burnt
         \/ disc[d].state = "on disc only"
  BY <1>1 DEF CommandOK, DiscSteps, Steps, BurntInv, RecoverSteps
<1>4. AppendItems(All(S, OnDiscOf(d)), [cmd EXCEPT !.at = a])
  BY <1>1 DEF EnsureOnDisc
<1>5. All(S, OnDiscOf(d)) \in [S -> Record] /\ \A i \in S : All(S, OnDiscOf(d))[i] = OnDiscOf(d)
  BY <1>3, RecordTypes DEF All
<1>6. [cmd EXCEPT !.at = a] \in Cmd
  BY <1>2, CmdType DEF Steps
<1>7. /\ cmd' \in {[cmd EXCEPT !.at = a], Idle}
      /\ \A i \in Item : item'[i] = item[i] \/ (i \in S /\ item'[i] = All(S, OnDiscOf(d))[i])
  BY <1>2, <1>4, <1>5, <1>6, AppendItemsType
<1>8. cmd.plans = {}
  BY DEF RepairInv, PlansFit
<1>9. cmd'.plans = {}
  <2>1. CASE cmd' = [cmd EXCEPT !.at = a]
    BY <1>2, <1>8, <2>1, BuiltCommands
  <2>2. CASE cmd' = Idle
    BY <2>2, BuiltCommands
  <2> QED
    BY <1>7, <2>1, <2>2
<1>10. Fits(OnDiscOf(d)) /\ ~Behind(OnDiscOf(d))
  BY <1>3, NewRecordFields DEF Fits, Behind, Away, AwayStates
<1>11. RowsStay /\ disc' = disc /\ burnt' = burnt /\ cmd.at \notin OwedSteps
  BY RowsKept DEF EnsureOnDisc, staging, OwedSteps, EventSteps
<1> QED
  BY <1>2, <1>5, <1>7, <1>9, <1>10, <1>11, WorkStep

LEMMA RepairRecheckItems ==
  ASSUME TypeOK, CommandOK, BurntInv, RepairInv, RecheckItems
  PROVE  RepairInv'
<1>1. cmd' \in {[cmd EXCEPT !.at = "recheckEvent"], Idle}
  BY DEF RecheckItems, EnsureOnDisc, AppendItems
<1>2. cmd'.at \in {"recheckEvent", "idle"}
  <2>1. CASE cmd' = [cmd EXCEPT !.at = "recheckEvent"]
    BY <2>1, BuiltCommands DEF TypeOK
  <2>2. CASE cmd' = Idle
    BY <2>2, BuiltCommands
  <2> QED
    BY <1>1, <2>1, <2>2
<1>3. CommandFits'
  BY <1>2, NothingToFit DEF FitSteps, RecoverSteps
<1> QED
  BY <1>3, RecoverBatch DEF RecheckItems

\* A whole batch of a recover leaves no lost item on the disc.
LEMMA RepairRecoverItems ==
  ASSUME TypeOK, CommandOK, BurntInv, HolderInv, RepairInv, RecoverItems
  PROVE  RepairInv'
<1>1. PICK S, d : S = {i \in cmd.items : NotKnown(item[i])} /\ d = cmd.disc
  OBVIOUS
<1>2. PICK T \in Written(DOMAIN All(S, OnDiscOf(d))) :
        /\ item' = [i \in Item |-> IF i \in T THEN All(S, OnDiscOf(d))[i] ELSE item[i]]
        /\ cmd' = IF T = DOMAIN All(S, OnDiscOf(d)) THEN [cmd EXCEPT !.at = "recoverEvents"] ELSE Idle
  BY <1>1 DEF RecoverItems, EnsureOnDisc, AppendItems
<1>3. DOMAIN All(S, OnDiscOf(d)) = S /\ \A i \in S : All(S, OnDiscOf(d))[i] = OnDiscOf(d)
  BY DEF All
<1>4. CASE cmd' = Idle
  BY <1>4, BuiltCommands, NothingToFit, RecoverBatch DEF FitSteps, RecoverSteps, RecoverItems
<1>5. CASE cmd' = [cmd EXCEPT !.at = "recoverEvents"] /\ T = S
  <2>1. /\ cmd'.at = "recoverEvents" /\ cmd'.disc = cmd.disc /\ cmd'.discs = cmd.discs
    BY <1>5, BuiltCommands DEF TypeOK
  <2>2. cmd.items = content[d] /\ cmd.discs \subseteq names[cmd.disc]
    BY <1>1 DEF RepairInv, CommandFits, RecoverItems, RecoverSteps
  <2>3. names' = names
    BY DEF RecoverItems, EnsureOnDisc, made
  <2>4. ASSUME NEW i \in Item, item'[i].state = "Lost", item'[i].disc = d
        PROVE  FALSE
    <3>1. i \notin S
      BY <1>2, <1>3, <1>5, <2>4, NewRecordFields
    <3>2. item'[i] = item[i]
      BY <1>2, <1>5, <3>1
    <3>3. d # NoDisc
      BY <2>4, <3>2, NoDiscAssumption, RecordsTyped
    <3>4. i \in content[d]
      BY <2>4, <3>2, <3>3 DEF HolderInv, ItemsHeld, NamesHolder
    <3> QED
      BY <1>1, <2>2, <2>4, <3>1, <3>2, <3>4 DEF NotKnown
  <2>5. CommandFits'
    BY <1>1, <2>1, <2>2, <2>3, <2>4 DEF CommandFits, RecoverSteps
  <2> QED
    BY <2>5, RecoverBatch DEF RecoverItems
<1> QED
  BY <1>2, <1>3, <1>4, <1>5

-----------------------------------------------------------------------------
(* Steps that write no record and no event. *)

LEMMA RowsRemoved ==
  ASSUME NEW d \in Disc, RemoveNext(d), disc[d].state # "unknown" \/ d \notin ledger
  PROVE  RowsStay
<1> SUFFICES ASSUME NEW e \in Disc, e \in root \cap ledger, ~Known(e) PROVE e \in root' \cap ledger'
  BY DEF RowsStay
<1> QED
  BY DEF RemoveNext, Known

\* A step at work that takes no row away and leaves the command at a step where nothing is asked.
LEMMA QuietRepair ==
  ASSUME TypeOK, RepairInv, disc' = disc, item' = item, owed' = owed, burnt' = burnt, RowsStay,
         cmd'.plans = {}, cmd'.at \notin FitSteps, cmd'.at = "idle" \/ cmd.at \notin OwedSteps
  PROVE  RepairInv'
  BY NothingToFit, StillStep

LEMMA RepairQuiet ==
  ASSUME TypeOK, CommandOK, UndoneInv, RepairInv,
         \/ Stop \/ LostRoot \/ GcUnlink \/ PackBegins \/ PackRemoves \/ UndoRemoves
         \/ PackTree \/ PackTables \/ PackRow \/ PackFails
         \/ \E d \in Disc : VerifyReads(d) \/ CatalogStops(d)
         \/ \E s \in Snapshot : CommitWrites(s)
  PROVE  RepairInv'
<1>1. CASE Stop
  BY <1>1, RowsKept, QuietRepair, BuiltCommands DEF Stop, logs, staging, FitSteps, RecoverSteps
<1>2. CASE LostRoot
  <2>1. disc[cmd.disc].state = "lost"
    BY <1>2 DEF LostRoot, RepairInv, CommandFits
  <2>2. RowsStay
    BY <1>2, <2>1 DEF LostRoot, RowsStay, Known
  <2> QED
    BY <1>2, <2>2, QuietRepair, BuiltCommands DEF LostRoot, logs, FitSteps, RecoverSteps
<1>3. CASE GcUnlink
  <2>1. \A d \in cmd.discs : disc[d].state = "on disc only"
    BY <1>3 DEF GcUnlink, RepairInv, CommandFits
  <2>2. RowsStay
    BY <1>3, <2>1 DEF GcUnlink, RowsStay, Known
  <2> QED
    BY <1>3, <2>2, QuietRepair, BuiltCommands DEF GcUnlink, logs, FitSteps, RecoverSteps
<1>4. CASE PackBegins
  BY <1>4, RowsKept, QuietRepair, BuiltCommands DEF PackBegins, logs, staging, FitSteps, RecoverSteps, OwedSteps, EventSteps
<1>5. CASE PackRemoves
  <2>1. PICK d \in Disc : RemoveNext(d) /\ (disc[d].state # "unknown" \/ d \notin ledger)
    BY <1>5 DEF PackRemoves, Leftover, Stray, InState, TypeOK
  <2>2. RowsStay
    BY <2>1, RowsRemoved
  <2>3. cmd'.plans = {} /\ cmd'.at = "pack"
    BY <1>5 DEF PackRemoves, RepairInv, PlansFit
  <2> QED
    BY <1>5, <2>2, <2>3, QuietRepair DEF PackRemoves, logs, FitSteps, RecoverSteps, OwedSteps, EventSteps
<1>6. CASE UndoRemoves
  <2>1. cmd.disc \in Disc /\ disc[cmd.disc].state = "undone"
    BY <1>6 DEF UndoRemoves, CommandOK, DiscSteps, Steps, UndoneInv, CommandTables, UndoSteps
  <2>2. RowsStay
    BY <1>6, <2>1, RowsRemoved DEF UndoRemoves
  <2>3. cmd'.plans = {} /\ cmd'.at = "undoing"
    BY <1>6 DEF UndoRemoves, RepairInv, PlansFit
  <2> QED
    BY <1>6, <2>2, <2>3, QuietRepair DEF UndoRemoves, logs, FitSteps, RecoverSteps, OwedSteps, EventSteps
<1>7. CASE PackTree
  <2>1. PICK S, d : cmd' = [Go("packTables", d) EXCEPT !.items = S]
    BY <1>7 DEF PackTree
  <2> QED
    BY <1>7, <2>1, RowsKept, QuietRepair, BuiltCommands
       DEF PackTree, logs, staging, FitSteps, RecoverSteps, OwedSteps, EventSteps
<1>8. CASE PackTables \/ PackRow
  <2>1. PICK a \in {"packRow", "packItems"} : cmd' = [cmd EXCEPT !.at = a]
    BY <1>8 DEF PackTables, PackRow
  <2>2. cmd'.at = a /\ cmd'.plans = cmd.plans
    BY <2>1, BuiltCommands DEF TypeOK
  <2>3. cmd.plans = {} /\ cmd.at \notin OwedSteps
    BY <1>8 DEF PackTables, PackRow, RepairInv, PlansFit, OwedSteps, EventSteps
  <2> QED
    BY <1>8, <2>2, <2>3, RowsKept, QuietRepair DEF PackTables, PackRow, logs, staging, FitSteps, RecoverSteps
<1>9. CASE PackFails
  <2>1. root' = root \/ cmd.disc \notin ledger
    BY <1>9 DEF PackFails, UndoneInv, CommandTables, NewSteps
  <2>2. RowsStay
    BY <1>9, <2>1 DEF PackFails, RowsStay
  <2>3. cmd'.at \in {"idle", "packFails"} /\ cmd'.plans = {} /\ cmd.at \notin OwedSteps
    BY <1>9, BuiltCommands DEF PackFails, OwedSteps, EventSteps
  <2> QED
    BY <1>9, <2>2, <2>3, QuietRepair DEF PackFails, logs, made, FitSteps, RecoverSteps
<1>10. ASSUME NEW d \in Disc, VerifyReads(d) \/ CatalogStops(d) PROVE RepairInv'
  <2>1. cmd' = Idle \/ cmd' = Go("read", d)
    BY <1>10 DEF VerifyReads, CatalogStops
  <2>2. cmd'.plans = {} /\ cmd'.at \in {"idle", "read"}
    BY <2>1, BuiltCommands
  <2>3. RowsStay /\ cmd.at \notin OwedSteps
    BY <1>10, RowsKept DEF VerifyReads, CanVerify, CatalogStops, staging, OwedSteps, EventSteps
  <2> QED
    BY <1>10, <2>2, <2>3, QuietRepair DEF VerifyReads, CatalogStops, logs, FitSteps, RecoverSteps
<1>11. ASSUME NEW s \in Snapshot, CommitWrites(s) PROVE RepairInv'
  <2>1. PICK W : cmd' = Idle \/ cmd' = [Go("commit", NoDisc) EXCEPT !.items = W]
    BY <1>11 DEF CommitWrites
  <2>2. cmd'.plans = {} /\ cmd'.at \in {"idle", "commit"}
    <3>1. CASE cmd' = [Go("commit", NoDisc) EXCEPT !.items = W]
      BY <3>1, BuiltCommands
    <3> QED
      BY <2>1, <3>1, BuiltCommands
  <2>3. RowsStay /\ cmd.at \notin OwedSteps
    BY <1>11, RowsKept DEF CommitWrites, OwedSteps, EventSteps
  <2> QED
    BY <1>11, <2>2, <2>3, QuietRepair DEF CommitWrites, logs, FitSteps, RecoverSteps
<1> QED
  BY <1>1, <1>2, <1>3, <1>4, <1>5, <1>6, <1>7, <1>8, <1>9, <1>10, <1>11

LEMMA RepairRecover ==
  ASSUME TypeOK, RepairInv, ~Damage, NEW d \in Disc, Recover(d)
  PROVE  RepairInv'
<1>1. PICK read : /\ read = [Go("recover", d) EXCEPT !.items = content[d], !.discs = names[d], !.whole = TRUE]
                  /\ cmd' \in {read, [read EXCEPT !.at = "recheck"], Idle}
  <2>1. PICK bad \in {{}}, goodRefs, goodDiscs \in {TRUE} :
          LET whole == bad = {} /\ goodRefs /\ goodDiscs
              read  == [Go("recover", d) EXCEPT
                          !.items = content[d] \ bad,
                          !.discs = IF goodDiscs THEN names[d] ELSE {},
                          !.whole = whole]
          IN cmd' \in {read, [read EXCEPT !.at = "recheck"], Idle}
    BY Zenon DEF Recover
  <2>2. content[d] \ bad = content[d] /\ (bad = {} /\ goodRefs /\ goodDiscs) = TRUE
        /\ (IF goodDiscs THEN names[d] ELSE {}) = names[d]
    BY <2>1
  <2> QED
    BY <2>1, <2>2
<1>2. /\ read.at = "recover" /\ read.disc = d /\ read.items = content[d] /\ read.discs = names[d]
      /\ read.plans = {}
      /\ [read EXCEPT !.at = "recheck"].at = "recheck" /\ [read EXCEPT !.at = "recheck"].plans = {}
  BY <1>1 DEF Go, Idle
<1>3. cmd'.plans = {} /\ CommandFits'
  <2>1. CASE cmd' = read
    <3>1. content' = content /\ names' = names
      BY DEF Recover, made
    <3> QED
      BY <1>2, <2>1, <3>1 DEF CommandFits, RecoverSteps
  <2>2. CASE cmd' \in {[read EXCEPT !.at = "recheck"], Idle}
    <3>1. cmd'.at \in {"recheck", "idle"} /\ cmd'.plans = {}
      BY <1>2, <2>2, BuiltCommands
    <3> QED
      BY <3>1, NothingToFit DEF FitSteps, RecoverSteps
  <2> QED
    BY <1>1, <2>1, <2>2
<1>4. RowsStay /\ cmd.at \notin OwedSteps
  BY RowsKept DEF Recover, staging, OwedSteps, EventSteps
<1> QED
  BY <1>3, <1>4, StillStep DEF Recover, logs

LEMMA RepairRecoverLedger ==
  ASSUME TypeOK, RepairInv, RecoverLedger
  PROVE  RepairInv'
<1>1. /\ cmd'.at = "recoverItems" /\ cmd'.disc = cmd.disc /\ cmd'.items = cmd.items
      /\ cmd'.discs = cmd.discs /\ cmd'.plans = cmd.plans
  BY BuiltCommands DEF RecoverLedger, TypeOK
<1>2. cmd.items = content[cmd.disc] /\ cmd.discs \subseteq names[cmd.disc] /\ cmd.plans = {}
  BY DEF RecoverLedger, RepairInv, CommandFits, PlansFit, RecoverSteps
<1>3. CommandFits'
  BY <1>1, <1>2 DEF CommandFits, RecoverSteps, RecoverLedger, made
<1>4. RowsStay /\ cmd.at \notin OwedSteps
  BY RowsKept DEF RecoverLedger, staging, OwedSteps, EventSteps
<1> QED
  BY <1>1, <1>2, <1>3, <1>4, StillStep DEF RecoverLedger, logs

LEMMA RepairBurn ==
  ASSUME TypeOK, RepairInv, NEW d \in Disc, Burn(d)
  PROVE  RepairInv'
<1>1. cmd'.at = "idle" /\ cmd'.plans = {}
  BY BuiltCommands DEF Burn
<1>2. RowsStay /\ burnt \subseteq burnt'
  BY RowsKept DEF Burn, staging
<1>3. CommandFits'
  BY <1>1, NothingToFit DEF FitSteps, RecoverSteps
<1> QED
  BY <1>1, <1>2, <1>3, StillStep DEF Burn, logs

LEMMA RepairEmpty ==
  ASSUME \A i \in Item : item'[i] = NoRecord, cmd'.at = "idle", cmd'.plans = {}
  PROVE  RepairInv'
<1>1. \A i \in Item : Fits(item[i])' /\ ~Behind(item[i])'
  BY NewRecordFields, NoDiscAssumption DEF Fits, Behind
<1> QED
  BY <1>1, NothingToFit, CleanStep DEF ItemsFit, FitSteps, RecoverSteps

LEMMA RepairLose == RepairInv /\ LoseRepository => RepairInv'
<1> SUFFICES ASSUME RepairInv, LoseRepository PROVE RepairInv'
  OBVIOUS
<1>1. cmd'.at = "idle" /\ cmd'.plans = {}
  BY BuiltCommands DEF LoseRepository
<1> QED
  BY <1>1, RepairEmpty DEF LoseRepository

LEMMA RepairInit == Init => RepairInv
<1> SUFFICES ASSUME Init PROVE RepairInv
  OBVIOUS
<1>1. \A i \in Item : Fits(item[i]) /\ ~Behind(item[i])
  BY NewRecordFields, NoDiscAssumption DEF Init, Fits, Behind
<1>2. cmd.at = "idle" /\ cmd.plans = {}
  BY BuiltCommands DEF Init
<1> QED
  BY <1>1, <1>2 DEF RepairInv, ItemsFit, PlansFit, CommandFits, RecoverSteps, BehindIsOwed, BehindIsNext, PlansAreBehind

-----------------------------------------------------------------------------
(* Batches of records that an event asked for. *)

\* A record that is behind its disc is one that a repair of the disc writes.
LEMMA BehindFollows ==
  ASSUME TypeOK, NEW i \in Item, Behind(item[i])
  PROVE  i \in Direct(disc[item[i].disc], item[i].disc)
<1>1. PICK r, s, held : r = item[i] /\ s = disc[r.disc].state /\ held = (i \in objects)
  OBVIOUS
<1>2. Follow(s, r, held) # r
  BY <1>1, NewRecordFields DEF Follow, Behind
<1> QED
  BY <1>1, <1>2 DEF Direct

\* What a repair writes.
LEMMA RepairFits ==
  ASSUME TypeOK, RepairInv, NEW d \in Disc, NEW i \in DOMAIN Repair(disc[d], d)
  PROVE  /\ Fits(Repair(disc[d], d)[i]) /\ ~Behind(Repair(disc[d], d)[i])
         /\ Behind(item[i]) => item[i].disc = d
<1>1. PICK s, r, held, x : /\ s = disc[d].state /\ r = item[i] /\ held = (i \in objects)
                           /\ x = Repair(disc[d], d)[i]
  OBVIOUS
<1> SUFFICES Fits(x) /\ ~Behind(x) /\ (Behind(r) => r.disc = d)
  BY <1>1
<1>0. disc[d].state = s
  BY <1>1
<1>2. i \in Item /\ Fits(r)
  BY <1>1, RepairType DEF RepairInv, ItemsFit
<1>3. CASE i \in GivenBack(disc[d], d)
  <2>1. x = PackedOn(d)
    BY <1>1, <1>3 DEF Repair
  <2>2. s = "burned" /\ r.state = "Staged"
    BY <1>1, <1>3 DEF GivenBack
  <2>3. x.state = "Packed" /\ x.disc = d
    BY <2>1, NewRecordFields
  <2> QED
    BY <1>0, <2>2, <2>3 DEF Fits, Behind
<1>4. CASE i \notin GivenBack(disc[d], d) /\ i \in ObjectsBack(disc[d], d)
  <2>1. x = OnDiscOf(d)
    BY <1>1, <1>4 DEF Repair
  <2>2. s = "on disc only" /\ r.state = "Staged"
    BY <1>1, <1>4, NewRecordFields DEF ObjectsBack
  <2>3. x.state = "OnDisc" /\ x.disc = d
    BY <2>1, NewRecordFields
  <2> QED
    BY <1>0, <2>2, <2>3 DEF Fits, Behind, Away, AwayStates
<1>5. CASE i \notin GivenBack(disc[d], d) /\ i \notin ObjectsBack(disc[d], d)
  <2>1. i \in Direct(disc[d], d)
    BY <1>5 DEF Repair
  <2>2. r.disc = d /\ Follow(s, r, held) # r
    BY <1>1, <2>1 DEF Direct
  <2>3. x = Follow(s, r, held)
    BY <1>1, <1>5, <2>1 DEF Repair
  <2>4. \/ Follow(s, r, held) \in {StagedByLoss, Staged}
        \/ s = "lost" /\ r.state = "OnDisc" /\ Follow(s, r, held) = LostOf(d)
        \/ s = "on disc only" /\ Follow(s, r, held) = OnDiscOf(d)
    BY <2>2 DEF Follow
  <2>5. CASE Follow(s, r, held) \in {StagedByLoss, Staged}
    BY <1>1, <2>2, <2>3, <2>5, StagedFits
  <2>6. CASE s = "lost" /\ r.state = "OnDisc" /\ Follow(s, r, held) = LostOf(d)
    <3>1. Away(d)
      BY <1>2, <2>2, <2>6 DEF Fits
    <3>2. x.state = "Lost" /\ x.disc = d
      BY <2>3, <2>6, NewRecordFields
    <3> QED
      BY <1>0, <2>2, <2>6, <3>1, <3>2 DEF Fits, Behind
  <2>7. CASE s = "on disc only" /\ Follow(s, r, held) = OnDiscOf(d)
    <3>1. x.state = "OnDisc" /\ x.disc = d
      BY <2>3, <2>7, NewRecordFields
    <3> QED
      BY <1>0, <2>2, <2>7, <3>1 DEF Fits, Behind, Away, AwayStates
  <2> QED
    BY <2>4, <2>5, <2>6, <2>7
<1> QED
  BY <1>3, <1>4, <1>5

\* A batch leaves a record behind only where it was, and settles nothing then.
LEMMA OwedBatch ==
  ASSUME TypeOK, RepairInv, disc' = disc, burnt' = burnt, RowsStay,
         NEW S \in SUBSET Item, NEW recs \in [S -> Record],
         \A i \in S : Fits(recs[i]) /\ ~Behind(recs[i]),
         NEW T \in SUBSET S, item' = [i \in Item |-> IF i \in T THEN recs[i] ELSE item[i]],
         owed' = IF \A i \in DOMAIN owed : Settled(i) THEN NothingOwed ELSE owed
  PROVE  /\ ItemsFit' /\ BehindIsOwed'
         /\ \A i \in Item : Behind(item[i])' => Behind(item[i]) /\ i \notin T /\ item'[i] = item[i]
<1>1. ASSUME NEW i \in Item
      PROVE  Fits(item[i])' /\ (Behind(item[i])' => Behind(item[i]) /\ i \notin T /\ item'[i] = item[i])
  <2>1. PICK r : r = item'[i]
    OBVIOUS
  <2>2. Fits(r) /\ (r.state \in {"Packed", "OnDisc", "Lost"} => r.disc \in Disc)
    <3>1. CASE i \notin T
      BY <2>1, <3>1, RecordsTyped DEF RepairInv, ItemsFit
    <3>2. CASE i \in T
      <4>1. r = recs[i] /\ recs[i] \in Record
        BY <2>1, <3>2
      <4> QED
        BY <3>2, <4>1 DEF Record
    <3> QED
      BY <3>1, <3>2
  <2>3. Fits(item[i])'
    BY <2>1, <2>2 DEF Fits, Away, RowsStay, Known
  <2>4. ASSUME Behind(item[i])' PROVE Behind(item[i]) /\ i \notin T /\ item'[i] = item[i]
    <3>1. Behind(r)
      BY <2>1, <2>4 DEF Behind
    <3> QED
      BY <2>1, <3>1
  <2> QED
    BY <2>3, <2>4
<1>2. ASSUME NEW i \in Item, Behind(item[i])'
      PROVE  owed' = owed /\ i \in DOMAIN owed /\ ~Behind(owed[i])' /\ owed[i].disc \in {NoDisc, item'[i].disc}
  <2>1. Behind(item[i]) /\ item'[i] = item[i]
    BY <1>1, <1>2
  <2>2. i \in DOMAIN owed /\ ~Behind(owed[i]) /\ owed[i].disc \in {NoDisc, item[i].disc}
    BY <2>1 DEF RepairInv, BehindIsOwed
  <2>3. owed[i] \in Record
    BY <2>2 DEF TypeOK
  <2>4. PICK o : o = owed[i]
    OBVIOUS
  <2>5. Taken(o) => o.disc = item[i].disc
    BY <2>2, <2>3, <2>4, NoDiscAssumption DEF Record, Taken
  <2>6. ~Settled(i)
    <3>1. item'[i] # o
      BY <2>1, <2>2, <2>4
    <3>2. \A e \in Disc : item'[i] = PackedOn(e) => item[i].disc = e
      BY <2>1, NewRecordFields
    <3> QED
      BY <2>4, <2>5, <3>1, <3>2 DEF Settled
  <2>7. owed' = owed
    BY <2>2, <2>6
  <2>8. ~Behind(owed[i])'
    <3>1. ~Behind(o)'
      BY <2>2, <2>4 DEF Behind
    <3> QED
      BY <2>4, <2>7, <3>1 DEF Behind
  <2> QED
    BY <2>1, <2>2, <2>7, <2>8
<1>3. BehindIsOwed'
  <2> SUFFICES ASSUME NEW i \in Item, Behind(item[i])'
               PROVE  (/\ i \in DOMAIN owed
                       /\ ~Behind(owed[i])
                       /\ owed[i].disc \in {NoDisc, item[i].disc})'
    BY DEF BehindIsOwed
  <2>1. /\ owed' = owed /\ i \in DOMAIN owed /\ ~Behind(owed[i])'
        /\ owed[i].disc \in {NoDisc, item'[i].disc}
    BY <1>2
  <2> QED
    BY <2>1
<1> QED
  BY <1>1, <1>3 DEF ItemsFit

LEMMA OwedIdle ==
  ASSUME ItemsFit', BehindIsOwed', cmd'.at = "idle", cmd'.plans = {}
  PROVE  RepairInv'
<1>1. CommandFits'
  BY NothingToFit DEF FitSteps, RecoverSteps
<1> QED
  BY <1>1 DEF RepairInv, PlansFit, BehindIsNext, PlansAreBehind, OwedSteps, EventSteps

LEMMA BatchParts ==
  ASSUME NEW recs, NEW next, AppendOwed(recs, next)
  PROVE  \E T \in SUBSET DOMAIN recs :
           /\ item' = [i \in Item |-> IF i \in T THEN recs[i] ELSE item[i]]
           /\ cmd' = IF T = DOMAIN recs THEN next ELSE Idle
           /\ owed' = IF \A i \in DOMAIN owed : Settled(i) THEN NothingOwed ELSE owed
<1>1. PICK T \in Written(DOMAIN recs) :
        /\ item' = [i \in Item |-> IF i \in T THEN recs[i] ELSE item[i]]
        /\ cmd' = IF T = DOMAIN recs THEN next ELSE Idle
  BY DEF AppendOwed, AppendItems
<1>2. T \subseteq DOMAIN recs
  BY DEF Written
<1> QED
  BY <1>1, <1>2 DEF AppendOwed

\* The batch of a command that wrote the event of its disc.
LEMMA RepairDiscItems ==
  ASSUME TypeOK, CommandOK, RepairInv, cmd.at \in EventSteps, NEW next, next.plans = {},
         AppendOwed(Repair(disc[cmd.disc], cmd.disc), next),
         UNCHANGED <<disc, burnt, root, ledger>>, cmd' = next => CommandFits'
  PROVE  RepairInv'
<1>1. PICK d, recs : d = cmd.disc /\ recs = Repair(disc[d], d)
  OBVIOUS
<1>2. d \in Disc
  BY <1>1 DEF CommandOK, DiscSteps, Steps, EventSteps
<1>3. DOMAIN recs \subseteq Item /\ recs \in [DOMAIN recs -> Record]
  BY <1>1, <1>2, RepairType
<1>4. PICK T \in SUBSET DOMAIN recs :
        /\ item' = [i \in Item |-> IF i \in T THEN recs[i] ELSE item[i]]
        /\ cmd' = IF T = DOMAIN recs THEN next ELSE Idle
        /\ owed' = IF \A i \in DOMAIN owed : Settled(i) THEN NothingOwed ELSE owed
  BY <1>1, BatchParts
<1>5. \A i \in DOMAIN recs : Fits(recs[i]) /\ ~Behind(recs[i])
  BY <1>1, <1>2, RepairFits
<1>6. RowsStay
  BY RowsKept
<1>7. /\ ItemsFit' /\ BehindIsOwed'
      /\ \A i \in Item : Behind(item[i])' => Behind(item[i]) /\ i \notin T /\ item'[i] = item[i]
  BY <1>3, <1>4, <1>5, <1>6, OwedBatch
<1>8. CASE cmd' = Idle
  BY <1>7, <1>8, BuiltCommands, OwedIdle
<1>9. CASE cmd' = next /\ T = DOMAIN recs
  <2>1. ASSUME NEW i \in Item, Behind(item[i])' PROVE FALSE
    <3>1. Behind(item[i]) /\ i \notin T
      BY <1>7, <2>1
    <3>2. item[i].disc = d
      BY <1>1, <3>1 DEF RepairInv, BehindIsNext
    <3>3. i \in DOMAIN recs
      BY <1>1, <3>1, <3>2, BehindFollows DEF Repair
    <3> QED
      BY <1>9, <3>1, <3>3
  <2> QED
    BY <1>7, <1>9, <2>1, CleanStep
<1> QED
  BY <1>4, <1>8, <1>9

LEMMA RepairEventItems ==
  ASSUME TypeOK, CommandOK, RepairInv, LostItems \/ FoundItems \/ UndoneItems
  PROVE  RepairInv'
<1>1. CASE LostItems
  <2>1. cmd' = Go("lostRoot", cmd.disc) => CommandFits'
    <3> SUFFICES ASSUME cmd' = Go("lostRoot", cmd.disc) PROVE CommandFits'
      OBVIOUS
    <3>1. cmd'.at = "lostRoot" /\ cmd'.disc = cmd.disc
      BY BuiltCommands
    <3>2. disc' = disc /\ disc[cmd.disc].state = "lost"
      BY <1>1 DEF LostItems, RepairInv, CommandFits
    <3> QED
      BY <3>1, <3>2 DEF CommandFits, RecoverSteps
  <2>2. cmd.at \in EventSteps /\ UNCHANGED <<disc, burnt, root, ledger>>
    BY <1>1 DEF LostItems, EventSteps, staging
  <2> QED
    BY <1>1, <2>1, <2>2, BuiltCommands, RepairDiscItems DEF LostItems
<1>2. CASE FoundItems
  <2>1. cmd' = Idle => CommandFits'
    BY BuiltCommands, NothingToFit DEF FitSteps, RecoverSteps
  <2>2. cmd.at \in EventSteps /\ UNCHANGED <<disc, burnt, root, ledger>>
    BY <1>2 DEF FoundItems, EventSteps, staging
  <2> QED
    BY <1>2, <2>1, <2>2, BuiltCommands, RepairDiscItems DEF FoundItems
<1>3. CASE UndoneItems
  <2>1. cmd' = Go("undoing", cmd.disc) => CommandFits'
    BY BuiltCommands, NothingToFit DEF FitSteps, RecoverSteps
  <2>2. cmd.at \in EventSteps /\ UNCHANGED <<disc, burnt, root, ledger>>
    BY <1>3 DEF UndoneItems, EventSteps, staging
  <2> QED
    BY <1>3, <2>1, <2>2, BuiltCommands, RepairDiscItems DEF UndoneItems
<1> QED
  BY <1>1, <1>2, <1>3

\* The batch of gc: the OnDisc records of every disc on copies only.
LEMMA RepairGcItems ==
  ASSUME TypeOK, RepairInv, GcItems
  PROVE  RepairInv'
<1>1. PICK S, recs : /\ S = UNION {PackedItems(d) : d \in cmd.discs}
                     /\ recs = [i \in S |-> OnDiscOf(item[i].disc)]
  OBVIOUS
<1>2. cmd.discs \subseteq Disc /\ \A d \in cmd.discs : disc[d].state = "on disc only"
  BY DEF GcItems, TypeOK, Cmd, RepairInv, CommandFits
<1>3. \A i \in S : i \in Item /\ item[i].disc \in cmd.discs
  BY <1>1, NewRecordFields DEF PackedItems
<1>4. /\ DOMAIN recs = S /\ S \subseteq Item
      /\ \A i \in S : recs[i] = OnDiscOf(item[i].disc)
  BY <1>1, <1>3
<1>5. recs \in [S -> Record]
  BY <1>1, <1>2, <1>3, RecordTypes
<1>6. ASSUME NEW i \in S PROVE Fits(recs[i]) /\ ~Behind(recs[i])
  <2>1. PICK d, x : d = item[i].disc /\ x = recs[i]
    OBVIOUS
  <2>2. x.state = "OnDisc" /\ x.disc = d /\ disc[d].state = "on disc only"
    <3>1. x = OnDiscOf(d)
      BY <1>4, <2>1
    <3>2. d \in cmd.discs
      BY <1>3, <2>1
    <3> QED
      BY <1>2, <3>1, <3>2, NewRecordFields
  <2>3. Fits(x) /\ ~Behind(x)
    BY <2>2 DEF Fits, Behind, Away, AwayStates
  <2> QED
    BY <2>1, <2>3
<1>7. PICK T \in SUBSET DOMAIN recs :
        /\ item' = [i \in Item |-> IF i \in T THEN recs[i] ELSE item[i]]
        /\ cmd' = IF T = DOMAIN recs THEN [cmd EXCEPT !.at = "unlink"] ELSE Idle
        /\ owed' = IF \A i \in DOMAIN owed : Settled(i) THEN NothingOwed ELSE owed
  <2>1. AppendOwed(recs, [cmd EXCEPT !.at = "unlink"])
    BY <1>1 DEF GcItems
  <2> QED
    BY <2>1, BatchParts
<1>8. RowsStay /\ disc' = disc /\ burnt' = burnt
  BY RowsKept DEF GcItems, staging
<1>9. /\ ItemsFit' /\ BehindIsOwed'
      /\ \A i \in Item : Behind(item[i])' => Behind(item[i]) /\ i \notin T /\ item'[i] = item[i]
  BY <1>4, <1>5, <1>6, <1>7, <1>8, OwedBatch
<1>10. CASE cmd' = Idle
  BY <1>9, <1>10, BuiltCommands, OwedIdle
<1>11. CASE cmd' = [cmd EXCEPT !.at = "unlink"] /\ T = DOMAIN recs
  <2>1. cmd'.at = "unlink" /\ cmd'.discs = cmd.discs /\ cmd'.plans = cmd.plans
    BY <1>11, BuiltCommands DEF TypeOK
  <2>2. cmd'.plans = {}
    BY <2>1 DEF GcItems, RepairInv, PlansFit
  <2>3. CommandFits'
    BY <1>2, <1>8, <2>1 DEF CommandFits, RecoverSteps
  <2>4. ASSUME NEW i \in Item, Behind(item[i])' PROVE FALSE
    <3>1. Behind(item[i]) /\ i \notin T
      BY <1>9, <2>4
    <3>2. item[i].disc \in cmd.discs /\ item[i].state = "Packed"
      BY <3>1 DEF GcItems, RepairInv, BehindIsNext
    <3>3. item[i] \in Record
      BY <3>2, NewRecordFields DEF TypeOK
    <3>4. item[i] = PackedOn(item[i].disc)
      BY <3>2, <3>3 DEF Record, PackedOn
    <3>5. i \in S
      BY <1>1, <3>2, <3>4 DEF PackedItems
    <3> QED
      BY <1>4, <1>11, <3>1, <3>5
  <2> QED
    BY <1>9, <2>2, <2>3, <2>4, CleanStep
<1> QED
  BY <1>7, <1>10, <1>11

\* openLogs writes the batch of one plan.
LEMMA RepairRepairDisc ==
  ASSUME TypeOK, RepairInv, RepairDisc
  PROVE  RepairInv'
<1>1. PICK p \in cmd.plans :
        AppendOwed(p.recs, IF cmd.plans = {p} THEN Go("open", NoDisc) ELSE [cmd EXCEPT !.plans = @ \ {p}])
  BY DEF RepairDisc
<1>2. cmd.at = "repair" /\ disc' = disc /\ burnt' = burnt /\ RowsStay
  BY RowsKept DEF RepairDisc, staging
<1>3. PICK recs : recs = p.recs
  OBVIOUS
<1>4. DOMAIN recs \subseteq Item /\ recs \in [DOMAIN recs -> Record]
  <2>1. p \in Plan
    BY DEF TypeOK, Cmd
  <2> QED
    BY <1>3, <2>1 DEF Plan
<1>5. \A i \in DOMAIN recs : Fits(recs[i]) /\ ~Behind(recs[i])
  BY <1>3 DEF RepairInv, PlansFit
<1>6. PICK T \in SUBSET DOMAIN recs :
        /\ item' = [i \in Item |-> IF i \in T THEN recs[i] ELSE item[i]]
        /\ cmd' = IF T = DOMAIN recs
                  THEN IF cmd.plans = {p} THEN Go("open", NoDisc) ELSE [cmd EXCEPT !.plans = @ \ {p}]
                  ELSE Idle
        /\ owed' = IF \A i \in DOMAIN owed : Settled(i) THEN NothingOwed ELSE owed
  <2>1. PICK next : next = IF cmd.plans = {p} THEN Go("open", NoDisc) ELSE [cmd EXCEPT !.plans = @ \ {p}]
    OBVIOUS
  <2>2. AppendOwed(recs, next)
    BY <1>1, <1>3, <2>1
  <2>3. PICK T \in SUBSET DOMAIN recs :
          /\ item' = [i \in Item |-> IF i \in T THEN recs[i] ELSE item[i]]
          /\ cmd' = IF T = DOMAIN recs THEN next ELSE Idle
          /\ owed' = IF \A i \in DOMAIN owed : Settled(i) THEN NothingOwed ELSE owed
    BY <2>2, BatchParts
  <2> QED
    BY <2>1, <2>3
<1>7. /\ ItemsFit' /\ BehindIsOwed'
      /\ \A i \in Item : Behind(item[i])' => Behind(item[i]) /\ i \notin T /\ item'[i] = item[i]
  BY <1>2, <1>4, <1>5, <1>6, OwedBatch
<1>8. \A i \in Item : Behind(item[i]) =>
        /\ \E q \in cmd.plans : q.disc = item[i].disc /\ i \in DOMAIN q.recs
        /\ \A q \in cmd.plans : i \in DOMAIN q.recs => q.disc = item[i].disc
  BY <1>2 DEF RepairInv, BehindIsNext
<1>9. CASE cmd' = Idle
  BY <1>7, <1>9, BuiltCommands, OwedIdle
<1>10. CASE T = DOMAIN recs /\ cmd.plans = {p} /\ cmd' = Go("open", NoDisc)
  <2>1. \A i \in Item : ~Behind(item[i])'
    BY <1>3, <1>7, <1>8, <1>10
  <2>2. cmd'.plans = {} /\ CommandFits'
    BY <1>10, BuiltCommands, NothingToFit DEF FitSteps, RecoverSteps
  <2> QED
    BY <1>7, <2>1, <2>2, CleanStep
<1>11. CASE T = DOMAIN recs /\ cmd' = [cmd EXCEPT !.plans = @ \ {p}]
  <2>1. cmd'.at = "repair" /\ cmd'.plans = cmd.plans \ {p}
    BY <1>2, <1>11 DEF TypeOK, Cmd
  <2>2. CommandFits'
    BY <2>1, NothingToFit DEF FitSteps, RecoverSteps
  <2>3. ASSUME NEW q \in cmd'.plans, NEW i \in DOMAIN q.recs
        PROVE  Fits(q.recs[i])' /\ ~Behind(q.recs[i])'
    <3>1. q \in cmd.plans
      BY <2>1
    <3>2. PICK r : r = q.recs[i]
      OBVIOUS
    <3>3. Fits(r) /\ ~Behind(r) /\ r \in Record
      <4>1. q \in Plan
        BY <3>1 DEF TypeOK, Cmd
      <4> QED
        BY <3>1, <3>2, <4>1 DEF RepairInv, PlansFit, Plan
    <3>4. ~Behind(r)'
      BY <1>2, <3>3 DEF Behind
    <3>5. r.state = "Packed" => r.disc \in Disc
      BY <3>3 DEF Record
    <3>6. Fits(r)'
      BY <1>2, <3>3, <3>5 DEF Fits, Away, RowsStay, Known
    <3> QED
      BY <3>2, <3>4, <3>6
  <2>4. PlansFit'
    BY <2>1, <2>3 DEF PlansFit, RepairInv
  <2>5. BehindIsNext'
    <3> SUFFICES ASSUME NEW i \in Item, Behind(item[i])'
                 PROVE  /\ \E q \in cmd'.plans : q.disc = item'[i].disc /\ i \in DOMAIN q.recs
                        /\ \A q \in cmd'.plans : i \in DOMAIN q.recs => q.disc = item'[i].disc
      BY <2>1 DEF BehindIsNext, OwedSteps, EventSteps
    <3>1. Behind(item[i]) /\ i \notin DOMAIN p.recs /\ item'[i] = item[i]
      BY <1>3, <1>7, <1>11
    <3> QED
      BY <1>8, <2>1, <3>1
  <2>6. PlansAreBehind'
    <3> SUFFICES ASSUME NEW q \in cmd'.plans, disc[q.disc].state # "burned"
                 PROVE  \E i \in DOMAIN q.recs : Behind(item[i])' /\ item'[i].disc = q.disc
      BY <1>2 DEF PlansAreBehind
    <3>1. q \in cmd.plans /\ q # p
      BY <2>1
    <3>2. PICK i \in DOMAIN q.recs : Behind(item[i]) /\ item[i].disc = q.disc
      BY <3>1 DEF RepairInv, PlansAreBehind
    <3>3. i \in Item
      <4>1. q \in Plan
        BY <3>1 DEF TypeOK, Cmd
      <4> QED
        BY <4>1 DEF Plan
    <3>4. i \notin DOMAIN p.recs
      <4>1. i \in DOMAIN p.recs => p.disc = item[i].disc
        BY <1>8, <3>2, <3>3
      <4>2. p.disc # q.disc
        BY <3>1 DEF RepairInv, PlansFit
      <4> QED
        BY <3>2, <4>1, <4>2
    <3>5. item'[i] = item[i]
      BY <1>3, <1>6, <3>3, <3>4
    <3>6. Behind(item[i])'
      BY <1>2, <3>2, <3>5 DEF Behind
    <3> QED
      BY <3>2, <3>5, <3>6
  <2> QED
    BY <1>7, <2>2, <2>4, <2>5, <2>6 DEF RepairInv
<1> QED
  BY <1>6, <1>9, <1>10, <1>11

-----------------------------------------------------------------------------
(* Events that ask for no record. *)

RecordOn(d, states) == \E i \in Item : item[i].disc = d /\ item[i].state \in states

\* The records of the disc d still fit it, and none gets behind it.
Calm(d) ==
  \/ disc'[d] = disc[d]
  \/ disc[d].state \in HostStates /\ disc'[d].state \in HostStates
  \/ disc[d].state = "on disc only" /\ disc'[d].state = "on disc only"
  \/ disc[d].state = "unknown" /\ d \notin burnt /\ disc'[d].state = "packed"
  \/ disc'[d].state = "on disc only" /\ ~RecordOn(d, {"Packed", "Lost"})
  \/ disc'[d].state = "missing" /\ ~RecordOn(d, {"Packed"})

LEMMA CalmEvents ==
  ASSUME TypeOK, RepairInv, cmd.at \notin OwedSteps, UNCHANGED <<item, owed, burnt, root, ledger>>,
         \A d \in Disc : Calm(d), cmd'.plans = {}, CommandFits'
  PROVE  RepairInv'
<1>1. ASSUME NEW i \in Item
      PROVE  Fits(item[i])' /\ ~Behind(item[i])'
  <2>1. PICK r, d : r = item[i] /\ d = r.disc
    OBVIOUS
  <2>2. Fits(r) /\ ~Behind(r)
    BY <2>1, NoneBehind DEF RepairInv, ItemsFit
  <2>3. CASE r.state \notin {"Packed", "OnDisc", "Lost"}
    BY <2>1, <2>3 DEF Fits, Behind
  <2>4. CASE r.state \in {"Packed", "OnDisc", "Lost"}
    <3>1. d \in Disc /\ Calm(d)
      BY <2>1, <2>4, RecordsTyped
    <3>2. CASE disc'[d] = disc[d]
      BY <2>1, <2>2, <3>1, <3>2 DEF Fits, Behind, Away
    <3>3. CASE disc[d].state \in HostStates /\ disc'[d].state \in HostStates
      BY <2>1, <2>2, <3>1, <3>3 DEF Fits, Behind, Away, AwayStates, HostStates
    <3>4. CASE disc[d].state = "on disc only" /\ disc'[d].state = "on disc only"
      BY <2>1, <2>2, <3>1, <3>4 DEF Fits, Behind, Away, AwayStates
    <3>5. CASE disc[d].state = "unknown" /\ d \notin burnt /\ disc'[d].state = "packed"
      BY <2>1, <2>2, <3>1, <3>5 DEF Fits, Behind, Away, AwayStates
    <3>6. CASE disc'[d].state = "on disc only" /\ ~RecordOn(d, {"Packed", "Lost"})
      <4>1. r.state = "OnDisc"
        BY <2>1, <2>4, <3>6 DEF RecordOn
      <4> QED
        BY <2>1, <3>6, <4>1 DEF Fits, Behind, Away, AwayStates
    <3>7. CASE disc'[d].state = "missing" /\ ~RecordOn(d, {"Packed"})
      <4>1. r.state \in {"OnDisc", "Lost"}
        BY <2>1, <2>4, <3>7 DEF RecordOn
      <4> QED
        BY <2>1, <3>7, <4>1 DEF Fits, Behind, Away, AwayStates
    <3> QED
      BY <3>1, <3>2, <3>3, <3>4, <3>5, <3>6, <3>7 DEF Calm
  <2> QED
    BY <2>3, <2>4
<1> QED
  BY <1>1, CleanStep DEF ItemsFit

\* The states that a check or a mark, and the event of pack, can give.
LEMMA CheckStates ==
  ASSUME NEW r \in DiscInfo, NEW e \in CheckEvents \cup {"Packed"}, Permits(r, e)
  PROVE  LET t == Apply(r, e).state
         IN IF e = "Packed" THEN r.state = "unknown" /\ t = "packed"
            ELSE \/ r.state \in HostStates /\ t \in HostStates
                 \/ r.state = "on disc only" /\ t = "on disc only"
<1>1. PICK t : t = Apply(r, e).state /\ t \in Targets(r, e)
  BY ApplyType
<1>2. <<e, r.state, t>> \in Moves
  BY <1>1 DEF Targets, CheckEvents
<1>3. IF e = "Packed" THEN r.state = "unknown" /\ t = "packed"
      ELSE \/ r.state \in HostStates /\ t \in HostStates
           \/ r.state = "on disc only" /\ t = "on disc only"
  BY <1>2 DEF Moves, CheckEvents, HostStates
<1> QED
  BY <1>1, <1>3

\* A check, a mark, or the event of pack.
LEMMA CheckCalm ==
  ASSUME TypeOK, NEW d \in Disc, NEW e, Permits(disc[d], e), AppendEvent(d, e),
         e \in CheckEvents \/ (e = "Packed" /\ d \notin burnt)
  PROVE  \A f \in Disc : Calm(f)
<1>1. PICK t : t = Apply(disc[d], e).state
  OBVIOUS
<1>2. disc[d] \in DiscInfo
  BY DEF TypeOK
<1>3. \/ disc[d].state \in HostStates /\ t \in HostStates
      \/ disc[d].state = "on disc only" /\ t = "on disc only"
      \/ disc[d].state = "unknown" /\ d \notin burnt /\ t = "packed"
  <2>1. e \in CheckEvents \cup {"Packed"} /\ "Packed" \notin CheckEvents
    BY DEF CheckEvents
  <2>2. IF e = "Packed" THEN disc[d].state = "unknown" /\ t = "packed"
        ELSE \/ disc[d].state \in HostStates /\ t \in HostStates
             \/ disc[d].state = "on disc only" /\ t = "on disc only"
    BY <1>1, <1>2, <2>1, CheckStates
  <2> QED
    BY <2>1, <2>2
<1>4. disc'[d].state = t /\ \A f \in Disc : f # d => disc'[f] = disc[f]
  BY <1>1 DEF AppendEvent, TypeOK
<1> QED
  BY <1>3, <1>4 DEF Calm

LEMMA RepairMarks ==
  ASSUME TypeOK, CommandOK, BurntInv, RepairInv,
         \/ FinishEvent \/ PackEvent \/ RecheckEvent
         \/ \E d \in Disc : \/ DiscBurned(d) \/ DiscBurnedUndo(d) \/ DiscVerified(d) \/ VerifyUndo(d)
                           \/ VerifyFails(d)
  PROVE  RepairInv'
<1>0. \A d \in Disc : disc[d] \in DiscInfo
  BY DEF TypeOK
<1>1. CASE FinishEvent \/ PackEvent
  <2>1. cmd.disc \in Disc /\ disc[cmd.disc].state = "unknown" /\ cmd.disc \notin burnt
    BY <1>1 DEF FinishEvent, PackEvent, CommandOK, DiscSteps, Steps, NewDiscSteps, MakeSteps, BurntInv
  <2>2. \A d \in Disc : Calm(d)
    BY <1>0, <1>1, <2>1, PermitStates, CheckCalm DEF FinishEvent, PackEvent
  <2>3. cmd' = Idle \/ cmd' = Go("pack", NoDisc)
    BY <1>1 DEF FinishEvent, PackEvent
  <2>4. cmd'.plans = {} /\ CommandFits'
    BY <2>3, BuiltCommands, NothingToFit DEF FitSteps, RecoverSteps
  <2> QED
    BY <1>1, <2>2, <2>4, CalmEvents DEF FinishEvent, PackEvent, staging, OwedSteps, EventSteps
<1>2. CASE RecheckEvent
  <2>1. cmd.disc \in Disc /\ disc[cmd.disc].state = "on disc only"
    BY <1>2 DEF RecheckEvent, CommandOK, DiscSteps, Steps
  <2>2. \A d \in Disc : Calm(d)
    BY <1>0, <1>2, <2>1, PermitStates, CheckCalm DEF RecheckEvent, CheckEvents
  <2>3. cmd'.plans = {} /\ CommandFits'
    BY <1>2, BuiltCommands, NothingToFit DEF RecheckEvent, FitSteps, RecoverSteps
  <2> QED
    BY <1>2, <2>2, <2>3, CalmEvents DEF RecheckEvent, staging, OwedSteps, EventSteps
<1>3. ASSUME NEW d \in Disc,
             \/ DiscBurned(d) \/ DiscBurnedUndo(d) \/ DiscVerified(d) \/ VerifyUndo(d) \/ VerifyFails(d)
      PROVE  RepairInv'
  <2>1. disc[d].state \in {"packed", "burned", "verified", "on disc only"} => Permits(disc[d], "CheckFailed")
    BY <1>0, PermitStates
  <2>2. PICK e \in CheckEvents : Permits(disc[d], e) /\ AppendEvent(d, e)
    BY <1>3, <2>1 DEF DiscBurned, DiscBurnedUndo, DiscVerified, VerifyUndo, Mark, VerifyFails, CanVerify, CheckEvents
  <2>3. \A f \in Disc : Calm(f)
    BY <2>2, CheckCalm
  <2>4. /\ cmd.at = "open" /\ cmd' = Idle
        /\ UNCHANGED <<item, owed, burnt, root, ledger>>
    BY <1>3 DEF DiscBurned, DiscBurnedUndo, DiscVerified, VerifyUndo, Mark, VerifyFails, CanVerify, staging
  <2>5. cmd'.plans = {} /\ CommandFits'
    BY <2>4, BuiltCommands, NothingToFit DEF FitSteps, RecoverSteps
  <2> QED
    BY <2>3, <2>4, <2>5, CalmEvents DEF OwedSteps, EventSteps
<1> QED
  BY <1>1, <1>2, <1>3

LEMMA RepairVerifyRecords ==
  ASSUME TypeOK, CommandOK, RepairInv, VerifyRecords
  PROVE  RepairInv'
<1>1. PICK d : d = cmd.disc
  OBVIOUS
<1>2. PICK burned : burned = IF disc[d].state = "packed" THEN Apply(disc[d], "BurnRecorded") ELSE disc[d]
  OBVIOUS
<1>3. d \in Disc /\ disc[d].state \in {"packed", "burned", "verified", "on disc only"} /\ disc[d] \in DiscInfo
  BY <1>1 DEF VerifyRecords, CommandOK, DiscSteps, Steps, TypeOK
<1>4. /\ burned \in DiscInfo /\ burned.state \in {"burned", "verified", "on disc only"}
      /\ burned.state = "on disc only" <=> disc[d].state = "on disc only"
  <2>1. CASE disc[d].state = "packed"
    <3>1. Permits(disc[d], "BurnRecorded")
      BY <1>3, <2>1, PermitStates
    <3>2. burned = Apply(disc[d], "BurnRecorded")
      BY <1>2, <2>1
    <3> QED
      BY <1>3, <2>1, <3>1, <3>2, AppliedStates, ApplyType
  <2>2. CASE disc[d].state # "packed"
    BY <1>2, <1>3, <2>2
  <2> QED
    BY <2>1, <2>2
<1>5. PICK checked : checked = Apply(burned, "CheckOK")
  OBVIOUS
<1>6. /\ checked.state \in HostStates \cup {"on disc only"}
      /\ checked.state = "on disc only" <=> disc[d].state = "on disc only"
  <2>1. Permits(burned, "CheckOK")
    BY <1>4, PermitStates
  <2>2. \/ burned.state \in HostStates /\ checked.state \in HostStates
        \/ burned.state = "on disc only" /\ checked.state = "on disc only"
    <3>1. "CheckOK" \in CheckEvents /\ "CheckOK" # "Packed"
      BY DEF CheckEvents
    <3> QED
      BY <1>4, <1>5, <2>1, <3>1, CheckStates
  <2> QED
    BY <1>4, <2>2 DEF HostStates
<1>7. disc' = [disc EXCEPT ![d] = checked] \/ disc' = [disc EXCEPT ![d] = burned]
  BY <1>1, <1>2, <1>5 DEF VerifyRecords
<1>8. disc'[d] \in {checked, burned} /\ \A f \in Disc : f # d => disc'[f] = disc[f]
  BY <1>3, <1>7 DEF TypeOK
<1>9. \A f \in Disc : Calm(f)
  BY <1>3, <1>4, <1>6, <1>8 DEF Calm, HostStates
<1>10. cmd'.plans = {} /\ CommandFits'
  BY BuiltCommands, NothingToFit DEF VerifyRecords, FitSteps, RecoverSteps
<1> QED
  BY <1>9, <1>10, CalmEvents DEF VerifyRecords, staging, OwedSteps, EventSteps

\* No host record names a disc that has only its copy, and none is lost.
LEMMA RepairRecoverEvents ==
  ASSUME TypeOK, CommandOK, BurntInv, UndoneInv, RepairInv, RecoverEvents
  PROVE  RepairInv'
<1>1. PICK d : d = cmd.disc
  OBVIOUS
<1>2. PICK recovered : recovered = Apply(disc[d], "Recovered")
  OBVIOUS
<1>3. PICK checked : checked = IF cmd.whole THEN recovered ELSE Apply(recovered, "CheckFailed")
  OBVIOUS
<1>4. PICK N \in SUBSET {e \in cmd.discs \ {d} : ~Known(e)}, r \in {recovered, checked} :
        disc' = [e \in Disc |-> IF e = d THEN r
                                ELSE IF e \in N THEN Apply(disc[e], "NamedMissing") ELSE disc[e]]
  BY <1>1, <1>2, <1>3 DEF RecoverEvents, Written
<1>5. d \in Disc /\ disc[d].state \in {"unknown", "missing"} /\ d \in burnt
  BY <1>1 DEF RecoverEvents, CommandOK, DiscSteps, Steps, BurntInv, RecoverSteps
<1>6. disc[d] \in DiscInfo /\ Permits(disc[d], "Recovered")
  BY <1>5, PermitStates DEF TypeOK
<1>7. recovered \in DiscInfo /\ recovered.state = "on disc only"
  BY <1>2, <1>5, <1>6, AppliedStates, ApplyType
<1>8. r.state = "on disc only"
  <2>1. Permits(recovered, "CheckFailed")
    BY <1>7, PermitStates
  <2>2. Apply(recovered, "CheckFailed").state = "on disc only"
    <3>1. "CheckFailed" \in CheckEvents /\ "CheckFailed" # "Packed"
      BY DEF CheckEvents
    <3> QED
      BY <1>7, <2>1, <3>1, CheckStates DEF HostStates
  <2> QED
    BY <1>3, <1>7, <2>2
<1>9. ~RecordOn(d, {"Packed", "Lost"})
  <2> SUFFICES ASSUME NEW i \in Item, item[i].disc = d, item[i].state \in {"Packed", "Lost"} PROVE FALSE
    BY DEF RecordOn
  <2>1. item[i].state # "Lost"
    BY <1>1 DEF RecoverEvents, RepairInv, CommandFits
  <2>2. Fits(item[i])
    BY DEF RepairInv, ItemsFit
  <2>3. disc[d].state = "unknown" /\ d \in root
    BY <1>5, <2>1, <2>2 DEF Fits
  <2> QED
    BY <1>5, <2>3 DEF BurntInv, Known
<1>10. ASSUME NEW e \in N
       PROVE  e \in Disc /\ Calm(e)
  <2>1. e \in Disc /\ e # d /\ disc[e].state = "unknown" /\ e \in names[d]
    BY <1>1 DEF Known, TypeOK, Cmd, RecoverEvents, RepairInv, CommandFits, RecoverSteps
  <2>2. disc[e] \in DiscInfo /\ Permits(disc[e], "NamedMissing")
    BY <2>1, PermitStates DEF TypeOK
  <2>3. disc'[e].state = "missing"
    <3>1. disc'[e] = Apply(disc[e], "NamedMissing")
      BY <1>4, <2>1
    <3> QED
      BY <2>2, <3>1, AwayEvents
  <2>4. ~RecordOn(e, {"Packed"})
    <3> SUFFICES ASSUME NEW i \in Item, item[i].disc = e, item[i].state = "Packed" PROVE FALSE
      BY DEF RecordOn
    <3>1. e \in root
      BY <2>1 DEF RepairInv, ItemsFit, Fits
    <3> QED
      BY <1>5, <2>1, <3>1 DEF UndoneInv, TablesInv, Known
  <2> QED
    BY <2>1, <2>3, <2>4 DEF Calm
<1>11. ASSUME NEW f \in Disc PROVE Calm(f)
  <2>1. CASE f = d
    BY <1>4, <1>8, <1>9, <2>1 DEF Calm
  <2>2. CASE f # d /\ f \notin N
    BY <1>4, <2>2 DEF Calm
  <2> QED
    BY <1>10, <2>1, <2>2
<1>12. cmd'.plans = {} /\ CommandFits'
  BY BuiltCommands, NothingToFit DEF RecoverEvents, FitSteps, RecoverSteps
<1> QED
  BY <1>11, <1>12, CalmEvents DEF RecoverEvents, staging, OwedSteps, EventSteps

-----------------------------------------------------------------------------
(* Events that ask for records. *)

\* The states that they give.
OwingMove(r, t) ==
  \/ r.state \in HostStates \cup AwayStates /\ t.state = "lost" /\ t.before = r.state
  \/ r.state = "lost" /\ r.before = "verified" /\ t.state = "burned"
  \/ r.state = "lost" /\ r.before \in AwayStates /\ t.state = r.before
  \/ r.state = "packed" /\ t.state = "undone"

\* The record that the new state of the disc asks for an item that is behind.
LEMMA OwedRecord ==
  ASSUME TypeOK, NEW d \in Disc, NEW info, NEW i \in Item, item[i].disc = d,
         \/ info.state = "lost" /\ item[i].state \in {"Packed", "OnDisc"}
         \/ info.state = "undone" /\ item[i].state = "Packed"
         \/ info.state = "on disc only" /\ item[i].state \in {"Packed", "Lost"}
  PROVE  /\ i \in DOMAIN Repair(info, d)
         /\ Repair(info, d)[i].state \in {"Staged", "Lost", "OnDisc"}
         /\ Repair(info, d)[i].disc \in {NoDisc, d}
         /\ Repair(info, d)[i].state = "Lost" => info.state = "lost"
         /\ Repair(info, d)[i].state = "OnDisc" => info.state = "on disc only"
<1>1. PICK r, s, held, f : r = item[i] /\ s = info.state /\ held = (i \in objects) /\ f = Follow(s, r, held)
  OBVIOUS
<1>2. \/ f \in {Staged, StagedByLoss}
      \/ s = "lost" /\ f = LostOf(d)
      \/ s = "on disc only" /\ f = OnDiscOf(d)
  BY <1>1 DEF Follow
<1>3. f # r
  BY <1>1, <1>2, NewRecordFields
<1>4. i \in Direct(info, d)
  BY <1>1, <1>3 DEF Direct
<1>5. i \notin ObjectsBack(info, d) /\ i \notin GivenBack(info, d)
  BY NewRecordFields DEF ObjectsBack, GivenBack
<1>6. i \in DOMAIN Repair(info, d) /\ Repair(info, d)[i] = f
  BY <1>1, <1>4, <1>5 DEF Repair
<1>7. /\ f.state \in {"Staged", "Lost", "OnDisc"} /\ f.disc \in {NoDisc, d}
      /\ f.state = "Lost" => s = "lost"
      /\ f.state = "OnDisc" => s = "on disc only"
  <2>1. CASE f \in {Staged, StagedByLoss}
    BY <2>1, NewRecordFields
  <2>2. CASE s = "lost" /\ f = LostOf(d)
    BY <2>2, NewRecordFields
  <2>3. CASE s = "on disc only" /\ f = OnDiscOf(d)
    BY <2>3, NewRecordFields
  <2> QED
    BY <1>2, <2>1, <2>2, <2>3
<1> QED
  BY <1>1, <1>6, <1>7

LEMMA OwingEvent ==
  ASSUME TypeOK, RepairInv, cmd.at = "open", NEW d \in Disc, NEW info, OwingMove(disc[d], info),
         disc'[d] = info, \A f \in Disc : f # d => disc'[f] = disc[f],
         UNCHANGED <<item, burnt, root, ledger>>, owed' = Repair(info, d),
         NEW a \in EventSteps, cmd' = Go(a, d), a = "lost" => info.state = "lost"
  PROVE  RepairInv'
<1>1. \A i \in Item : Fits(item[i]) /\ ~Behind(item[i])
  BY NoneBehind DEF OwedSteps, EventSteps, RepairInv, ItemsFit
<1>2. ASSUME NEW i \in Item
      PROVE  Fits(item[i])'
  <2>1. PICK r : r = item[i]
    OBVIOUS
  <2>2. Fits(r) /\ ~Behind(r)
    BY <1>1, <2>1
  <2>3. CASE r.disc = d
    <3>1. r.disc \in Disc
      BY <2>3
    <3>2. CASE disc[d].state \in HostStates \cup AwayStates /\ info.state = "lost" /\ info.before = disc[d].state
      BY <2>1, <2>2, <2>3, <3>2 DEF Fits, Away, AwayStates, HostStates
    <3>3. CASE disc[d].state = "lost" /\ disc[d].before = "verified" /\ info.state = "burned"
      BY <2>1, <2>2, <2>3, <3>3 DEF Fits, Away, AwayStates
    <3>4. CASE disc[d].state = "lost" /\ disc[d].before \in AwayStates /\ info.state = disc[d].before
      <4>1. r.state # "Packed"
        BY <2>2, <2>3, <3>4 DEF Behind
      <4> QED
        BY <2>1, <2>2, <2>3, <3>4, <4>1 DEF Fits, Away, AwayStates
    <3>5. CASE disc[d].state = "packed" /\ info.state = "undone"
      BY <2>1, <2>2, <2>3, <3>5 DEF Fits, Away, AwayStates
    <3> QED
      BY <3>2, <3>3, <3>4, <3>5 DEF OwingMove
  <2>4. CASE r.disc # d
    <3>1. r.state \in {"Packed", "OnDisc", "Lost"} => r.disc \in Disc /\ disc'[r.disc] = disc[r.disc]
      BY <2>1, <2>4, RecordsTyped
    <3> QED
      BY <2>1, <2>2, <3>1 DEF Fits, Away
  <2> QED
    BY <2>3, <2>4
<1>3. ASSUME NEW i \in Item, Behind(item[i])'
      PROVE  /\ item[i].disc = d
             /\ i \in DOMAIN owed' /\ ~Behind(owed[i])' /\ owed'[i].disc \in {NoDisc, d}
  <2>1. PICK r : r = item[i]
    OBVIOUS
  <2>2. r.disc = d
    BY <1>1, <1>3, <2>1 DEF Behind
  <2>3. \/ info.state = "lost" /\ r.state \in {"Packed", "OnDisc"}
        \/ info.state = "undone" /\ r.state = "Packed"
        \/ info.state = "on disc only" /\ r.state \in {"Packed", "Lost"}
    BY <1>3, <2>1, <2>2 DEF Behind
  <2>4. PICK x : x = Repair(info, d)[i]
    OBVIOUS
  <2>5. /\ i \in DOMAIN Repair(info, d)
        /\ x.state \in {"Staged", "Lost", "OnDisc"} /\ x.disc \in {NoDisc, d}
        /\ x.state = "Lost" => info.state = "lost"
        /\ x.state = "OnDisc" => info.state = "on disc only"
    <3>1. /\ item[i].disc = d
          /\ \/ info.state = "lost" /\ item[i].state \in {"Packed", "OnDisc"}
             \/ info.state = "undone" /\ item[i].state = "Packed"
             \/ info.state = "on disc only" /\ item[i].state \in {"Packed", "Lost"}
      BY <2>1, <2>2, <2>3
    <3>2. /\ i \in DOMAIN Repair(info, d)
          /\ Repair(info, d)[i].state \in {"Staged", "Lost", "OnDisc"}
          /\ Repair(info, d)[i].disc \in {NoDisc, d}
          /\ Repair(info, d)[i].state = "Lost" => info.state = "lost"
          /\ Repair(info, d)[i].state = "OnDisc" => info.state = "on disc only"
      BY <3>1, OwedRecord
    <3> QED
      BY <2>4, <3>2
  <2>6. i \in DOMAIN owed' /\ owed'[i] = x
    BY <2>4, <2>5
  <2>7. ~(/\ x.disc \in Disc
          /\ \/ disc'[x.disc].state = "lost" /\ x.state \in {"Packed", "OnDisc"}
             \/ disc'[x.disc].state = "undone" /\ x.state = "Packed"
             \/ disc'[x.disc].state = "on disc only" /\ x.state \in {"Packed", "Lost"})
    BY <2>5, NoDiscAssumption
  <2>8. ~Behind(owed[i])'
    BY <2>6, <2>7 DEF Behind
  <2>9. x.disc \in {NoDisc, d}
    BY <2>5
  <2> QED
    BY <2>1, <2>2, <2>6, <2>8, <2>9
<1>4. cmd'.at = a /\ cmd'.disc = d /\ cmd'.plans = {}
  BY BuiltCommands
<1>5. CommandFits'
  BY <1>4 DEF CommandFits, RecoverSteps, EventSteps
<1>6. BehindIsOwed'
  BY <1>3 DEF BehindIsOwed
<1>7. BehindIsNext'
  BY <1>3, <1>4 DEF BehindIsNext, OwedSteps, EventSteps
<1>8. ItemsFit' /\ PlansFit' /\ PlansAreBehind'
  BY <1>2, <1>4 DEF ItemsFit, PlansFit, PlansAreBehind
<1> QED
  BY <1>5, <1>6, <1>7, <1>8 DEF RepairInv

LEMMA RepairLost ==
  ASSUME TypeOK, RepairInv, NEW d \in Disc, DiscLost(d) \/ DiscLostUndo(d) \/ PackUndo(d)
  PROVE  RepairInv'
<1>1. PICK e \in {"Lost", "LostUndone", "PackUndone"}, a \in EventSteps :
        /\ Permits(disc[d], e) /\ AppendEvent(d, e) /\ owed' = Repair(Apply(disc[d], e), d) /\ cmd' = Go(a, d)
        /\ a = "lost" <=> e = "Lost"
  BY DEF DiscLost, DiscLostUndo, PackUndo, EventSteps
<1>2. PICK r, info : r = disc[d] /\ info = Apply(r, e)
  OBVIOUS
<1>3. r \in DiscInfo /\ Permits(r, e)
  BY <1>1, <1>2 DEF TypeOK
<1>4. PICK t : t = info.state /\ t \in Targets(r, e)
  BY <1>2, <1>3, ApplyType
<1>5. OwingMove(r, info) /\ (e = "Lost" => info.state = "lost")
  <2>1. CASE e = "Lost"
    <3>1. <<e, r.state, t>> \in Moves
      BY <1>4, <2>1 DEF Targets
    <3>2. info.before = r.state
      <4>1. "Lost" # "LostUndone"
        OBVIOUS
      <4> QED
        BY <1>2, <2>1, <4>1, Zenon DEF Apply
    <3>3. t = "lost" /\ r.state \in HostStates \cup AwayStates
      BY <2>1, <3>1 DEF Moves, HostStates, AwayStates
    <3> QED
      BY <1>4, <3>2, <3>3 DEF OwingMove
  <2>2. CASE e = "LostUndone"
    <3>1. r.state = "lost" /\ <<r.before, t>> \in FoundMoves
      BY <1>4, <2>2 DEF Targets, Moves
    <3> QED
      BY <1>4, <2>2, <3>1 DEF OwingMove, FoundMoves, AwayStates
  <2>3. CASE e = "PackUndone"
    <3>1. <<e, r.state, t>> \in Moves
      BY <1>4, <2>3 DEF Targets
    <3>2. r.state = "packed" /\ t = "undone"
      BY <2>3, <3>1 DEF Moves
    <3> QED
      BY <1>4, <2>3, <3>2 DEF OwingMove
  <2> QED
    BY <2>1, <2>2, <2>3
<1>6. disc'[d] = info /\ \A f \in Disc : f # d => disc'[f] = disc[f]
  BY <1>1, <1>2 DEF AppendEvent, TypeOK
<1>7. cmd.at = "open" /\ UNCHANGED <<item, burnt, root, ledger>>
  BY DEF DiscLost, DiscLostUndo, PackUndo, staging
<1>8. owed' = Repair(info, d)
  BY <1>1, <1>2
<1>9. OwingMove(disc[d], info) /\ (a = "lost" => info.state = "lost")
  BY <1>1, <1>2, <1>5
<1> QED
  BY <1>1, <1>6, <1>7, <1>8, <1>9, OwingEvent

\* gc frees verified discs, which have only Packed records.
LEMMA RepairGcEvents ==
  ASSUME TypeOK, RepairInv, GcEvents
  PROVE  RepairInv'
<1>1. PICK G \in SUBSET Freeable :
        /\ disc' = [d \in Disc |-> IF d \in G THEN Apply(disc[d], "Freed") ELSE disc[d]]
        /\ owed' = [i \in UNION {PackedItems(d) : d \in G} |-> OnDiscOf(item[i].disc)]
        /\ cmd' = IF G = Freeable
                  THEN [Go("freed", NoDisc) EXCEPT !.discs = Freeable \cup InState("on disc only"),
                                                   !.items = Garbage]
                  ELSE Idle
  BY Zenon DEF GcEvents, Written
<1>2. Freeable \subseteq Disc /\ \A d \in Freeable : disc[d].state = "verified"
  BY DEF Freeable, InState
<1>3. ASSUME NEW d \in G PROVE disc'[d].state = "on disc only"
  <2>1. d \in Disc /\ disc[d] \in DiscInfo /\ disc[d].state = "verified"
    BY <1>2 DEF TypeOK
  <2>2. Permits(disc[d], "Freed")
    BY <2>1, PermitStates
  <2>3. disc'[d] = Apply(disc[d], "Freed")
    BY <1>1, <2>1
  <2> QED
    BY <2>1, <2>2, <2>3, AwayEvents
<1>4. \A d \in Disc \ G : disc'[d] = disc[d]
  BY <1>1
<1>5. UNCHANGED <<item, burnt, root, ledger>> /\ cmd.at = "open"
  BY DEF GcEvents, staging
<1>6. \A i \in Item : Fits(item[i]) /\ ~Behind(item[i])
  BY <1>5, NoneBehind DEF OwedSteps, EventSteps, RepairInv, ItemsFit
<1>7. ASSUME NEW i \in Item
      PROVE  /\ Fits(item[i])'
             /\ Behind(item[i])' => item[i].disc \in G /\ item[i].state = "Packed"
  <2>1. PICK r : r = item[i]
    OBVIOUS
  <2>2. Fits(r) /\ ~Behind(r)
    BY <1>6, <2>1
  <2>3. CASE r.disc \in G
    <3>1. r.disc \in Disc /\ disc[r.disc].state = "verified" /\ disc'[r.disc].state = "on disc only"
      BY <1>2, <1>3, <2>3
    <3>2. r.state \notin {"OnDisc", "Lost"}
      BY <2>2, <3>1 DEF Fits, Away, AwayStates
    <3>3. Fits(item[i])'
      BY <1>5, <2>1, <3>1, <3>2 DEF Fits
    <3>4. Behind(item[i])' => r.state = "Packed"
      BY <1>5, <2>1, <3>1, <3>2 DEF Behind
    <3> QED
      BY <2>1, <2>3, <3>3, <3>4
  <2>4. CASE r.disc \notin G
    <3>1. r.state \in {"Packed", "OnDisc", "Lost"} => r.disc \in Disc /\ disc'[r.disc] = disc[r.disc]
      BY <1>4, <2>1, <2>4, RecordsTyped
    <3>2. Fits(item[i])'
      BY <1>5, <2>1, <2>2, <3>1 DEF Fits, Away
    <3>3. ~Behind(item[i])'
      BY <1>5, <2>1, <2>2, <3>1 DEF Behind
    <3> QED
      BY <3>2, <3>3
  <2> QED
    BY <2>3, <2>4
<1>8. ASSUME NEW i \in Item, Behind(item[i])'
      PROVE  /\ i \in DOMAIN owed' /\ ~Behind(owed[i])' /\ owed'[i].disc \in {NoDisc, item'[i].disc}
  <2>1. item[i].disc \in G /\ item[i].state = "Packed"
    BY <1>7, <1>8
  <2>2. item[i] \in Record
    BY <2>1, NewRecordFields DEF TypeOK
  <2>3. item[i] = PackedOn(item[i].disc)
    BY <2>1, <2>2 DEF Record, PackedOn
  <2>4. i \in UNION {PackedItems(d) : d \in G}
    BY <2>1, <2>3 DEF PackedItems
  <2>5. PICK x : x = owed'[i]
    OBVIOUS
  <2>6. x = OnDiscOf(item[i].disc) /\ i \in DOMAIN owed'
    BY <1>1, <2>4, <2>5
  <2>7. x.state = "OnDisc" /\ x.disc = item[i].disc
    BY <2>6, NewRecordFields
  <2>8. disc'[x.disc].state = "on disc only"
    BY <1>3, <2>1, <2>7
  <2>9. ~Behind(owed[i])'
    BY <2>5, <2>7, <2>8 DEF Behind
  <2> QED
    BY <1>5, <2>5, <2>6, <2>7, <2>9
<1>9. ItemsFit' /\ BehindIsOwed'
  BY <1>7, <1>8 DEF ItemsFit, BehindIsOwed
<1>10. CASE cmd' = Idle
  BY <1>9, <1>10, BuiltCommands, OwedIdle
<1>11. CASE /\ G = Freeable
            /\ cmd' = [Go("freed", NoDisc) EXCEPT !.discs = Freeable \cup InState("on disc only"),
                                                 !.items = Garbage]
  <2>1. cmd'.at = "freed" /\ cmd'.discs = Freeable \cup InState("on disc only") /\ cmd'.plans = {}
    BY <1>11 DEF Go, Idle
  <2>2. \A d \in InState("on disc only") : d \in Disc /\ disc'[d].state = "on disc only"
    BY <1>3, <1>4 DEF InState
  <2>3. \A d \in cmd'.discs : disc'[d].state = "on disc only"
    BY <1>3, <1>11, <2>1, <2>2
  <2>4. CommandFits'
    BY <2>1, <2>3 DEF CommandFits, RecoverSteps
  <2>5. BehindIsNext'
    BY <1>5, <1>7, <1>11, <2>1 DEF BehindIsNext, OwedSteps, EventSteps
  <2> QED
    BY <1>9, <2>1, <2>4, <2>5 DEF RepairInv, PlansFit, PlansAreBehind
<1> QED
  BY <1>1, <1>10, <1>11

\* A plan of a disc that is not burned writes a record that is behind.
LEMMA PlanIsBehind ==
  ASSUME TypeOK, NEW d \in Disc, DOMAIN Repair(disc[d], d) # {}, disc[d].state # "burned"
  PROVE  \E i \in DOMAIN Repair(disc[d], d) : Behind(item[i]) /\ item[i].disc = d
<1>1. GivenBack(disc[d], d) = {}
  BY DEF GivenBack
<1>2. PICK i \in Direct(disc[d], d) : TRUE
  <2>1. Direct(disc[d], d) # {}
    BY <1>1 DEF Repair, ObjectsBack
  <2> QED
    BY <2>1
<1>3. PICK r, s, held : r = item[i] /\ s = disc[d].state /\ held = (i \in objects)
  OBVIOUS
<1>4. r.disc = d /\ Follow(s, r, held) # r
  BY <1>2, <1>3 DEF Direct
<1>5. \/ s = "lost" /\ r.state \in {"Packed", "OnDisc"}
      \/ s = "undone" /\ r.state = "Packed"
      \/ s = "on disc only" /\ r.state \in {"Packed", "Lost"}
  BY <1>4 DEF Follow
<1>6. Behind(item[i]) /\ item[i].disc = d
  BY <1>3, <1>4, <1>5 DEF Behind
<1>7. i \in DOMAIN Repair(disc[d], d)
  BY DEF Repair
<1> QED
  BY <1>6, <1>7

LEMMA RepairOpen ==
  ASSUME TypeOK, RepairInv, Open
  PROVE  RepairInv'
<1>1. UNCHANGED <<disc, item, owed, burnt, root, ledger>>
  BY DEF Open, logs, staging
<1>2. RowsStay
  BY <1>1, RowsKept
<1>3. ItemsFit'
  BY <1>1, <1>2, FitsStay DEF RepairInv
<1>4. \A i \in Item : Behind(item[i])' <=> Behind(item[i])
  BY <1>1 DEF Behind
<1>5. ASSUME NEW i \in Item, Behind(item[i])
      PROVE  item[i].disc \in ToRepair /\ i \in DOMAIN Repair(disc[item[i].disc], item[i].disc)
  <2>1. i \in DOMAIN Repair(disc[item[i].disc], item[i].disc)
    BY <1>5, BehindFollows DEF Repair
  <2> QED
    BY <1>5, <2>1 DEF ToRepair, Known, Behind
<1>6. CASE ToRepair = {} /\ cmd' = Go("open", NoDisc)
  <2>1. cmd'.plans = {} /\ CommandFits'
    BY <1>6, BuiltCommands, NothingToFit DEF FitSteps, RecoverSteps
  <2> QED
    BY <1>3, <1>4, <1>5, <1>6, <2>1, CleanStep
<1>7. CASE cmd' = [Go("repair", NoDisc) EXCEPT
                     !.plans = {[disc |-> d, recs |-> Repair(disc[d], d)] : d \in ToRepair}]
  <2>1. cmd'.at = "repair" /\ cmd'.plans = {[disc |-> d, recs |-> Repair(disc[d], d)] : d \in ToRepair}
    BY <1>7 DEF Go, Idle
  <2>2. \A p \in cmd'.plans : p.disc \in ToRepair /\ p.recs = Repair(disc[p.disc], p.disc)
    BY <2>1
  <2>3. \A p, q \in cmd'.plans : p.disc = q.disc => p = q
    BY <2>1
  <2>4. \A d \in ToRepair : d \in Disc /\ DOMAIN Repair(disc[d], d) # {} /\ DOMAIN Repair(disc[d], d) \subseteq Item
    BY RepairType DEF ToRepair
  <2>5. ASSUME NEW p \in cmd'.plans, NEW i \in DOMAIN p.recs
        PROVE  Fits(p.recs[i])' /\ ~Behind(p.recs[i])' /\ (Behind(item[i]) => item[i].disc = p.disc)
    <3>1. PICK d, recs, r : d = p.disc /\ recs = p.recs /\ r = recs[i]
      OBVIOUS
    <3>2. d \in Disc /\ recs = Repair(disc[d], d) /\ i \in DOMAIN Repair(disc[d], d)
      BY <2>2, <2>4, <3>1
    <3>3. Fits(r) /\ ~Behind(r) /\ (Behind(item[i]) => item[i].disc = d)
      BY <3>1, <3>2, RepairFits
    <3>4. r \in Record
      BY <3>1, <3>2, RepairType
    <3>5. Fits(r)' /\ ~Behind(r)'
      BY <1>1, <3>3 DEF Fits, Away, Behind
    <3> QED
      BY <3>1, <3>3, <3>5
  <2>6. PlansFit'
    BY <2>1, <2>3, <2>5 DEF PlansFit
  <2>7. ASSUME NEW i \in Item, Behind(item[i])
        PROVE  \E p \in cmd'.plans : p.disc = item[i].disc /\ i \in DOMAIN p.recs
    <3>1. PICK d : d = item[i].disc
      OBVIOUS
    <3>2. d \in ToRepair /\ i \in DOMAIN Repair(disc[d], d)
      BY <1>5, <2>7, <3>1
    <3>3. [disc |-> d, recs |-> Repair(disc[d], d)] \in cmd'.plans
      BY <2>1, <3>2
    <3> QED
      BY <3>1, <3>2, <3>3
  <2>8. BehindIsNext'
    BY <1>1, <1>4, <2>1, <2>5, <2>7 DEF BehindIsNext, OwedSteps, EventSteps
  <2>9. PlansAreBehind'
    <3> SUFFICES ASSUME NEW p \in cmd'.plans, disc[p.disc].state # "burned"
                 PROVE  \E i \in DOMAIN p.recs : Behind(item[i])' /\ item'[i].disc = p.disc
      BY <1>1 DEF PlansAreBehind
    <3>1. PICK d : d = p.disc
      OBVIOUS
    <3>2. d \in Disc /\ p.recs = Repair(disc[d], d) /\ DOMAIN Repair(disc[d], d) # {}
      BY <2>2, <2>4, <3>1
    <3>3. PICK i \in DOMAIN Repair(disc[d], d) : Behind(item[i]) /\ item[i].disc = d
      BY <3>1, <3>2, PlanIsBehind
    <3>4. i \in Item
      BY <3>2, RepairType
    <3> QED
      BY <1>1, <1>4, <3>1, <3>2, <3>3, <3>4
  <2>10. CommandFits'
    BY <2>1, NothingToFit DEF FitSteps, RecoverSteps
  <2>11. BehindIsOwed'
    <3>1. \A i \in Item : Behind(owed[i])' <=> Behind(owed[i])
      BY <1>1 DEF Behind
    <3> QED
      BY <1>1, <1>4, <3>1 DEF RepairInv, BehindIsOwed
  <2> QED
    BY <1>3, <2>6, <2>8, <2>9, <2>10, <2>11 DEF RepairInv
<1> QED
  BY <1>6, <1>7 DEF Open

-----------------------------------------------------------------------------
(* The discs of a repository that was never lost. *)

\* A disc that has an event has its Packed event, and was never missing.
Own(r) == /\ r.state # "unknown" => r.numbered
          /\ r.state # "missing" /\ r.before # "missing"

\* Until the host loses the repository, every disc, burned or not, is one that
\* pack recorded here, so no recover has a record to write.
OwnInv ==
  disasters = 0 => /\ \A d \in Disc : Own(disc[d])
                   /\ \A d \in burnt : Known(d)
                   /\ cmd.at \notin RecoverSteps

LEMMA ApplyOwn ==
  ASSUME NEW r \in DiscInfo, Own(r), NEW e, e \notin {"Recovered", "NamedMissing"}, Permits(r, e)
  PROVE  Own(Apply(r, e)) /\ Apply(r, e).state # "unknown"
<1>1. PICK t : t \in Targets(r, e) /\ t = Apply(r, e).state
  BY ApplyType
<1>2. /\ Apply(r, e).numbered = (r.numbered \/ e = "Packed")
      /\ e = "Lost" => Apply(r, e).before = r.state
      /\ e = "LostUndone" => Apply(r, e).before = "unknown"
      /\ e \notin {"Lost", "LostUndone"} => Apply(r, e).before = r.before
  <2>1. "Lost" # "LostUndone"
    OBVIOUS
  <2> QED
    BY <2>1, Zenon DEF Apply
<1>3. Apply(r, e).state # "unknown"
  BY ApplyUndone
<1>4. CASE e = "LostUndone"
  <2>1. r.state = "lost" /\ <<r.before, t>> \in FoundMoves
    BY <1>1, <1>4 DEF Targets, Moves
  <2>2. t # "missing"
    BY <2>1 DEF FoundMoves, Own
  <2> QED
    BY <1>1, <1>2, <1>3, <1>4, <2>1, <2>2 DEF Own
<1>5. CASE e # "LostUndone"
  <2>1. <<e, r.state, t>> \in Moves
    BY <1>1, <1>5 DEF Targets
  <2>2. t # "missing" /\ (r.state = "unknown" => e = "Packed")
    BY <2>1 DEF Moves
  <2> QED
    BY <1>1, <1>2, <1>3, <1>5, <2>2 DEF Own
<1> QED
  BY <1>4, <1>5

\* A step that makes no disc unknown, and after which every disc is still such a one.
OwnDiscs == \A f \in Disc : Own(disc[f]) => Own(disc'[f]) /\ (Known(f) => Known(f)')

LEMMA OwnStep ==
  ASSUME TypeOK, OwnInv, disasters' = disasters, disasters = 0 => OwnDiscs, burnt' = burnt,
         disasters = 0 => cmd'.at \notin RecoverSteps
  PROVE  OwnInv'
<1>1. burnt \subseteq Disc
  BY DEF TypeOK
<1> QED
  BY <1>1 DEF OwnInv, OwnDiscs

LEMMA OwnStill ==
  ASSUME disc' = disc
  PROVE  OwnDiscs
  BY DEF OwnDiscs, Known

LEMMA OneEventOwn ==
  ASSUME TypeOK, NEW d \in Disc, NEW e, e \notin {"Recovered", "NamedMissing"},
         Permits(disc[d], e), AppendEvent(d, e)
  PROVE  OwnDiscs
<1>1. disc[d] \in DiscInfo
  BY DEF TypeOK
<1>2. \A f \in Disc : disc'[f] = IF f = d THEN Apply(disc[d], e) ELSE disc[f]
  BY DEF AppendEvent, TypeOK
<1> QED
  BY <1>1, <1>2, ApplyOwn DEF OwnDiscs, Known

LEMMA EventActionOwn ==
  ASSUME TypeOK, CommandOK, EventAction, ~RecoverEvents
  PROVE  OwnDiscs
<1>0. \A f \in Disc : disc[f] \in DiscInfo
  BY DEF TypeOK
<1>1. ASSUME NEW d \in Disc,
             \/ DiscBurned(d) \/ DiscBurnedUndo(d) \/ DiscVerified(d) \/ VerifyUndo(d)
             \/ VerifyFails(d) \/ DiscLost(d) \/ DiscLostUndo(d)
      PROVE  OwnDiscs
  <2>1. disc[d].state \in {"packed", "burned", "verified", "on disc only"} => Permits(disc[d], "CheckFailed")
    BY <1>0, PermitStates
  <2>2. \E e : e \notin {"Recovered", "NamedMissing"} /\ Permits(disc[d], e) /\ AppendEvent(d, e)
    BY <1>1, <2>1 DEF DiscBurned, DiscBurnedUndo, DiscVerified, VerifyUndo, Mark, VerifyFails, CanVerify,
                      DiscLost, DiscLostUndo
  <2> QED
    BY <2>2, OneEventOwn
<1>2. CASE RecheckEvent
  <2>1. cmd.disc \in Disc /\ disc[cmd.disc].state = "on disc only"
    BY <1>2 DEF RecheckEvent, CommandOK, DiscSteps, Steps
  <2> QED
    BY <1>0, <1>2, <2>1, PermitStates, OneEventOwn DEF RecheckEvent
<1>3. CASE VerifyRecords
  <2>1. PICK d : d = cmd.disc
    OBVIOUS
  <2>2. PICK burned : burned = IF disc[d].state = "packed" THEN Apply(disc[d], "BurnRecorded") ELSE disc[d]
    OBVIOUS
  <2>3. d \in Disc /\ disc[d].state \in {"packed", "burned", "verified", "on disc only"}
    BY <1>3, <2>1 DEF VerifyRecords, CommandOK, DiscSteps, Steps
  <2>4. /\ burned \in DiscInfo /\ (Own(disc[d]) => Own(burned))
        /\ burned.state \in {"burned", "verified", "on disc only"}
    <3>1. CASE disc[d].state = "packed"
      <4>1. disc[d] \in DiscInfo /\ Permits(disc[d], "BurnRecorded")
        BY <1>0, <2>3, <3>1, PermitStates
      <4>2. burned = Apply(disc[d], "BurnRecorded")
        BY <2>2, <3>1
      <4>3. burned.state = "burned" /\ burned \in DiscInfo
        BY <3>1, <4>1, <4>2, AppliedStates, ApplyType
      <4>4. Own(disc[d]) => Own(burned)
        BY <4>1, <4>2, ApplyOwn
      <4> QED
        BY <4>3, <4>4
    <3>2. CASE disc[d].state # "packed"
      BY <1>0, <2>2, <2>3, <3>2
    <3> QED
      BY <3>1, <3>2
  <2>5. Permits(burned, "CheckOK")
    BY <2>4, PermitStates
  <2>6. /\ Own(disc[d]) => Own(Apply(burned, "CheckOK"))
        /\ Apply(burned, "CheckOK").state # "unknown"
    BY <2>4, <2>5, ApplyOwn, ApplyUndone
  <2>7. disc' = [disc EXCEPT ![d] = Apply(burned, "CheckOK")] \/ disc' = [disc EXCEPT ![d] = burned]
    BY <1>3, <2>1, <2>2 DEF VerifyRecords
  <2>8. \A f \in Disc : f # d => disc'[f] = disc[f]
    BY <2>7 DEF TypeOK
  <2>9. disc'[d] \in {burned, Apply(burned, "CheckOK")}
    BY <2>3, <2>7 DEF TypeOK
  <2> QED
    BY <2>3, <2>4, <2>6, <2>8, <2>9 DEF OwnDiscs, Known
<1>4. CASE GcEvents
  <2>1. PICK G \in Written(Freeable) : disc' = [d \in Disc |-> IF d \in G THEN Apply(disc[d], "Freed") ELSE disc[d]]
    BY <1>4 DEF GcEvents
  <2>2. \A d \in G : d \in Disc /\ disc[d].state = "verified"
    BY DEF Written, Freeable, InState
  <2>3. \A d \in G : Permits(disc[d], "Freed")
    BY <1>0, <2>2, PermitStates
  <2> QED
    BY <1>0, <2>1, <2>2, <2>3, ApplyOwn DEF OwnDiscs, Known
<1> QED
  BY <1>1, <1>2, <1>3, <1>4 DEF EventAction

LEMMA OwnQuiet ==
  ASSUME TypeOK, OwnInv, QuietAction
  PROVE  OwnInv'
<1>1. disc' = disc /\ burnt' = burnt /\ disasters' = disasters
  BY QuietSteady DEF Steady
<1>2. cmd'.at \notin RecoverSteps \/ cmd.at \in RecoverSteps
  BY QuietGoes DEF QuietSteps, RecoverSteps, RecoverItems
<1> QED
  BY <1>1, <1>2, OwnStill, OwnStep DEF OwnInv

LEMMA OwnEvents ==
  ASSUME TypeOK, CommandOK, OwnInv, EventAction
  PROVE  OwnInv'
<1>1. burnt' = burnt /\ cmd'.at \notin RecoverSteps
  BY EventActionFrame, EventActionAt DEF RecoverSteps
<1>2. disasters' = disasters
  BY DEF EventAction, VerifyRecords, GcEvents, RecoverEvents, RecheckEvent, DiscBurned, DiscBurnedUndo,
         DiscVerified, VerifyUndo, Mark, VerifyFails, DiscLost, DiscLostUndo
<1>3. disasters = 0 => ~RecoverEvents
  BY DEF OwnInv, RecoverSteps, RecoverEvents
<1> QED
  BY <1>1, <1>2, <1>3, EventActionOwn, OwnStep

\* A recover of a disc that the log knows has nothing to record, or a check.
LEMMA OwnRecover ==
  ASSUME TypeOK, OwnInv, NEW d \in Disc, Recover(d)
  PROVE  /\ OwnInv'
         /\ disasters = 0 => cmd'.at \in {"recheck", "idle"}
<1>1. disc' = disc /\ burnt' = burnt /\ disasters' = disasters /\ d \in burnt
  BY DEF Recover, logs
<1>2. disasters = 0 => disc[d].state \notin {"unknown", "missing"}
  BY <1>1 DEF OwnInv, Own, Known
<1>3. disasters = 0 => cmd'.at \in {"recheck", "idle"}
  BY <1>2, RecoverCommand
<1>4. disasters = 0 => cmd'.at \notin RecoverSteps
  BY <1>3 DEF RecoverSteps
<1> QED
  BY <1>1, <1>3, <1>4, OwnStill, OwnStep

LEMMA OwnPacking ==
  ASSUME TypeOK, CommandOK, OwnInv, ~EarlyBurn, PackingAction \/ PackTree
  PROVE  OwnInv'
<1>1. CASE PackRemoves \/ UndoRemoves
  BY <1>1, OwnStill, OwnStep DEF PackRemoves, UndoRemoves, logs, OwnInv
<1>2. CASE \E d \in Disc : Burn(d)
  <2>1. PICK d \in Disc : Burn(d)
    BY <1>2
  <2>2. disc' = disc /\ cmd' = cmd /\ disasters' = disasters /\ burnt' = burnt \cup {d} /\ Known(d)
    BY <2>1 DEF Burn, logs, Known
  <2> QED
    BY <2>2 DEF OwnInv, Known
<1>3. CASE FinishPack \/ PackItems \/ UndoneItems \/ \E d \in Disc : FinishStage(d) \/ PackPlans(d)
  <2>1. disc' = disc /\ burnt' = burnt /\ disasters' = disasters
    BY <1>3 DEF FinishPack, PackItems, UndoneItems, FinishStage, PackPlans, logs
  <2>2. cmd'.at \notin RecoverSteps
    <3>1. CASE FinishPack \/ PackItems \/ UndoneItems \/ \E d \in Disc : PackPlans(d)
      <4>1. cmd' = Idle \/ \E a \in {"finishEvent", "packEvent", "undoing", "packTree"} : \E d : cmd' = Go(a, d)
        BY <3>1 DEF FinishPack, PackItems, UndoneItems, PackPlans, AppendOwed, AppendItems
      <4> QED
        BY <4>1, GoFields DEF RecoverSteps
    <3>2. CASE \E d \in Disc : FinishStage(d)
      <4>1. PICK d \in Disc : FinishStage(d)
        BY <3>2
      <4>2. PICK ids : cmd' \in {Idle, [Go("finishPack", d) EXCEPT !.items = ids]}
        BY <4>1 DEF FinishStage, AppendItems
      <4>3. [Go("finishPack", d) EXCEPT !.items = ids].at = "finishPack"
        BY DEF Go, Idle
      <4> QED
        BY <4>2, <4>3, GoFields DEF RecoverSteps
    <3> QED
      BY <1>3, <3>1, <3>2
  <2> QED
    BY <2>1, <2>2, OwnStill, OwnStep
<1>4. CASE PackTables \/ PackRow \/ PackTree
  <2>1. disc' = disc /\ burnt' = burnt /\ disasters' = disasters
    BY <1>4 DEF PackTables, PackRow, PackTree, logs
  <2>2. cmd'.at \in {"packTables", "packRow", "packItems"}
    <3>1. CASE PackTree
      BY <3>1, GoFields DEF PackTree
    <3>2. CASE PackTables \/ PackRow
      <4>1. PICK a \in {"packRow", "packItems"} : cmd' = [cmd EXCEPT !.at = a]
        BY <3>2 DEF PackTables, PackRow
      <4>2. cmd'.at = a
        BY <4>1, GoFields DEF TypeOK
      <4> QED
        BY <4>2
    <3> QED
      BY <1>4, <3>1, <3>2
  <2> QED
    BY <2>1, <2>2, OwnStill, OwnStep DEF RecoverSteps
<1>5. CASE FinishEvent \/ PackEvent
  <2>1. /\ AppendEvent(cmd.disc, "Packed") /\ cmd' \in {Idle, Go("pack", NoDisc)}
        /\ cmd.at \in {"finishEvent", "packEvent"} /\ burnt' = burnt /\ disasters' = disasters
    BY <1>5 DEF FinishEvent, PackEvent
  <2>2. cmd.disc \in Disc /\ disc[cmd.disc].state = "unknown" /\ disc[cmd.disc] \in DiscInfo
    BY <2>1 DEF CommandOK, DiscSteps, NewDiscSteps, MakeSteps, Steps, TypeOK
  <2>3. OwnDiscs
    BY <2>1, <2>2, PermitStates, OneEventOwn
  <2>4. cmd'.at \in {"idle", "pack"}
    BY <2>1, GoFields
  <2> QED
    BY <2>1, <2>3, <2>4, OwnStep DEF RecoverSteps
<1>6. CASE \E d \in Disc : PackUndo(d)
  <2>1. PICK d \in Disc : PackUndo(d)
    BY <1>6
  <2>2. /\ AppendEvent(d, "PackUndone") /\ Permits(disc[d], "PackUndone")
        /\ cmd' = Go("undone", d) /\ burnt' = burnt /\ disasters' = disasters
    BY <2>1 DEF PackUndo
  <2>3. OwnDiscs /\ cmd'.at = "undone"
    BY <2>2, OneEventOwn, GoFields
  <2> QED
    BY <2>2, <2>3, OwnStep DEF RecoverSteps
<1> QED
  BY <1>1, <1>2, <1>3, <1>4, <1>5, <1>6 DEF PackingAction

LEMMA OwnLoseRepository == TypeOK /\ LoseRepository => OwnInv'
  BY DEF TypeOK, LoseRepository, OwnInv

LEMMA OwnInit == Init => OwnInv
  BY GoFields DEF Init, OwnInv, Own, UnknownDisc, RecoverSteps

LEMMA OwnNext ==
  ASSUME TypeOK, CommandOK, OwnInv, ~EarlyBurn, Next
  PROVE  OwnInv'
<1>1. CASE \E d \in Disc : DiscCommand(d) \/ Burn(d)
  <2>1. PICK d \in Disc : DiscCommand(d) \/ Burn(d)
    BY <1>1
  <2>2. CASE DiscBurned(d) \/ DiscBurnedUndo(d) \/ DiscVerified(d) \/ VerifyUndo(d)
             \/ VerifyFails(d) \/ DiscLost(d) \/ DiscLostUndo(d)
    BY <2>2, OwnEvents DEF EventAction
  <2>3. CASE VerifyReads(d) \/ CatalogStops(d)
    BY <2>3, OwnQuiet DEF QuietAction
  <2>4. CASE Recover(d)
    BY <2>4, OwnRecover
  <2>5. CASE FinishStage(d) \/ PackPlans(d) \/ PackUndo(d) \/ Burn(d)
    BY <2>5, OwnPacking DEF PackingAction
  <2> QED
    BY <2>1, <2>2, <2>3, <2>4, <2>5 DEF DiscCommand
<1>2. CASE \E s \in Snapshot : CommitWrites(s)
  BY <1>2, OwnQuiet DEF QuietAction
<1>3. CASE Open \/ RepairDisc \/ Stop \/ LostItems \/ LostRoot \/ FoundItems \/ GcItems \/ GcUnlink
           \/ RecoverItems \/ RecheckItems \/ CommitRecords \/ PackBegins \/ PackFails
  BY <1>3, OwnQuiet DEF QuietAction
<1>4. CASE RecoverEvents \/ VerifyRecords \/ GcEvents \/ RecheckEvent
  BY <1>4, OwnEvents DEF EventAction
<1>5. CASE PackRemoves \/ UndoRemoves \/ FinishPack \/ PackItems \/ UndoneItems
           \/ FinishEvent \/ PackEvent \/ PackTables \/ PackRow \/ PackTree
  BY <1>5, OwnPacking DEF PackingAction
<1>6. CASE RecoverLedger
  BY <1>6, OwnStill, OwnStep DEF RecoverLedger, OwnInv, RecoverSteps, logs
<1> QED
  BY <1>1, <1>2, <1>3, <1>4, <1>5, <1>6, OwnLoseRepository DEF Next

LEMMA OwnStutter == OwnInv /\ UNCHANGED vars => OwnInv'
  BY DEF OwnInv, vars, Known

-----------------------------------------------------------------------------
(* The repairs are owed. *)

\* No recover writes the records of a part of a disc.
WholeReads == ~Damage \/ disasters = 0

\* A recover that has no record to write.
LEMMA RepairRecheck ==
  ASSUME TypeOK, RepairInv, NEW d \in Disc, Recover(d), cmd'.at \in {"recheck", "idle"}
  PROVE  RepairInv'
<1>1. cmd'.plans = {}
  BY RecoverCommand
<1>2. CommandFits'
  BY NothingToFit DEF FitSteps, RecoverSteps
<1>3. RowsStay /\ cmd.at \notin OwedSteps
  BY RowsKept DEF Recover, staging, OwedSteps, EventSteps
<1> QED
  BY <1>1, <1>2, <1>3, StillStep DEF Recover, logs

LEMMA RepairNext ==
  ASSUME KnownInv, OwnInv, RepairInv, WholeReads, ~EarlyBurn, Next
  PROVE  RepairInv'
<1>0. TypeOK /\ CommandOK /\ HolderInv /\ BurntInv /\ UndoneInv /\ CommandTables
  BY DEF KnownInv, UndoneInv
<1>1. CASE \/ Open \/ RepairDisc \/ VerifyRecords \/ LostItems \/ FoundItems \/ UndoneItems
           \/ GcEvents \/ GcItems
  BY <1>0, <1>1, RepairOpen, RepairRepairDisc, RepairVerifyRecords, RepairEventItems, RepairGcEvents, RepairGcItems
<1>2. CASE \/ RecoverLedger \/ RecoverItems \/ RecoverEvents \/ RecheckItems \/ RecheckEvent
           \/ FinishPack \/ FinishEvent \/ PackItems \/ PackEvent \/ CommitRecords \/ LoseRepository
  BY <1>0, <1>2, RepairRecoverLedger, RepairRecoverItems, RepairRecoverEvents, RepairRecheckItems, RepairMarks,
     RepairPacks, RepairStages, RepairLose
<1>3. CASE \/ Stop \/ LostRoot \/ GcUnlink \/ PackBegins \/ PackRemoves \/ UndoRemoves
           \/ PackTree \/ PackTables \/ PackRow \/ PackFails
           \/ \E s \in Snapshot : CommitWrites(s)
  BY <1>0, <1>3, RepairQuiet
<1>4. ASSUME NEW d \in Disc, DiscCommand(d) \/ Burn(d) PROVE RepairInv'
  <2>1. CASE \/ DiscBurned(d) \/ DiscBurnedUndo(d) \/ DiscVerified(d) \/ VerifyUndo(d) \/ VerifyFails(d)
    BY <1>0, <2>1, RepairMarks
  <2>2. CASE VerifyReads(d) \/ CatalogStops(d)
    BY <1>0, <2>2, RepairQuiet
  <2>3. CASE DiscLost(d) \/ DiscLostUndo(d) \/ PackUndo(d)
    BY <1>0, <2>3, RepairLost
  <2>4. CASE FinishStage(d) \/ PackPlans(d)
    BY <1>0, <2>4, RepairStages
  <2>5. CASE Burn(d)
    BY <1>0, <2>5, RepairBurn
  <2>6. CASE Recover(d)
    <3>1. disasters = 0 => cmd'.at \in {"recheck", "idle"}
      BY <1>0, <2>6, OwnRecover
    <3> QED
      BY <1>0, <2>6, <3>1, RepairRecover, RepairRecheck DEF WholeReads
  <2> QED
    BY <1>4, <2>1, <2>2, <2>3, <2>4, <2>5, <2>6 DEF DiscCommand
<1> QED
  BY <1>1, <1>2, <1>3, <1>4 DEF Next

LEMMA RepairStutter ==
  ASSUME TypeOK, RepairInv, UNCHANGED vars
  PROVE  RepairInv'
<1>1. UNCHANGED <<disc, item, burnt, root, ledger, cmd, owed, content, names>>
  BY DEF vars
<1>2. \A i \in Item : (Behind(item[i])' <=> Behind(item[i])) /\ (Fits(item[i])' <=> Fits(item[i]))
  BY <1>1 DEF Behind, Fits, Away
<1>3. \A i \in Item : Behind(owed[i])' <=> Behind(owed[i])
  BY <1>1 DEF Behind
<1>4. \A p \in cmd.plans : \A i \in DOMAIN p.recs :
        (Behind(p.recs[i])' <=> Behind(p.recs[i])) /\ (Fits(p.recs[i])' <=> Fits(p.recs[i]))
  BY <1>1 DEF Behind, Fits, Away
<1>5. ItemsFit' /\ CommandFits'
  BY <1>1, <1>2 DEF RepairInv, ItemsFit, CommandFits
<1>6. PlansFit'
  BY <1>1, <1>4 DEF RepairInv, PlansFit
<1>7. BehindIsOwed'
  BY <1>1, <1>2, <1>3 DEF RepairInv, BehindIsOwed
<1>8. BehindIsNext'
  BY <1>1, <1>2 DEF RepairInv, BehindIsNext
<1>9. PlansAreBehind'
  <2> SUFFICES ASSUME NEW p \in cmd.plans, disc[p.disc].state # "burned"
               PROVE  \E i \in DOMAIN p.recs : Behind(item[i])' /\ item[i].disc = p.disc
    BY <1>1 DEF PlansAreBehind
  <2>1. PICK i \in DOMAIN p.recs : Behind(item[i]) /\ item[i].disc = p.disc
    BY DEF RepairInv, PlansAreBehind
  <2> QED
    BY <1>1, <2>1 DEF Behind
<1> QED
  BY <1>5, <1>6, <1>7, <1>8, <1>9 DEF RepairInv

LEMMA BehindMeansOwed ==
  ASSUME TypeOK, RepairInv
  PROVE  RepairsAreOwed
<1> SUFFICES ASSUME NEW p \in cmd.plans, disc[p.disc].state # "burned" PROVE owed # NothingOwed
  BY DEF RepairsAreOwed
<1>1. PICK i \in DOMAIN p.recs : Behind(item[i])
  BY DEF RepairInv, PlansAreBehind
<1>2. i \in Item
  <2>1. p \in Plan
    BY DEF TypeOK, Cmd
  <2> QED
    BY <2>1 DEF Plan
<1>3. i \in DOMAIN owed
  BY <1>1, <1>2 DEF RepairInv, BehindIsOwed
<1> QED
  BY <1>3 DEF NothingOwed

\* All that the other modules prove of each state of the repository.
LEMMA KnownAlways ==
  ASSUME ~EarlyBurn
  PROVE  Spec => []KnownInv
<1>1. Init => KnownInv
  BY TypeInit, DataInit, HolderInit, BurntInit, NumberInit, UndoneInit DEF KnownInv
<1>2. KnownInv /\ [Next]_vars => KnownInv'
  <2> SUFFICES ASSUME KnownInv, [Next]_vars PROVE KnownInv'
    OBVIOUS
  <2>1. TypeOK /\ CommandOK /\ DataInv /\ HolderInv /\ BurntInv /\ NumberInv /\ UndoneInv
    BY DEF KnownInv
  <2>2. TypeOK' /\ CommandOK'
    BY <2>1, TypeStep
  <2>3. DataInv' /\ HolderInv' /\ BurntInv'
    BY <2>1, DataStep, HolderStep, BurntStep
  <2>4. NumberInv' /\ UndoneInv'
    BY <2>1, <2>2, NumberStep, UndoneStep
  <2> QED
    BY <2>2, <2>3, <2>4 DEF KnownInv
<1> QED
  BY <1>1, <1>2, PTL DEF Spec

\* The host counts every loss.
LEMMA LossesCount ==
  ASSUME TypeOK, [Next]_vars, disasters' = 0
  PROVE  disasters = 0
<1>1. CASE QuietAction \/ EventAction
  BY <1>1, QuietSteady
     DEF Steady, EventAction, VerifyRecords, GcEvents, RecoverEvents, RecheckEvent, DiscBurned, DiscBurnedUndo,
         DiscVerified, VerifyUndo, Mark, VerifyFails, DiscLost, DiscLostUndo
<1>2. CASE PackingAction \/ PackTree \/ RecoverLedger \/ UNCHANGED vars \/ \E d \in Disc : Recover(d)
  BY <1>2 DEF PackingAction, PackRemoves, UndoRemoves, FinishPack, PackItems, UndoneItems, FinishEvent, PackEvent,
              PackTables, PackRow, PackTree, FinishStage, PackPlans, PackUndo, Burn, RecoverLedger, Recover, vars
<1>3. ~LoseRepository
  BY DEF LoseRepository, TypeOK
<1>4. CASE \E d \in Disc : DiscCommand(d) \/ Burn(d)
  BY <1>1, <1>2, <1>4 DEF DiscCommand, QuietAction, EventAction, PackingAction
<1> QED
  BY <1>1, <1>2, <1>3, <1>4 DEF Next, QuietAction, EventAction, PackingAction

\* Every state of a repository whose disc roots are burned after their events.
LEMMA RepairsAlways ==
  ASSUME ~EarlyBurn
  PROVE  Spec => [](OwnInv /\ (WholeReads => RepairInv))
<1>1. Spec => []KnownInv
  BY KnownAlways
<1>2. Init => OwnInv /\ (WholeReads => RepairInv)
  BY RepairInit, OwnInit
<1>3. KnownInv /\ OwnInv /\ (WholeReads => RepairInv) /\ [Next]_vars => (OwnInv /\ (WholeReads => RepairInv))'
  <2> SUFFICES ASSUME KnownInv, OwnInv, WholeReads => RepairInv, [Next]_vars
               PROVE  OwnInv' /\ (WholeReads' => RepairInv')
    OBVIOUS
  <2>1. OwnInv'
    BY OwnNext, OwnStutter DEF KnownInv
  <2>2. ASSUME WholeReads' PROVE RepairInv'
    <3>1. WholeReads
      BY <2>2, LossesCount DEF WholeReads, KnownInv
    <3> QED
      BY <3>1, RepairNext, RepairStutter DEF KnownInv
  <2> QED
    BY <2>1, <2>2
<1> QED
  BY <1>1, <1>2, <1>3, PTL DEF Spec

\* A repair of a lost, undone or freed disc means that the command that wrote
\* its event stopped before the item records: no other history asks for them,
\* when no root is burned before its Packed event, as long as the host keeps its
\* repository or every copy that it recovers is read without damage.
THEOREM RepairsFollowStops ==
  Spec => [](~EarlyBurn /\ (~Damage \/ disasters = 0) => RepairsAreOwed)
<1>1. CASE ~EarlyBurn
  <2>1. Spec => []KnownInv /\ [](OwnInv /\ (WholeReads => RepairInv))
    BY <1>1, KnownAlways, RepairsAlways
  <2>2. KnownInv /\ (WholeReads => RepairInv) => (~EarlyBurn /\ (~Damage \/ disasters = 0) => RepairsAreOwed)
    BY BehindMeansOwed DEF KnownInv, WholeReads
  <2> QED
    BY <2>1, <2>2, PTL
<1>2. CASE EarlyBurn
  <2>1. TRUE => (~EarlyBurn /\ (~Damage \/ disasters = 0) => RepairsAreOwed)
    BY <1>2
  <2> QED
    BY <2>1, PTL
<1> QED
  BY <1>1, <1>2

-----------------------------------------------------------------------------
(* A stopped command is followed, also with damaged copies and early burns. *)
(* ClearInv: no record is behind its disc when a command works, whatever    *)
(* left it behind.  FollowInv: what is owed is what the states of the discs *)
(* still ask for, and no plan says otherwise.                               *)

PlansClear ==
  /\ cmd.at # "repair" => cmd.plans = {}
  /\ \A p, q \in cmd.plans : p.disc = q.disc => p = q
  /\ \A p \in cmd.plans : \A i \in DOMAIN p.recs :
       /\ ~Behind(p.recs[i])
       /\ p.recs[i].disc \in {NoDisc, p.disc}
       /\ Behind(item[i]) => item[i].disc = p.disc

\* gc alone may work beside a Lost record of a disc that it freed.
BehindIsRepaired ==
  \A i \in Item : Behind(item[i]) =>
    /\ cmd.at \in OwedSteps \cup {"unlink"}
    /\ cmd.at \in EventSteps => item[i].disc = cmd.disc
    /\ cmd.at = "repair" => \E p \in cmd.plans : p.disc = item[i].disc /\ i \in DOMAIN p.recs

ClearInv == PlansClear /\ BehindIsRepaired

\* The item i has the record that is owed, or another found disc took it.
Done(i) ==
  \/ item[i] = owed[i]
  \/ Taken(owed[i]) /\ item[i] \in {PackedOn(d) : d \in Disc \ {owed[i].disc}}

DueOf(i, recs) == i \in DOMAIN recs /\ recs[i] = owed[i]

\* The state of a disc still asks for each owed record, and so does its plan.
OwedIsDue ==
  \A i \in DOMAIN owed : ~Done(i) =>
    \E d \in Disc : /\ Known(d)
                    /\ DueOf(i, Repair(disc[d], d))
                    /\ cmd.at = "repair" => \E p \in cmd.plans : p.disc = d /\ DueOf(i, p.recs)

\* The batch after the event is all that is owed.
BatchIsOwed ==
  /\ cmd.at \in EventSteps => owed = Repair(disc[cmd.disc], cmd.disc)
  /\ cmd.at = "freed" =>
       \A i \in DOMAIN owed : /\ item[i].disc \in cmd.discs
                              /\ item[i].state = "Packed"
                              /\ owed[i] = OnDiscOf(item[i].disc)

\* Nothing is owed when a command works.
OwedIsPending ==
  owed # NothingOwed => /\ cmd.at \in OwedSteps
                        /\ \E i \in DOMAIN owed : ~Done(i)

\* An item that is behind needs its owed record, and not one of another disc.
OwedFits ==
  \A i \in DOMAIN owed : Behind(item[i]) =>
    ~Behind(owed[i]) /\ owed[i].disc \in {NoDisc, item[i].disc}

\* While a Lost record is behind, no staged item is owed to another disc.
LostIsAlone ==
  \A k \in Item : Behind(item[k]) /\ item[k].state = "Lost" =>
    \A j \in DOMAIN owed :
      /\ owed[j].state = "OnDisc"
      /\ owed[j] = OnDiscOf(item[k].disc) \/ item[j].state # "Staged"

\* A plan settles each owed record that it writes.
Settles(x, i) ==
  \/ x = owed[i]
  \/ Taken(owed[i]) /\ x \in {PackedOn(d) : d \in Disc \ {owed[i].disc}}

PlansSettle ==
  \A p \in cmd.plans : \A i \in DOMAIN p.recs : i \in DOMAIN owed => Settles(p.recs[i], i)

\* Staged records are owed for one disc, and none of them is written yet.
OneDiscStaged ==
  (\E i \in DOMAIN owed : owed[i].state = "Staged") =>
    \E d \in Disc : \A j \in DOMAIN owed : Behind(item[j]) /\ item[j].disc = d

FollowInv ==
  OwedIsDue /\ BatchIsOwed /\ OwedIsPending /\ OwedFits /\ LostIsAlone /\ PlansSettle /\ OneDiscStaged

\* A batch of a command goes to one of two commands.
LEMMA BatchGoesTo ==
  ASSUME NEW recs, NEW next, AppendItems(recs, next)
  PROVE  cmd' = next \/ cmd' = Idle
  BY DEF AppendItems

\* A recover goes on with its read, or checks it again, or stops.
LEMMA RecoverGoesTo ==
  ASSUME NEW d, Recover(d)
  PROVE  cmd'.at \in {"idle", "recover", "recheck"} /\ cmd'.plans = {}
<1>1. PICK bad, goodRefs, goodDiscs :
        LET whole == bad = {} /\ goodRefs /\ goodDiscs
            read  == [Go("recover", d) EXCEPT
                        !.items = content[d] \ bad,
                        !.discs = IF goodDiscs THEN names[d] ELSE {},
                        !.whole = whole]
        IN cmd' \in {read, [read EXCEPT !.at = "recheck"], Idle}
  BY Zenon DEF Recover
<1>2. PICK whole, read : read = [Go("recover", d) EXCEPT
                                   !.items = content[d] \ bad,
                                   !.discs = IF goodDiscs THEN names[d] ELSE {},
                                   !.whole = whole]
                         /\ cmd' \in {read, [read EXCEPT !.at = "recheck"], Idle}
  BY <1>1
<1>3. /\ read.at = "recover" /\ [read EXCEPT !.at = "recheck"].at = "recheck"
      /\ read.plans = {} /\ [read EXCEPT !.at = "recheck"].plans = {}
  BY <1>2 DEF Go, Idle
<1> QED
  BY <1>2, <1>3, BuiltCommands

\* A command that stops, or that ends, leaves the rest to the next one.
LEMMA ClearIdle ==
  ASSUME cmd'.at \in {"idle", "freed", "unlink"}, cmd'.plans = {}
  PROVE  ClearInv'
  BY DEF ClearInv, PlansClear, BehindIsRepaired, EventSteps, OwedSteps

LEMMA ClearNone ==
  ASSUME cmd'.at # "repair", cmd'.plans = {}, \A i \in Item : ~Behind(item[i])'
  PROVE  ClearInv'
  BY DEF ClearInv, PlansClear, BehindIsRepaired

LEMMA NoneIsBehind ==
  ASSUME ClearInv, cmd.at \notin OwedSteps \cup {"unlink"}
  PROVE  cmd.plans = {} /\ \A i \in Item : ~Behind(item[i])
  BY DEF ClearInv, PlansClear, BehindIsRepaired, OwedSteps

\* A batch of records that are not behind.
LEMMA ClearBatch ==
  ASSUME TypeOK, ClearInv, cmd.at \notin OwedSteps \cup {"unlink"}, disc' = disc,
         NEW S \in SUBSET Item, NEW recs \in [S -> Record], \A i \in S : ~Behind(recs[i]),
         NEW next, next.at # "repair", next.plans = {}, AppendItems(recs, next)
  PROVE  ClearInv'
<1>1. PICK T \in SUBSET S : item' = [i \in Item |-> IF i \in T THEN recs[i] ELSE item[i]]
  BY DEF AppendItems, Written
<1>2. \A i \in Item : ~Behind(item'[i])
  BY <1>1, NoneIsBehind
<1>3. \A i \in Item : ~Behind(item[i])'
  BY <1>2 DEF Behind
<1>4. cmd' = next \/ cmd' = Idle
  BY BatchGoesTo
<1> QED
  BY <1>3, <1>4, ClearNone, BuiltCommands

LEMMA ClearStaged ==
  ASSUME TypeOK, ClearInv, cmd.at \notin OwedSteps \cup {"unlink"}, disc' = disc,
         NEW S \in SUBSET Item, NEW next, next.at # "repair", next.plans = {}, AppendItems(All(S, Staged), next)
  PROVE  ClearInv'
<1>1. All(S, Staged) \in [S -> Record] /\ \A i \in S : All(S, Staged)[i] = Staged
  BY DEF All, Staged, Record, Reasons
<1> QED
  BY <1>1, ClearBatch, StagedFits

\* The steps that write no record and no disc event.
LEMMA ClearStill ==
  ASSUME ClearInv, disc' = disc, item' = item, cmd.at \notin OwedSteps \cup {"unlink"},
         cmd'.at # "repair", cmd'.plans = {}
  PROVE  ClearInv'
<1>1. \A i \in Item : ~Behind(item[i])'
  BY NoneIsBehind DEF Behind
<1> QED
  BY <1>1, ClearNone

LEMMA ClearWorks ==
  ASSUME TypeOK, ClearInv,
         \/ VerifyRecords \/ LostRoot \/ GcUnlink \/ RecoverEvents \/ RecheckEvent \/ PackEvent \/ PackFails
         \/ PackBegins \/ PackRemoves \/ UndoRemoves
         \/ RecoverLedger \/ PackTree \/ PackTables \/ PackRow \/ CommitRecords
  PROVE  ClearInv'
<1>0. cmd \in Cmd
  BY DEF TypeOK
<1>1. CASE VerifyRecords \/ LostRoot \/ GcUnlink \/ RecoverEvents \/ RecheckEvent \/ PackEvent
  <2>1. cmd' = Idle
    BY <1>1 DEF VerifyRecords, LostRoot, GcUnlink, RecoverEvents, RecheckEvent, PackEvent
  <2> QED
    BY <2>1, ClearIdle, BuiltCommands
<1>2. CASE PackBegins \/ PackRemoves \/ UndoRemoves
  <2>1. /\ disc' = disc /\ item' = item /\ cmd.at \in {"open", "pack", "undoing"}
        /\ cmd' = Go("pack", NoDisc) \/ cmd' = cmd
    BY <1>2 DEF PackBegins, PackRemoves, UndoRemoves, logs
  <2>2. cmd'.at \in {"open", "pack", "undoing"} /\ cmd'.plans = {}
    BY <2>1, BuiltCommands DEF ClearInv, PlansClear
  <2> QED
    BY <2>1, <2>2, ClearStill DEF OwedSteps, EventSteps
<1>3. CASE RecoverLedger \/ PackTables \/ PackRow
  <2>1. PICK a \in {"recoverItems", "packRow", "packItems"} :
          /\ disc' = disc /\ item' = item
          /\ cmd.at \in {"recover", "packTables", "packRow"} /\ cmd' = [cmd EXCEPT !.at = a]
    BY <1>3 DEF RecoverLedger, PackTables, PackRow, logs
  <2>2. cmd'.at = a /\ cmd'.plans = {}
    BY <1>0, <2>1, BuiltCommands DEF ClearInv, PlansClear
  <2> QED
    BY <2>1, <2>2, ClearStill DEF OwedSteps, EventSteps
<1>4. CASE PackTree
  <2>1. PICK S : cmd' = [Go("packTables", cmd.disc) EXCEPT !.items = S]
    BY <1>4 DEF PackTree
  <2>2. cmd'.at = "packTables" /\ cmd'.plans = {}
    BY <2>1, BuiltCommands
  <2> QED
    BY <1>4, <2>2, ClearStill DEF PackTree, logs, OwedSteps, EventSteps
<1>5. CASE CommitRecords
  <2>1. {i \in cmd.items : NotKnown(item[i])} \in SUBSET Item
    BY DEF TypeOK, Cmd
  <2> QED
    BY <1>5, <2>1, ClearStaged, BuiltCommands DEF CommitRecords, OwedSteps, EventSteps
<1>6. CASE PackFails
  <2>1. /\ disc' = disc /\ item' = item /\ cmd.at \in {"packTree", "packTables", "packRow", "packFails"}
        /\ cmd' = Idle \/ cmd' = Go("packFails", cmd.disc)
    BY <1>6 DEF PackFails, logs
  <2>2. cmd'.at \in {"idle", "packFails"} /\ cmd'.plans = {}
    BY <2>1, BuiltCommands
  <2> QED
    BY <2>1, <2>2, ClearStill DEF OwedSteps, EventSteps
<1> QED
  BY <1>1, <1>2, <1>3, <1>4, <1>5, <1>6

\* When nothing is owed, only a command before its first batch asks for more.
LEMMA FollowEmpty ==
  ASSUME owed' = NothingOwed, cmd'.at \notin EventSteps
  PROVE  FollowInv'
<1>1. DOMAIN owed' = {}
  BY DEF NothingOwed
<1>2. OwedIsDue' /\ BatchIsOwed' /\ OwedFits' /\ LostIsAlone' /\ PlansSettle' /\ OneDiscStaged'
  BY <1>1 DEF OwedIsDue, BatchIsOwed, OwedFits, LostIsAlone, PlansSettle, OneDiscStaged
<1>3. OwedIsPending'
  BY DEF OwedIsPending, NothingOwed
<1> QED
  BY <1>2, <1>3 DEF FollowInv

\* The three parts of a repair.
LEMMA RepairParts ==
  ASSUME TypeOK, NEW d \in Disc, NEW info, NEW i \in DOMAIN Repair(info, d)
  PROVE  /\ i \in Item
         /\ i \in GivenBack(info, d) \/ i \in ObjectsBack(info, d) \/ i \in Direct(info, d)
         /\ i \in GivenBack(info, d) => Repair(info, d)[i] = PackedOn(d)
         /\ i \in ObjectsBack(info, d) => Repair(info, d)[i] = OnDiscOf(d)
         /\ i \in Direct(info, d) => Repair(info, d)[i] = Follow(info.state, item[i], i \in objects)
<1>1. i \in Direct(info, d) \cup ObjectsBack(info, d) \cup GivenBack(info, d)
  BY DEF Repair
<1>2. i \in Item
  BY <1>1 DEF Direct, ObjectsBack, GivenBack, TypeOK, Item
<1>3. i \in GivenBack(info, d) => item[i].state = "Staged" /\ info.state = "burned"
  BY DEF GivenBack
<1>4. i \in ObjectsBack(info, d) => item[i].state = "Staged" /\ info.state = "on disc only"
  BY NewRecordFields DEF ObjectsBack
<1>5. i \in Direct(info, d) => item[i].disc = d
  BY DEF Direct
<1>6. item[i].state = "Staged" => item[i].disc # d
  BY <1>2, RecordsTyped, NoDiscAssumption
<1> QED
  BY <1>1, <1>2, <1>3, <1>4, <1>5, <1>6 DEF Repair

\* Only these states ask for a record of an item that names the disc.
LEMMA DirectStates ==
  ASSUME NEW d, NEW info, NEW i \in Direct(info, d)
  PROVE  /\ item[i].disc = d
         /\ info.state \in {"lost", "undone", "on disc only"}
         /\ info.state = "lost" => item[i].state \in {"Packed", "OnDisc"}
         /\ info.state = "undone" => item[i].state = "Packed"
         /\ info.state = "on disc only" => item[i].state \in {"Packed", "Lost"}
<1>1. PICK r, s, held : r = item[i] /\ s = info.state /\ held = (i \in objects)
  OBVIOUS
<1>2. r.disc = d /\ Follow(s, r, held) # r
  BY <1>1 DEF Direct
<1>3. /\ s \in {"lost", "undone", "on disc only"}
      /\ s = "lost" => r.state \in {"Packed", "OnDisc"}
      /\ s = "undone" => r.state = "Packed"
      /\ s = "on disc only" => r.state \in {"Packed", "Lost"}
  BY <1>2 DEF Follow
<1> QED
  BY <1>1, <1>2, <1>3

\* What the state asks for.
LEMMA DirectParts ==
  ASSUME TypeOK, NEW d \in Disc, NEW info, NEW i \in Direct(info, d), i \in DOMAIN Repair(info, d)
  PROVE  /\ info.state = "lost" => Repair(info, d)[i] \in {StagedByLoss, LostOf(d)}
         /\ info.state = "undone" => Repair(info, d)[i] = Staged
         /\ info.state = "on disc only" => Repair(info, d)[i] = OnDiscOf(d)
<1>1. PICK x, r, s, held :
        x = Repair(info, d)[i] /\ r = item[i] /\ s = info.state /\ held = (i \in objects)
  OBVIOUS
<1>2. r.disc = d /\ Follow(s, r, held) # r /\ x = Follow(s, r, held)
  BY <1>1, RepairParts DEF Direct
<1>3. /\ s = "lost" => x \in {StagedByLoss, LostOf(d)}
      /\ s = "undone" => x = Staged
      /\ s = "on disc only" => x = OnDiscOf(d)
  BY <1>2 DEF Follow
<1> QED
  BY <1>1, <1>3

LEMMA BackParts ==
  ASSUME NEW d, NEW info, NEW i
  PROVE  /\ i \in GivenBack(info, d) => info.state = "burned" /\ item[i].state = "Staged"
         /\ i \in ObjectsBack(info, d) => info.state = "on disc only" /\ item[i].state = "Staged"
         /\ i \in ObjectsBack(info, d) => \E k \in Direct(info, d) : item[k].state = "Lost"
  BY NewRecordFields DEF GivenBack, ObjectsBack

\* A repair changes a record, and names no other disc.
LEMMA RepairChanges ==
  ASSUME TypeOK, NEW d \in Disc, NEW info, NEW i \in DOMAIN Repair(info, d)
  PROVE  /\ Repair(info, d)[i] # item[i]
         /\ Repair(info, d)[i].disc \in {NoDisc, d}
         /\ item[i].disc \in {NoDisc, d}
<1>1. PICK x, r, s, held, f :
        /\ x = Repair(info, d)[i] /\ r = item[i] /\ s = info.state /\ held = (i \in objects)
        /\ f = Follow(info.state, item[i], i \in objects)
  OBVIOUS
<1>2. SUFFICES x # r /\ x.disc \in {NoDisc, d} /\ r.disc \in {NoDisc, d}
  BY <1>1
<1>3. i \in Item
  BY RepairParts
<1>4. CASE i \in GivenBack(info, d)
  <2>1. x = PackedOn(d)
    BY <1>1, <1>4, RepairParts
  <2>2. r.state = "Staged"
    BY <1>1, <1>4, BackParts
  <2>3. r.disc = NoDisc
    BY <1>1, <1>3, <2>2, RecordsTyped
  <2> QED
    BY <2>1, <2>2, <2>3, NewRecordFields
<1>5. CASE i \in ObjectsBack(info, d)
  <2>1. x = OnDiscOf(d)
    BY <1>1, <1>5, RepairParts
  <2>2. r.state = "Staged"
    BY <1>1, <1>5, BackParts
  <2>3. r.disc = NoDisc
    BY <1>1, <1>3, <2>2, RecordsTyped
  <2> QED
    BY <2>1, <2>2, <2>3, NewRecordFields
<1>6. CASE i \in Direct(info, d)
  <2>1. x = f
    BY <1>1, <1>6, RepairParts
  <2>2. r.disc = d /\ f # r
    BY <1>1, <1>6 DEF Direct
  <2>3. f = Follow(s, r, held)
    BY <1>1
  <2>4. f \in {Staged, StagedByLoss, LostOf(d), OnDiscOf(d)}
    BY <2>2, <2>3 DEF Follow
  <2> QED
    BY <2>1, <2>2, <2>4, NewRecordFields
<1> QED
  BY <1>4, <1>5, <1>6, RepairParts

LEMMA ClearStarts ==
  ASSUME TypeOK, ClearInv, NEW d \in Disc,
         \/ DiscBurned(d) \/ DiscBurnedUndo(d) \/ DiscVerified(d) \/ VerifyUndo(d)
         \/ VerifyFails(d) \/ VerifyReads(d) \/ CatalogStops(d)
         \/ Recover(d) \/ FinishStage(d) \/ PackPlans(d)
  PROVE  ClearInv'
<1>1. CASE \/ DiscBurned(d) \/ DiscBurnedUndo(d) \/ DiscVerified(d) \/ VerifyUndo(d)
           \/ VerifyFails(d) \/ CatalogStops(d)
  <2>1. cmd' = Idle
    BY <1>1 DEF DiscBurned, DiscBurnedUndo, DiscVerified, VerifyUndo, Mark, VerifyFails, CatalogStops
  <2> QED
    BY <2>1, ClearIdle, BuiltCommands
<1>2. CASE VerifyReads(d) \/ Recover(d)
  <2>1. cmd'.at \in {"read", "idle", "recover", "recheck"} /\ cmd'.plans = {}
    BY <1>2, RecoverGoesTo, BuiltCommands DEF VerifyReads
  <2>2. disc' = disc /\ item' = item /\ cmd.at = "open"
    BY <1>2 DEF VerifyReads, CanVerify, Recover, logs
  <2> QED
    BY <2>1, <2>2, ClearStill DEF OwedSteps, EventSteps
<1>3. CASE FinishStage(d)
  <2>1. PICK ids : ids = {i \in content[d] : item[i].state \in {"none", "Staged"}}
    OBVIOUS
  <2>2. {i \in ids : item[i].state = "none"} \in SUBSET Item
    BY <2>1 DEF TypeOK
  <2>3. PICK next : /\ next = [Go("finishPack", d) EXCEPT !.items = ids]
                    /\ AppendItems(All({i \in ids : item[i].state = "none"}, Staged), next)
    BY <1>3, <2>1 DEF FinishStage
  <2>4. next.at # "repair" /\ next.plans = {}
    BY <2>3, BuiltCommands
  <2> QED
    BY <1>3, <2>2, <2>3, <2>4, ClearStaged DEF FinishStage, OwedSteps, EventSteps
<1>4. CASE PackPlans(d)
  <2>1. PICK S \in SUBSET Item : AppendItems(All(S, Staged), Go("packTree", d))
    BY <1>4 DEF PackPlans, Readable, TypeOK, Item
  <2> QED
    BY <1>4, <2>1, ClearStaged, BuiltCommands DEF PackPlans, OwedSteps, EventSteps
<1> QED
  BY <1>1, <1>2, <1>3, <1>4

LEMMA ClearCommit ==
  ASSUME ClearInv, NEW s \in Snapshot, CommitWrites(s)
  PROVE  ClearInv'
<1>1. PICK W : cmd' = IF s \in W THEN [Go("commit", NoDisc) EXCEPT !.items = W] ELSE Idle
  BY DEF CommitWrites
<1>2. cmd'.at \in {"commit", "idle"} /\ cmd'.plans = {}
  BY <1>1, BuiltCommands
<1> QED
  BY <1>2, ClearStill DEF CommitWrites, logs, OwedSteps, EventSteps

\* The batches of recover and pack name a disc that is not lost.
LEMMA ClearRecords ==
  ASSUME TypeOK, CommandOK, ClearInv, RecoverItems \/ RecheckItems \/ FinishPack \/ PackItems
  PROVE  ClearInv'
<1>0. cmd \in Cmd /\ cmd.items \subseteq Item
  BY DEF TypeOK, Cmd
<1>1. CASE RecoverItems \/ RecheckItems
  <2>1. PICK a \in {"recoverEvents", "recheckEvent"} : EnsureOnDisc(a) /\ cmd.at \in {"recoverItems", "recheck"}
    BY <1>1 DEF RecoverItems, RecheckItems
  <2>2. PICK S, d : S = {i \in cmd.items : NotKnown(item[i])} /\ d = cmd.disc
    OBVIOUS
  <2>3. S \in SUBSET Item /\ d \in Disc /\ disc[d].state \in {"unknown", "missing", "on disc only"}
    BY <1>0, <2>1, <2>2 DEF CommandOK, DiscSteps, Steps
  <2>4. All(S, OnDiscOf(d)) \in [S -> Record] /\ \A i \in S : All(S, OnDiscOf(d))[i] = OnDiscOf(d)
    BY <2>3, RecordTypes DEF All
  <2>5. ~Behind(OnDiscOf(d))
    BY <2>3, NewRecordFields DEF Behind
  <2>6. PICK next : next = [cmd EXCEPT !.at = a] /\ AppendItems(All(S, OnDiscOf(d)), next)
    BY <2>1, <2>2 DEF EnsureOnDisc
  <2>7. next.at = a /\ next.plans = {}
    BY <1>0, <2>1, <2>6, BuiltCommands DEF ClearInv, PlansClear
  <2>8. next.at # "repair" /\ disc' = disc
    BY <2>1, <2>7 DEF EnsureOnDisc
  <2> QED
    BY <2>1, <2>3, <2>4, <2>5, <2>6, <2>7, <2>8, ClearBatch DEF OwedSteps, EventSteps
<1>2. CASE FinishPack \/ PackItems
  <2>1. PICK S, d : S = cmd.items /\ d = cmd.disc
    OBVIOUS
  <2>2. S \in SUBSET Item /\ d \in Disc /\ disc[d].state = "unknown"
    BY <1>0, <1>2, <2>1 DEF FinishPack, PackItems, CommandOK, NewDiscSteps, MakeSteps, DiscSteps, Steps
  <2>3. All(S, PackedOn(d)) \in [S -> Record] /\ \A i \in S : All(S, PackedOn(d))[i] = PackedOn(d)
    BY <2>2, RecordTypes DEF All
  <2>4. ~Behind(PackedOn(d))
    BY <2>2, NewRecordFields DEF Behind
  <2>5. PICK a \in {"finishEvent", "packEvent"} : AppendItems(All(S, PackedOn(d)), Go(a, d))
    BY <1>2, <2>1 DEF FinishPack, PackItems
  <2>6. Go(a, d).at # "repair" /\ Go(a, d).plans = {} /\ disc' = disc
    BY <1>2, BuiltCommands DEF FinishPack, PackItems
  <2> QED
    BY <1>2, <2>2, <2>3, <2>4, <2>5, <2>6, ClearBatch DEF FinishPack, PackItems, OwedSteps, EventSteps
<1> QED
  BY <1>1, <1>2

\* The Packed event of an interrupted pack asks for no other record.
LEMMA ClearFinishEvent ==
  ASSUME TypeOK, CommandOK, ClearInv, FinishEvent
  PROVE  ClearInv'
<1>1. PICK d : d = cmd.disc /\ d \in Disc /\ disc[d].state = "unknown" /\ disc[d] \in DiscInfo
  BY DEF FinishEvent, TypeOK, CommandOK, NewDiscSteps, MakeSteps, DiscSteps, Steps
<1>2. disc'[d].state = "packed" /\ \A f \in Disc \ {d} : disc'[f] = disc[f]
  <2>1. Permits(disc[d], "Packed") /\ Apply(disc[d], "Packed").state = "packed"
    BY <1>1, PermitStates, CheckStates
  <2> QED
    BY <1>1, <2>1 DEF FinishEvent, AppendEvent, TypeOK
<1>3. \A i \in Item : ~Behind(item[i])
  BY NoneIsBehind DEF FinishEvent, OwedSteps, EventSteps
<1>4. ASSUME NEW i \in Item PROVE ~Behind(item[i])'
  <2>1. item'[i] = item[i] /\ ~Behind(item[i])
    BY <1>3 DEF FinishEvent
  <2>2. CASE item[i].disc = d
    BY <1>2, <2>1, <2>2 DEF Behind
  <2>3. CASE item[i].disc # d
    BY <1>2, <2>1, <2>3 DEF Behind
  <2> QED
    BY <2>2, <2>3
<1>5. cmd'.at # "repair" /\ cmd'.plans = {}
  BY BuiltCommands DEF FinishEvent
<1> QED
  BY <1>4, <1>5, ClearNone

LEMMA ClearOutside ==
  ASSUME ClearInv, Stop \/ LoseRepository \/ \E d \in Disc : Burn(d)
  PROVE  ClearInv'
<1>1. cmd' = Idle
  BY DEF Stop, LoseRepository, Burn
<1> QED
  BY <1>1, ClearIdle, BuiltCommands

LEMMA ClearInit == Init => ClearInv
<1>1. Init => cmd.at = "idle" /\ cmd.plans = {}
  BY BuiltCommands DEF Init
<1> QED
  BY <1>1 DEF ClearInv, PlansClear, BehindIsRepaired, OwedSteps, EventSteps

LEMMA ClearStutter == ClearInv /\ UNCHANGED vars => ClearInv'
<1> SUFFICES ASSUME ClearInv, UNCHANGED vars PROVE ClearInv'
  OBVIOUS
<1>1. UNCHANGED <<disc, item, cmd>>
  BY DEF vars
<1>2. \A r : Behind(r)' <=> Behind(r)
  BY <1>1 DEF Behind
<1>3. \A i \in Item : Behind(item[i])' <=> Behind(item[i])
  BY <1>1 DEF Behind
<1>4. PlansClear'
  <2> SUFFICES /\ cmd.at # "repair" => cmd.plans = {}
               /\ \A p, q \in cmd.plans : p.disc = q.disc => p = q
               /\ \A p \in cmd.plans : \A i \in DOMAIN p.recs :
                    /\ ~Behind(p.recs[i])'
                    /\ p.recs[i].disc \in {NoDisc, p.disc}
                    /\ Behind(item[i])' => item[i].disc = p.disc
    BY <1>1 DEF PlansClear
  <2>1. ASSUME NEW p \in cmd.plans, NEW i \in DOMAIN p.recs
        PROVE  (Behind(p.recs[i])' <=> Behind(p.recs[i])) /\ (Behind(item[i])' <=> Behind(item[i]))
    BY <1>1 DEF Behind
  <2> QED
    BY <2>1 DEF ClearInv, PlansClear
<1>5. BehindIsRepaired'
  BY <1>1, <1>3 DEF ClearInv, BehindIsRepaired
<1> QED
  BY <1>4, <1>5 DEF ClearInv

\* A repair leaves no record of its disc behind.
LEMMA RepairIsLast ==
  ASSUME TypeOK, NEW d \in Disc, NEW info, NEW i \in DOMAIN Repair(info, d), NEW x, x = Repair(info, d)[i]
  PROVE  /\ x.disc = d /\ info.state = "lost" => x.state \notin {"Packed", "OnDisc"}
         /\ x.disc = d /\ info.state = "undone" => x.state # "Packed"
         /\ x.disc = d /\ info.state = "on disc only" => x.state \notin {"Packed", "Lost"}
<1>1. CASE i \in GivenBack(info, d)
  BY <1>1, BackParts
<1>2. CASE i \in ObjectsBack(info, d)
  <2>1. x = OnDiscOf(d)
    BY <1>2, RepairParts
  <2>2. info.state = "on disc only"
    BY <1>2, BackParts
  <2> QED
    BY <2>1, <2>2, NewRecordFields
<1>3. CASE i \in Direct(info, d)
  <2>1. /\ info.state = "lost" => x \in {StagedByLoss, LostOf(d)}
        /\ info.state = "undone" => x = Staged
        /\ info.state = "on disc only" => x = OnDiscOf(d)
    BY <1>3, DirectParts
  <2> QED
    BY <2>1, NewRecordFields
<1> QED
  BY <1>1, <1>2, <1>3, RepairParts

LEMMA RepairClears ==
  ASSUME TypeOK, NEW d \in Disc, NEW i \in DOMAIN Repair(disc[d], d)
  PROVE  /\ ~Behind(Repair(disc[d], d)[i])
         /\ Repair(disc[d], d)[i].disc \in {NoDisc, d}
         /\ Behind(item[i]) => item[i].disc = d
<1>1. PICK info, x : info = disc[d] /\ x = Repair(info, d)[i] /\ i \in DOMAIN Repair(info, d)
  OBVIOUS
<1>2. x.disc \in {NoDisc, d} /\ item[i].disc \in {NoDisc, d}
  BY <1>1, RepairChanges
<1>5. /\ x.disc = d /\ info.state = "lost" => x.state \notin {"Packed", "OnDisc"}
      /\ x.disc = d /\ info.state = "undone" => x.state # "Packed"
      /\ x.disc = d /\ info.state = "on disc only" => x.state \notin {"Packed", "Lost"}
  BY <1>1, RepairIsLast
<1>3. ~Behind(x)
  BY <1>1, <1>2, <1>5, NoDiscAssumption DEF Behind
<1>4. Behind(item[i]) => item[i].disc = d
  BY <1>2, NoDiscAssumption DEF Behind
<1> QED
  BY <1>1, <1>2, <1>3, <1>4

LEMMA ClearOpen ==
  ASSUME TypeOK, ClearInv, Open
  PROVE  ClearInv'
<1>1. disc' = disc /\ item' = item
  BY DEF Open, logs
<1>2. ASSUME NEW i \in Item, Behind(item[i])
      PROVE  item[i].disc \in ToRepair /\ i \in DOMAIN Repair(disc[item[i].disc], item[i].disc)
  <2>1. PICK d : d = item[i].disc /\ d \in Disc /\ disc[d].state # "unknown"
    BY <1>2 DEF Behind
  <2>2. i \in Direct(disc[d], d)
    BY <1>2, <2>1, BehindFollows
  <2>3. i \in DOMAIN Repair(disc[d], d)
    BY <2>2 DEF Repair
  <2> QED
    BY <2>1, <2>3 DEF ToRepair, Known
<1>3. CASE ToRepair = {}
  <2>1. \A i \in Item : ~Behind(item[i])'
    BY <1>1, <1>2, <1>3 DEF Behind
  <2>2. cmd'.at = "open" /\ cmd'.plans = {}
    BY <1>3, BuiltCommands DEF Open
  <2> QED
    BY <2>1, <2>2, ClearNone
<1>4. CASE ToRepair # {}
  <2>1. PICK P : /\ P = {[disc |-> d, recs |-> Repair(disc[d], d)] : d \in ToRepair}
                 /\ cmd' = [Go("repair", NoDisc) EXCEPT !.plans = P]
    BY <1>4 DEF Open
  <2>2. cmd'.at = "repair" /\ cmd'.plans = P
    BY <2>1 DEF Go, Idle
  <2>3. ToRepair \subseteq Disc
    BY DEF ToRepair
  <2>4. \A r : Behind(r)' <=> Behind(r)
    BY <1>1 DEF Behind
  <2>5. \A i \in Item : Behind(item[i])' <=> Behind(item[i])
    BY <1>1 DEF Behind
  <2>6. PlansClear'
    <3>1. ASSUME NEW p \in P
          PROVE  p.disc \in Disc /\ p.recs = Repair(disc[p.disc], p.disc)
      BY <2>1, <2>3
    <3>2. ASSUME NEW p \in P, NEW q \in P, p.disc = q.disc PROVE p = q
      BY <2>1, <3>2
    <3>3. ASSUME NEW p \in P, NEW i \in DOMAIN p.recs
          PROVE  /\ ~Behind(p.recs[i])' /\ p.recs[i].disc \in {NoDisc, p.disc}
                 /\ Behind(item[i])' => item'[i].disc = p.disc
      <4>1. i \in Item
        BY <3>1, <3>3, RepairParts
      <4>2. /\ ~Behind(p.recs[i]) /\ p.recs[i].disc \in {NoDisc, p.disc}
            /\ Behind(item[i]) => item[i].disc = p.disc
        BY <3>1, <3>3, RepairClears
      <4>3. ~Behind(p.recs[i])'
        BY <1>1, <4>2 DEF Behind
      <4> QED
        BY <1>1, <2>5, <4>1, <4>2, <4>3
    <3> QED
      BY <2>2, <3>2, <3>3 DEF PlansClear
  <2>7. BehindIsRepaired'
    <3> SUFFICES ASSUME NEW i \in Item, Behind(item[i])
                 PROVE  \E p \in P : p.disc = item[i].disc /\ i \in DOMAIN p.recs
      BY <1>1, <2>2, <2>5 DEF BehindIsRepaired, OwedSteps, EventSteps
    <3>1. PICK d : d = item[i].disc
      OBVIOUS
    <3>2. d \in ToRepair /\ i \in DOMAIN Repair(disc[d], d)
      BY <1>2, <3>1
    <3>3. [disc |-> d, recs |-> Repair(disc[d], d)] \in P
      BY <2>1, <3>2
    <3> QED
      BY <3>1, <3>2, <3>3
  <2> QED
    BY <2>6, <2>7 DEF ClearInv
<1> QED
  BY <1>3, <1>4

\* What a batch of records that are not behind leaves behind.
LEMMA BatchClears ==
  ASSUME disc' = disc, NEW T \in SUBSET Item, NEW recs, \A i \in T : ~Behind(recs[i]),
         item' = [i \in Item |-> IF i \in T THEN recs[i] ELSE item[i]]
  PROVE  \A i \in Item : Behind(item[i])' => Behind(item[i]) /\ i \notin T /\ item'[i] = item[i]
<1> SUFFICES ASSUME NEW i \in Item, Behind(item[i])' PROVE Behind(item[i]) /\ i \notin T /\ item'[i] = item[i]
  OBVIOUS
<1>1. Behind(item'[i])
  BY DEF Behind
<1> QED
  BY <1>1

LEMMA ClearRepairDisc ==
  ASSUME TypeOK, ClearInv, RepairDisc
  PROVE  ClearInv'
<1>0. PICK p \in cmd.plans : AppendOwed(p.recs, IF cmd.plans = {p} THEN Go("open", NoDisc)
                                               ELSE [cmd EXCEPT !.plans = @ \ {p}])
  BY DEF RepairDisc
<1>1. PICK next :
        /\ next = IF cmd.plans = {p} THEN Go("open", NoDisc) ELSE [cmd EXCEPT !.plans = @ \ {p}]
        /\ AppendOwed(p.recs, next) /\ cmd.at = "repair" /\ disc' = disc
  BY <1>0 DEF RepairDisc
<1>10. PICK recs : recs = p.recs
  OBVIOUS
<1>11. AppendOwed(recs, next)
  BY <1>1, <1>10
<1>12. PICK T \in SUBSET DOMAIN recs :
         /\ item' = [i \in Item |-> IF i \in T THEN recs[i] ELSE item[i]]
         /\ cmd' = IF T = DOMAIN recs THEN next ELSE Idle
  BY <1>11, BatchParts
<1>2. /\ T \subseteq DOMAIN p.recs
      /\ item' = [i \in Item |-> IF i \in T THEN p.recs[i] ELSE item[i]]
      /\ cmd' = IF T = DOMAIN p.recs THEN next ELSE Idle
  BY <1>10, <1>12
<1>3. cmd \in Cmd /\ DOMAIN p.recs \subseteq Item
  BY DEF TypeOK, Cmd, Plan
<1>4. \A i \in DOMAIN p.recs : ~Behind(p.recs[i])
  BY DEF ClearInv, PlansClear
<1>5. \A i \in Item : Behind(item[i])' => Behind(item[i]) /\ i \notin T /\ item'[i] = item[i]
  BY <1>1, <1>2, <1>3, <1>4, BatchClears
<1>6. \A i \in Item : Behind(item[i]) => \E q \in cmd.plans : q.disc = item[i].disc /\ i \in DOMAIN q.recs
  BY <1>1 DEF ClearInv, BehindIsRepaired
<1>7. CASE cmd' = Idle
  BY <1>7, ClearIdle, BuiltCommands
<1>8. CASE cmd.plans = {p} /\ T = DOMAIN p.recs
  <2>1. \A i \in Item : ~Behind(item[i])'
    BY <1>5, <1>6, <1>8
  <2>2. cmd'.at = "open" /\ cmd'.plans = {}
    BY <1>1, <1>2, <1>8, BuiltCommands
  <2> QED
    BY <2>1, <2>2, ClearNone
<1>9. CASE cmd.plans # {p} /\ T = DOMAIN p.recs
  <2>1. cmd' = [cmd EXCEPT !.plans = @ \ {p}]
    BY <1>1, <1>2, <1>9
  <2>2. cmd'.at = "repair" /\ cmd'.plans = cmd.plans \ {p}
    BY <1>1, <1>3, <2>1 DEF Cmd
  <2>3. PlansClear'
    <3>1. ASSUME NEW q \in cmd.plans \ {p}, NEW i \in DOMAIN q.recs
          PROVE  /\ ~Behind(q.recs[i])' /\ q.recs[i].disc \in {NoDisc, q.disc}
                 /\ Behind(item[i])' => item'[i].disc = q.disc
      <4>1. /\ ~Behind(q.recs[i]) /\ q.recs[i].disc \in {NoDisc, q.disc}
            /\ Behind(item[i]) => item[i].disc = q.disc
        BY <3>1 DEF ClearInv, PlansClear
      <4>2. i \in Item
        BY <3>1 DEF TypeOK, Cmd, Plan
      <4>3. ~Behind(q.recs[i])'
        BY <1>1, <4>1 DEF Behind
      <4> QED
        BY <1>5, <4>1, <4>2, <4>3
    <3>2. \A q, r \in cmd.plans \ {p} : q.disc = r.disc => q = r
      BY DEF ClearInv, PlansClear
    <3> QED
      BY <2>2, <3>1, <3>2 DEF PlansClear
  <2>4. BehindIsRepaired'
    <3> SUFFICES ASSUME NEW i \in Item, Behind(item[i])'
                 PROVE  \E q \in cmd.plans \ {p} : q.disc = item'[i].disc /\ i \in DOMAIN q.recs
      BY <2>2 DEF BehindIsRepaired, OwedSteps, EventSteps
    <3>1. Behind(item[i]) /\ i \notin DOMAIN p.recs /\ item'[i] = item[i]
      BY <1>5, <1>9
    <3> QED
      BY <1>6, <3>1
  <2> QED
    BY <2>3, <2>4 DEF ClearInv
<1> QED
  BY <1>2, <1>7, <1>8, <1>9


\* The batch after an event writes every record of the disc that is behind.
LEMMA ClearItems ==
  ASSUME TypeOK, CommandOK, ClearInv, LostItems \/ FoundItems \/ UndoneItems
  PROVE  ClearInv'
<1>1. PICK d, recs, next : /\ d = cmd.disc /\ recs = Repair(disc[d], d)
                           /\ next \in {Idle, Go("lostRoot", d), Go("undoing", d)}
                           /\ AppendOwed(recs, next) /\ cmd.at \in EventSteps /\ disc' = disc
  BY DEF LostItems, FoundItems, UndoneItems, EventSteps
<1>2. PICK T \in SUBSET DOMAIN recs :
        /\ item' = [i \in Item |-> IF i \in T THEN recs[i] ELSE item[i]]
        /\ cmd' = IF T = DOMAIN recs THEN next ELSE Idle
  BY <1>1, BatchParts
<1>3. CASE cmd' = Idle
  BY <1>3, ClearIdle, BuiltCommands
<1>4. CASE T = DOMAIN recs
  <2>1. ASSUME NEW i \in Item PROVE ~Behind(item'[i])
    <3>1. CASE i \in T
      <4>1. d \in Disc
        BY <1>1 DEF CommandOK, DiscSteps, Steps, EventSteps
      <4>2. ~Behind(recs[i])
        BY <1>1, <1>2, <3>1, <4>1, RepairClears
      <4> QED
        BY <1>2, <3>1, <4>2
    <3>2. CASE i \notin T
      <4>1. SUFFICES ASSUME Behind(item[i]) PROVE FALSE
        BY <1>2, <3>2
      <4>2. d \in Disc /\ item[i].disc = d /\ disc[d].state # "unknown"
        BY <1>1, <4>1 DEF ClearInv, BehindIsRepaired, Behind
      <4>3. i \in Direct(disc[d], d)
        BY <4>1, <4>2, BehindFollows
      <4> QED
        BY <1>1, <1>4, <3>2, <4>3 DEF Repair
    <3> QED
      BY <3>1, <3>2
  <2>2. \A i \in Item : ~Behind(item[i])'
    BY <1>1, <2>1 DEF Behind
  <2>3. cmd'.at \in {"idle", "lostRoot", "undoing"} /\ cmd'.plans = {}
    BY <1>1, <1>2, BuiltCommands
  <2> QED
    BY <2>2, <2>3, ClearNone
<1> QED
  BY <1>2, <1>3, <1>4

LEMMA ClearGc ==
  ASSUME TypeOK, ClearInv, GcEvents \/ GcItems
  PROVE  ClearInv'
<1>1. CASE GcEvents
  <2>1. PICK G, F, D : cmd' = IF G THEN [Go("freed", NoDisc) EXCEPT !.discs = D, !.items = F] ELSE Idle
    BY <1>1 DEF GcEvents
  <2>2. cmd'.at \in {"freed", "idle"} /\ cmd'.plans = {}
    BY <2>1 DEF Go, Idle
  <2> QED
    BY <2>2, ClearIdle
<1>2. CASE GcItems
  <2>1. cmd' = [cmd EXCEPT !.at = "unlink"] \/ cmd' = Idle
    BY <1>2, BatchGoesTo DEF GcItems, AppendOwed
  <2>2. cmd'.at \in {"unlink", "idle"} /\ cmd'.plans = {}
    BY <1>2, <2>1, BuiltCommands DEF TypeOK, Cmd, ClearInv, PlansClear, GcItems
  <2> QED
    BY <2>2, ClearIdle
<1> QED
  BY <1>1, <1>2

\* An event leaves records behind, of its own disc, for the next write.
LEMMA ClearEvents ==
  ASSUME TypeOK, ClearInv, NEW d \in Disc, DiscLost(d) \/ DiscLostUndo(d) \/ PackUndo(d)
  PROVE  ClearInv'
<1>1. PICK e : AppendEvent(d, e) /\ item' = item /\ cmd.at = "open"
  BY DEF DiscLost, DiscLostUndo, PackUndo
<1>2. PICK a \in EventSteps : cmd' = Go(a, d)
  BY DEF DiscLost, DiscLostUndo, PackUndo, EventSteps
<1>3. cmd'.at = a /\ cmd'.disc = d /\ cmd'.plans = {}
  BY <1>2, BuiltCommands
<1>4. \A i \in Item : ~Behind(item[i])
  BY <1>1, NoneIsBehind DEF OwedSteps, EventSteps
<1>5. \A f \in Disc \ {d} : disc'[f] = disc[f]
  BY <1>1 DEF AppendEvent, TypeOK
<1>6. \A i \in Item : Behind(item[i])' => item'[i].disc = d
  BY <1>1, <1>4, <1>5 DEF Behind
<1>7. PlansClear'
  BY <1>3 DEF PlansClear
<1>8. BehindIsRepaired'
  BY <1>3, <1>6 DEF BehindIsRepaired, OwedSteps, EventSteps
<1> QED
  BY <1>7, <1>8 DEF ClearInv

LEMMA ClearNext ==
  ASSUME TypeOK, CommandOK, ClearInv, Next
  PROVE  ClearInv'
<1>1. CASE Open \/ RepairDisc \/ Stop \/ LostItems \/ FoundItems \/ UndoneItems \/ GcEvents \/ GcItems \/ LoseRepository
  BY <1>1, ClearOpen, ClearRepairDisc, ClearOutside, ClearItems, ClearGc
<1>2. CASE \/ VerifyRecords \/ LostRoot \/ GcUnlink \/ RecoverEvents \/ RecheckEvent \/ PackEvent \/ PackFails
           \/ PackBegins \/ PackRemoves \/ UndoRemoves
           \/ RecoverLedger \/ PackTree \/ PackTables \/ PackRow \/ CommitRecords
  BY <1>2, ClearWorks
<1>3. CASE RecoverItems \/ RecheckItems \/ FinishPack \/ PackItems \/ FinishEvent
  BY <1>3, ClearRecords, ClearFinishEvent
<1>4. ASSUME NEW d \in Disc, DiscCommand(d) \/ Burn(d) PROVE ClearInv'
  <2>1. CASE DiscLost(d) \/ DiscLostUndo(d) \/ PackUndo(d)
    BY <2>1, ClearEvents
  <2>2. CASE \/ DiscBurned(d) \/ DiscBurnedUndo(d) \/ DiscVerified(d) \/ VerifyUndo(d)
             \/ VerifyFails(d) \/ VerifyReads(d) \/ CatalogStops(d)
             \/ Recover(d) \/ FinishStage(d) \/ PackPlans(d)
    BY <2>2, ClearStarts
  <2>3. CASE Burn(d)
    BY <2>3, ClearOutside
  <2> QED
    BY <1>4, <2>1, <2>2, <2>3 DEF DiscCommand
<1>5. ASSUME NEW s \in Snapshot, CommitWrites(s) PROVE ClearInv'
  BY <1>5, ClearCommit
<1> QED
  BY <1>1, <1>2, <1>3, <1>4, <1>5 DEF Next

\* What a repair reads.
LEMMA RepairReads ==
  ASSUME UNCHANGED <<item, objects, index, content>>, NEW d \in Disc
  PROVE  Repair(disc[d], d)' = Repair(disc'[d], d)
  BY DEF Repair, Direct, ObjectsBack, GivenBack, PackedItems

\* A stop after the event, and a burn, change nothing that is asked for.
LEMMA FollowStill ==
  ASSUME FollowInv, UNCHANGED <<disc, item, objects, index, content, owed>>,
         cmd'.at = "idle", cmd'.plans = {}, cmd.at \in OwedSteps
  PROVE  FollowInv'
<1>1. ASSUME NEW i \in DOMAIN owed, ~Done(i)'
      PROVE  \E d \in Disc : Known(d)' /\ DueOf(i, Repair(disc[d], d))'
  <2>1. ~Done(i)
    BY <1>1 DEF Done
  <2>2. PICK d \in Disc : Known(d) /\ DueOf(i, Repair(disc[d], d))
    BY <2>1 DEF FollowInv, OwedIsDue
  <2>3. Repair(disc[d], d)' = Repair(disc[d], d)
    BY RepairReads
  <2> QED
    BY <2>2, <2>3 DEF DueOf, Known
<1>2. OwedIsDue'
  BY <1>1 DEF OwedIsDue
<1>3. BatchIsOwed'
  BY DEF BatchIsOwed, EventSteps
<1>4. OwedIsPending'
  BY DEF FollowInv, OwedIsPending, Done, OwedSteps
<1>8. OwedFits'
  BY DEF FollowInv, OwedFits, Behind
<1>5. LostIsAlone'
  BY DEF FollowInv, LostIsAlone, Behind
<1>6. PlansSettle'
  BY DEF PlansSettle
<1>7. OneDiscStaged'
  <2> SUFFICES ASSUME \E i \in DOMAIN owed : owed[i].state = "Staged"
               PROVE  \E d \in Disc : \A j \in DOMAIN owed : Behind(item[j])' /\ item[j].disc = d
    BY DEF OneDiscStaged
  <2>1. PICK d \in Disc : \A j \in DOMAIN owed : Behind(item[j]) /\ item[j].disc = d
    BY DEF FollowInv, OneDiscStaged
  <2> QED
    BY <2>1 DEF Behind
<1> QED
  BY <1>2, <1>3, <1>4, <1>5, <1>6, <1>7, <1>8 DEF FollowInv

LEMMA FollowBurn ==
  ASSUME FollowInv, NEW d \in Disc, Burn(d)
  PROVE  FollowInv'
  BY FollowStill, BuiltCommands DEF Burn, logs, catalog, made, OwedSteps

\* A command that works owes nothing.
LEMMA NothingIsOwed ==
  ASSUME FollowInv, cmd.at \notin OwedSteps
  PROVE  owed = NothingOwed
  BY DEF FollowInv, OwedIsPending

LEMMA FollowWork ==
  ASSUME FollowInv, cmd.at \notin OwedSteps, owed' = owed, cmd'.at \notin EventSteps \cup {"repair"}
  PROVE  FollowInv'
  BY NothingIsOwed, FollowEmpty

LEMMA FollowStop ==
  ASSUME FollowInv, Stop
  PROVE  FollowInv'
<1>1. cmd'.at = "idle" /\ cmd'.plans = {} /\ owed' = owed
  BY BuiltCommands DEF Stop
<1>2. CASE cmd.at \in OwedSteps
  BY <1>1, <1>2, FollowStill DEF Stop, logs, catalog, made
<1>3. CASE cmd.at \notin OwedSteps
  BY <1>1, <1>3, NothingIsOwed, FollowEmpty DEF EventSteps
<1> QED
  BY <1>2, <1>3

LEMMA FollowLose ==
  ASSUME LoseRepository
  PROVE  FollowInv'
  BY FollowEmpty, BuiltCommands DEF LoseRepository, EventSteps

LEMMA FollowInit == Init => FollowInv
<1> SUFFICES ASSUME Init PROVE FollowInv
  OBVIOUS
<1>1. owed = NothingOwed /\ DOMAIN owed = {} /\ cmd.at = "idle" /\ cmd.plans = {}
  BY BuiltCommands DEF Init, NothingOwed
<1>2. OwedIsDue /\ BatchIsOwed /\ OwedFits /\ LostIsAlone /\ PlansSettle /\ OneDiscStaged
  BY <1>1 DEF OwedIsDue, BatchIsOwed, OwedFits, LostIsAlone, PlansSettle, OneDiscStaged, EventSteps
<1> QED
  BY <1>1, <1>2 DEF FollowInv, OwedIsPending

\* The steps of a command that ask for no record.
LEMMA FollowWorks ==
  ASSUME TypeOK, FollowInv,
         \/ VerifyRecords \/ LostRoot \/ GcUnlink \/ RecoverEvents \/ RecheckEvent
         \/ PackBegins \/ FinishEvent \/ PackEvent \/ PackFails \/ PackRemoves \/ UndoRemoves
         \/ RecoverLedger \/ PackTree \/ PackTables \/ PackRow
         \/ RecoverItems \/ RecheckItems \/ CommitRecords \/ FinishPack \/ PackItems
  PROVE  FollowInv'
<1>0. cmd \in Cmd
  BY DEF TypeOK
<1>1. CASE VerifyRecords \/ LostRoot \/ GcUnlink \/ RecoverEvents \/ RecheckEvent \/ PackEvent \/ PackFails
  <2>1. /\ owed' = owed /\ cmd.at \notin OwedSteps
        /\ cmd' = Idle \/ cmd' = Go("packFails", cmd.disc)
    BY <1>1 DEF VerifyRecords, LostRoot, GcUnlink, RecoverEvents, RecheckEvent, PackEvent, PackFails,
       OwedSteps, EventSteps
  <2>2. cmd'.at \in {"idle", "packFails"}
    BY <2>1, BuiltCommands
  <2> QED
    BY <2>1, <2>2, FollowWork DEF EventSteps
<1>2. CASE PackBegins \/ FinishEvent \/ PackRemoves \/ UndoRemoves
  <2>1. /\ owed' = owed /\ cmd.at \notin OwedSteps
        /\ cmd' = Go("pack", NoDisc) \/ (cmd' = cmd /\ cmd.at \in {"pack", "undoing"})
    BY <1>2 DEF PackBegins, FinishEvent, PackRemoves, UndoRemoves, OwedSteps, EventSteps
  <2>2. cmd'.at \in {"pack", "undoing"}
    BY <2>1, BuiltCommands
  <2> QED
    BY <2>1, <2>2, FollowWork DEF EventSteps
<1>3. CASE RecoverLedger \/ PackTables \/ PackRow
  <2>1. PICK a \in {"recoverItems", "packRow", "packItems"} :
          owed' = owed /\ cmd.at \notin OwedSteps /\ cmd' = [cmd EXCEPT !.at = a]
    BY <1>3 DEF RecoverLedger, PackTables, PackRow, OwedSteps, EventSteps
  <2>2. cmd'.at = a
    BY <1>0, <2>1, BuiltCommands
  <2> QED
    BY <2>1, <2>2, FollowWork DEF EventSteps
<1>4. CASE PackTree
  <2>1. PICK S : cmd' = [Go("packTables", cmd.disc) EXCEPT !.items = S]
    BY <1>4 DEF PackTree
  <2>2. cmd'.at = "packTables"
    BY <2>1, BuiltCommands
  <2> QED
    BY <1>4, <2>2, FollowWork DEF PackTree, OwedSteps, EventSteps
<1>5. CASE RecoverItems \/ RecheckItems
  <2>1. PICK a \in {"recoverEvents", "recheckEvent"} : EnsureOnDisc(a)
    BY <1>5 DEF RecoverItems, RecheckItems
  <2>2. cmd' = [cmd EXCEPT !.at = a] \/ cmd' = Idle
    BY <2>1, BatchGoesTo DEF EnsureOnDisc
  <2>3. cmd'.at = a \/ cmd'.at = "idle"
    BY <1>0, <2>2, CommandGoesTo, BuiltCommands
  <2> QED
    BY <1>5, <2>1, <2>3, FollowWork DEF RecoverItems, RecheckItems, EnsureOnDisc, OwedSteps, EventSteps
<1>6. CASE CommitRecords \/ FinishPack \/ PackItems
  <2>1. PICK next \in {Idle, Go("finishEvent", cmd.disc), Go("packEvent", cmd.disc)} :
          cmd' = next \/ cmd' = Idle
    BY <1>6, BatchGoesTo DEF CommitRecords, FinishPack, PackItems
  <2>2. cmd'.at \in {"idle", "finishEvent", "packEvent"}
    BY <2>1, BuiltCommands
  <2> QED
    BY <1>6, <2>2, FollowWork DEF CommitRecords, FinishPack, PackItems, OwedSteps, EventSteps
<1> QED
  BY <1>1, <1>2, <1>3, <1>4, <1>5, <1>6

LEMMA FollowStarts ==
  ASSUME TypeOK, FollowInv, NEW d \in Disc,
         \/ DiscBurned(d) \/ DiscBurnedUndo(d) \/ DiscVerified(d) \/ VerifyUndo(d)
         \/ VerifyFails(d) \/ VerifyReads(d) \/ CatalogStops(d)
         \/ Recover(d) \/ FinishStage(d) \/ PackPlans(d)
  PROVE  FollowInv'
<1>1. CASE \/ DiscBurned(d) \/ DiscBurnedUndo(d) \/ DiscVerified(d) \/ VerifyUndo(d)
           \/ VerifyFails(d) \/ VerifyReads(d) \/ CatalogStops(d)
  <2>1. /\ owed' = owed /\ cmd.at = "open"
        /\ cmd' = Idle \/ cmd' = Go("read", d)
    BY <1>1 DEF DiscBurned, DiscBurnedUndo, DiscVerified, VerifyUndo, Mark, VerifyFails, VerifyReads,
       CanVerify, CatalogStops
  <2>2. cmd'.at \in {"idle", "read"}
    BY <2>1, BuiltCommands
  <2> QED
    BY <2>1, <2>2, FollowWork DEF OwedSteps, EventSteps
<1>2. CASE Recover(d)
  <2>1. cmd'.at \in {"idle", "recover", "recheck"}
    BY <1>2, RecoverGoesTo
  <2> QED
    BY <1>2, <2>1, FollowWork DEF Recover, OwedSteps, EventSteps
<1>3. CASE FinishStage(d)
  <2>1. PICK ids : cmd' = [Go("finishPack", d) EXCEPT !.items = ids] \/ cmd' = Idle
    BY <1>3, BatchGoesTo DEF FinishStage
  <2>2. cmd'.at = "finishPack" \/ cmd'.at = "idle"
    BY <2>1, CommandGoesTo, BuiltCommands
  <2> QED
    BY <1>3, <2>2, FollowWork DEF FinishStage, OwedSteps, EventSteps
<1>4. CASE PackPlans(d)
  <2>1. cmd' = Go("packTree", d) \/ cmd' = Idle
    BY <1>4, BatchGoesTo DEF PackPlans
  <2>2. cmd'.at \in {"packTree", "idle"}
    BY <2>1, BuiltCommands
  <2> QED
    BY <1>4, <2>2, FollowWork DEF PackPlans, OwedSteps, EventSteps
<1> QED
  BY <1>1, <1>2, <1>3, <1>4

LEMMA FollowCommit ==
  ASSUME FollowInv, NEW s \in Snapshot, CommitWrites(s)
  PROVE  FollowInv'
<1>1. PICK W : cmd' = IF s \in W THEN [Go("commit", NoDisc) EXCEPT !.items = W] ELSE Idle
  BY DEF CommitWrites
<1>2. cmd'.at \in {"commit", "idle"}
  BY <1>1, BuiltCommands
<1> QED
  BY <1>2, FollowWork DEF CommitWrites, OwedSteps, EventSteps

\* openLogs: each plan settles what is owed of its items.
LEMMA PlanSettles ==
  ASSUME TypeOK, FollowInv, NEW d \in Disc, NEW i \in DOMAIN Repair(disc[d], d), i \in DOMAIN owed
  PROVE  Settles(Repair(disc[d], d)[i], i)
<1>1. PICK x : x = Repair(disc[d], d)[i]
  OBVIOUS
<1>2. i \in Item /\ owed[i] \in Record
  BY RepairParts DEF TypeOK
<1>3. SUFFICES Settles(x, i)
  BY <1>1
<1>4. CASE i \in GivenBack(disc[d], d)
  <2>0. x = PackedOn(d)
    BY <1>1, <1>4, RepairParts
  <2>1. x = PackedOn(d) /\ disc[d].state = "burned" /\ item[i].state = "Staged"
    BY <1>4, <2>0, BackParts
  <2>2. item[i].disc = NoDisc
    BY <1>2, <2>1, RecordsTyped
  <2>3. CASE ~Taken(owed[i])
    <3>1. owed[i].state = "Staged"
      BY <1>2, <2>3 DEF Record, Taken
    <3>2. PICK e \in Disc : Behind(item[i]) /\ item[i].disc = e
      BY <3>1 DEF FollowInv, OneDiscStaged
    <3> QED
      BY <2>2, <3>2, NoDiscAssumption
  <2>4. CASE Taken(owed[i]) /\ owed[i].disc # d
    BY <2>1, <2>4 DEF Settles
  <2>5. CASE Taken(owed[i]) /\ owed[i].disc = d
    <3>1. CASE owed[i].state = "Packed"
      <4>1. owed[i] = PackedOn(d)
        BY <1>2, <2>5, <3>1 DEF Record, PackedOn
      <4> QED
        BY <2>1, <4>1 DEF Settles
    <3>2. CASE owed[i].state # "Packed"
      <4>1. ~Done(i)
        BY <2>1, <2>5, <3>2, NewRecordFields DEF Done, Taken
      <4>2. PICK e \in Disc : i \in DOMAIN Repair(disc[e], e) /\ Repair(disc[e], e)[i] = owed[i]
        BY <4>1 DEF FollowInv, OwedIsDue, DueOf
      <4>3. i \notin Direct(disc[e], e)
        BY <2>2, NoDiscAssumption DEF Direct
      <4>4. i \notin GivenBack(disc[e], e)
        BY <3>2, <4>2, RepairParts, NewRecordFields
      <4>5. i \in ObjectsBack(disc[e], e)
        BY <4>2, <4>3, <4>4, RepairParts
      <4>6. owed[i] = OnDiscOf(e)
        BY <4>2, <4>5, RepairParts
      <4>8. disc[e].state = "on disc only"
        BY <4>5, BackParts
      <4>7. e = d
        BY <2>5, <4>6, NewRecordFields
      <4> QED
        BY <2>1, <4>7, <4>8
    <3> QED
      BY <3>1, <3>2
  <2> QED
    BY <2>3, <2>4, <2>5
<1>5. CASE i \in ObjectsBack(disc[d], d)
  <2>0. x = OnDiscOf(d)
    BY <1>1, <1>5, RepairParts
  <2>1. x = OnDiscOf(d) /\ disc[d].state = "on disc only"
    BY <1>5, <2>0, BackParts
  <2>2. PICK k \in Direct(disc[d], d) : item[k].state = "Lost"
    BY <1>5, BackParts
  <2>3. k \in Item /\ item[k].disc = d
    BY <2>2 DEF Direct
  <2>4. Behind(item[k])
    BY <2>1, <2>2, <2>3 DEF Behind
  <2>6. item[i].state = "Staged"
    BY <1>5, BackParts
  <2>5. owed[i] = OnDiscOf(d)
    BY <2>2, <2>3, <2>4, <2>6 DEF FollowInv, LostIsAlone
  <2> QED
    BY <2>1, <2>5 DEF Settles
<1>6. CASE i \in Direct(disc[d], d)
  <2>0. PICK info : info = disc[d]
    OBVIOUS
  <2>9. i \in Direct(info, d)
    BY <1>6, <2>0
  <2>10. /\ item[i].disc = d
         /\ info.state \in {"lost", "undone", "on disc only"}
         /\ info.state = "lost" => item[i].state \in {"Packed", "OnDisc"}
         /\ info.state = "undone" => item[i].state = "Packed"
         /\ info.state = "on disc only" => item[i].state \in {"Packed", "Lost"}
    BY <2>9, DirectStates
  <2>1. Behind(item[i]) /\ item[i].disc = d
    BY <2>0, <2>10 DEF Behind
  <2>2. ~Behind(owed[i]) /\ owed[i].disc \in {NoDisc, d}
    BY <1>2, <2>1 DEF FollowInv, OwedFits
  <2>3. item[i] # owed[i]
    BY <2>1, <2>2
  <2>4. Taken(owed[i]) => owed[i].disc \in Disc
    BY <1>2 DEF Taken, Record
  <2>5. ~Done(i)
    BY <2>1, <2>2, <2>3, <2>4, NoDiscAssumption, NewRecordFields DEF Done
  <2>6. PICK e \in Disc : i \in DOMAIN Repair(disc[e], e) /\ Repair(disc[e], e)[i] = owed[i]
    BY <2>5 DEF FollowInv, OwedIsDue, DueOf
  <2>7. item[i].disc = e
    BY <2>1, <2>6, RepairClears
  <2>8. x = owed[i]
    BY <1>1, <2>1, <2>6, <2>7
  <2> QED
    BY <2>8 DEF Settles
<1> QED
  BY <1>4, <1>5, <1>6, RepairParts

LEMMA FollowOpen ==
  ASSUME TypeOK, FollowInv, Open
  PROVE  FollowInv'
<1>1. UNCHANGED <<disc, item, objects, index, content, owed>> /\ cmd.at = "idle"
  BY BuiltCommands DEF Open, logs, catalog, made
<1>2. CASE ToRepair = {}
  <2>1. \A i \in DOMAIN owed : Done(i)
    BY <1>2 DEF FollowInv, OwedIsDue, ToRepair, DueOf
  <2>2. owed = NothingOwed
    BY <2>1 DEF FollowInv, OwedIsPending
  <2>3. cmd'.at = "open" /\ cmd'.plans = {}
    BY <1>2, BuiltCommands DEF Open
  <2> QED
    BY <1>1, <2>2, <2>3, FollowEmpty DEF EventSteps
<1>3. CASE ToRepair # {}
  <2>1. PICK P : /\ P = {[disc |-> d, recs |-> Repair(disc[d], d)] : d \in ToRepair}
                 /\ cmd' = [Go("repair", NoDisc) EXCEPT !.plans = P]
    BY <1>3 DEF Open
  <2>2. cmd'.at = "repair" /\ cmd'.plans = P
    BY <2>1 DEF Go, Idle
  <2>3. ToRepair \subseteq Disc
    BY DEF ToRepair
  <2>4. OwedIsDue'
    <3> SUFFICES ASSUME NEW i \in DOMAIN owed, ~Done(i)'
                 PROVE  \E d \in Disc : /\ Known(d)' /\ DueOf(i, Repair(disc[d], d))'
                                        /\ \E p \in P : p.disc = d /\ DueOf(i, p.recs)'
      BY <1>1, <2>2 DEF OwedIsDue
    <3>1. ~Done(i)
      BY <1>1 DEF Done
    <3>2. PICK d \in Disc : Known(d) /\ DueOf(i, Repair(disc[d], d))
      BY <3>1 DEF FollowInv, OwedIsDue
    <3>3. Repair(disc[d], d)' = Repair(disc[d], d)
      BY <1>1, RepairReads
    <3>4. d \in ToRepair
      BY <3>2 DEF ToRepair, DueOf
    <3>5. [disc |-> d, recs |-> Repair(disc[d], d)] \in P
      BY <2>1, <3>4
    <3> QED
      BY <1>1, <3>2, <3>3, <3>5 DEF DueOf, Known
  <2>5. BatchIsOwed'
    BY <2>2 DEF BatchIsOwed, EventSteps
  <2>6. OwedIsPending'
    BY <1>1, <2>2 DEF FollowInv, OwedIsPending, Done, OwedSteps
  <2>10. OwedFits'
    BY <1>1 DEF FollowInv, OwedFits, Behind
  <2>7. LostIsAlone'
    BY <1>1 DEF FollowInv, LostIsAlone, Behind
  <2>8. PlansSettle'
    <3> SUFFICES ASSUME NEW p \in P, NEW i \in DOMAIN p.recs
                 PROVE  i \in DOMAIN owed => Settles(p.recs[i], i)'
      BY <1>1, <2>2 DEF PlansSettle
    <3>1. PICK d \in Disc : p.disc = d /\ p.recs = Repair(disc[d], d)
      BY <2>1, <2>3
    <3>3. i \in DOMAIN owed => Settles(p.recs[i], i)
      BY <3>1, PlanSettles
    <3> QED
      BY <1>1, <3>3 DEF Settles
  <2>9. OneDiscStaged'
    <3> SUFFICES ASSUME \E i \in DOMAIN owed : owed[i].state = "Staged"
                 PROVE  \E d \in Disc : \A j \in DOMAIN owed : Behind(item[j])' /\ item[j].disc = d
      BY <1>1 DEF OneDiscStaged
    <3>1. PICK d \in Disc : \A j \in DOMAIN owed : Behind(item[j]) /\ item[j].disc = d
      BY DEF FollowInv, OneDiscStaged
    <3> QED
      BY <1>1, <3>1 DEF Behind
  <2> QED
    BY <2>4, <2>5, <2>6, <2>7, <2>8, <2>9, <2>10 DEF FollowInv
<1> QED
  BY <1>2, <1>3

\* A batch that is written whole.
LEMMA WholeBatch ==
  ASSUME ~TornBatches, NEW recs, NEW next, AppendOwed(recs, next)
  PROVE  /\ item' = [i \in Item |-> IF i \in DOMAIN recs THEN recs[i] ELSE item[i]]
         /\ cmd' = next
         /\ (\A i \in DOMAIN owed : Settled(i)) => owed' = NothingOwed
         /\ ~(\A i \in DOMAIN owed : Settled(i)) => owed' = owed
<1>1. Written(DOMAIN recs) = {DOMAIN recs}
  BY DEF Written
<1> QED
  BY <1>1 DEF AppendOwed, AppendItems

\* A repair asks the same of an item after a batch for another disc.
LEMMA RepairStays ==
  ASSUME TypeOK, UNCHANGED <<disc, objects, index, content>>, NEW d \in Disc,
         NEW i \in DOMAIN Repair(disc[d], d), item'[i] = item[i],
         \A j \in Item : item'[j] = PackedOn(d) => item[j] = PackedOn(d),
         \A k \in Item : Behind(item[k]) /\ item[k].disc = d => item'[k] = item[k]
  PROVE  /\ i \in DOMAIN Repair(disc[d], d)'
         /\ Repair(disc[d], d)'[i] = Repair(disc[d], d)[i]
<1>1. i \in Item /\ d # NoDisc
  BY RepairParts, NoDiscAssumption
<1>2. CASE i \in GivenBack(disc[d], d)
  <2>1. Repair(disc[d], d)[i] = PackedOn(d)
    BY <1>2, RepairParts
  <2>2. PackedItems(d) = {}
    BY <1>2 DEF GivenBack
  <2>3. PackedItems(d)' = {}
    BY <2>2 DEF PackedItems
  <2>4. i \in GivenBack(disc[d], d)'
    BY <1>2, <2>2, <2>3 DEF GivenBack
  <2> QED
    BY <2>1, <2>4 DEF Repair
<1>3. CASE i \in ObjectsBack(disc[d], d)
  <2>1. Repair(disc[d], d)[i] = OnDiscOf(d)
    BY <1>3, RepairParts
  <2>2. PICK k \in Direct(disc[d], d) : item[k].state = "Lost"
    BY <1>3 DEF ObjectsBack
  <2>3. k \in Item /\ item[k].disc = d /\ disc[d].state = "on disc only"
    BY <1>3, <2>2 DEF Direct, ObjectsBack
  <2>4. item'[k] = item[k]
    BY <2>2, <2>3 DEF Behind
  <2>5. k \in Direct(disc[d], d)'
    BY <2>2, <2>4 DEF Direct
  <2>6. i \in ObjectsBack(disc[d], d)'
    BY <1>3, <2>2, <2>4, <2>5 DEF ObjectsBack
  <2>7. i \notin GivenBack(disc[d], d)'
    BY <2>3 DEF GivenBack
  <2> QED
    BY <2>1, <2>6, <2>7 DEF Repair
<1>4. CASE i \in Direct(disc[d], d)
  <2>1. i \in Direct(disc[d], d)'
    BY <1>4 DEF Direct
  <2>2. item[i].disc = d
    BY <1>4 DEF Direct
  <2>3. item[i].state # "Staged"
    BY <1>1, <2>2, RecordsTyped
  <2>4. i \notin GivenBack(disc[d], d)' /\ i \notin ObjectsBack(disc[d], d)'
    BY <2>3, NewRecordFields DEF GivenBack, ObjectsBack
  <2>5. i \notin GivenBack(disc[d], d) /\ i \notin ObjectsBack(disc[d], d)
    BY <2>3, NewRecordFields DEF GivenBack, ObjectsBack
  <2> QED
    BY <1>4, <2>1, <2>4, <2>5 DEF Repair
<1> QED
  BY <1>2, <1>3, <1>4, RepairParts

LEMMA FollowRepairDisc ==
  ASSUME TypeOK, ~TornBatches, ClearInv, FollowInv, RepairDisc
  PROVE  FollowInv'
<1>1. PICK p \in cmd.plans : AppendOwed(p.recs, IF cmd.plans = {p} THEN Go("open", NoDisc)
                                               ELSE [cmd EXCEPT !.plans = @ \ {p}])
  BY DEF RepairDisc
<1>2. /\ UNCHANGED <<disc, objects, index, content>> /\ cmd.at = "repair"
      /\ item' = [i \in Item |-> IF i \in DOMAIN p.recs THEN p.recs[i] ELSE item[i]]
      /\ cmd' = IF cmd.plans = {p} THEN Go("open", NoDisc) ELSE [cmd EXCEPT !.plans = @ \ {p}]
      /\ (\A i \in DOMAIN owed : Settled(i)) => owed' = NothingOwed
      /\ ~(\A i \in DOMAIN owed : Settled(i)) => owed' = owed
  BY <1>1, WholeBatch DEF RepairDisc, catalog, made
<1>3. /\ p.disc \in Disc /\ DOMAIN p.recs \subseteq Item /\ DOMAIN owed \subseteq Item
      /\ cmd \in Cmd /\ item \in [Item -> Record \cup {NoRecord}]
  BY DEF TypeOK, Cmd, Plan
<1>4. [cmd EXCEPT !.plans = @ \ {p}].plans = cmd.plans \ {p} /\ [cmd EXCEPT !.plans = @ \ {p}].at = "repair"
  BY <1>2, <1>3 DEF Cmd
<1>5. cmd'.at \in {"open", "repair"} /\ cmd'.plans \subseteq cmd.plans
  BY <1>2, <1>4, BuiltCommands
<1>6. CASE \A i \in DOMAIN owed : Settled(i)
  BY <1>2, <1>5, <1>6, FollowEmpty DEF EventSteps
<1>7. CASE ~(\A i \in DOMAIN owed : Settled(i))
  <2>1. owed' = owed
    BY <1>2, <1>7
  <2>2. ASSUME NEW i \in DOMAIN owed, ~Settled(i)
        PROVE  i \notin DOMAIN p.recs /\ item'[i] = item[i] /\ ~Done(i)
    <3>1. ASSUME i \in DOMAIN p.recs PROVE FALSE
      <4>1. item'[i] = p.recs[i]
        BY <1>2, <1>3, <3>1
      <4>2. Settles(p.recs[i], i)
        BY <1>1, <3>1 DEF FollowInv, PlansSettle
      <4> QED
        BY <2>2, <4>1, <4>2 DEF Settles, Settled
    <3>2. item'[i] = item[i]
      BY <1>2, <1>3, <3>1
    <3> QED
      BY <2>2, <3>1, <3>2 DEF Settled, Done
  <2>3. ASSUME NEW i \in DOMAIN owed, ~Settled(i)
        PROVE  \E d \in Disc : /\ Known(d)' /\ DueOf(i, Repair(disc[d], d))'
                               /\ \E q \in cmd.plans \ {p} : q.disc = d /\ DueOf(i, q.recs)
    <3>1. i \notin DOMAIN p.recs /\ item'[i] = item[i] /\ ~Done(i)
      BY <2>2, <2>3
    <3>2. PICK d \in Disc : /\ Known(d) /\ DueOf(i, Repair(disc[d], d))
                            /\ \E q \in cmd.plans : q.disc = d /\ DueOf(i, q.recs)
      BY <1>2, <3>1 DEF FollowInv, OwedIsDue
    <3>3. PICK q \in cmd.plans : q.disc = d /\ DueOf(i, q.recs)
      BY <3>2
    <3>4. q # p
      BY <3>1, <3>3 DEF DueOf
    <3>5. p.disc # d
      BY <3>3, <3>4, <1>1 DEF ClearInv, PlansClear
    <3>6. ASSUME NEW j \in Item, item'[j] = PackedOn(d) PROVE item[j] = PackedOn(d)
      <4>1. j \in DOMAIN p.recs => p.recs[j].disc \in {NoDisc, p.disc}
        BY <1>1 DEF ClearInv, PlansClear
      <4>2. j \notin DOMAIN p.recs
        BY <1>2, <3>5, <3>6, <4>1, NewRecordFields, NoDiscAssumption
      <4> QED
        BY <1>2, <3>6, <4>2
    <3>7. ASSUME NEW k \in Item, Behind(item[k]), item[k].disc = d PROVE item'[k] = item[k]
      <4>1. k \notin DOMAIN p.recs
        BY <1>1, <3>5, <3>7 DEF ClearInv, PlansClear
      <4> QED
        BY <1>2, <4>1
    <3>8. i \in DOMAIN Repair(disc[d], d)
      BY <3>2 DEF DueOf
    <3>9. i \in DOMAIN Repair(disc[d], d)' /\ Repair(disc[d], d)'[i] = Repair(disc[d], d)[i]
      BY <1>2, <3>1, <3>6, <3>7, <3>8, RepairStays
    <3>10. DueOf(i, Repair(disc[d], d))'
      BY <2>1, <3>2, <3>9 DEF DueOf
    <3> QED
      BY <1>2, <3>2, <3>3, <3>4, <3>10 DEF Known
  <2>4. PICK i0 \in DOMAIN owed : ~Settled(i0)
    BY <1>7
  <2>5. cmd.plans # {p}
    BY <2>3, <2>4
  <2>6. cmd'.at = "repair" /\ cmd'.plans = cmd.plans \ {p}
    BY <1>2, <1>4, <2>5
  <2>7. \A i \in DOMAIN owed : Done(i)' <=> Settled(i)
    BY <2>1 DEF Done, Settled
  <2>8. OwedIsDue'
    <3> SUFFICES ASSUME NEW i \in DOMAIN owed, ~Settled(i)
                 PROVE  \E d \in Disc : /\ Known(d)' /\ DueOf(i, Repair(disc[d], d))'
                                        /\ \E q \in cmd.plans \ {p} : q.disc = d /\ DueOf(i, q.recs)'
      BY <2>1, <2>6, <2>7 DEF OwedIsDue
    <3> QED
      BY <2>1, <2>3 DEF DueOf
  <2>9. BatchIsOwed' /\ OwedIsPending'
    BY <2>1, <2>4, <2>6, <2>7 DEF BatchIsOwed, OwedIsPending, EventSteps, OwedSteps
  <2>10. \A k \in Item : Behind(item[k])' => Behind(item[k]) /\ item'[k] = item[k]
    <3> SUFFICES ASSUME NEW k \in Item, Behind(item[k])' PROVE Behind(item[k]) /\ item'[k] = item[k]
      OBVIOUS
    <3>1. Behind(item'[k])
      BY <1>2 DEF Behind
    <3>2. k \notin DOMAIN p.recs
      BY <1>1, <1>2, <3>1 DEF ClearInv, PlansClear
    <3> QED
      BY <1>2, <3>1, <3>2
  <2>14. OwedFits'
    <3> SUFFICES ASSUME NEW i \in DOMAIN owed, Behind(item[i])'
                 PROVE  ~Behind(owed[i])' /\ owed[i].disc \in {NoDisc, item'[i].disc}
      BY <2>1 DEF OwedFits
    <3>1. i \in Item /\ Behind(item[i]) /\ item'[i] = item[i]
      BY <1>3, <2>10
    <3>2. ~Behind(owed[i]) /\ owed[i].disc \in {NoDisc, item[i].disc}
      BY <3>1 DEF FollowInv, OwedFits
    <3> QED
      BY <1>2, <2>1, <3>1, <3>2 DEF Behind
  <2>11. LostIsAlone'
    <3> SUFFICES ASSUME NEW k \in Item, Behind(item[k])', item'[k].state = "Lost", NEW j \in DOMAIN owed
                 PROVE  /\ owed[j].state = "OnDisc"
                        /\ owed[j] = OnDiscOf(item'[k].disc) \/ item'[j].state # "Staged"
      BY <2>1 DEF LostIsAlone
    <3>1. Behind(item[k]) /\ item'[k] = item[k]
      BY <2>10
    <3>2. owed[j].state = "OnDisc" /\ (owed[j] = OnDiscOf(item[k].disc) \/ item[j].state # "Staged")
      BY <3>1 DEF FollowInv, LostIsAlone
    <3>3. CASE j \in DOMAIN p.recs
      <4>1. Settles(p.recs[j], j) /\ item'[j] = p.recs[j]
        BY <1>2, <1>3, <3>3 DEF FollowInv, PlansSettle
      <4> QED
        BY <3>2, <4>1, NewRecordFields DEF Settles
    <3>4. CASE j \notin DOMAIN p.recs
      BY <1>2, <1>3, <3>1, <3>2, <3>4
    <3> QED
      BY <3>3, <3>4
  <2>12. PlansSettle'
    BY <2>1, <2>6 DEF FollowInv, PlansSettle, Settles
  <2>13. OneDiscStaged'
    <3> SUFFICES ASSUME \E i \in DOMAIN owed : owed[i].state = "Staged"
                 PROVE  \E d \in Disc : \A j \in DOMAIN owed : Behind(item[j])' /\ item'[j].disc = d
      BY <2>1 DEF OneDiscStaged
    <3>1. PICK d \in Disc : \A j \in DOMAIN owed : Behind(item[j]) /\ item[j].disc = d
      BY DEF FollowInv, OneDiscStaged
    <3>2. i0 \notin DOMAIN p.recs
      BY <2>2, <2>4
    <3>3. PICK q \in cmd.plans : q.disc = d /\ i0 \in DOMAIN q.recs
      BY <1>2, <1>3, <3>1 DEF ClearInv, BehindIsRepaired
    <3>4. p.disc # d
      BY <1>1, <3>2, <3>3 DEF ClearInv, PlansClear
    <3>5. \A j \in DOMAIN owed : j \notin DOMAIN p.recs
      BY <1>1, <1>3, <3>1, <3>4 DEF ClearInv, PlansClear
    <3>6. \A j \in DOMAIN owed : item'[j] = item[j]
      BY <1>2, <1>3, <3>5
    <3>7. ASSUME NEW j \in DOMAIN owed PROVE Behind(item[j])' /\ item'[j].disc = d
      <4>1. item'[j] = item[j] /\ Behind(item[j]) /\ item[j].disc = d
        BY <3>1, <3>6
      <4>2. Behind(item'[j])
        BY <4>1
      <4> QED
        BY <1>2, <4>1, <4>2 DEF Behind
    <3> QED
      BY <3>7
  <2> QED
    BY <2>8, <2>9, <2>11, <2>12, <2>13, <2>14 DEF FollowInv
<1> QED
  BY <1>6, <1>7

\* The batch after an event is all that the event asked for.
LEMMA FollowItems ==
  ASSUME TypeOK, ~TornBatches, FollowInv, LostItems \/ FoundItems \/ UndoneItems
  PROVE  FollowInv'
<1>1. PICK recs, next : /\ recs = Repair(disc[cmd.disc], cmd.disc)
                        /\ next \in {Idle, Go("lostRoot", cmd.disc), Go("undoing", cmd.disc)}
                        /\ AppendOwed(recs, next) /\ cmd.at \in EventSteps
  BY DEF LostItems, FoundItems, UndoneItems, EventSteps
<1>2. owed = recs
  BY <1>1 DEF FollowInv, BatchIsOwed
<1>3. /\ item' = [i \in Item |-> IF i \in DOMAIN recs THEN recs[i] ELSE item[i]]
      /\ cmd' = next
      /\ (\A i \in DOMAIN owed : Settled(i)) => owed' = NothingOwed
  BY <1>1, WholeBatch
<1>4. \A i \in DOMAIN owed : Settled(i)
  BY <1>2, <1>3 DEF Settled, TypeOK
<1>5. cmd'.at \in {"idle", "lostRoot", "undoing"}
  BY <1>1, <1>3, BuiltCommands
<1> QED
  BY <1>3, <1>4, <1>5, FollowEmpty DEF EventSteps

\* gc writes a record for each item that the discs it freed have.
LEMMA FollowGcItems ==
  ASSUME TypeOK, ~TornBatches, FollowInv, GcItems
  PROVE  FollowInv'
<1>1. PICK recs, next : /\ recs = [i \in UNION {PackedItems(d) : d \in cmd.discs} |-> OnDiscOf(item[i].disc)]
                        /\ next = [cmd EXCEPT !.at = "unlink"]
                        /\ AppendOwed(recs, next) /\ cmd.at = "freed"
  BY DEF GcItems
<1>2. /\ item' = [i \in Item |-> IF i \in DOMAIN recs THEN recs[i] ELSE item[i]]
      /\ cmd' = next
      /\ (\A i \in DOMAIN owed : Settled(i)) => owed' = NothingOwed
  BY <1>1, WholeBatch
<1>3. ASSUME NEW i \in DOMAIN owed PROVE Settled(i)
  <2>1. i \in Item /\ item[i] \in Record \cup {NoRecord}
    BY DEF TypeOK
  <2>2. item[i].disc \in cmd.discs /\ item[i].state = "Packed" /\ owed[i] = OnDiscOf(item[i].disc)
    BY <1>1 DEF FollowInv, BatchIsOwed
  <2>3. item[i] = PackedOn(item[i].disc)
    BY <2>1, <2>2 DEF Record, NoRecord, PackedOn
  <2>4. i \in UNION {PackedItems(d) : d \in cmd.discs}
    BY <2>1, <2>2, <2>3 DEF PackedItems
  <2>5. item'[i] = OnDiscOf(item[i].disc)
    BY <1>1, <1>2, <2>1, <2>4
  <2> QED
    BY <2>2, <2>5 DEF Settled
<1>4. cmd'.at = "unlink"
  BY <1>1, <1>2, BuiltCommands DEF TypeOK
<1> QED
  BY <1>2, <1>3, <1>4, FollowEmpty DEF EventSteps

\* A disc event asks for what the new state of the disc asks for.
LEMMA FollowOwing ==
  ASSUME TypeOK, ClearInv', NEW d \in Disc, NEW info,
         disc'[d] = info, info.state # "unknown",
         UNCHANGED <<item, objects, index, content>>, owed' = Repair(info, d),
         NEW a \in EventSteps, cmd' = Go(a, d)
  PROVE  FollowInv'
<1>1. cmd'.at = a /\ cmd'.disc = d /\ cmd'.plans = {} /\ a \in EventSteps
  BY BuiltCommands
<1>2. Repair(disc[d], d)' = owed'
  BY RepairReads
<1>3. ASSUME NEW i \in DOMAIN owed' PROVE ~Done(i)'
  <2>1. i \in DOMAIN Repair(info, d) /\ owed'[i] = Repair(info, d)[i]
    OBVIOUS
  <2>2. owed'[i] # item[i] /\ owed'[i].disc \in {NoDisc, d} /\ item[i].disc \in {NoDisc, d}
    BY <2>1, RepairChanges
  <2>3. i \in Item /\ owed'[i] \in Record
    BY <2>1, RepairType
  <2>4. Taken(owed'[i]) => owed'[i].disc \in Disc
    BY <2>3 DEF Record, Taken
  <2>5. Taken(owed'[i]) => owed'[i].disc = d
    BY <2>2, <2>4, NoDiscAssumption
  <2>6. \A e \in Disc : item[i] = PackedOn(e) => e = d
    BY <2>2, NewRecordFields, NoDiscAssumption
  <2> QED
    BY <2>2, <2>5, <2>6 DEF Done
<1>4. OwedIsDue'
  BY <1>1, <1>2 DEF OwedIsDue, DueOf, Known, EventSteps
<1>5. BatchIsOwed'
  BY <1>1, <1>2 DEF BatchIsOwed, EventSteps
<1>6. OwedIsPending'
  <2>1. DOMAIN owed' = {} => owed' = NothingOwed
    BY DEF Repair, NothingOwed
  <2> QED
    BY <1>1, <1>3, <2>1 DEF OwedIsPending, OwedSteps
<1>7. LostIsAlone'
  <2> SUFFICES ASSUME NEW k \in Item, Behind(item[k])', item'[k].state = "Lost", NEW j \in DOMAIN owed'
               PROVE  owed'[j].state = "OnDisc" /\ owed'[j] = OnDiscOf(item'[k].disc)
    BY DEF LostIsAlone
  <2>1. item'[k].disc = d
    BY <1>1 DEF ClearInv, BehindIsRepaired
  <2>2. info.state = "on disc only"
    BY <2>1 DEF Behind
  <2>3. j \in DOMAIN Repair(info, d)
    OBVIOUS
  <2>4. Repair(info, d)[j] = OnDiscOf(d)
    <3>1. j \notin GivenBack(info, d)
      BY <2>2 DEF GivenBack
    <3>2. CASE j \in ObjectsBack(info, d)
      BY <2>3, <3>2, RepairParts
    <3>3. CASE j \in Direct(info, d)
      BY <2>2, <2>3, <3>3, DirectParts
    <3> QED
      BY <2>3, <3>1, <3>2, <3>3, RepairParts
  <2> QED
    BY <2>1, <2>4, NewRecordFields
<1>10. OwedFits'
  <2> SUFFICES ASSUME NEW i \in DOMAIN owed', Behind(item[i])'
               PROVE  ~Behind(owed[i])' /\ owed'[i].disc \in {NoDisc, item'[i].disc}
    BY DEF OwedFits
  <2>1. PICK x : x = Repair(info, d)[i] /\ i \in DOMAIN Repair(info, d) /\ x = owed'[i]
    OBVIOUS
  <2>2. x.disc \in {NoDisc, d} /\ item[i].disc \in {NoDisc, d}
    BY <2>1, RepairChanges
  <2>5. /\ x.disc = d /\ info.state = "lost" => x.state \notin {"Packed", "OnDisc"}
        /\ x.disc = d /\ info.state = "undone" => x.state # "Packed"
        /\ x.disc = d /\ info.state = "on disc only" => x.state \notin {"Packed", "Lost"}
    BY <2>1, RepairIsLast
  <2>3. item'[i].disc = d
    BY <2>2, NoDiscAssumption DEF Behind
  <2>4. ~Behind(x)'
    BY <2>2, <2>5, NoDiscAssumption DEF Behind
  <2> QED
    BY <2>1, <2>2, <2>3, <2>4 DEF Behind
<1>8. PlansSettle'
  BY <1>1 DEF PlansSettle
<1>9. OneDiscStaged'
  <2> SUFFICES ASSUME NEW i \in DOMAIN owed', owed'[i].state = "Staged", NEW j \in DOMAIN owed'
               PROVE  Behind(item[j])' /\ item'[j].disc = d
    BY DEF OneDiscStaged
  <2>1. i \in DOMAIN Repair(info, d) /\ j \in DOMAIN Repair(info, d) /\ Repair(info, d)[i].state = "Staged"
    OBVIOUS
  <2>2. i \in Direct(info, d)
    BY <2>1, RepairParts, NewRecordFields
  <2>3. ASSUME info.state = "on disc only" PROVE FALSE
    <3>1. Repair(info, d)[i] = OnDiscOf(d)
      BY <2>1, <2>2, <2>3, DirectParts
    <3> QED
      BY <2>1, <3>1, NewRecordFields
  <2>4. info.state \in {"lost", "undone"}
    BY <2>2, <2>3, DirectStates
  <2>5. j \in Direct(info, d)
    BY <2>1, <2>4, RepairParts, BackParts
  <2>6. /\ item[j].disc = d
        /\ info.state \in {"lost", "undone", "on disc only"}
        /\ info.state = "lost" => item[j].state \in {"Packed", "OnDisc"}
        /\ info.state = "undone" => item[j].state = "Packed"
        /\ info.state = "on disc only" => item[j].state \in {"Packed", "Lost"}
    BY ONLY <2>5, DirectStates
  <2> QED
    BY <2>4, <2>6 DEF Behind
<1> QED
  BY <1>4, <1>5, <1>6, <1>7, <1>8, <1>9, <1>10 DEF FollowInv

LEMMA FollowEvent ==
  ASSUME TypeOK, ClearInv', NEW d \in Disc, NEW e, NEW a \in EventSteps,
         Permits(disc[d], e), AppendEvent(d, e), owed' = Repair(Apply(disc[d], e), d), cmd' = Go(a, d),
         UNCHANGED <<item, objects, index, content>>
  PROVE  FollowInv'
<1>1. disc[d] \in DiscInfo
  BY DEF TypeOK
<1>2. PICK info : info = Apply(disc[d], e)
  OBVIOUS
<1>3. info.state # "unknown"
  BY <1>1, <1>2, EventKnown
<1>4. disc'[d] = info
  BY <1>2 DEF AppendEvent, TypeOK
<1> QED
  BY <1>2, <1>3, <1>4, FollowOwing

LEMMA FollowLost ==
  ASSUME TypeOK, ClearInv', NEW d \in Disc, DiscLost(d) \/ DiscLostUndo(d) \/ PackUndo(d)
  PROVE  FollowInv'
<1>1. UNCHANGED <<item, objects, index, content>>
  BY DEF DiscLost, DiscLostUndo, PackUndo, catalog, made
<1>2. CASE DiscLost(d)
  BY <1>1, <1>2, FollowEvent DEF DiscLost, EventSteps
<1>3. CASE DiscLostUndo(d)
  BY <1>1, <1>3, FollowEvent DEF DiscLostUndo, EventSteps
<1>4. CASE PackUndo(d)
  BY <1>1, <1>4, FollowEvent DEF PackUndo, EventSteps
<1> QED
  BY <1>2, <1>3, <1>4

LEMMA FollowGcEvents ==
  ASSUME TypeOK, ~TornBatches, FollowInv, GcEvents
  PROVE  FollowInv'
<1>1. Written(Freeable) = {Freeable}
  BY DEF Written
<1>2. /\ disc' = [d \in Disc |-> IF d \in Freeable THEN Apply(disc[d], "Freed") ELSE disc[d]]
      /\ owed' = [i \in UNION {PackedItems(d) : d \in Freeable} |-> OnDiscOf(item[i].disc)]
      /\ cmd' = [Go("freed", NoDisc) EXCEPT !.discs = Freeable \cup InState("on disc only"), !.items = Garbage]
      /\ UNCHANGED <<item, objects, index, content>>
  BY <1>1 DEF GcEvents, catalog, made
<1>3. cmd'.at = "freed" /\ cmd'.plans = {} /\ cmd'.discs = Freeable \cup InState("on disc only")
  BY <1>2 DEF Go, Idle
<1>4. Freeable \subseteq Disc /\ \A d \in Freeable : disc[d] \in DiscInfo /\ disc[d].state = "verified"
  BY DEF Freeable, InState, TypeOK
<1>5. \A d \in Freeable : disc'[d].state = "on disc only"
  BY <1>2, <1>4, PermitStates, AwayEvents
<1>6. ASSUME NEW i \in DOMAIN owed'
      PROVE  \E d \in Freeable : i \in Item /\ item[i] = PackedOn(d) /\ owed'[i] = OnDiscOf(d)
  <2>1. PICK d \in Freeable : i \in PackedItems(d)
    BY <1>2
  <2>2. i \in Item /\ item[i] = PackedOn(d)
    BY <2>1 DEF PackedItems
  <2>3. owed'[i] = OnDiscOf(d)
    BY <1>2, <2>2, NewRecordFields
  <2> QED
    BY <2>2, <2>3
<1>7. ASSUME NEW i \in DOMAIN owed' PROVE ~Done(i)'
  <2>1. PICK d \in Freeable : i \in Item /\ item[i] = PackedOn(d) /\ owed'[i] = OnDiscOf(d)
    BY <1>6
  <2> QED
    BY <1>2, <2>1, NewRecordFields DEF Done
<1>8. OwedIsDue'
  <2> SUFFICES ASSUME NEW i \in DOMAIN owed'
               PROVE  \E d \in Disc : Known(d)' /\ DueOf(i, Repair(disc[d], d))'
    BY <1>3 DEF OwedIsDue
  <2>1. PICK d \in Freeable : i \in Item /\ item[i] = PackedOn(d) /\ owed'[i] = OnDiscOf(d)
    BY <1>6
  <2>2. PICK info : info = disc'[d] /\ info.state = "on disc only"
    BY <1>5
  <2>3. d \in Disc /\ item[i].disc = d /\ item[i].state = "Packed"
    BY <1>4, <2>1, NewRecordFields
  <2>4. Repair(disc[d], d)' = Repair(info, d)
    BY <1>2, <2>2, <2>3, RepairReads
  <2>5. i \in Direct(info, d)
    <3>1. PICK held : held = (i \in objects)
      OBVIOUS
    <3>2. Follow(info.state, item[i], held) = OnDiscOf(d)
      BY <2>2, <2>3 DEF Follow
    <3>3. OnDiscOf(d) # item[i]
      BY <2>3, NewRecordFields
    <3> QED
      BY <2>1, <2>3, <3>1, <3>2, <3>3 DEF Direct
  <2>6. i \in DOMAIN Repair(info, d)
    BY <2>5 DEF Repair
  <2>7. Repair(info, d)[i] = OnDiscOf(d)
    BY <2>2, <2>3, <2>5, <2>6, DirectParts
  <2> QED
    BY <2>1, <2>2, <2>3, <2>4, <2>6, <2>7 DEF DueOf, Known
<1>9. BatchIsOwed'
  <2> SUFFICES ASSUME NEW i \in DOMAIN owed'
               PROVE  item[i].disc \in Freeable /\ item[i].state = "Packed" /\ owed'[i] = OnDiscOf(item[i].disc)
    BY <1>2, <1>3 DEF BatchIsOwed, EventSteps
  <2> QED
    BY <1>6, NewRecordFields
<1>10. OwedIsPending'
  <2>1. DOMAIN owed' = {} => owed' = NothingOwed
    BY <1>2 DEF NothingOwed
  <2> QED
    BY <1>3, <1>7, <2>1 DEF OwedIsPending, OwedSteps
<1>11. LostIsAlone'
  <2> SUFFICES ASSUME NEW j \in DOMAIN owed'
               PROVE  owed'[j].state = "OnDisc" /\ item'[j].state # "Staged"
    BY DEF LostIsAlone
  <2> QED
    BY <1>2, <1>6, NewRecordFields
<1>14. OwedFits'
  <2> SUFFICES ASSUME NEW i \in DOMAIN owed'
               PROVE  ~Behind(owed[i])' /\ owed'[i].disc = item'[i].disc
    BY DEF OwedFits
  <2>1. PICK d \in Freeable : i \in Item /\ item[i] = PackedOn(d) /\ owed'[i] = OnDiscOf(d)
    BY <1>6
  <2>2. disc'[d].state = "on disc only"
    BY <1>5
  <2>3. owed'[i].disc = d /\ owed'[i].state = "OnDisc" /\ item[i].disc = d
    BY <2>1, NewRecordFields
  <2> QED
    BY <1>2, <2>2, <2>3 DEF Behind
<1>12. PlansSettle'
  BY <1>3 DEF PlansSettle
<1>13. OneDiscStaged'
  <2>1. \A i \in DOMAIN owed' : owed'[i].state = "OnDisc"
    BY <1>6, NewRecordFields
  <2> QED
    BY <2>1 DEF OneDiscStaged
<1> QED
  BY <1>8, <1>9, <1>10, <1>11, <1>12, <1>13, <1>14 DEF FollowInv

LEMMA FollowNext ==
  ASSUME TypeOK, ~TornBatches, ClearInv, ClearInv', FollowInv, Next
  PROVE  FollowInv'
<1>1. CASE Open \/ RepairDisc \/ Stop \/ LostItems \/ FoundItems \/ UndoneItems \/ GcEvents \/ GcItems \/ LoseRepository
  BY <1>1, FollowOpen, FollowRepairDisc, FollowStop, FollowItems, FollowGcEvents, FollowGcItems, FollowLose
<1>2. CASE \/ VerifyRecords \/ LostRoot \/ GcUnlink \/ RecoverEvents \/ RecheckEvent
           \/ PackBegins \/ FinishEvent \/ PackEvent \/ PackFails \/ PackRemoves \/ UndoRemoves
           \/ RecoverLedger \/ PackTree \/ PackTables \/ PackRow
           \/ RecoverItems \/ RecheckItems \/ CommitRecords \/ FinishPack \/ PackItems
  BY <1>2, FollowWorks
<1>3. ASSUME NEW d \in Disc, DiscCommand(d) \/ Burn(d) PROVE FollowInv'
  <2>1. CASE DiscLost(d) \/ DiscLostUndo(d) \/ PackUndo(d)
    BY <2>1, FollowLost
  <2>2. CASE \/ DiscBurned(d) \/ DiscBurnedUndo(d) \/ DiscVerified(d) \/ VerifyUndo(d)
             \/ VerifyFails(d) \/ VerifyReads(d) \/ CatalogStops(d)
             \/ Recover(d) \/ FinishStage(d) \/ PackPlans(d)
    BY <2>2, FollowStarts
  <2>3. CASE Burn(d)
    BY <2>3, FollowBurn
  <2> QED
    BY <1>3, <2>1, <2>2, <2>3 DEF DiscCommand
<1>4. ASSUME NEW s \in Snapshot, CommitWrites(s) PROVE FollowInv'
  BY <1>4, FollowCommit
<1> QED
  BY <1>1, <1>2, <1>3, <1>4 DEF Next

LEMMA FollowStutter ==
  ASSUME FollowInv, UNCHANGED vars
  PROVE  FollowInv'
<1>1. UNCHANGED <<disc, item, objects, index, content, owed, cmd>>
  BY DEF vars
<1>2. \A d \in Disc : Repair(disc[d], d)' = Repair(disc[d], d)
  BY <1>1, RepairReads
<1>3. \A i : (Done(i)' <=> Done(i)) /\ (Behind(item[i])' <=> Behind(item[i]))
  BY <1>1 DEF Done, Behind
<1>4. OwedIsDue'
  BY <1>1, <1>2, <1>3 DEF FollowInv, OwedIsDue, DueOf, Known
<1>5. BatchIsOwed'
  <2>1. Repair(disc[cmd.disc], cmd.disc)' = Repair(disc[cmd.disc], cmd.disc)
    BY <1>1 DEF Repair, Direct, ObjectsBack, GivenBack, PackedItems
  <2> QED
    BY <1>1, <2>1 DEF FollowInv, BatchIsOwed
<1>6. OwedIsPending'
  BY <1>1, <1>3 DEF FollowInv, OwedIsPending
<1>10. OwedFits'
  <2>1. \A i : Behind(owed[i])' <=> Behind(owed[i])
    BY <1>1 DEF Behind
  <2> QED
    BY <1>1, <1>3, <2>1 DEF FollowInv, OwedFits
<1>7. LostIsAlone'
  BY <1>1, <1>3 DEF FollowInv, LostIsAlone
<1>8. PlansSettle'
  BY <1>1 DEF FollowInv, PlansSettle, Settles
<1>9. OneDiscStaged'
  BY <1>1, <1>3 DEF FollowInv, OneDiscStaged
<1> QED
  BY <1>4, <1>5, <1>6, <1>7, <1>8, <1>9, <1>10 DEF FollowInv

\* The next command completes the item records that a stopped one owes before
\* it works, when batches are whole: also with damaged copies and early burns.
THEOREM StopsAreFollowed == Spec => [](~TornBatches => EventsFollowed)
<1>1. CASE ~TornBatches
  <2>1. Spec => [](TypeOK /\ CommandOK)
    BY TypeInvariant
  <2>2. Init => ClearInv /\ FollowInv
    BY ClearInit, FollowInit
  <2>3. TypeOK /\ CommandOK /\ ClearInv /\ FollowInv /\ [Next]_vars => (ClearInv /\ FollowInv)'
    <3>1. TypeOK /\ CommandOK /\ ClearInv /\ FollowInv /\ Next => (ClearInv /\ FollowInv)'
      BY <1>1, ClearNext, FollowNext
    <3>2. ClearInv /\ FollowInv /\ UNCHANGED vars => (ClearInv /\ FollowInv)'
      BY ClearStutter, FollowStutter
    <3> QED
      BY <3>1, <3>2
  <2>4. ClearInv /\ FollowInv => (~TornBatches => EventsFollowed)
    BY DEF FollowInv, OwedIsPending, EventsFollowed, OwedSteps, EventSteps
  <2> QED
    BY <2>1, <2>2, <2>3, <2>4, PTL DEF Spec
<1>2. CASE TornBatches
  <2>1. TRUE => (~TornBatches => EventsFollowed)
    BY <1>2
  <2> QED
    BY <2>1, PTL
<1> QED
  BY <1>1, <1>2

-----------------------------------------------------------------------------
(***************************************************************************)
(* What a disc needs comes before it.                                      *)
(*                                                                         *)
(* PrerequisitesEarlier is about the discs that stand, and pack lays one   *)
(* out from the records of the items.  RecordedInv says that what is below *)
(* a recorded item has a record, too, and ClosedInv that an item of a disc *)
(* has all below it there or on a disc with a lower number, also while the *)
(* disc is in the hands of pack.  A torn batch of commit leaves a snapshot *)
(* whose chunks have no record, and a disc that was burned before its      *)
(* Packed event and comes back has a number that later discs may have,     *)
(* too: the theorem excludes these two.                                    *)
(***************************************************************************)

(* The item log is closed: what is below a recorded item has a record.      *)

HasRecord(i) == item[i].state # "none"
Recorded == {i \in Item : HasRecord(i)}

\* Everything below an item of X is in X.
BelowIn(X) == \A i \in X : Needs[i] \subseteq X

RecordedInv ==
  disasters = 0 =>
    /\ BelowIn(Recorded)
    /\ \A d \in Disc : content[d] \subseteq Recorded
    /\ cmd.at = "repair" => \A p \in cmd.plans : DOMAIN p.recs \subseteq Recorded
    /\ cmd.at = "commit" => BelowIn(cmd.items)

LEMMA RecordedSame ==
  ASSUME item' = item
  PROVE  Recorded' = Recorded
  BY DEF Recorded, HasRecord

\* A batch of records: no item loses its record.
LEMMA RecordedBatch ==
  ASSUME TypeOK, NEW S \in SUBSET Item, NEW recs \in [S -> Record], NEW next, AppendItems(recs, next)
  PROVE  /\ Recorded \subseteq Recorded' /\ Recorded' \subseteq Recorded \cup S
         /\ ~TornBatches => Recorded' = Recorded \cup S
         /\ cmd' = next \/ cmd' = Idle
<1>1. PICK T \in Written(S) : /\ item' = [i \in Item |-> IF i \in T THEN recs[i] ELSE item[i]]
                              /\ cmd' = next \/ cmd' = Idle
  BY DEF AppendItems
<1>2. T \subseteq S /\ (~TornBatches => T = S)
  BY DEF Written
<1>3. \A i \in S : recs[i].state # "none"
  BY DEF Record
<1>4. Recorded' = Recorded \cup T
  <2>1. ASSUME NEW i \in Item PROVE HasRecord(i)' <=> HasRecord(i) \/ i \in T
    BY <1>1, <1>2, <1>3 DEF HasRecord
  <2> QED
    BY <1>2, <2>1 DEF Recorded
<1> QED
  BY <1>1, <1>2, <1>4

\* A batch for items that have a record.
LEMMA RecordedAgain ==
  ASSUME TypeOK, NEW S \in SUBSET Recorded, NEW recs \in [S -> Record], NEW next, AppendItems(recs, next)
  PROVE  Recorded' = Recorded /\ (cmd' = next \/ cmd' = Idle)
<1>1. S \in SUBSET Item /\ Recorded \subseteq Item
  BY DEF Recorded
<1> QED
  BY <1>1, RecordedBatch

\* A repair is of items that have a record.
LEMMA RepairRecorded ==
  ASSUME TypeOK, NEW d \in Disc, NEW info
  PROVE  DOMAIN Repair(info, d) \subseteq Recorded
<1>1. ASSUME NEW i \in DOMAIN Repair(info, d) PROVE i \in Recorded
  <2>1. i \in Item /\ (i \in GivenBack(info, d) \/ i \in ObjectsBack(info, d) \/ i \in Direct(info, d))
    BY RepairParts
  <2>2. i \in GivenBack(info, d) \cup ObjectsBack(info, d) => item[i].state = "Staged"
    BY BackParts
  <2>3. i \in Direct(info, d) => item[i].state # "none"
    BY DirectStates
  <2> QED
    BY <2>1, <2>2, <2>3 DEF Recorded, HasRecord
<1> QED
  BY <1>1

LEMMA RecordedOwed ==
  ASSUME TypeOK, NEW d \in Disc, NEW info, NEW next, AppendOwed(Repair(info, d), next)
  PROVE  Recorded' = Recorded /\ (cmd' = next \/ cmd' = Idle)
  BY RepairRecorded, RepairType, RecordedAgain DEF AppendOwed

\* Steps that record no new item, and lay out no disc.
LEMMA RecordedStep ==
  ASSUME RecordedInv, disasters' = disasters, disasters = 0 => Recorded' = Recorded, content' = content,
         cmd'.at \notin {"repair", "commit"}
  PROVE  RecordedInv'
  BY DEF RecordedInv, BelowIn

LEMMA RecordedItems ==
  ASSUME TypeOK, CommandOK, RecordedInv, LostItems \/ FoundItems \/ UndoneItems
  PROVE  RecordedInv'
<1>1. cmd.disc \in Disc
  BY DEF CommandOK, DiscSteps, Steps, LostItems, FoundItems, UndoneItems
<1>2. PICK next \in {Go("lostRoot", cmd.disc), Idle, Go("undoing", cmd.disc)} :
        AppendOwed(Repair(disc[cmd.disc], cmd.disc), next)
  BY DEF LostItems, FoundItems, UndoneItems
<1>3. Recorded' = Recorded /\ (cmd' = next \/ cmd' = Idle)
  BY <1>1, <1>2, RecordedOwed
<1>4. cmd'.at \in {"lostRoot", "idle", "undoing"}
  BY <1>2, <1>3, BuiltCommands
<1>5. content' = content /\ disasters' = disasters
  BY DEF LostItems, FoundItems, UndoneItems, made
<1> QED
  BY <1>3, <1>4, <1>5, RecordedStep

LEMMA RecordedGcItems ==
  ASSUME TypeOK, RecordedInv, GcItems
  PROVE  RecordedInv'
<1>1. PICK S : S = UNION {PackedItems(d) : d \in cmd.discs}
  OBVIOUS
<1>2. S \subseteq Recorded /\ \A i \in S : item[i].disc \in Disc
  <2>1. \A d \in cmd.discs : d \in Disc
    BY DEF TypeOK, Cmd
  <2> QED
    BY <1>1, <2>1, NewRecordFields DEF PackedItems, Recorded, HasRecord
<1>3. PICK recs : recs = [i \in S |-> OnDiscOf(item[i].disc)]
  OBVIOUS
<1>4. recs \in [S -> Record]
  BY <1>2, <1>3, RecordTypes
<1>5. AppendItems(recs, [cmd EXCEPT !.at = "unlink"])
  BY <1>1, <1>3 DEF GcItems, AppendOwed
<1>6. Recorded' = Recorded /\ (cmd' = [cmd EXCEPT !.at = "unlink"] \/ cmd' = Idle)
  BY <1>2, <1>4, <1>5, RecordedAgain
<1>7. cmd \in Cmd
  BY DEF TypeOK
<1>8. cmd'.at \in {"unlink", "idle"}
  <2>1. CASE cmd' = [cmd EXCEPT !.at = "unlink"]
    BY <1>7, <2>1, BuiltCommands
  <2> QED
    BY <1>6, <2>1, BuiltCommands
<1> QED
  BY <1>6, <1>8, RecordedStep DEF GcItems, made

LEMMA RecordedRepairDisc ==
  ASSUME TypeOK, RecordedInv, RepairDisc
  PROVE  RecordedInv'
<1>1. PICK p \in cmd.plans :
        AppendItems(p.recs, IF cmd.plans = {p} THEN Go("open", NoDisc) ELSE [cmd EXCEPT !.plans = @ \ {p}])
  BY DEF RepairDisc, AppendOwed
<1>2. PICK recs, S : recs = p.recs /\ S = DOMAIN recs
  OBVIOUS
<1>3. S \in SUBSET Item /\ recs \in [S -> Record]
  BY <1>2 DEF TypeOK, Cmd, Plan
<1>4. cmd.at = "repair" /\ content' = content /\ disasters' = disasters
  BY DEF RepairDisc, made
<1>5. disasters = 0 => S \subseteq Recorded
  BY <1>2, <1>4 DEF RecordedInv
<1>6. /\ disasters = 0 => Recorded' = Recorded
      /\ cmd' \in {Go("open", NoDisc), [cmd EXCEPT !.plans = @ \ {p}], Idle}
  BY <1>1, <1>2, <1>3, <1>5, RecordedBatch
<1>7. cmd'.at \in {"open", "idle"} \/ (cmd'.at = "repair" /\ cmd'.plans \subseteq cmd.plans)
  <2>1. CASE cmd' = [cmd EXCEPT !.plans = @ \ {p}]
    BY <1>4, <2>1 DEF TypeOK, Cmd
  <2> QED
    BY <1>6, <2>1, BuiltCommands
<1> QED
  BY <1>4, <1>6, <1>7 DEF RecordedInv, BelowIn

LEMMA RecordedOpen ==
  ASSUME TypeOK, RecordedInv, Open
  PROVE  RecordedInv'
<1>1. item' = item /\ content' = content /\ disasters' = disasters
  BY DEF Open, logs, made
<1>2. CASE cmd' = Go("open", NoDisc)
  BY <1>1, <1>2, BuiltCommands, RecordedSame, RecordedStep
<1>3. CASE cmd' = [Go("repair", NoDisc) EXCEPT
                     !.plans = {[disc |-> d, recs |-> Repair(disc[d], d)] : d \in ToRepair}]
  <2>1. cmd'.at = "repair" /\ cmd'.plans = {[disc |-> d, recs |-> Repair(disc[d], d)] : d \in ToRepair}
    BY <1>3 DEF Go, Idle
  <2>2. \A p \in cmd'.plans : DOMAIN p.recs \subseteq Recorded
    <3>1. ASSUME NEW p \in cmd'.plans PROVE DOMAIN p.recs \subseteq Recorded
      <4>1. PICK d \in ToRepair : p = [disc |-> d, recs |-> Repair(disc[d], d)]
        BY <2>1
      <4>2. p.recs = Repair(disc[d], d) /\ d \in Disc
        BY <4>1 DEF ToRepair
      <4> QED
        BY <4>2, RepairRecorded
    <3> QED
      BY <3>1
  <2> QED
    BY <1>1, <2>1, <2>2, RecordedSame DEF RecordedInv, BelowIn
<1> QED
  BY <1>2, <1>3 DEF Open

\* The steps that write no record and no disc root.
LEMMA RecordedQuiet ==
  ASSUME TypeOK, CommandOK, RecordedInv,
         \/ Stop \/ LostRoot \/ GcEvents \/ GcUnlink \/ VerifyRecords \/ RecoverEvents \/ RecheckEvent
         \/ PackBegins \/ PackRemoves \/ UndoRemoves \/ FinishEvent \/ PackEvent \/ PackFails
         \/ RecoverLedger \/ PackTables \/ PackRow
         \/ \E d \in Disc : \/ DiscBurned(d) \/ DiscBurnedUndo(d) \/ DiscVerified(d) \/ VerifyUndo(d)
                           \/ VerifyFails(d) \/ VerifyReads(d) \/ CatalogStops(d)
                           \/ DiscLost(d) \/ DiscLostUndo(d) \/ Recover(d) \/ PackUndo(d) \/ Burn(d)
  PROVE  RecordedInv'
<1>0. cmd \in Cmd
  BY DEF TypeOK
<1>1. CASE PackRemoves \/ UndoRemoves \/ \E d \in Disc : Burn(d)
  <2>1. item' = item /\ content' = content /\ disasters' = disasters /\ cmd' = cmd
    BY <1>1 DEF PackRemoves, UndoRemoves, Burn, logs, made
  <2> QED
    BY <2>1, RecordedSame DEF RecordedInv, BelowIn
<1>2. CASE RecoverLedger \/ PackTables \/ PackRow
  <2>1. PICK a \in {"recoverItems", "packRow", "packItems"} : cmd' = [cmd EXCEPT !.at = a]
    BY <1>2 DEF RecoverLedger, PackTables, PackRow
  <2>2. cmd'.at = a
    BY <1>0, <2>1, BuiltCommands
  <2>3. item' = item /\ content' = content /\ disasters' = disasters
    BY <1>2 DEF RecoverLedger, PackTables, PackRow, logs, made
  <2> QED
    BY <2>2, <2>3, RecordedSame, RecordedStep
<1>3. ASSUME NEW d \in Disc, Recover(d) PROVE RecordedInv'
  <2>1. cmd'.at \in {"idle", "recover", "recheck"}
    BY <1>3, RecoverGoesTo
  <2>2. item' = item /\ content' = content /\ disasters' = disasters
    BY <1>3 DEF Recover, logs, made
  <2> QED
    BY <2>1, <2>2, RecordedSame, RecordedStep
<1>4. CASE GcEvents
  <2>1. cmd' = Idle \/ cmd' = [Go("freed", NoDisc) EXCEPT !.discs = Freeable \cup InState("on disc only"),
                                                         !.items = Garbage]
    BY <1>4 DEF GcEvents
  <2>2. cmd'.at \in {"idle", "freed"}
    <3>1. CASE cmd' = Idle
      BY <3>1, BuiltCommands
    <3>2. CASE cmd' # Idle
      BY <2>1, <3>2 DEF Go, Idle
    <3> QED
      BY <3>1, <3>2
  <2> QED
    BY <1>4, <2>2, RecordedSame, RecordedStep DEF GcEvents, made
<1>5. CASE \/ Stop \/ LostRoot \/ GcUnlink \/ VerifyRecords \/ RecoverEvents \/ RecheckEvent \/ PackEvent \/ PackFails
           \/ PackBegins \/ FinishEvent
  <2>1. cmd' = Idle \/ cmd' = Go("pack", NoDisc) \/ cmd' = Go("packFails", cmd.disc)
    BY <1>5 DEF Stop, LostRoot, GcUnlink, VerifyRecords, RecoverEvents, RecheckEvent, PackEvent, PackFails,
                PackBegins, FinishEvent
  <2>2. item' = item /\ content' = content /\ disasters' = disasters
    BY <1>5 DEF Stop, LostRoot, GcUnlink, VerifyRecords, RecoverEvents, RecheckEvent, PackEvent, PackFails,
                PackBegins, FinishEvent, logs, made
  <2>3. cmd'.at \in {"idle", "pack", "packFails"}
    BY <2>1, BuiltCommands
  <2> QED
    BY <2>2, <2>3, RecordedSame, RecordedStep
<1>6. ASSUME NEW d \in Disc,
             \/ DiscBurned(d) \/ DiscBurnedUndo(d) \/ DiscVerified(d) \/ VerifyUndo(d)
             \/ VerifyFails(d) \/ VerifyReads(d) \/ CatalogStops(d)
             \/ DiscLost(d) \/ DiscLostUndo(d) \/ PackUndo(d)
      PROVE  RecordedInv'
  <2>1. cmd' = Idle \/ \E a \in {"read", "lost", "found", "undone"} : cmd' = Go(a, d)
    BY <1>6 DEF DiscBurned, DiscBurnedUndo, DiscVerified, VerifyUndo, Mark, VerifyFails, VerifyReads,
                CatalogStops, DiscLost, DiscLostUndo, PackUndo
  <2>2. item' = item /\ content' = content /\ disasters' = disasters
    BY <1>6 DEF DiscBurned, DiscBurnedUndo, DiscVerified, VerifyUndo, Mark, VerifyFails, VerifyReads,
                CatalogStops, DiscLost, DiscLostUndo, PackUndo, logs, made
  <2>3. cmd'.at \notin {"repair", "commit"}
    BY <2>1, BuiltCommands
  <2> QED
    BY <2>2, <2>3, RecordedSame, RecordedStep
<1> QED
  BY <1>1, <1>2, <1>3, <1>4, <1>5, <1>6

\* The batches of pack are of staged items, and those of a recheck of items of the disc.
LEMMA RecordedBatches ==
  ASSUME TypeOK, CommandOK, DataInv, HolderInv, OwnInv, RecordedInv,
         FinishPack \/ PackItems \/ RecoverItems \/ RecheckItems
  PROVE  RecordedInv'
<1>0. cmd \in Cmd /\ content' = content /\ disasters' = disasters
  BY DEF TypeOK, FinishPack, PackItems, RecoverItems, RecheckItems, EnsureOnDisc, made
<1>1. CASE FinishPack \/ PackItems
  <2>1. PICK next \in {Go("finishEvent", cmd.disc), Go("packEvent", cmd.disc)} :
          AppendItems(All(cmd.items, PackedOn(cmd.disc)), next)
    BY <1>1 DEF FinishPack, PackItems
  <2>2. cmd.at \in {"finishPack", "packItems"} /\ cmd.disc \in Disc
    BY <1>1 DEF FinishPack, PackItems, CommandOK, DiscSteps, Steps
  <2>3. cmd.items \subseteq Recorded
    BY <1>0, <2>2, CmdType DEF DataInv, DecisionHolds, TakingSteps, Recorded, HasRecord
  <2>4. All(cmd.items, PackedOn(cmd.disc)) \in [cmd.items -> Record]
    BY <2>2, RecordTypes DEF All
  <2>5. Recorded' = Recorded /\ (cmd' = next \/ cmd' = Idle)
    BY <2>1, <2>3, <2>4, RecordedAgain
  <2>6. cmd'.at \in {"finishEvent", "packEvent", "idle"}
    BY <2>1, <2>5, BuiltCommands
  <2> QED
    BY <1>0, <2>5, <2>6, RecordedStep
<1>2. CASE RecoverItems \/ RecheckItems
  <2>1. PICK S, a : /\ S = {i \in cmd.items : NotKnown(item[i])} /\ a \in {"recoverEvents", "recheckEvent"}
                    /\ AppendItems(All(S, OnDiscOf(cmd.disc)), [cmd EXCEPT !.at = a])
    <3>1. PICK a \in {"recoverEvents", "recheckEvent"} : EnsureOnDisc(a)
      BY <1>2 DEF RecoverItems, RecheckItems
    <3> QED
      BY <3>1, Zenon DEF EnsureOnDisc
  <2>2. cmd.at \in {"recoverItems", "recheck"} /\ cmd.disc \in Disc
    BY <1>2 DEF RecoverItems, RecheckItems, CommandOK, DiscSteps, Steps
  <2>3. S \in SUBSET Item /\ All(S, OnDiscOf(cmd.disc)) \in [S -> Record]
    BY <1>0, <2>1, <2>2, CmdType, RecordTypes DEF All
  <2>4. disasters = 0 => S \subseteq Recorded
    <3>1. disasters = 0 => cmd.at = "recheck"
      BY <2>2 DEF OwnInv, RecoverSteps
    <3>2. cmd.at = "recheck" => cmd.items \subseteq content[cmd.disc]
      BY DEF HolderInv, CommandHolds, HoldSteps
    <3> QED
      BY <2>1, <2>2, <3>1, <3>2 DEF RecordedInv
  <2>5. /\ disasters = 0 => Recorded' = Recorded
        /\ cmd' = [cmd EXCEPT !.at = a] \/ cmd' = Idle
    BY <2>1, <2>3, <2>4, RecordedBatch
  <2>6. cmd'.at \in {"recoverEvents", "recheckEvent", "idle"}
    <3>1. CASE cmd' = [cmd EXCEPT !.at = a]
      <4>1. cmd'.at = a
        BY <1>0, <3>1, BuiltCommands
      <4> QED
        BY <2>1, <4>1
    <3> QED
      BY <2>5, <3>1, BuiltCommands
  <2> QED
    BY <1>0, <2>5, <2>6, RecordedStep
<1> QED
  BY <1>1, <1>2

\* What a commit writes is closed, so its whole batch leaves the log closed.
LEMMA RecordedCommit ==
  ASSUME TypeOK, RecordedInv, ~TornBatches, CommitRecords
  PROVE  RecordedInv'
<1>1. PICK S : S = {i \in cmd.items : NotKnown(item[i])}
  OBVIOUS
<1>2. cmd.items \subseteq Item /\ S \in SUBSET Item
  BY <1>1 DEF TypeOK, Cmd
<1>3. All(S, Staged) \in [S -> Record] /\ AppendItems(All(S, Staged), Idle)
  BY <1>1, RecordTypes DEF All, CommitRecords
<1>4. Recorded' = Recorded \cup S /\ cmd'.at = "idle"
  BY <1>2, <1>3, RecordedBatch, BuiltCommands
<1>5. Recorded' = Recorded \cup cmd.items
  BY <1>1, <1>2, <1>4 DEF NotKnown, Recorded, HasRecord
<1>6. cmd.at = "commit" /\ content' = content /\ disasters' = disasters
  BY DEF CommitRecords, made
<1> QED
  BY <1>4, <1>5, <1>6 DEF RecordedInv, BelowIn

LEMMA RecordedCommitWrites ==
  ASSUME TypeOK, RecordedInv, NEW s \in Snapshot, CommitWrites(s)
  PROVE  RecordedInv'
<1>1. PICK W \in (SUBSET Needs[s]) \cup {Needs[s] \cup {s}} :
        cmd' = IF s \in W THEN [Go("commit", NoDisc) EXCEPT !.items = W] ELSE Idle
  BY DEF CommitWrites
<1>2. item' = item /\ content' = content /\ disasters' = disasters
  BY DEF CommitWrites, logs, made
<1>3. s \in Item /\ Needs[s] \subseteq Item
  BY ItemAssumption DEF Item
<1>4. CASE s \notin W
  BY <1>1, <1>2, <1>4, BuiltCommands, RecordedSame, RecordedStep
<1>5. CASE s \in W
  <2>1. W = Needs[s] \cup {s}
    BY <1>3, <1>5, NeedsAssumption
  <2>2. cmd'.at = "commit" /\ cmd'.items = W
    BY <1>1, <1>5 DEF Go, Idle
  <2>3. BelowIn(cmd'.items)
    BY <1>3, <2>1, <2>2, NeedsAssumption DEF BelowIn
  <2> QED
    BY <1>2, <2>2, <2>3, RecordedSame DEF RecordedInv, BelowIn
<1> QED
  BY <1>4, <1>5

\* Pack records no item that commit did not record.
LEMMA RecordedPlans ==
  ASSUME TypeOK, RecordedInv, NEW d \in Disc, FinishStage(d) \/ PackPlans(d)
  PROVE  RecordedInv'
<1>0. content' = content /\ disasters' = disasters
  BY DEF FinishStage, PackPlans, made
<1>1. CASE FinishStage(d)
  <2>1. PICK ids, S : /\ ids = {i \in content[d] : item[i].state \in {"none", "Staged"}}
                      /\ S = {i \in ids : item[i].state = "none"}
    OBVIOUS
  <2>2. AppendItems(All(S, Staged), [Go("finishPack", d) EXCEPT !.items = ids])
    BY <1>1, <2>1 DEF FinishStage
  <2>3. S \in SUBSET Item /\ All(S, Staged) \in [S -> Record]
    BY <2>1, RecordTypes DEF All, TypeOK
  <2>4. disasters = 0 => S \subseteq Recorded
    BY <2>1 DEF RecordedInv
  <2>5. /\ disasters = 0 => Recorded' = Recorded
        /\ cmd' = [Go("finishPack", d) EXCEPT !.items = ids] \/ cmd' = Idle
    BY <2>2, <2>3, <2>4, RecordedBatch
  <2>6. cmd'.at \in {"finishPack", "idle"}
    <3>1. CASE cmd' = [Go("finishPack", d) EXCEPT !.items = ids]
      BY <3>1, BuiltCommands
    <3> QED
      BY <2>5, <3>1, BuiltCommands
  <2> QED
    BY <1>0, <2>5, <2>6, RecordedStep
<1>2. CASE PackPlans(d)
  <2>1. PICK S : /\ S = {i \in Readable : /\ item[i].state = "none"
                                          /\ \E s \in Snapshot : i \in Needs[s] /\ item[s].state = "Staged"}
                 /\ AppendItems(All(S, Staged), Go("packTree", d))
    BY <1>2 DEF PackPlans
  <2>2. S \in SUBSET Item /\ All(S, Staged) \in [S -> Record]
    BY <2>1, RecordTypes DEF All, TypeOK, Readable, Item
  <2>3. disasters = 0 => S \subseteq Recorded
    BY <2>1, ItemAssumption DEF RecordedInv, BelowIn, Recorded, HasRecord, Item
  <2>4. /\ disasters = 0 => Recorded' = Recorded
        /\ cmd' = Go("packTree", d) \/ cmd' = Idle
    BY <2>1, <2>2, <2>3, RecordedBatch
  <2>5. cmd'.at \in {"packTree", "idle"}
    BY <2>4, BuiltCommands
  <2> QED
    BY <1>0, <2>4, <2>5, RecordedStep
<1> QED
  BY <1>1, <1>2

\* A disc root takes staged items, and snapshots that a disc has.
LEMMA LaidOut ==
  ASSUME TypeOK, NEW S \in Selections
  PROVE  S \cup Carried \subseteq Recorded
<1>1. S \subseteq Item /\ Carried \subseteq Item
  BY ItemAssumption DEF Selections, Readable, Carried, TypeOK, Item
<1>2. \A i \in S : item[i].state = "Staged"
  BY DEF Selections
<1>3. \A i \in Carried : item[i].state # "none"
  BY DEF Carried, Taken
<1> QED
  BY <1>1, <1>2, <1>3 DEF Recorded, HasRecord

LEMMA RecordedPackTree ==
  ASSUME TypeOK, RecordedInv, PackTree
  PROVE  RecordedInv'
<1>1. PICK S \in Selections : /\ content' = [content EXCEPT ![cmd.disc] = S \cup Carried]
                              /\ cmd' = [Go("packTables", cmd.disc) EXCEPT !.items = S]
  BY DEF PackTree
<1>2. item' = item /\ disasters' = disasters /\ cmd'.at = "packTables"
  BY <1>1, BuiltCommands DEF PackTree, logs
<1>3. \A x \in Disc : content'[x] = content[x] \/ content'[x] = S \cup Carried
  BY <1>1 DEF TypeOK
<1> QED
  BY <1>1, <1>2, <1>3, LaidOut, RecordedSame DEF RecordedInv, BelowIn

LEMMA RecordedLoses == TypeOK /\ LoseRepository => RecordedInv'
  BY DEF TypeOK, LoseRepository, RecordedInv

LEMMA RecordedInit == Init => RecordedInv
  BY BuiltCommands DEF Init, RecordedInv, BelowIn, Recorded, HasRecord, NoRecord

LEMMA RecordedStutter == RecordedInv /\ UNCHANGED vars => RecordedInv'
  BY RecordedSame DEF RecordedInv, BelowIn, vars

LEMMA RecordedNext ==
  ASSUME KnownInv, OwnInv, RecordedInv, ~TornBatches, Next
  PROVE  RecordedInv'
<1>0. TypeOK /\ CommandOK /\ DataInv /\ HolderInv
  BY DEF KnownInv
<1>1. CASE \/ Open \/ RepairDisc \/ LostItems \/ FoundItems \/ UndoneItems \/ GcItems
           \/ FinishPack \/ PackItems \/ RecoverItems \/ RecheckItems \/ CommitRecords \/ PackTree \/ LoseRepository
  BY <1>0, <1>1, RecordedOpen, RecordedRepairDisc, RecordedItems, RecordedGcItems, RecordedBatches,
     RecordedCommit, RecordedPackTree, RecordedLoses
<1>2. CASE \/ Stop \/ LostRoot \/ GcEvents \/ GcUnlink \/ VerifyRecords \/ RecoverEvents \/ RecheckEvent
           \/ PackBegins \/ PackRemoves \/ UndoRemoves \/ FinishEvent \/ PackEvent \/ PackFails
           \/ RecoverLedger \/ PackTables \/ PackRow
  BY <1>0, <1>2, RecordedQuiet
<1>3. CASE \E s \in Snapshot : CommitWrites(s)
  BY <1>0, <1>3, RecordedCommitWrites
<1>4. ASSUME NEW d \in Disc, DiscCommand(d) \/ Burn(d) PROVE RecordedInv'
  <2>1. CASE FinishStage(d) \/ PackPlans(d)
    BY <1>0, <2>1, RecordedPlans
  <2> QED
    BY <1>0, <1>4, <2>1, RecordedQuiet DEF DiscCommand
<1> QED
  BY <1>1, <1>2, <1>3, <1>4 DEF Next

-----------------------------------------------------------------------------
(* The discs are closed: what is directly below an item of a disc is on it   *)
(* or on one with a lower number.                                            *)

\* A disc that pack recorded and that no `pack --undo' took back.
Good(d) == disc[d].numbered /\ disc[d].state # "undone"

\* The items directly below i.
Children(i) == {j \in Needs[i] : ~\E k \in Needs[i] : j \in Needs[k]}

\* Who has d can have j, too.
Reached(j, d) == \E e \in Disc : (Good(e) \/ e = d) /\ num[e] <= num[d] /\ j \in content[e]
HasChildren(d) == \A i \in content[d] : \A j \in Children(i) : Reached(j, d)

\* From the disc root on, also of a disc that has no event yet.
Closing(d) == \/ d \in Numbered /\ disc[d].state # "undone"
              \/ cmd.at \in {"packTables", "packRow"} /\ cmd.disc = d

ClosedInv == disasters = 0 => \A d \in Disc : Closing(d) => HasChildren(d)

\* A step that lays out no disc and takes none back.
ClosedStays == \A d \in Disc : (Good(d) => Good(d)') /\ (Closing(d)' => Closing(d))

LEMMA ClosedStep ==
  ASSUME ClosedInv, disasters' = disasters, content' = content, num' = num, disasters = 0 => ClosedStays
  PROVE  ClosedInv'
<1> SUFFICES ASSUME disasters = 0, NEW d \in Disc, Closing(d)', NEW i \in content[d], NEW j \in Children(i)
             PROVE  Reached(j, d)'
  BY DEF ClosedInv, HasChildren, Children
<1>1. Reached(j, d)
  BY DEF ClosedInv, HasChildren, ClosedStays
<1> QED
  BY <1>1 DEF Reached, ClosedStays

LEMMA PlainStays ==
  ASSUME PlainEvents, ledger' \subseteq ledger, cmd'.at \notin {"packTables", "packRow"}
  PROVE  ClosedStays
<1> SUFFICES ASSUME NEW d \in Disc PROVE (Good(d) => Good(d)') /\ (Closing(d)' => Closing(d))
  BY DEF ClosedStays
<1>1. Plain(d)
  BY DEF PlainEvents
<1>2. Good(d) => Good(d)'
  BY <1>1 DEF Plain, Good
<1>3. d \in Numbered' => d \in Numbered
  BY <1>1 DEF Plain, Numbered
<1> QED
  BY <1>1, <1>2, <1>3 DEF Plain, Closing

LEMMA StillStays ==
  ASSUME disc' = disc, ledger' \subseteq ledger, cmd'.at \notin {"packTables", "packRow"}
  PROVE  ClosedStays
<1>1. PlainEvents
  BY DEF PlainEvents, Plain
<1> QED
  BY <1>1, PlainStays

LEMMA ClosedQuiet ==
  ASSUME TypeOK, CommandOK, NumberInv, ClosedInv, QuietAction \/ EventAction
  PROVE  ClosedInv'
<1>1. CASE QuietAction
  <2>1. UNCHANGED <<disc, ledger, num, disasters>>
    BY <1>1, QuietSteady DEF Steady
  <2>2. content' = content
    BY <1>1 DEF QuietAction, Open, RepairDisc, Stop, LostItems, LostRoot, FoundItems, GcItems, GcUnlink,
                RecoverItems, RecheckItems, EnsureOnDisc, CommitRecords, PackBegins, PackFails,
                VerifyReads, CatalogStops, CommitWrites, made
  <2>3. cmd'.at \notin {"packTables", "packRow"}
    BY <1>1, NumberQuietAt DEF NumberSteps, NewSteps
  <2> QED
    BY <2>1, <2>2, <2>3, StillStays, ClosedStep
<1>2. CASE EventAction
  <2>1. content' = content /\ disasters' = disasters
    BY <1>2 DEF EventAction, VerifyRecords, GcEvents, RecoverEvents, RecheckEvent, DiscBurned, DiscBurnedUndo,
                DiscVerified, VerifyUndo, Mark, VerifyFails, DiscLost, DiscLostUndo, made
  <2>2. ledger' = ledger /\ num' = num /\ PlainEvents
    BY <1>2, EventActionFrame, EventActionPlain
  <2>3. cmd'.at \notin {"packTables", "packRow"}
    BY <1>2, EventActionAt
  <2> QED
    BY <2>1, <2>2, <2>3, PlainStays, ClosedStep
<1> QED
  BY <1>1, <1>2

LEMMA ClosedRecover ==
  ASSUME OwnInv, ClosedInv, RecoverLedger \/ \E d \in Disc : Recover(d)
  PROVE  ClosedInv'
<1>1. CASE RecoverLedger
  <2>1. disasters # 0 /\ disasters' = disasters
    BY <1>1 DEF RecoverLedger, OwnInv, RecoverSteps
  <2> QED
    BY <2>1 DEF ClosedInv
<1>2. ASSUME NEW d \in Disc, Recover(d) PROVE ClosedInv'
  <2>1. disc' = disc /\ ledger' = ledger /\ num' = num /\ content' = content /\ disasters' = disasters
    BY <1>2 DEF Recover, logs, made
  <2>2. cmd'.at \notin {"packTables", "packRow"}
    BY <1>2, RecoverGoesTo
  <2> QED
    BY <2>1, <2>2, StillStays, ClosedStep
<1> QED
  BY <1>1, <1>2

\* A row or a Packed event is of a disc whose root is closed.
LEMMA ClosedPacking ==
  ASSUME TypeOK, CommandOK, NumberInv, ClosedInv,
         \/ PackRemoves \/ UndoRemoves \/ FinishPack \/ PackItems \/ UndoneItems
         \/ FinishEvent \/ PackEvent \/ PackTables \/ PackRow
         \/ \E d \in Disc : FinishStage(d) \/ Burn(d)
  PROVE  ClosedInv'
<1>0. content' = content /\ num' = num /\ disasters' = disasters
  BY DEF PackRemoves, UndoRemoves, FinishPack, PackItems, UndoneItems, FinishEvent, PackEvent, PackTables, PackRow,
         FinishStage, Burn, made
<1>1. CASE PackRemoves \/ UndoRemoves \/ \E d \in Disc : Burn(d)
  <2>1. disc' = disc /\ cmd' = cmd /\ ledger' \subseteq ledger
    BY <1>1 DEF PackRemoves, UndoRemoves, Burn, RemoveNext, logs
  <2>2. ClosedStays
    BY <2>1 DEF ClosedStays, Good, Closing, Numbered
  <2> QED
    BY <1>0, <2>2, ClosedStep
<1>2. CASE FinishPack \/ PackItems \/ UndoneItems \/ \E d \in Disc : FinishStage(d)
  <2>1. disc' = disc /\ ledger' = ledger
    BY <1>2 DEF FinishPack, PackItems, UndoneItems, FinishStage, logs
  <2>2. cmd'.at \notin {"packTables", "packRow"}
    <3>1. CASE FinishPack \/ PackItems \/ UndoneItems
      <4>1. cmd' = Idle \/ \E a \in {"finishEvent", "packEvent", "undoing"} : \E d : cmd' = Go(a, d)
        BY <3>1 DEF FinishPack, PackItems, UndoneItems, AppendOwed, AppendItems
      <4> QED
        BY <4>1, GoFields
    <3>2. CASE \E d \in Disc : FinishStage(d)
      <4>1. PICK d \in Disc : FinishStage(d)
        BY <3>2
      <4>2. PICK ids : cmd' \in {Idle, [Go("finishPack", d) EXCEPT !.items = ids]}
        BY <4>1 DEF FinishStage, AppendItems
      <4>3. [Go("finishPack", d) EXCEPT !.items = ids].at = "finishPack"
        BY DEF Go, Idle
      <4> QED
        BY <4>2, <4>3, GoFields
    <3> QED
      BY <1>2, <3>1, <3>2
  <2> QED
    BY <1>0, <2>1, <2>2, StillStays, ClosedStep
<1>3. CASE PackTables \/ PackRow
  <2>1. PICK a \in {"packRow", "packItems"} :
          /\ disc' = disc /\ cmd' = [cmd EXCEPT !.at = a] /\ cmd.at \in {"packTables", "packRow"}
          /\ ledger' \subseteq ledger \cup {cmd.disc}
    BY <1>3 DEF PackTables, PackRow, logs
  <2>2. cmd'.at = a /\ cmd'.disc = cmd.disc
    BY <2>1, GoFields DEF TypeOK
  <2>3. ClosedStays
    BY <2>1, <2>2 DEF ClosedStays, Good, Closing, Numbered
  <2> QED
    BY <1>0, <2>3, ClosedStep
<1>4. CASE FinishEvent \/ PackEvent
  <2>1. PICK d : d = cmd.disc
    OBVIOUS
  <2>2. /\ AppendEvent(d, "Packed") /\ cmd' \in {Idle, Go("pack", NoDisc)} /\ ledger' = ledger
        /\ cmd.at \in {"finishEvent", "packEvent"}
    BY <1>4, <2>1 DEF FinishEvent, PackEvent
  <2>3. d \in Disc /\ disc[d].state = "unknown" /\ ~disc[d].numbered
    BY <2>1, <2>2 DEF CommandOK, DiscSteps, NewDiscSteps, MakeSteps, Steps, NumberInv, RecordsOK, RecordOK
  <2>4. disasters = 0 => Closing(d)
    BY <2>1, <2>2, <2>3 DEF NumberInv, CommandNumbers, RowSteps, Closing
  <2>5. \A f \in Disc \ {d} : disc'[f] = disc[f]
    BY <2>2 DEF AppendEvent, TypeOK
  <2>6. cmd'.at \in {"idle", "pack"}
    BY <2>2, GoFields
  <2>7. \A f \in Disc \ {d} : f \in Numbered' => f \in Numbered
    BY <2>2, <2>5 DEF Numbered
  <2>8. disasters = 0 => ClosedStays
    BY <2>3, <2>4, <2>5, <2>6, <2>7 DEF ClosedStays, Good, Closing
  <2> QED
    BY <1>0, <2>8, ClosedStep
<1> QED
  BY <1>1, <1>2, <1>3, <1>4

\* Pack takes back the newest disc only, so no other one needs it.
LEMMA ClosedUndo ==
  ASSUME TypeOK, NumberInv, ClosedInv, NEW d \in Disc, PackUndo(d)
  PROVE  ClosedInv'
<1>1. /\ AppendEvent(d, "PackUndone") /\ Permits(disc[d], "PackUndone") /\ Newest(d) /\ cmd' = Go("undone", d)
      /\ ledger' = ledger /\ num' = num /\ content' = content /\ disasters' = disasters
  BY DEF PackUndo, made
<1>2. disc[d] \in DiscInfo /\ RecordOK(disc[d])
  BY DEF TypeOK, NumberInv, RecordsOK
<1>3. disc'[d].state = "undone" /\ \A f \in Disc \ {d} : disc'[f] = disc[f]
  BY <1>1, <1>2, ApplyUndone DEF AppendEvent, TypeOK
<1>4. cmd'.at = "undone"
  BY <1>1, GoFields
<1>5. num \in [Disc -> Nat]
  BY DEF TypeOK
<1> SUFFICES ASSUME disasters = 0, NEW x \in Disc, Closing(x)', NEW i \in content[x], NEW j \in Children(i)
             PROVE  Reached(j, x)'
  BY <1>1 DEF ClosedInv, HasChildren, Children
<1>6. x # d /\ x \in Numbered /\ disc[x].state # "undone"
  BY <1>1, <1>3, <1>4 DEF Closing, Numbered
<1>7. num[x] < num[d]
  BY <1>1, <1>6 DEF Newest, InState
<1>8. PICK e \in Disc : (Good(e) \/ e = x) /\ num[e] <= num[x] /\ j \in content[e]
  BY <1>6 DEF ClosedInv, Closing, HasChildren, Reached
<1>9. e # d
  BY <1>5, <1>7, <1>8
<1>10. Good(e)' \/ e = x
  BY <1>3, <1>8, <1>9 DEF Good
<1> QED
  BY <1>1, <1>8, <1>10 DEF Reached

\* The number of a disc that nothing names yet.
LEMMA ClosedFresh ==
  ASSUME TypeOK, NumberInv, ClosedInv, NEW d \in Disc, PackPlans(d)
  PROVE  ClosedInv'
<1>1. PICK n : num' = [num EXCEPT ![d] = n]
  BY DEF PackPlans
<1>2. /\ disc' = disc /\ ledger' = ledger /\ content' = content /\ disasters' = disasters
      /\ disc[d].state = "unknown" /\ d \notin ledger
  BY DEF PackPlans, Fresh, Known, made
<1>3. cmd'.at \in {"idle", "packTree"}
  BY BatchCommand, GoFields DEF PackPlans
<1>4. d \notin Numbered /\ ~Good(d)
  BY <1>2 DEF Numbered, Good, NumberInv, RecordsOK, RecordOK
<1>5. \A f \in Disc \ {d} : num'[f] = num[f]
  BY <1>1 DEF TypeOK
<1> SUFFICES ASSUME disasters = 0, NEW x \in Disc, Closing(x)', NEW i \in content[x], NEW j \in Children(i)
             PROVE  Reached(j, x)'
  BY <1>2 DEF ClosedInv, HasChildren, Children
<1>6. x \in Numbered /\ disc[x].state # "undone"
  BY <1>2, <1>3 DEF Closing, Numbered
<1>7. PICK e \in Disc : (Good(e) \/ e = x) /\ num[e] <= num[x] /\ j \in content[e]
  BY <1>6 DEF ClosedInv, Closing, HasChildren, Reached
<1>8. x # d /\ e # d
  BY <1>4, <1>6, <1>7
<1> QED
  BY <1>2, <1>5, <1>7, <1>8 DEF Reached, Good

\* While no root waits for its Packed event and no record is behind, a disc that
\* took an item is one of the repository.
LEMMA TakenIsGood ==
  ASSUME TypeOK, HolderInv, UndoneInv, OwnInv, RepairInv, disasters = 0, cmd.at = "packTree",
         NEW i \in Item, Taken(item[i])
  PROVE  item[i].disc \in Disc /\ Good(item[i].disc) /\ i \in content[item[i].disc]
<1>1. PICK r, e : r = item[i] /\ e = r.disc
  OBVIOUS
<1>2. e \in Disc /\ r.state \in {"Packed", "OnDisc", "Lost"}
  BY <1>1, RecordsTyped DEF Taken
<1>3. i \in content[e]
  BY <1>1, <1>2, NoDiscAssumption DEF HolderInv, ItemsHeld, NamesHolder
<1>4. Fits(r) /\ ~Behind(r)
  BY <1>1, NoneBehind DEF RepairInv, ItemsFit, OwedSteps, EventSteps
<1>5. \A x \in ledger : ~(x \in root /\ ~Known(x))
  BY DEF UndoneInv, CommandTables
<1>6. Own(disc[e]) /\ (e \in burnt => Known(e))
  BY <1>2 DEF OwnInv
<1>7. disc[e].state \notin {"unknown", "undone"}
  <2>1. CASE r.state = "Packed"
    BY <1>1, <1>2, <1>4, <1>5, <2>1 DEF Fits, Behind, Known
  <2>2. CASE r.state \in {"OnDisc", "Lost"}
    BY <1>1, <1>2, <1>4, <1>6, <2>2 DEF Fits, Away, AwayStates, Known
  <2> QED
    BY <1>2, <2>1, <2>2
<1> QED
  BY <1>1, <1>2, <1>3, <1>6, <1>7 DEF Own, Good

\* The order in which pack takes the items closes the new root: an item directly
\* below one that it takes is taken with it, or is on a disc already.
LEMMA ClosedTree ==
  ASSUME TypeOK, CommandOK, HolderInv, NumberInv, UndoneInv, OwnInv, disasters = 0 => RepairInv,
         RecordedInv, ClosedInv, PackTree
  PROVE  ClosedInv'
<1>1. PICK d : d = cmd.disc
  OBVIOUS
<1>2. PICK S \in Selections : /\ content' = [content EXCEPT ![d] = S \cup Carried]
                              /\ cmd' = [Go("packTables", d) EXCEPT !.items = S]
  BY <1>1 DEF PackTree
<1>3. cmd.at = "packTree" /\ disc' = disc /\ ledger' = ledger /\ num' = num /\ disasters' = disasters
  BY DEF PackTree, logs
<1>4. d \in Disc
  BY <1>1, <1>3 DEF CommandOK, DiscSteps, Steps
<1>5. cmd'.disc = d
  BY <1>2, GoFields
<1>6. num \in [Disc -> Nat] /\ content'[d] = S \cup Carried /\ \A x \in Disc \ {d} : content'[x] = content[x]
  BY <1>2, <1>4 DEF TypeOK
<1> SUFFICES ASSUME disasters = 0, NEW x \in Disc, Closing(x)', NEW i \in content'[x], NEW j \in Children(i)
             PROVE  Reached(j, x)'
  BY <1>3 DEF ClosedInv, HasChildren, Children
<1>7. \A e \in Numbered : num[e] < num[d]
  BY <1>1, <1>3 DEF NumberInv, CommandNumbers, NewSteps
<1>8. d \notin Numbered
  BY <1>4, <1>6, <1>7
<1>9. \A e \in Disc : Good(e) => e \in Numbered /\ e # d /\ Good(e)' /\ HasChildren(e)
  BY <1>3, <1>8 DEF Good, Numbered, ClosedInv, Closing
<1>10. CASE x # d
  <2>1. x \in Numbered /\ disc[x].state # "undone"
    BY <1>3, <1>5, <1>10 DEF Closing, Numbered
  <2>2. PICK e \in Disc : (Good(e) \/ e = x) /\ num[e] <= num[x] /\ j \in content[e]
    BY <1>6, <1>10, <2>1 DEF ClosedInv, Closing, HasChildren, Reached
  <2> QED
    BY <1>3, <1>6, <1>9, <1>10, <2>2 DEF Reached
<1>11. ASSUME x = d, NEW e \in Disc, Good(e), num[e] <= num[d], j \in content[e]
       PROVE  Reached(j, x)'
  BY <1>3, <1>6, <1>9, <1>11 DEF Reached
<1>12. ASSUME NEW k \in Item, Taken(item[k])
       PROVE  /\ item[k].disc \in Disc /\ Good(item[k].disc) /\ k \in content[item[k].disc]
              /\ num[item[k].disc] <= num[d]
  <2>1. item[k].disc \in Disc /\ Good(item[k].disc) /\ k \in content[item[k].disc]
    BY <1>3, <1>12, TakenIsGood
  <2> QED
    BY <1>4, <1>6, <1>7, <1>9, <2>1
<1>13. CASE x = d /\ i \in S
  <2>1. i \in Item /\ j \in Recorded
    BY <1>13, LaidOut DEF RecordedInv, BelowIn, Children, Recorded
  <2>2. CASE item[j].state = "Staged"
    <3>1. j \in Below(i)
      BY DEF Below, Children
    <3>2. j \in S
      BY <1>13, <2>2, <3>1 DEF Selections
    <3> QED
      BY <1>3, <1>4, <1>6, <1>13, <3>2 DEF Reached
  <2>3. CASE item[j].state # "Staged"
    <3>1. j \in Item /\ Taken(item[j])
      BY <2>1, <2>3, RecordsTyped, RecordFacts DEF Recorded, HasRecord, Taken
    <3> QED
      BY <1>11, <1>12, <1>13, <3>1
  <2> QED
    BY <2>2, <2>3
<1>14. CASE x = d /\ i \in Carried
  <2>1. i \in Item /\ Taken(item[i])
    BY <1>14, ItemAssumption DEF Carried, Item
  <2>2. PICK e : e \in Disc /\ Good(e) /\ i \in content[e] /\ num[e] <= num[d]
    BY <1>12, <2>1
  <2>3. PICK f \in Disc : (Good(f) \/ f = e) /\ num[f] <= num[e] /\ j \in content[f]
    BY <1>9, <2>2 DEF HasChildren, Reached
  <2>4. num[f] <= num[d]
    BY <1>4, <1>6, <2>2, <2>3
  <2> QED
    BY <1>11, <1>14, <2>2, <2>3, <2>4
<1> QED
  BY <1>6, <1>10, <1>13, <1>14

LEMMA ClosedLoses == TypeOK /\ LoseRepository => ClosedInv'
  BY DEF TypeOK, LoseRepository, ClosedInv

LEMMA ClosedInit == Init => ClosedInv
  BY GoFields DEF Init, ClosedInv, Closing, Numbered, UnknownDisc

LEMMA ClosedStutter == ClosedInv /\ UNCHANGED vars => ClosedInv'
<1> SUFFICES ASSUME ClosedInv, UNCHANGED vars PROVE ClosedInv'
  OBVIOUS
<1>1. ClosedStays
  BY DEF ClosedStays, Good, Closing, Numbered, vars
<1> QED
  BY <1>1, ClosedStep DEF vars

LEMMA ClosedNext ==
  ASSUME KnownInv, OwnInv, disasters = 0 => RepairInv, RecordedInv, ClosedInv, Next
  PROVE  ClosedInv'
<1>0. TypeOK /\ CommandOK /\ HolderInv /\ NumberInv /\ UndoneInv
  BY DEF KnownInv
<1>1. CASE \E d \in Disc : DiscCommand(d) \/ Burn(d)
  <2>1. PICK d \in Disc : DiscCommand(d) \/ Burn(d)
    BY <1>1
  <2>2. CASE DiscBurned(d) \/ DiscBurnedUndo(d) \/ DiscVerified(d) \/ VerifyUndo(d)
             \/ VerifyFails(d) \/ DiscLost(d) \/ DiscLostUndo(d)
    BY <1>0, <2>2, ClosedQuiet DEF EventAction
  <2>3. CASE VerifyReads(d) \/ CatalogStops(d)
    BY <1>0, <2>3, ClosedQuiet DEF QuietAction
  <2>4. CASE Recover(d)
    BY <1>0, <2>4, ClosedRecover
  <2>5. CASE FinishStage(d) \/ Burn(d)
    BY <1>0, <2>5, ClosedPacking
  <2>6. CASE PackPlans(d) \/ PackUndo(d)
    BY <1>0, <2>6, ClosedFresh, ClosedUndo
  <2> QED
    BY <2>1, <2>2, <2>3, <2>4, <2>5, <2>6 DEF DiscCommand
<1>2. CASE \E s \in Snapshot : CommitWrites(s)
  BY <1>0, <1>2, ClosedQuiet DEF QuietAction
<1>3. CASE Open \/ RepairDisc \/ Stop \/ LostItems \/ LostRoot \/ FoundItems \/ GcItems \/ GcUnlink
           \/ RecoverItems \/ RecheckItems \/ CommitRecords \/ PackBegins \/ PackFails
  BY <1>0, <1>3, ClosedQuiet DEF QuietAction
<1>4. CASE RecoverEvents \/ VerifyRecords \/ GcEvents \/ RecheckEvent
  BY <1>0, <1>4, ClosedQuiet DEF EventAction
<1>5. CASE PackRemoves \/ UndoRemoves \/ FinishPack \/ PackItems \/ UndoneItems
           \/ FinishEvent \/ PackEvent \/ PackTables \/ PackRow
  BY <1>0, <1>5, ClosedPacking
<1>6. CASE RecoverLedger \/ PackTree \/ LoseRepository
  BY <1>0, <1>6, ClosedRecover, ClosedTree, ClosedLoses
<1> QED
  BY <1>1, <1>2, <1>3, <1>4, <1>5, <1>6 DEF Next

\* Whoever has the discs up to a number has every child of every item on them:
\* no disc waits for a later one, whatever packs stopped, were finished by the
\* next one or taken back, while appends are whole, roots are burned after their
\* Packed events and the host keeps its repository.
THEOREM DiscsAreClosed == Spec => [](~TornBatches /\ ~EarlyBurn => PrerequisitesEarlier)
<1>1. CASE ~TornBatches /\ ~EarlyBurn
  <2>1. Spec => []KnownInv /\ [](OwnInv /\ (WholeReads => RepairInv))
    BY <1>1, KnownAlways, RepairsAlways
  <2>2. KnownInv /\ OwnInv /\ RecordedInv /\ [Next]_vars => RecordedInv'
    BY <1>1, RecordedNext, RecordedStutter
  <2>3. KnownInv /\ OwnInv /\ (WholeReads => RepairInv) /\ RecordedInv /\ ClosedInv /\ [Next]_vars => ClosedInv'
    BY ClosedNext, ClosedStutter DEF WholeReads
  <2>4. ClosedInv => (~TornBatches /\ ~EarlyBurn => PrerequisitesEarlier)
    <3> SUFFICES ASSUME ClosedInv, disasters = 0, NEW d \in Disc, Good(d), NEW i \in content[d], NEW j \in Children(i)
                 PROVE  \E e \in Disc : Good(e) /\ num[e] <= num[d] /\ j \in content[e]
      BY DEF PrerequisitesEarlier, Good, Children
    <3>1. Closing(d)
      BY DEF Closing, Numbered, Good
    <3> QED
      BY <3>1 DEF ClosedInv, HasChildren, Reached
  <2> QED
    BY <2>1, <2>2, <2>3, <2>4, RecordedInit, ClosedInit, PTL DEF Spec
<1>2. CASE ~(~TornBatches /\ ~EarlyBurn)
  <2>1. TRUE => (~TornBatches /\ ~EarlyBurn => PrerequisitesEarlier)
    BY <1>2
  <2> QED
    BY <2>1, PTL
<1> QED
  BY <1>1, <1>2

-----------------------------------------------------------------------------
(***************************************************************************)
(* The `next:' block, for every set of discs and items, with               *)
(* torn batches, damaged copies, early burns and losses of the repository: *)
(* at "nothing to do" no data waits on the host.                           *)
(*                                                                         *)
(* What the block saw still holds while the operator rests (RestInv), but  *)
(* it sees less than the item records: it lists the discs of the ledger,   *)
(* and it counts the staged items that it can read.  The block is right    *)
(* because of two invariants of the repository.  HeldInv: the catalog has  *)
(* each object that the log calls staged or packed.  SitedInv: a disc that *)
(* can still be burned has its row, and a Packed record names no missing   *)
(* disc, nor an unknown one without its row and its directory.             *)
(***************************************************************************)

-----------------------------------------------------------------------------
(* The staged objects are in the catalog. *)

Held(i, r) == i \in Meta /\ r.state \in {"Staged", "Packed"} => i \in objects

ItemsAreHeld == \A i \in Item : Held(i, item[i])
PlansAreHeld == \A p \in cmd.plans : \A i \in DOMAIN p.recs : Held(i, p.recs[i])

HeldInv ==
  /\ ItemsAreHeld
  /\ PlansAreHeld
  /\ cmd.at = "commit" => cmd.items \cap Meta \subseteq objects

\* A step that writes no item record and keeps the objects.
LEMMA HeldStill ==
  ASSUME HeldInv, item' = item, objects \subseteq objects', cmd'.plans \subseteq cmd.plans, cmd'.at # "commit"
  PROVE  HeldInv'
  BY DEF HeldInv, ItemsAreHeld, PlansAreHeld, Held

\* A batch of records of held items.
LEMMA HeldBatch ==
  ASSUME TypeOK, HeldInv, NEW S \in SUBSET Item, NEW recs \in [S -> Record], NEW next \in Cmd,
         AppendItems(recs, next), \A i \in S : Held(i, recs[i]),
         objects' = objects, next.plans \subseteq cmd.plans, next.at # "commit"
  PROVE  HeldInv'
<1>1. /\ cmd' \in {next, Idle}
      /\ \A i \in Item : item'[i] = item[i] \/ (i \in S /\ item'[i] = recs[i])
  BY AppendItemsType
<1>2. ItemsAreHeld'
  BY <1>1 DEF HeldInv, ItemsAreHeld, Held
<1>3. cmd'.plans \subseteq cmd.plans /\ cmd'.at # "commit"
  BY <1>1, BuiltCommands
<1>4. PlansAreHeld'
  BY <1>3 DEF HeldInv, PlansAreHeld, Held
<1> QED
  BY <1>2, <1>3, <1>4 DEF HeldInv

\* A repair stages or packs held objects only: `disc lost' stages the OnDisc
\* objects that the catalog has.
LEMMA RepairIsHeld ==
  ASSUME TypeOK, ItemsAreHeld, NEW info, NEW d \in Disc, NEW i \in DOMAIN Repair(info, d)
  PROVE  Held(i, Repair(info, d)[i])
<1>1. i \in Item /\ Held(i, item[i])
  BY RepairParts DEF ItemsAreHeld
<1>2. CASE i \in GivenBack(info, d)
  BY <1>1, <1>2 DEF GivenBack, Held
<1>3. CASE i \in ObjectsBack(info, d)
  BY <1>3, RepairParts, NewRecords DEF Held
<1>4. CASE i \in Direct(info, d)
  <2>1. PICK r : r = Repair(info, d)[i] /\ r = Follow(info.state, item[i], i \in objects)
    BY <1>4, RepairParts
  <2>2. \/ r.state \in {"OnDisc", "Lost"} \/ r = item[i]
        \/ item[i].state = "Packed" \/ i \in objects
    BY <2>1, NewRecords DEF Follow
  <2> QED
    BY <1>1, <2>1, <2>2 DEF Held
<1> QED
  BY <1>2, <1>3, <1>4, RepairParts

LEMMA HeldOpen ==
  ASSUME TypeOK, HeldInv, Open
  PROVE  HeldInv'
<1>1. CASE ToRepair = {}
  BY <1>1, HeldStill, BuiltCommands DEF Open, logs, catalog
<1>2. CASE ToRepair # {}
  <2> DEFINE P == {[disc |-> d, recs |-> Repair(disc[d], d)] : d \in ToRepair}
  <2>1. cmd'.plans = P /\ cmd'.at = "repair"
    BY <1>2 DEF Open, Go, Idle
  <2>2. item' = item /\ objects' = objects
    BY DEF Open, logs, catalog
  <2>3. \A d \in ToRepair : \A i \in DOMAIN Repair(disc[d], d) : Held(i, Repair(disc[d], d)[i])
    BY RepairIsHeld DEF ToRepair, HeldInv
  <2>4. PlansAreHeld'
    BY <2>1, <2>2, <2>3 DEF PlansAreHeld, Held
  <2> QED
    BY <2>1, <2>2, <2>4 DEF HeldInv, ItemsAreHeld, Held
<1> QED
  BY <1>1, <1>2

LEMMA HeldRepairDisc ==
  ASSUME TypeOK, HeldInv, RepairDisc
  PROVE  HeldInv'
<1> DEFINE Next1(p) == IF cmd.plans = {p} THEN Go("open", NoDisc)
                       ELSE [cmd EXCEPT !.plans = @ \ {p}]
<1>1. PICK p \in cmd.plans : AppendOwed(p.recs, Next1(p))
  BY DEF RepairDisc
<1>2. Next1(p) \in Cmd /\ Next1(p).at \in {"open", "repair"} /\ Next1(p).plans \subseteq cmd.plans
  BY GoType, CmdPlans DEF RepairDisc, TypeOK, Cmd, Steps
<1>3. PICK S \in SUBSET Item : p.recs \in [S -> Record]
  <2>1. p \in Plan
    BY DEF TypeOK, Cmd
  <2>2. p.recs \in UNION {[S -> Record] : S \in SUBSET Item}
    BY <2>1 DEF Plan
  <2> QED
    BY <2>2
<1>4. \A i \in S : Held(i, p.recs[i])
  BY <1>3 DEF HeldInv, PlansAreHeld
<1>5. AppendItems(p.recs, Next1(p)) /\ objects' = objects
  BY <1>1 DEF AppendOwed, RepairDisc, catalog
<1> HIDE DEF Next1
<1> QED
  BY <1>2, <1>3, <1>4, <1>5, HeldBatch

\* The records that a disc event asks for.
LEMMA HeldEventItems ==
  ASSUME TypeOK, CommandOK, HeldInv, LostItems \/ FoundItems \/ UndoneItems
  PROVE  HeldInv'
<1>1. cmd.disc \in Disc
  BY DEF LostItems, FoundItems, UndoneItems, CommandOK, DiscSteps, Steps
<1>2. PICK next \in {Go("lostRoot", cmd.disc), Idle, Go("undoing", cmd.disc)} :
        AppendOwed(Repair(disc[cmd.disc], cmd.disc), next)
  BY DEF LostItems, FoundItems, UndoneItems
<1>3. next \in Cmd /\ next.plans = {} /\ next.at # "commit"
  BY <1>1, GoType DEF Steps
<1>4. AppendItems(Repair(disc[cmd.disc], cmd.disc), next) /\ objects' = objects
  BY <1>2 DEF AppendOwed, LostItems, FoundItems, UndoneItems, catalog
<1>5. \A i \in DOMAIN Repair(disc[cmd.disc], cmd.disc) : Held(i, Repair(disc[cmd.disc], cmd.disc)[i])
  BY <1>1, RepairIsHeld DEF HeldInv
<1>6. DOMAIN Repair(disc[cmd.disc], cmd.disc) \in SUBSET Item
      /\ Repair(disc[cmd.disc], cmd.disc) \in [DOMAIN Repair(disc[cmd.disc], cmd.disc) -> Record]
  BY <1>1, RepairType
<1> QED
  BY <1>3, <1>4, <1>5, <1>6, HeldBatch

\* gc and recover write OnDisc records only.
LEMMA HeldOnDisc ==
  ASSUME TypeOK, CommandOK, HeldInv, GcItems \/ RecoverItems \/ RecheckItems
  PROVE  HeldInv'
<1>1. objects' = objects /\ cmd \in Cmd
  BY DEF GcItems, RecoverItems, RecheckItems, EnsureOnDisc, catalog, TypeOK
<1>3. CASE GcItems
  <2> DEFINE S == UNION {PackedItems(d) : d \in cmd.discs}
             recs == [i \in S |-> OnDiscOf(item[i].disc)]
             next == [cmd EXCEPT !.at = "unlink"]
  <2>1. \A d \in cmd.discs : \A i \in PackedItems(d) : i \in Item /\ OnDiscOf(item[i].disc) \in Record
    BY CmdType, RecordTypes DEF PackedItems, PackedOn, TypeOK
  <2>2. S \in SUBSET Item /\ recs \in [S -> Record]
    BY <2>1
  <2>3. next \in Cmd /\ next.at = "unlink" /\ next.plans = cmd.plans
    <3>1. "unlink" \in Steps
      BY DEF Steps
    <3> QED
      BY <1>1, <3>1, CmdType, CmdPlans
  <2>4. \A i \in S : Held(i, recs[i])
    BY NewRecords DEF Held
  <2>5. AppendItems(recs, next)
    BY <1>3 DEF GcItems, AppendOwed
  <2> HIDE DEF S, recs, next
  <2> QED
    BY <1>1, <2>2, <2>3, <2>4, <2>5, HeldBatch
<1>4. CASE RecoverItems \/ RecheckItems
  <2> DEFINE S == {i \in cmd.items : NotKnown(item[i])}
             recs == All(S, OnDiscOf(cmd.disc))
  <2>1. PICK a \in {"recoverEvents", "recheckEvent"} : AppendItems(recs, [cmd EXCEPT !.at = a])
    BY <1>4 DEF RecoverItems, RecheckItems, EnsureOnDisc
  <2>2. cmd.disc \in Disc
    BY <1>4 DEF RecoverItems, RecheckItems, CommandOK, DiscSteps, Steps
  <2>3. S \in SUBSET Item /\ recs \in [S -> Record]
    BY <2>2, CmdType, RecordTypes, AllType DEF TypeOK
  <2>4. \A i \in S : Held(i, recs[i])
    BY NewRecords DEF Held, All
  <2>5. [cmd EXCEPT !.at = a] \in Cmd /\ [cmd EXCEPT !.at = a].at = a /\ [cmd EXCEPT !.at = a].plans = cmd.plans
    <3>1. a \in Steps
      BY DEF Steps
    <3> QED
      BY <1>1, <3>1, CmdType, CmdPlans
  <2> HIDE DEF S, recs
  <2> QED
    BY <1>1, <2>1, <2>3, <2>4, <2>5, HeldBatch
<1> QED
  BY <1>3, <1>4

\* commit puts every object into the catalog before the log records it.
LEMMA HeldCommit ==
  ASSUME TypeOK, HeldInv, CommitRecords \/ \E s \in Snapshot : CommitWrites(s)
  PROVE  HeldInv'
<1>1. CASE CommitRecords
  <2> DEFINE S == {i \in cmd.items : NotKnown(item[i])}
  <2>1. S \in SUBSET Item /\ All(S, Staged) \in [S -> Record]
    BY CmdType, RecordTypes, AllType DEF TypeOK
  <2>2. \A i \in S : Held(i, All(S, Staged)[i])
    BY <1>1 DEF CommitRecords, HeldInv, Held
  <2>3. AppendItems(All(S, Staged), Idle) /\ objects' = objects
    BY <1>1 DEF CommitRecords, catalog
  <2> HIDE DEF S
  <2> QED
    BY <2>1, <2>2, <2>3, GoType, HeldBatch
<1>2. ASSUME NEW s \in Snapshot, CommitWrites(s) PROVE HeldInv'
  <2>1. PICK W : /\ objects' = objects \cup (W \cap Meta)
                 /\ cmd' = IF s \in W THEN [Go("commit", NoDisc) EXCEPT !.items = W] ELSE Idle
    BY <1>2 DEF CommitWrites
  <2>2. cmd'.plans = {} /\ (cmd'.at = "idle" \/ cmd'.items = W)
    BY <2>1 DEF Go, Idle
  <2>3. item' = item
    BY <1>2 DEF CommitWrites, logs
  <2> QED
    BY <2>1, <2>2, <2>3 DEF HeldInv, ItemsAreHeld, PlansAreHeld, Held
<1> QED
  BY <1>1, <1>2

\* pack stages and packs items that it read, or that were staged before.
LEMMA HeldPacks ==
  ASSUME TypeOK, CommandOK, DataInv, HeldInv,
         FinishPack \/ PackItems \/ \E d \in Disc : FinishStage(d) \/ PackPlans(d)
  PROVE  HeldInv'
<1>1. CASE FinishPack \/ PackItems
  <2>1. cmd.disc \in Disc /\ cmd.items \in SUBSET Item /\ \A i \in cmd.items : item[i].state = "Staged"
    BY <1>1, CmdType DEF FinishPack, PackItems, CommandOK, DiscSteps, Steps, DataInv, DecisionHolds, TakingSteps, TypeOK
  <2>2. All(cmd.items, PackedOn(cmd.disc)) \in [cmd.items -> Record]
    BY <2>1, AllType, RecordTypes
  <2>3. PICK a \in {"finishEvent", "packEvent"} : AppendItems(All(cmd.items, PackedOn(cmd.disc)), Go(a, cmd.disc))
    BY <1>1 DEF FinishPack, PackItems
  <2>4. Go(a, cmd.disc) \in Cmd /\ Go(a, cmd.disc).plans = {} /\ Go(a, cmd.disc).at # "commit"
    BY <2>1, GoType DEF Steps
  <2>5. \A i \in cmd.items : Held(i, All(cmd.items, PackedOn(cmd.disc))[i])
    BY <2>1 DEF HeldInv, ItemsAreHeld, Held
  <2>6. objects' = objects
    BY <1>1 DEF FinishPack, PackItems, catalog
  <2> QED
    BY <2>1, <2>2, <2>3, <2>4, <2>5, <2>6, HeldBatch
<1>2. ASSUME NEW d \in Disc, FinishStage(d) PROVE HeldInv'
  <2> DEFINE ids == {i \in content[d] : item[i].state \in {"none", "Staged"}}
             new == {i \in ids : item[i].state = "none"}
             next == [Go("finishPack", d) EXCEPT !.items = ids]
  <2>1. ids \subseteq Item /\ new = {}
    BY <1>2 DEF FinishStage, Interrupted, DataInv, RootRecorded, TypeOK
  <2>2. next \in Cmd /\ next.at = "finishPack" /\ next.plans = {}
    <3>1. Go("finishPack", d) \in Cmd /\ Go("finishPack", d).at = "finishPack" /\ Go("finishPack", d).plans = {}
      BY GoType DEF Steps
    <3> QED
      BY <2>1, <3>1 DEF Cmd
  <2>3. AppendItems(All(new, Staged), next) /\ objects' = objects
    BY <1>2 DEF FinishStage, catalog
  <2>4. new \in SUBSET Item /\ All(new, Staged) \in [new -> Record]
    BY <2>1, RecordTypes, AllType
  <2>5. \A i \in new : Held(i, All(new, Staged)[i])
    BY <2>1
  <2> HIDE DEF new, next
  <2> QED
    BY <2>2, <2>3, <2>4, <2>5, HeldBatch
<1>3. ASSUME NEW d \in Disc, PackPlans(d) PROVE HeldInv'
  <2> DEFINE unrecorded == {i \in Readable : /\ item[i].state = "none"
                                             /\ \E s \in Snapshot : i \in Needs[s]
                                                                    /\ item[s].state = "Staged"}
  <2>1. unrecorded \in SUBSET Item /\ \A i \in unrecorded : i \in Meta => i \in objects
    BY ItemAssumption DEF Readable, TypeOK, Item
  <2>2. AppendItems(All(unrecorded, Staged), Go("packTree", d)) /\ objects' = objects
    BY <1>3 DEF PackPlans, catalog
  <2> HIDE DEF unrecorded
  <2>3. All(unrecorded, Staged) \in [unrecorded -> Record]
    BY <2>1, AllType, RecordTypes
  <2>4. Go("packTree", d) \in Cmd /\ Go("packTree", d).plans = {} /\ Go("packTree", d).at # "commit"
    BY GoType DEF Steps
  <2>5. \A i \in unrecorded : Held(i, All(unrecorded, Staged)[i])
    BY <2>1 DEF Held
  <2> QED
    BY <2>1, <2>2, <2>3, <2>4, <2>5, HeldBatch
<1> QED
  BY <1>1, <1>2, <1>3

\* The other steps write no item record.
LEMMA HeldQuiet ==
  ASSUME TypeOK, HeldInv,
         \/ Stop \/ VerifyRecords \/ LostRoot \/ GcEvents \/ GcUnlink \/ RecoverLedger \/ RecoverEvents
         \/ RecheckEvent \/ PackBegins \/ PackRemoves \/ FinishEvent \/ PackTree \/ PackTables \/ PackRow
         \/ PackEvent \/ PackFails \/ UndoRemoves
         \/ \E d \in Disc : \/ \E e : Mark(d, e)
                           \/ VerifyFails(d) \/ VerifyReads(d) \/ CatalogStops(d) \/ Recover(d)
                           \/ DiscLost(d) \/ DiscLostUndo(d) \/ PackUndo(d) \/ Burn(d)
  PROVE  HeldInv'
<1>1. cmd'.plans \subseteq cmd.plans /\ cmd'.at # "commit"
  <2>1. CASE \E d \in Disc : Recover(d)
    BY <2>1, RecoverGoesTo
  <2>2. CASE GcEvents
    <3>1. PICK D, I : cmd' \in {Idle, [Go("freed", NoDisc) EXCEPT !.discs = D, !.items = I]}
      BY <2>2 DEF GcEvents
    <3>2. CASE cmd' = Idle
      BY <3>2, BuiltCommands
    <3>3. CASE cmd' = [Go("freed", NoDisc) EXCEPT !.discs = D, !.items = I]
      BY <3>3 DEF Go, Idle
    <3> QED
      BY <3>1, <3>2, <3>3
  <2>3. CASE RecoverLedger \/ PackTables \/ PackRow
    <3>1. PICK a \in {"recoverItems", "packRow", "packItems"} : cmd' = [cmd EXCEPT !.at = a]
      BY <2>3 DEF RecoverLedger, PackTables, PackRow
    <3> QED
      BY <3>1, BuiltCommands DEF TypeOK
  <2>4. CASE PackTree
    <3>1. PICK S : cmd' = [Go("packTables", cmd.disc) EXCEPT !.items = S]
      BY <2>4 DEF PackTree
    <3> QED
      BY <3>1, BuiltCommands
  <2>5. CASE PackRemoves \/ UndoRemoves \/ \E d \in Disc : Burn(d)
    BY <2>5, BuiltCommands DEF PackRemoves, UndoRemoves, Burn
  <2>6. CASE \/ Stop \/ VerifyRecords \/ LostRoot \/ GcUnlink \/ RecoverEvents
             \/ RecheckEvent \/ PackBegins \/ FinishEvent \/ PackEvent \/ PackFails
             \/ \E d \in Disc : \/ \E e : Mark(d, e)
                               \/ VerifyFails(d) \/ VerifyReads(d) \/ CatalogStops(d)
                               \/ DiscLost(d) \/ DiscLostUndo(d) \/ PackUndo(d)
    <3>1. \/ cmd' = Idle
          \/ \E d : cmd' \in {Go("read", d), Go("lost", d), Go("found", d), Go("undone", d), Go("pack", d),
                             Go("packFails", d)}
      BY <2>6 DEF Stop, VerifyRecords, LostRoot, GcUnlink, RecoverEvents, RecheckEvent, PackBegins, FinishEvent,
             PackEvent, PackFails, Mark, VerifyFails, VerifyReads, CatalogStops, DiscLost,
             DiscLostUndo, PackUndo
    <3> QED
      BY <3>1, BuiltCommands
  <2> QED
    BY <2>1, <2>2, <2>3, <2>4, <2>5, <2>6
<1>2. item' = item /\ objects \subseteq objects'
  <2>1. CASE \/ Stop \/ VerifyRecords \/ LostRoot \/ GcEvents \/ GcUnlink \/ RecoverLedger \/ RecoverEvents
             \/ RecheckEvent \/ PackBegins \/ PackRemoves \/ FinishEvent \/ PackTree
    BY <2>1 DEF Stop, VerifyRecords, LostRoot, GcEvents, GcUnlink, RecoverLedger, RecoverEvents, RecheckEvent,
                PackBegins, PackRemoves, FinishEvent, PackTree, logs, catalog
  <2>2. CASE PackTables \/ PackRow \/ PackEvent \/ PackFails \/ UndoRemoves
    BY <2>2 DEF PackTables, PackRow, PackEvent, PackFails, UndoRemoves, logs, catalog
  <2>3. CASE \E d \in Disc : (\E e : Mark(d, e)) \/ VerifyFails(d) \/ VerifyReads(d) \/ CatalogStops(d)
    BY <2>3 DEF Mark, VerifyFails, VerifyReads, CatalogStops, logs, catalog
  <2>5. CASE \E d \in Disc : Recover(d)
    <3>1. PICK d \in Disc : Recover(d)
      BY <2>5
    <3>2. item' = item
      BY <3>1 DEF Recover, logs
    <3>3. \E S : objects' = objects \cup S
      BY <3>1 DEF Recover
    <3> QED
      BY <3>2, <3>3
  <2>4. CASE \E d \in Disc : DiscLost(d) \/ DiscLostUndo(d) \/ PackUndo(d) \/ Burn(d)
    BY <2>4 DEF DiscLost, DiscLostUndo, PackUndo, Burn, logs, catalog
  <2> QED
    BY <2>1, <2>2, <2>3, <2>4, <2>5
<1> QED
  BY <1>1, <1>2, HeldStill

LEMMA HeldLose ==
  ASSUME LoseRepository
  PROVE  HeldInv'
<1>1. cmd'.at = "idle" /\ cmd'.plans = {} /\ item' = [i \in Item |-> NoRecord]
  BY BuiltCommands DEF LoseRepository
<1> QED
  BY <1>1 DEF HeldInv, ItemsAreHeld, PlansAreHeld, Held, NoRecord

LEMMA HeldStep ==
  ASSUME TypeOK, CommandOK, DataInv, HeldInv, [Next]_vars
  PROVE  HeldInv'
<1>1. CASE \E d \in Disc : DiscCommand(d) \/ Burn(d)
  BY <1>1, HeldQuiet, HeldPacks DEF DiscCommand, DiscBurned, DiscBurnedUndo, DiscVerified, VerifyUndo
<1>2. CASE UNCHANGED vars
  BY <1>2 DEF vars, HeldInv, ItemsAreHeld, PlansAreHeld, Held
<1>3. CASE \E s \in Snapshot : CommitWrites(s)
  BY <1>3, HeldCommit
<1>4. CASE Open \/ RepairDisc \/ LostItems \/ FoundItems \/ UndoneItems \/ GcItems \/ RecoverItems \/ RecheckItems
           \/ CommitRecords \/ FinishPack \/ PackItems \/ LoseRepository
  BY <1>4, HeldOpen, HeldRepairDisc, HeldEventItems, HeldOnDisc, HeldCommit, HeldPacks, HeldLose
<1> QED
  BY <1>1, <1>2, <1>3, <1>4, HeldQuiet DEF Next

-----------------------------------------------------------------------------
(* The discs that Packed records name.                                       *)

\* A disc that is away although no Packed record can name it.
Absent(r) == r.state = "missing" \/ (r.state = "lost" /\ r.before = "missing")

\* A disc of this host, or one that `disc lost --undo' makes such a disc again.
Hosted(r) == r.state \in {"packed", "burned", "verified"} \/ (r.state = "lost" /\ r.before = "verified")

SitedOn(d) == ~Absent(disc[d]) /\ (~Known(d) => d \in root \cap ledger)
Sited(r) == r.state = "Packed" => SitedOn(r.disc)

ItemsSited == \A i \in Item : Sited(item[i])
PlansSited ==
  /\ cmd.at # "repair" => cmd.plans = {}
  /\ \A p \in cmd.plans : \A i \in DOMAIN p.recs : Sited(p.recs[i])
HostedRows == \A d \in Disc : Hosted(disc[d]) => d \in ledger

ReadSteps == {"recover", "recoverItems", "recoverEvents"}
CommandSited ==
  /\ cmd.at \in ReadSteps => cmd.discs \subseteq names[cmd.disc]
  /\ cmd.at \in {"freed", "unlink"} => \A d \in cmd.discs : disc[d].state = "on disc only"
  /\ cmd.at \in {"lost", "lostRoot"} => disc[cmd.disc].state = "lost"

SitedInv == ItemsSited /\ PlansSited /\ HostedRows /\ CommandSited

SiteSteps == ReadSteps \cup {"freed", "unlink", "lost", "lostRoot"}

LEMMA NothingSited ==
  ASSUME cmd'.at \notin SiteSteps
  PROVE  CommandSited'
  BY DEF CommandSited, SiteSteps, ReadSteps

\* A step that changes no disc and takes no row of a hosted disc away.
RowsOfHosted == \A d \in Disc : Hosted(disc[d]) /\ d \in ledger => d \in ledger'

LEMMA SitedStays ==
  ASSUME disc' = disc, RowsStay, NEW r, r.disc \in Disc, Sited(r)
  PROVE  Sited(r)'
  BY DEF Sited, SitedOn, RowsStay, Known

\* A batch of sited records, or none; the command has no plans.
LEMMA SitedBatch ==
  ASSUME TypeOK, TypeOK', SitedInv, disc' = disc, RowsStay, RowsOfHosted,
         \A i \in Item : item'[i] = item[i] \/ Sited(item'[i]),
         cmd'.plans = {}, CommandSited'
  PROVE  SitedInv'
<1>1. ASSUME NEW i \in Item PROVE Sited(item[i])'
  <2>1. PICK r : r = item'[i]
    OBVIOUS
  <2>2. Sited(r)
    BY <2>1 DEF SitedInv, ItemsSited
  <2>3. r.state = "Packed" => r.disc \in Disc
    BY <2>1 DEF TypeOK, Record, NoRecord
  <2>4. CASE r.state = "Packed"
    BY <2>1, <2>2, <2>3, <2>4, SitedStays
  <2>5. CASE r.state # "Packed"
    BY <2>1, <2>5 DEF Sited
  <2> QED
    BY <2>4, <2>5
<1>2. HostedRows'
  BY DEF SitedInv, HostedRows, RowsOfHosted
<1> QED
  BY <1>1, <1>2 DEF SitedInv, ItemsSited, PlansSited

LEMMA SitedStill ==
  ASSUME TypeOK, TypeOK', SitedInv, disc' = disc, item' = item, RowsStay, RowsOfHosted, cmd'.plans = {}, CommandSited'
  PROVE  SitedInv'
  BY SitedBatch

LEMMA RowsOnly ==
  ASSUME root \subseteq root', ledger \subseteq ledger'
  PROVE  RowsStay /\ RowsOfHosted
  BY DEF RowsStay, RowsOfHosted

\* A repair packs an item on a burned disc only, or leaves it packed.
LEMMA RepairIsSited ==
  ASSUME TypeOK, ItemsSited, NEW d \in Disc, NEW i \in DOMAIN Repair(disc[d], d)
  PROVE  Sited(Repair(disc[d], d)[i])
<1>1. i \in Item /\ Sited(item[i])
  BY RepairParts DEF ItemsSited
<1>2. CASE i \in GivenBack(disc[d], d)
  <2>1. disc[d].state = "burned"
    BY <1>2 DEF GivenBack
  <2>2. SitedOn(d)
    BY <2>1 DEF SitedOn, Absent, Known
  <2>3. Repair(disc[d], d)[i] = PackedOn(d)
    BY <1>2, RepairParts
  <2> QED
    BY <2>2, <2>3, NewRecords DEF Sited
<1>3. CASE i \in ObjectsBack(disc[d], d)
  BY <1>3, RepairParts, NewRecords DEF Sited
<1>4. CASE i \in Direct(disc[d], d)
  <2>1. PICK r : r = Repair(disc[d], d)[i] /\ r = Follow(disc[d].state, item[i], i \in objects)
    BY <1>4, RepairParts
  <2>2. r.state \in {"OnDisc", "Lost", "Staged"} \/ r = item[i]
    BY <2>1, NewRecords DEF Follow
  <2> QED
    BY <1>1, <2>1, <2>2 DEF Sited
<1> QED
  BY <1>2, <1>3, <1>4, RepairParts

LEMMA SitedOpen ==
  ASSUME TypeOK, TypeOK', SitedInv, Open
  PROVE  SitedInv'
<1>0. /\ disc' = disc /\ item' = item /\ root' = root /\ ledger' = ledger
  BY DEF Open, logs, staging
<1>1. CASE ToRepair = {}
  <2>1. cmd'.plans = {} /\ cmd'.at = "open"
    BY <1>1, BuiltCommands DEF Open
  <2> QED
    BY <1>0, <2>1, SitedStill, RowsOnly, NothingSited DEF SiteSteps, ReadSteps
<1>2. CASE ToRepair # {}
  <2> DEFINE P == {[disc |-> d, recs |-> Repair(disc[d], d)] : d \in ToRepair}
  <2>1. cmd'.plans = P /\ cmd'.at = "repair"
    BY <1>2 DEF Open, Go, Idle
  <2>2. \A d \in ToRepair : \A i \in DOMAIN Repair(disc[d], d) : Sited(Repair(disc[d], d)[i])
    BY RepairIsSited DEF ToRepair, SitedInv
  <2>3. PlansSited'
    BY <1>0, <2>1, <2>2 DEF PlansSited, Sited, SitedOn, Known
  <2>4. ItemsSited' /\ HostedRows'
    BY <1>0 DEF SitedInv, ItemsSited, HostedRows, Sited, SitedOn, Known
  <2>5. CommandSited'
    BY <2>1, NothingSited DEF SiteSteps, ReadSteps
  <2> QED
    BY <2>3, <2>4, <2>5 DEF SitedInv
<1> QED
  BY <1>1, <1>2

LEMMA SitedRepairDisc ==
  ASSUME TypeOK, SitedInv, RepairDisc
  PROVE  SitedInv'
<1> DEFINE Next1(p) == IF cmd.plans = {p} THEN Go("open", NoDisc)
                       ELSE [cmd EXCEPT !.plans = @ \ {p}]
<1>0. /\ disc' = disc /\ root' = root /\ ledger' = ledger /\ cmd.at = "repair"
  BY DEF RepairDisc, staging
<1>1. PICK p \in cmd.plans : AppendOwed(p.recs, Next1(p))
  BY DEF RepairDisc
<1>2. /\ Next1(p).at \in {"open", "repair"} /\ Next1(p).plans \subseteq cmd.plans
      /\ Next1(p).at = "open" => Next1(p).plans = {}
  BY <1>0, GoType, CmdPlans DEF TypeOK, Cmd
<1> HIDE DEF Next1
<1>3. PICK T \in SUBSET DOMAIN p.recs :
        /\ item' = [i \in Item |-> IF i \in T THEN p.recs[i] ELSE item[i]]
        /\ cmd' = IF T = DOMAIN p.recs THEN Next1(p) ELSE Idle
  <2>1. PICK recs, next : recs = p.recs /\ next = Next1(p)
    OBVIOUS
  <2>2. AppendOwed(recs, next)
    BY <1>1, <2>1
  <2>3. PICK T \in SUBSET DOMAIN recs :
          /\ item' = [i \in Item |-> IF i \in T THEN recs[i] ELSE item[i]]
          /\ cmd' = IF T = DOMAIN recs THEN next ELSE Idle
    BY <2>2, BatchParts
  <2> QED
    BY <2>1, <2>3
<1>4. \A i \in Item : item'[i] = item[i] \/ Sited(item'[i])
  BY <1>3 DEF SitedInv, PlansSited
<1>5. ItemsSited' /\ HostedRows'
  <2>1. \A i \in Item : Sited(item'[i])
    BY <1>4 DEF SitedInv, ItemsSited
  <2> QED
    BY <1>0, <2>1 DEF SitedInv, ItemsSited, HostedRows, Sited, SitedOn, Known
<1>6. cmd'.plans \subseteq cmd.plans /\ cmd'.at \in {"idle", "open", "repair"} /\ (cmd'.at # "repair" => cmd'.plans = {})
  BY <1>2, <1>3, BuiltCommands
<1>7. PlansSited'
  BY <1>0, <1>6 DEF SitedInv, PlansSited, Sited, SitedOn, Known
<1>8. CommandSited'
  BY <1>6, NothingSited DEF SiteSteps, ReadSteps
<1> QED
  BY <1>5, <1>7, <1>8 DEF SitedInv

\* The records that a disc event asks for.
LEMMA SitedEventItems ==
  ASSUME TypeOK, TypeOK', CommandOK, SitedInv, LostItems \/ FoundItems \/ UndoneItems
  PROVE  SitedInv'
<1>0. /\ disc' = disc /\ root' = root /\ ledger' = ledger /\ cmd.disc \in Disc
  BY DEF LostItems, FoundItems, UndoneItems, staging, CommandOK, DiscSteps, Steps
<1>1. PICK next \in {Go("lostRoot", cmd.disc), Idle, Go("undoing", cmd.disc)} :
        AppendOwed(Repair(disc[cmd.disc], cmd.disc), next) /\ (next.at = "lostRoot" => cmd.at = "lost")
  BY BuiltCommands DEF LostItems, FoundItems, UndoneItems
<1>2. PICK T \in SUBSET DOMAIN Repair(disc[cmd.disc], cmd.disc) :
        /\ item' = [i \in Item |-> IF i \in T THEN Repair(disc[cmd.disc], cmd.disc)[i] ELSE item[i]]
        /\ cmd' = IF T = DOMAIN Repair(disc[cmd.disc], cmd.disc) THEN next ELSE Idle
  BY <1>1, BatchParts
<1>3. \A i \in Item : item'[i] = item[i] \/ Sited(item'[i])
  BY <1>0, <1>2, RepairIsSited DEF SitedInv
<1>4. cmd'.plans = {} /\ cmd'.at \in {"idle", "undoing", "lostRoot"}
      /\ (cmd'.at = "lostRoot" => cmd'.disc = cmd.disc /\ cmd.at = "lost")
  BY <1>1, <1>2, BuiltCommands
<1>5. CommandSited'
  <2>1. cmd'.at = "lostRoot" => disc'[cmd'.disc].state = "lost"
    BY <1>0, <1>4 DEF SitedInv, CommandSited
  <2> QED
    BY <1>4, <2>1 DEF CommandSited, ReadSteps
<1> QED
  BY <1>0, <1>3, <1>4, <1>5, SitedBatch, RowsOnly

\* gc and recover write OnDisc records, commit and pack Staged ones.
LEMMA SitedRecords ==
  ASSUME TypeOK, TypeOK', SitedInv,
         GcItems \/ RecoverItems \/ RecheckItems \/ CommitRecords \/ \E d \in Disc : FinishStage(d) \/ PackPlans(d)
  PROVE  SitedInv'
<1>1. disc' = disc /\ names' = names /\ RowsStay /\ RowsOfHosted
  BY RowsOnly DEF GcItems, RecoverItems, RecheckItems, EnsureOnDisc, CommitRecords, FinishStage, PackPlans, staging, made
<1>2. \A i \in Item : item'[i] = item[i] \/ Sited(item'[i])
  <2>1. CASE GcItems
    <3> DEFINE recs == [i \in UNION {PackedItems(d) : d \in cmd.discs} |-> OnDiscOf(item[i].disc)]
    <3>1. PICK T \in SUBSET DOMAIN recs : item' = [i \in Item |-> IF i \in T THEN recs[i] ELSE item[i]]
      BY <2>1 DEF GcItems, AppendOwed, AppendItems, Written
    <3>2. \A i \in DOMAIN recs : Sited(recs[i])
      BY NewRecords DEF Sited
    <3> HIDE DEF recs
    <3> QED
      BY <3>1, <3>2
  <2>2. CASE RecoverItems \/ RecheckItems
    <3>1. PICK S, next : AppendItems(All(S, OnDiscOf(cmd.disc)), next)
      BY <2>2 DEF RecoverItems, RecheckItems, EnsureOnDisc
    <3> QED
      BY <3>1, NewRecords DEF AppendItems, All, Sited, Written
  <2>3. CASE CommitRecords \/ \E d \in Disc : FinishStage(d) \/ PackPlans(d)
    <3>1. PICK S, next : AppendItems(All(S, Staged), next)
      BY <2>3 DEF CommitRecords, FinishStage, PackPlans
    <3> QED
      BY <3>1, NewRecords DEF AppendItems, All, Sited, Written
  <2> QED
    BY <2>1, <2>2, <2>3
<1>3. cmd'.plans = {} /\ CommandSited'
  <2>1. CASE GcItems \/ RecoverItems \/ RecheckItems
    <3>1. PICK a \in {"unlink", "recoverEvents", "recheckEvent"} :
            /\ cmd' = [cmd EXCEPT !.at = a] \/ cmd' = Idle
            /\ a = "unlink" => cmd.at = "freed"
            /\ a = "recoverEvents" => cmd.at = "recoverItems"
            /\ cmd.at # "repair"
      BY <2>1 DEF GcItems, RecoverItems, RecheckItems, EnsureOnDisc, AppendOwed, AppendItems
    <3>2. cmd.plans = {} /\ cmd \in Cmd
      BY <3>1 DEF SitedInv, PlansSited, TypeOK
    <3>3. CASE cmd' = Idle
      BY <3>3, BuiltCommands, NothingSited DEF SiteSteps, ReadSteps
    <3>4. CASE cmd' = [cmd EXCEPT !.at = a]
      <4>1. cmd'.at = a /\ cmd'.disc = cmd.disc /\ cmd'.discs = cmd.discs /\ cmd'.plans = {}
        BY <3>2, <3>4, BuiltCommands
      <4> QED
        BY <1>1, <3>1, <4>1 DEF CommandSited, SitedInv, ReadSteps
    <3> QED
      BY <3>1, <3>3, <3>4
  <2>2. CASE CommitRecords \/ \E d \in Disc : FinishStage(d) \/ PackPlans(d)
    <3>1. PICK d, I : cmd' \in {Idle, Go("packTree", d), [Go("finishPack", d) EXCEPT !.items = I]}
      <4>1. CASE CommitRecords
        BY <4>1, BatchCommand DEF CommitRecords
      <4>2. ASSUME NEW d \in Disc, PackPlans(d)
            PROVE  cmd' \in {Idle, Go("packTree", d)}
        BY <4>2, BatchCommand DEF PackPlans
      <4>3. ASSUME NEW d \in Disc, FinishStage(d)
            PROVE  \E I : cmd' \in {Idle, [Go("finishPack", d) EXCEPT !.items = I]}
        BY <4>3, BatchCommand DEF FinishStage
      <4> QED
        BY <2>2, <4>1, <4>2, <4>3
    <3>2. cmd'.plans = {} /\ cmd'.at \in {"idle", "packTree", "finishPack"}
      <4>1. CASE cmd' \in {Idle, Go("packTree", d)}
        BY <4>1, BuiltCommands
      <4>2. CASE cmd' = [Go("finishPack", d) EXCEPT !.items = I]
        BY <4>2 DEF Go, Idle
      <4> QED
        BY <3>1, <4>1, <4>2
    <3> QED
      BY <3>2, NothingSited DEF SiteSteps, ReadSteps
  <2> QED
    BY <2>1, <2>2
<1> QED
  BY <1>1, <1>2, <1>3, SitedBatch

\* The disc that pack records has its row and its directory.
LEMMA SitedPackItems ==
  ASSUME TypeOK, TypeOK', CommandOK, UndoneInv, SitedInv, FinishPack \/ PackItems
  PROVE  SitedInv'
<1>1. disc' = disc /\ RowsStay /\ RowsOfHosted
  BY RowsOnly DEF FinishPack, PackItems, staging
<1>2. SitedOn(cmd.disc)
  <2>1. disc[cmd.disc].state = "unknown" /\ cmd.disc \in root \cap ledger
    BY DEF FinishPack, PackItems, CommandOK, NewDiscSteps, MakeSteps, UndoneInv, CommandTables, RowSteps
  <2> QED
    BY <2>1 DEF SitedOn, Absent
<1>3. PICK a \in {"finishEvent", "packEvent"} : AppendItems(All(cmd.items, PackedOn(cmd.disc)), Go(a, cmd.disc))
  BY DEF FinishPack, PackItems
<1>4. \A i \in Item : item'[i] = item[i] \/ item'[i] = PackedOn(cmd.disc)
  BY <1>3 DEF AppendItems, All, Written
<1>5. \A i \in Item : item'[i] = item[i] \/ Sited(item'[i])
  BY <1>2, <1>4, NewRecords DEF Sited
<1>6. cmd'.plans = {} /\ cmd'.at \in {"idle", "finishEvent", "packEvent"}
  BY <1>3, BatchCommand, BuiltCommands
<1> QED
  BY <1>1, <1>5, <1>6, SitedBatch, NothingSited DEF SiteSteps, ReadSteps

-----------------------------------------------------------------------------
(* Steps that change the discs or their rows. *)

\* What an event other than Packed and NamedMissing may make of a disc.
Onward(r, a) == /\ a.state = "unknown" => r.state = "unknown"
                /\ Hosted(a) => Hosted(r)
                /\ Absent(a) => Absent(r)

LEMMA ApplyOnward ==
  ASSUME NEW r \in DiscInfo, NEW e, e \notin {"Packed", "NamedMissing"}, Permits(r, e)
  PROVE  Onward(r, Apply(r, e))
<1>1. PICK a : a = Apply(r, e)
  OBVIOUS
<1>2. PICK t : t \in Targets(r, e) /\ a.state = t /\ t # "unknown"
  BY <1>1, ApplyType, ApplyUndone
<1>3. CASE e = "LostUndone"
  <2>1. r.state = "lost" /\ <<r.before, t>> \in FoundMoves
    BY <1>2, <1>3 DEF Targets, Moves
  <2> QED
    BY <1>1, <1>2, <2>1 DEF Onward, Hosted, Absent, FoundMoves
<1>4. CASE e # "LostUndone"
  <2>1. <<e, r.state, t>> \in Moves
    BY <1>2, <1>4 DEF Targets
  <2>2. CASE e = "Lost"
    <3>1. a.before = r.state
      BY <1>1, <2>2, Zenon DEF Apply
    <3> QED
      BY <1>1, <1>2, <2>1, <2>2, <3>1 DEF Onward, Hosted, Absent, Moves
  <2>3. CASE e # "Lost"
    BY <1>1, <1>2, <2>1, <2>3 DEF Onward, Hosted, Absent, Moves
  <2> QED
    BY <2>2, <2>3
<1> QED
  BY <1>3, <1>4

\* A step that writes events: a disc that becomes absent has no Packed record.
LEMMA SitedEvents ==
  ASSUME TypeOK, SitedInv, item' = item, root' = root, ledger' = ledger, cmd'.plans = {}, CommandSited',
         NEW N \in SUBSET Disc, \A d \in N : disc[d].state = "unknown" /\ d \notin root /\ disc'[d].state = "missing",
         \A d \in Disc \ N : Onward(disc[d], disc'[d]) \/ (d \in ledger /\ disc'[d].state = "packed")
  PROVE  SitedInv'
<1>1. ASSUME NEW d \in Disc, SitedOn(d) PROVE SitedOn(d)'
  <2>1. d \notin N
    BY <1>1 DEF SitedOn, Known
  <2> QED
    BY <1>1, <2>1 DEF SitedOn, Onward, Absent, Known
<1>2. ItemsSited'
  <2> SUFFICES ASSUME NEW i \in Item, item[i].state = "Packed" PROVE SitedOn(item[i].disc)'
    BY DEF ItemsSited, Sited
  <2>1. item[i].disc \in Disc /\ SitedOn(item[i].disc)
    BY RecordsTyped DEF SitedInv, ItemsSited, Sited
  <2> QED
    BY <1>1, <2>1
<1>3. HostedRows'
  BY DEF SitedInv, HostedRows, Hosted, Onward
<1> QED
  BY <1>2, <1>3 DEF SitedInv, PlansSited

LEMMA OneOnward ==
  ASSUME TypeOK, NEW d \in Disc, NEW e, e \notin {"Packed", "NamedMissing"}, Permits(disc[d], e), AppendEvent(d, e)
  PROVE  \A f \in Disc : Onward(disc[f], disc'[f])
<1>1. disc[d] \in DiscInfo
  BY DEF TypeOK
<1>2. \A f \in Disc : disc'[f] = IF f = d THEN Apply(disc[d], e) ELSE disc[f]
  BY DEF AppendEvent, TypeOK
<1>3. \A r : Onward(r, r)
  BY DEF Onward
<1> QED
  BY <1>1, <1>2, <1>3, ApplyOnward

LEMMA SitedOnward ==
  ASSUME TypeOK, SitedInv, item' = item, root' = root, ledger' = ledger, cmd'.plans = {}, CommandSited',
         \A f \in Disc : Onward(disc[f], disc'[f])
  PROVE  SitedInv'
  BY SitedEvents, {} \in SUBSET Disc

\* The events of one disc.
LEMMA SitedMarks ==
  ASSUME TypeOK, CommandOK, SitedInv,
         \/ RecheckEvent
         \/ \E d \in Disc : \/ DiscBurned(d) \/ DiscBurnedUndo(d) \/ DiscVerified(d) \/ VerifyUndo(d)
                           \/ VerifyFails(d) \/ DiscLost(d) \/ DiscLostUndo(d) \/ PackUndo(d)
  PROVE  SitedInv'
<1>1. item' = item /\ root' = root /\ ledger' = ledger
  BY DEF RecheckEvent, DiscBurned, DiscBurnedUndo, DiscVerified, VerifyUndo, Mark, VerifyFails, DiscLost,
         DiscLostUndo, PackUndo, staging
<1>2. PICK d \in Disc, e \in {"CheckOK", "BurnRecorded", "BurnRemoved", "MarkedVerified", "VerifyUndone",
                              "CheckFailed", "Lost", "LostUndone", "PackUndone"} :
        /\ Permits(disc[d], e) /\ AppendEvent(d, e)
        /\ cmd' = Idle \/ cmd' = Go("found", d) \/ cmd' = Go("undone", d) \/ (e = "Lost" /\ cmd' = Go("lost", d))
  <2>1. CASE RecheckEvent
    <3>1. cmd.disc \in Disc /\ disc[cmd.disc].state = "on disc only"
      BY <2>1 DEF RecheckEvent, CommandOK, DiscSteps, Steps
    <3>2. Permits(disc[cmd.disc], "CheckOK")
      BY <3>1, PermitStates DEF TypeOK
    <3> QED
      BY <2>1, <3>1, <3>2 DEF RecheckEvent
  <2>2. ASSUME NEW d \in Disc, VerifyFails(d) PROVE Permits(disc[d], "CheckFailed")
    BY <2>2, PermitStates DEF VerifyFails, CanVerify, TypeOK
  <2>3. CASE \E d \in Disc : DiscBurned(d) \/ DiscBurnedUndo(d) \/ DiscVerified(d) \/ VerifyUndo(d)
    BY <2>3 DEF DiscBurned, DiscBurnedUndo, DiscVerified, VerifyUndo, Mark
  <2>4. CASE \E d \in Disc : VerifyFails(d)
    BY <2>2, <2>4 DEF VerifyFails
  <2>5. CASE \E d \in Disc : DiscLost(d) \/ DiscLostUndo(d) \/ PackUndo(d)
    BY <2>5 DEF DiscLost, DiscLostUndo, PackUndo
  <2> QED
    BY <2>1, <2>3, <2>4, <2>5
<1>3. \A f \in Disc : Onward(disc[f], disc'[f])
  BY <1>2, OneOnward
<1>4. cmd'.plans = {} /\ CommandSited'
  <2>1. CASE cmd' = Idle \/ cmd' = Go("found", d) \/ cmd' = Go("undone", d)
    <3>1. cmd'.plans = {} /\ cmd'.at \in {"idle", "found", "undone"}
      BY <2>1, BuiltCommands
    <3> QED
      BY <3>1, NothingSited DEF SiteSteps, ReadSteps
  <2>2. CASE e = "Lost" /\ cmd' = Go("lost", d)
    <3>1. cmd'.plans = {} /\ cmd'.at = "lost" /\ cmd'.disc = d
      BY <2>2, BuiltCommands
    <3>2. Apply(disc[d], "Lost").state \in Targets(disc[d], "Lost") /\ disc'[d] = Apply(disc[d], "Lost")
      BY <1>2, <2>2, ApplyType DEF AppendEvent, TypeOK
    <3>3. disc'[d].state = "lost"
      BY <3>2 DEF Targets, Moves
    <3> QED
      BY <3>1, <3>3 DEF CommandSited, ReadSteps
  <2> QED
    BY <1>2, <2>1, <2>2
<1> QED
  BY <1>1, <1>3, <1>4, SitedOnward

LEMMA SitedVerify ==
  ASSUME TypeOK, CommandOK, SitedInv, VerifyRecords
  PROVE  SitedInv'
<1>1. PICK d : d = cmd.disc
  OBVIOUS
<1>2. PICK burned : burned = IF disc[d].state = "packed" THEN Apply(disc[d], "BurnRecorded") ELSE disc[d]
  OBVIOUS
<1>3. d \in Disc /\ disc[d].state \in {"packed", "burned", "verified", "on disc only"} /\ disc[d] \in DiscInfo
  BY <1>1 DEF VerifyRecords, CommandOK, DiscSteps, Steps, TypeOK
<1>4. burned \in DiscInfo /\ Onward(disc[d], burned) /\ burned.state \in {"burned", "verified", "on disc only"}
  <2>1. CASE disc[d].state = "packed"
    <3>1. Permits(disc[d], "BurnRecorded")
      BY <1>3, <2>1, PermitStates
    <3> QED
      BY <1>2, <1>3, <2>1, <3>1, AppliedStates, ApplyType, ApplyOnward
  <2>2. CASE disc[d].state # "packed"
    BY <1>2, <1>3, <2>2 DEF Onward
  <2> QED
    BY <2>1, <2>2
<1>5. Onward(burned, Apply(burned, "CheckOK"))
  BY <1>4, PermitStates, ApplyOnward
<1>6. Onward(disc[d], Apply(burned, "CheckOK"))
  BY <1>4, <1>5 DEF Onward
<1>7. disc' = [disc EXCEPT ![d] = Apply(burned, "CheckOK")] \/ disc' = [disc EXCEPT ![d] = burned]
  BY <1>1, <1>2 DEF VerifyRecords
<1>8. \A f \in Disc : Onward(disc[f], disc'[f])
  <2>1. \A f \in Disc : f # d => disc'[f] = disc[f]
    BY <1>7 DEF TypeOK
  <2>2. disc'[d] \in {burned, Apply(burned, "CheckOK")}
    BY <1>3, <1>7 DEF TypeOK
  <2>3. \A r : Onward(r, r)
    BY DEF Onward
  <2> QED
    BY <1>4, <1>6, <2>1, <2>2, <2>3
<1>9. item' = item /\ root' = root /\ ledger' = ledger /\ cmd'.plans = {} /\ CommandSited'
  BY BuiltCommands, NothingSited DEF VerifyRecords, staging, SiteSteps, ReadSteps
<1> QED
  BY <1>8, <1>9, SitedOnward

LEMMA SitedGcEvents ==
  ASSUME TypeOK, SitedInv, GcEvents
  PROVE  SitedInv'
<1>1. PICK G \in Written(Freeable) :
        /\ disc' = [d \in Disc |-> IF d \in G THEN Apply(disc[d], "Freed") ELSE disc[d]]
        /\ cmd' = IF G = Freeable
                  THEN [Go("freed", NoDisc) EXCEPT !.discs = Freeable \cup InState("on disc only"), !.items = Garbage]
                  ELSE Idle
  BY DEF GcEvents
<1>2. \A d \in G : d \in Disc /\ disc[d].state = "verified" /\ disc[d] \in DiscInfo
  BY DEF Written, Freeable, InState, TypeOK
<1>3. \A d \in G : Permits(disc[d], "Freed")
  BY <1>2, PermitStates
<1>4. \A f \in Disc : Onward(disc[f], disc'[f])
  <2>1. \A r : Onward(r, r)
    BY DEF Onward
  <2>2. \A d \in G : Onward(disc[d], Apply(disc[d], "Freed"))
    BY <1>2, <1>3, ApplyOnward
  <2> QED
    BY <1>1, <2>1, <2>2
<1>5. cmd'.plans = {} /\ CommandSited'
  <2>1. CASE cmd' = Idle
    BY <2>1, BuiltCommands, NothingSited DEF SiteSteps, ReadSteps
  <2>2. CASE G = Freeable
    <3>1. cmd'.at = "freed" /\ cmd'.discs = Freeable \cup InState("on disc only") /\ cmd'.plans = {}
      BY <1>1, <2>2 DEF Go, Idle
    <3>2. \A d \in Freeable : disc'[d].state = "on disc only"
      BY <1>1, <1>2, <1>3, <2>2, AwayEvents
    <3>3. \A d \in InState("on disc only") : disc'[d].state = "on disc only"
      BY <1>1, <1>2 DEF InState
    <3> QED
      BY <3>1, <3>2, <3>3 DEF CommandSited, ReadSteps
  <2> QED
    BY <1>1, <2>1, <2>2
<1>6. item' = item /\ root' = root /\ ledger' = ledger
  BY DEF GcEvents, staging
<1> QED
  BY <1>4, <1>5, <1>6, SitedOnward

\* A disc that recover names missing is in a table of another disc, which the
\* disc of a stopped pack is not.
LEMMA SitedRecoverEvents ==
  ASSUME TypeOK, CommandOK, UndoneInv, SitedInv, RecoverEvents
  PROVE  SitedInv'
<1>1. PICK d : d = cmd.disc
  OBVIOUS
<1>2. PICK recovered : recovered = Apply(disc[d], "Recovered")
  OBVIOUS
<1>3. PICK checked : checked = IF cmd.whole THEN recovered ELSE Apply(recovered, "CheckFailed")
  OBVIOUS
<1>4. PICK N \in SUBSET {e \in cmd.discs \ {d} : ~Known(e)}, r \in {recovered, checked} :
        disc' = [e \in Disc |-> IF e = d THEN r
                                ELSE IF e \in N THEN Apply(disc[e], "NamedMissing") ELSE disc[e]]
  BY <1>1, <1>2, <1>3 DEF RecoverEvents, Written
<1>5. d \in Disc /\ disc[d].state \in {"unknown", "missing"} /\ disc[d] \in DiscInfo
  BY <1>1 DEF RecoverEvents, CommandOK, DiscSteps, Steps, TypeOK
<1>6. recovered \in DiscInfo /\ recovered.state = "on disc only"
  BY <1>2, <1>5, PermitStates, AppliedStates, ApplyType
<1>7. Onward(disc[d], r)
  <2>1. Onward(disc[d], recovered)
    BY <1>2, <1>5, PermitStates, ApplyOnward
  <2>2. Onward(recovered, Apply(recovered, "CheckFailed"))
    BY <1>6, PermitStates, ApplyOnward
  <2> QED
    BY <1>3, <2>1, <2>2 DEF Onward
<1>8. \A e \in N : e \in Disc /\ disc[e].state = "unknown" /\ e \in names[d] \ {d}
  BY <1>1 DEF RecoverEvents, SitedInv, CommandSited, ReadSteps, Known, TypeOK, Cmd
<1>9. \A e \in N : e \notin root /\ disc'[e].state = "missing"
  <2>1. \A e \in N : e \notin root
    BY <1>5, <1>8 DEF UndoneInv, TablesInv, Known
  <2>2. \A e \in N : Apply(disc[e], "NamedMissing").state = "missing"
    BY <1>8, PermitStates, AwayEvents DEF TypeOK
  <2> QED
    BY <1>4, <1>8, <2>1, <2>2
<1>10. \A f \in Disc \ N : Onward(disc[f], disc'[f])
  <2>1. \A s : Onward(s, s)
    BY DEF Onward
  <2> QED
    BY <1>4, <1>5, <1>7, <2>1
<1>11. item' = item /\ root' = root /\ ledger' = ledger /\ cmd'.plans = {} /\ CommandSited'
  BY BuiltCommands, NothingSited DEF RecoverEvents, staging, SiteSteps, ReadSteps
<1>12. N \in SUBSET Disc
  BY <1>8
<1> QED
  BY <1>8, <1>9, <1>10, <1>11, <1>12, SitedEvents

LEMMA SitedPackedEvent ==
  ASSUME TypeOK, CommandOK, UndoneInv, SitedInv, FinishEvent \/ PackEvent
  PROVE  SitedInv'
<1>1. cmd.disc \in Disc /\ disc[cmd.disc].state = "unknown" /\ cmd.disc \in ledger
  BY DEF FinishEvent, PackEvent, CommandOK, DiscSteps, Steps, NewDiscSteps, MakeSteps, UndoneInv, CommandTables, RowSteps
<1>2. disc' = [disc EXCEPT ![cmd.disc] = Apply(disc[cmd.disc], "Packed")]
  BY DEF FinishEvent, PackEvent, AppendEvent
<1>3. Apply(disc[cmd.disc], "Packed").state = "packed"
  <2>1. Apply(disc[cmd.disc], "Packed").state \in Targets(disc[cmd.disc], "Packed")
    BY <1>1, PermitStates, ApplyType DEF TypeOK
  <2> QED
    BY <2>1 DEF Targets, Moves
<1>4. \A f \in Disc \ {} : Onward(disc[f], disc'[f]) \/ (f \in ledger /\ disc'[f].state = "packed")
  <2>1. \A s : Onward(s, s)
    BY DEF Onward
  <2>2. \A f \in Disc : disc'[f] = IF f = cmd.disc THEN Apply(disc[cmd.disc], "Packed") ELSE disc[f]
    BY <1>2 DEF TypeOK
  <2> QED
    BY <1>1, <1>3, <2>1, <2>2
<1>5. cmd' = Idle \/ cmd' = Go("pack", NoDisc)
  BY DEF FinishEvent, PackEvent
<1>6. item' = item /\ root' = root /\ ledger' = ledger /\ cmd'.plans = {} /\ cmd'.at \notin SiteSteps
  BY <1>5, BuiltCommands DEF FinishEvent, PackEvent, staging, SiteSteps, ReadSteps
<1> QED
  BY <1>4, <1>6, NothingSited, SitedEvents, {} \in SUBSET Disc

\* The steps that take rows and directories away.
LEMMA SitedRemoves ==
  ASSUME TypeOK, TypeOK', CommandOK, UndoneInv, SitedInv,
         LostRoot \/ GcUnlink \/ PackFails \/ PackRemoves \/ UndoRemoves
  PROVE  SitedInv'
<1>1. CASE LostRoot \/ GcUnlink \/ PackFails
  <2>1. RowsStay
    <3>1. CASE LostRoot
      <4>1. disc[cmd.disc].state = "lost"
        BY <3>1 DEF LostRoot, SitedInv, CommandSited
      <4> QED
        BY <3>1, <4>1 DEF LostRoot, RowsStay, Known
    <3>2. CASE GcUnlink
      <4>1. \A d \in cmd.discs : disc[d].state = "on disc only"
        BY <3>2 DEF GcUnlink, SitedInv, CommandSited
      <4> QED
        BY <3>2, <4>1 DEF GcUnlink, RowsStay, Known
    <3>3. CASE PackFails
      <4>1. root' = root \/ cmd.disc \notin ledger
        BY <3>3 DEF PackFails, UndoneInv, CommandTables, NewSteps
      <4> QED
        BY <3>3, <4>1 DEF PackFails, RowsStay
    <3> QED
      BY <1>1, <3>1, <3>2, <3>3
  <2>2. /\ disc' = disc /\ item' = item /\ ledger' = ledger /\ cmd'.plans = {}
        /\ cmd'.at \in {"idle", "packFails"}
    BY <1>1, BuiltCommands DEF LostRoot, GcUnlink, PackFails, logs
  <2>3. RowsOfHosted
    BY <2>2 DEF RowsOfHosted
  <2> QED
    BY <2>1, <2>2, <2>3, SitedStill, NothingSited DEF SiteSteps, ReadSteps
<1>2. CASE PackRemoves \/ UndoRemoves
  <2>1. PICK d \in Disc : RemoveNext(d) /\ (disc[d].state = "undone" \/ d \notin ledger)
    <3>1. CASE PackRemoves
      BY <3>1 DEF PackRemoves, Leftover, Stray, InState, TypeOK
    <3>2. CASE UndoRemoves
      BY <3>2 DEF UndoRemoves, CommandOK, DiscSteps, Steps, UndoneInv, CommandTables, UndoSteps
    <3> QED
      BY <1>2, <3>1, <3>2
  <2>2. RowsStay /\ RowsOfHosted
    <3>1. RowsStay
      BY <2>1, RowsRemoved
    <3>2. ledger' = ledger \/ (disc[d].state = "undone" /\ ledger' = ledger \ {d})
      BY <2>1 DEF RemoveNext
    <3> QED
      BY <3>1, <3>2 DEF RowsOfHosted, Hosted
  <2>3. disc' = disc /\ item' = item /\ cmd' = cmd /\ cmd.at \in {"pack", "undoing"}
    BY <1>2 DEF PackRemoves, UndoRemoves, logs
  <2>4. cmd'.plans = {} /\ CommandSited'
    BY <2>3, NothingSited DEF SitedInv, PlansSited, SiteSteps, ReadSteps
  <2> QED
    BY <2>2, <2>3, <2>4, SitedStill
<1> QED
  BY <1>1, <1>2

\* The steps that change no record, no disc and no row, or add to the rows.
LEMMA SitedQuiet ==
  ASSUME TypeOK, TypeOK', CommandOK, SitedInv,
         \/ Stop \/ PackBegins \/ PackTree \/ PackTables \/ PackRow \/ RecoverLedger
         \/ \E d \in Disc : VerifyReads(d) \/ CatalogStops(d) \/ Recover(d) \/ Burn(d)
         \/ \E s \in Snapshot : CommitWrites(s)
  PROVE  SitedInv'
<1>1. disc' = disc /\ item' = item /\ RowsStay /\ RowsOfHosted
  BY RowsOnly DEF Stop, PackBegins, PackTree, PackTables, PackRow, RecoverLedger, VerifyReads, CatalogStops,
                  Recover, Burn, CommitWrites, logs, staging
<1>2. cmd'.plans = {} /\ CommandSited'
  <2>1. CASE Stop \/ PackBegins \/ \E d \in Disc : VerifyReads(d) \/ CatalogStops(d) \/ Burn(d)
    <3>1. cmd' = Idle \/ \E d : cmd' \in {Go("pack", d), Go("read", d)}
      BY <2>1 DEF Stop, PackBegins, VerifyReads, CatalogStops, Burn
    <3>2. cmd'.plans = {} /\ cmd'.at \in {"idle", "pack", "read"}
      BY <3>1, BuiltCommands
    <3> QED
      BY <3>2, NothingSited DEF SiteSteps, ReadSteps
  <2>2. CASE PackTree \/ \E s \in Snapshot : CommitWrites(s)
    <3>1. PICK W : \/ cmd' = Idle \/ cmd' = [Go("commit", NoDisc) EXCEPT !.items = W]
                 \/ cmd' = [Go("packTables", cmd.disc) EXCEPT !.items = W]
      BY <2>2 DEF PackTree, CommitWrites
    <3>2. cmd'.plans = {} /\ cmd'.at \in {"idle", "commit", "packTables"}
      <4>1. CASE cmd' = Idle
        BY <4>1, BuiltCommands
      <4>2. CASE cmd' = [Go("commit", NoDisc) EXCEPT !.items = W]
        BY <4>2 DEF Go, Idle
      <4>3. CASE cmd' = [Go("packTables", cmd.disc) EXCEPT !.items = W]
        BY <4>3 DEF Go, Idle
      <4> QED
        BY <3>1, <4>1, <4>2, <4>3
    <3> QED
      BY <3>2, NothingSited DEF SiteSteps, ReadSteps
  <2>3. CASE PackTables \/ PackRow \/ RecoverLedger
    <3>1. PICK a \in {"packRow", "packItems", "recoverItems"} :
            /\ cmd' = [cmd EXCEPT !.at = a] /\ (a = "recoverItems" => cmd.at = "recover") /\ cmd.at # "repair"
            /\ (a = "recoverItems" => names' = names)
      BY <2>3 DEF PackTables, PackRow, RecoverLedger, made
    <3>2. cmd'.at = a /\ cmd'.disc = cmd.disc /\ cmd'.discs = cmd.discs /\ cmd'.plans = cmd.plans /\ cmd.plans = {}
      BY <3>1, BuiltCommands DEF TypeOK, SitedInv, PlansSited
    <3> QED
      BY <3>1, <3>2 DEF SitedInv, CommandSited, ReadSteps
  <2>4. ASSUME NEW d \in Disc, Recover(d) PROVE cmd'.plans = {} /\ CommandSited'
    <3>1. names' = names
      BY <2>4 DEF Recover, made
    <3> QED
      BY <2>4, <3>1, RecoverCommand DEF CommandSited, ReadSteps
  <2> QED
    BY <2>1, <2>2, <2>3, <2>4
<1> QED
  BY <1>1, <1>2, SitedStill

LEMMA SitedEmpty ==
  ASSUME disc = [d \in Disc |-> UnknownDisc], item = [i \in Item |-> NoRecord], cmd.at = "idle", cmd.plans = {}
  PROVE  SitedInv
<1>1. ItemsSited /\ HostedRows
  BY DEF ItemsSited, Sited, HostedRows, Hosted, UnknownDisc, NoRecord
<1> QED
  BY <1>1 DEF SitedInv, PlansSited, CommandSited, ReadSteps

LEMMA SitedLose ==
  ASSUME LoseRepository
  PROVE  SitedInv'
<1>1. /\ disc' = [d \in Disc |-> UnknownDisc] /\ item' = [i \in Item |-> NoRecord]
      /\ cmd'.at = "idle" /\ cmd'.plans = {}
  BY BuiltCommands DEF LoseRepository
<1>2. ItemsSited' /\ HostedRows'
  BY <1>1 DEF ItemsSited, Sited, HostedRows, Hosted, UnknownDisc, NoRecord
<1> QED
  BY <1>1, <1>2 DEF SitedInv, PlansSited, CommandSited, ReadSteps

LEMMA SitedStep ==
  ASSUME TypeOK, TypeOK', CommandOK, UndoneInv, SitedInv, [Next]_vars
  PROVE  SitedInv'
<1>1. CASE \E d \in Disc : DiscCommand(d) \/ Burn(d)
  BY <1>1, SitedMarks, SitedQuiet, SitedRecords DEF DiscCommand
<1>2. CASE UNCHANGED vars
  BY <1>2 DEF vars, SitedInv, ItemsSited, PlansSited, HostedRows, CommandSited, Sited, SitedOn, Known
<1>3. CASE \/ Open \/ RepairDisc \/ VerifyRecords \/ LostItems \/ FoundItems \/ UndoneItems \/ GcEvents \/ GcItems
           \/ RecoverItems \/ RecoverEvents \/ RecheckItems \/ RecheckEvent \/ CommitRecords
  BY <1>3, SitedOpen, SitedRepairDisc, SitedVerify, SitedEventItems, SitedGcEvents, SitedRecords,
     SitedRecoverEvents, SitedMarks
<1>4. CASE \/ FinishPack \/ PackItems \/ FinishEvent \/ PackEvent \/ LostRoot \/ GcUnlink \/ PackFails
           \/ PackRemoves \/ UndoRemoves \/ LoseRepository
  BY <1>4, SitedPackItems, SitedPackedEvent, SitedRemoves, SitedLose
<1>5. CASE \/ Stop \/ PackBegins \/ PackTree \/ PackTables \/ PackRow \/ RecoverLedger
           \/ \E s \in Snapshot : CommitWrites(s)
  BY <1>5, SitedQuiet
<1> QED
  BY <1>1, <1>2, <1>3, <1>4, <1>5 DEF Next

-----------------------------------------------------------------------------
(* The repository under the operator: every step of his is a step of         *)
(* Repository.tla or leaves the repository alone.                            *)

RepositoryInv ==
  /\ TypeOK /\ CommandOK /\ DataInv /\ NumberInv /\ UndoneInv
  /\ HeldInv /\ SitedInv

LEMMA RepositoryInit == Init => RepositoryInv
<1> SUFFICES ASSUME Init PROVE RepositoryInv
  OBVIOUS
<1>1. TypeOK /\ CommandOK /\ DataInv /\ NumberInv /\ UndoneInv
  BY TypeInit, DataInit, NumberInit, UndoneInit
<1>2. /\ cmd.at = "idle" /\ cmd.plans = {} /\ item = [i \in Item |-> NoRecord]
      /\ disc = [d \in Disc |-> UnknownDisc]
  BY BuiltCommands DEF Init
<1>3. HeldInv
  BY <1>2 DEF HeldInv, ItemsAreHeld, PlansAreHeld, Held, NoRecord
<1> QED
  BY <1>1, <1>2, <1>3, SitedEmpty DEF RepositoryInv

LEMMA LostHostHolds == LostHost => RepositoryInv
<1> SUFFICES ASSUME LostHost PROVE RepositoryInv
  OBVIOUS
<1>1. /\ cmd.at = "idle" /\ cmd.plans = {} /\ item = [i \in Item |-> NoRecord]
      /\ disc = [d \in Disc |-> UnknownDisc] /\ cmd \in Cmd
  BY BuiltCommands, GoType DEF LostHost
<1>2. \A d \in Disc : disc[d] = UnknownDisc /\ disc[d].state = "unknown" /\ ~disc[d].numbered
  BY <1>1 DEF UnknownDisc
<1>3. TypeOK
  <2>1. UnknownDisc \in DiscInfo
    BY DEF UnknownDisc, DiscInfo, DiscStates
  <2>2. content \in [Disc -> SUBSET Item] /\ names \in [Disc -> SUBSET Disc] /\ num \in [Disc -> Nat]
        /\ burnt \subseteq Disc
    BY OldDiscsAssumption DEF LostHost
  <2>3. disasters \in 0 .. Disasters
    BY ItemAssumption DEF LostHost
  <2>4. /\ index = {} /\ objects = {} /\ ledger = {} /\ files = {} /\ root = {}
        /\ proof = [d \in Disc |-> {}] /\ owed = NothingOwed
    BY DEF LostHost
  <2> QED
    BY <1>1, <2>1, <2>2, <2>3, <2>4, NothingOwedType DEF TypeOK
<1>4. CommandOK
  BY <1>1 DEF CommandOK, DiscSteps, NewDiscSteps, MakeSteps
<1>5. DataInv
  <2>1. RootRecorded
    BY OldDiscsAssumption DEF LostHost, RootRecorded
  <2>2. StagedDataKept
    BY <1>1 DEF StagedDataKept, NoRecord, Item
  <2> QED
    BY <1>1, <2>1, <2>2 DEF DataInv, PlansHaveData, DecisionHolds, TakingSteps
<1>6. NumberInv
  <2>1. disasters # 0
    BY ItemAssumption DEF LostHost
  <2> QED
    BY <1>1, <1>2, <2>1, UnknownRecordOK DEF NumberInv, RecordsOK, UndoSteps
<1>7. UndoneInv
  <2>1. ledger = {} /\ root = {}
    BY DEF LostHost
  <2>2. \A d \in Disc : names[d] \subseteq Disc
    BY <1>3 DEF TypeOK
  <2>3. \A d \in Disc : names[d] # {} => d \in names[d]
    BY OldDiscsAssumption DEF LostHost
  <2>4. \A d \in Disc : \A e \in names[d] : e \in names[e]
    BY OldDiscsAssumption DEF LostHost
  <2>5. \A d \in burnt : d \in names[d]
    BY OldDiscsAssumption DEF LostHost
  <2>6. TablesInv
    BY <1>2, <2>1, <2>2, <2>3, <2>4, <2>5 DEF TablesInv
  <2> QED
    BY <1>1, <2>1, <2>6 DEF UndoneInv, CommandTables, UndoneNeverNamed, NewSteps, RowSteps, UndoSteps
<1>8. HeldInv
  BY <1>1 DEF HeldInv, ItemsAreHeld, PlansAreHeld, Held, NoRecord
<1> QED
  BY <1>1, <1>3, <1>4, <1>5, <1>6, <1>7, <1>8, SitedEmpty DEF RepositoryInv

LEMMA RepositoryStep == RepositoryInv /\ [Next]_vars => RepositoryInv'
<1> SUFFICES ASSUME RepositoryInv, [Next]_vars PROVE RepositoryInv'
  OBVIOUS
<1>1. TypeOK /\ CommandOK /\ DataInv /\ NumberInv /\ UndoneInv /\ HeldInv /\ SitedInv
  BY DEF RepositoryInv
<1>2. TypeOK' /\ CommandOK'
  BY <1>1, TypeStep
<1>3. DataInv' /\ NumberInv'
  BY <1>1, <1>2, DataStep, NumberStep
<1>4. UndoneInv'
  BY <1>1, <1>2, UndoneStep
<1>5. HeldInv' /\ SitedInv'
  BY <1>1, <1>2, HeldStep, SitedStep
<1> QED
  BY <1>2, <1>3, <1>4, <1>5 DEF RepositoryInv

-----------------------------------------------------------------------------
(* The block.                                                                *)

DiscBlocks == {"missing", "lost", "verify", "burn"}

\* The operator's block names a disc where its command needs one.
ToldOK == told.step \in DiscBlocks => told.disc \in Disc

LEMMA BurnBlockSays ==
  ASSUME NEW d \in ToBurn
  PROVE  BurnBlock(d).step \in {"verify", "burn", "lost"} /\ BurnBlock(d).disc = d
<1>1. \/ FoundOnDiscOnly(d) \/ (disc[d].state = "burned" /\ ~disc[d].failed)
      \/ ~FoundOnDiscOnly(d) /\ (disc[d].state = "packed" \/ disc[d].failed)
  BY DEF ToBurn, FoundOnDiscOnly
<1>2. BurnBlock(d) \in {Say("verify", d), Say("burn", d), Say("lost", d)}
  BY <1>1, Zenon DEF BurnBlock
<1> QED
  BY <1>2 DEF Say

\* Each of its lists is empty.
NothingListed ==
  /\ ToRepair = {} /\ Shown \cap InState("missing") = {} /\ ToBurn = {}
  /\ Shown \cap InState("verified") = {} /\ StagedFiles = {}

\* The block names a disc that it lists, and says "nothing to do" only when
\* there is nothing to list.
LEMMA BlocksSay ==
  ASSUME TypeOK, NEW b \in Blocks
  PROVE  /\ b.step \in DiscBlocks => b.disc \in Disc
         /\ b.step = "nothing" => NothingListed
<1>1. \A S : Lowest(S) \subseteq S
  BY DEF Lowest
<1>2. Shown \subseteq Disc /\ Failed \subseteq Disc /\ ToBurn \subseteq Disc
  BY DEF Shown, Failed, ToBurn, TypeOK
<1>3. \/ b \in {Say("gc", NoDisc), Say("commit", NoDisc), Say("pack", NoDisc)}
      \/ b \in {Say("missing", d) : d \in Lowest(Shown \cap InState("missing"))}
      \/ b \in {Say("lost", d) : d \in Lowest(Failed)}
      \/ b \in {BurnBlock(d) : d \in Lowest(ToBurn)}
      \/ b = Say("nothing", NoDisc) /\ NothingListed
  BY DEF Blocks, NothingListed
<1>4. CASE b \in {Say("gc", NoDisc), Say("commit", NoDisc), Say("pack", NoDisc)}
  BY <1>4 DEF Say, DiscBlocks
<1>5. CASE b \in {Say("missing", d) : d \in Lowest(Shown \cap InState("missing"))}
  <2>1. PICK d \in Shown : b = Say("missing", d)
    BY <1>1, <1>5
  <2> QED
    BY <1>2, <2>1 DEF Say
<1>6. CASE b \in {Say("lost", d) : d \in Lowest(Failed)}
  <2>1. PICK d \in Failed : b = Say("lost", d)
    BY <1>1, <1>6
  <2> QED
    BY <1>2, <2>1 DEF Say
<1>7. CASE b \in {BurnBlock(d) : d \in Lowest(ToBurn)}
  <2>1. PICK d \in ToBurn : b = BurnBlock(d)
    BY <1>1, <1>7
  <2> QED
    BY <1>2, <2>1, BurnBlockSays
<1>8. CASE b = Say("nothing", NoDisc) /\ NothingListed
  BY <1>8 DEF Say, DiscBlocks
<1> QED
  BY <1>3, <1>4, <1>5, <1>6, <1>7, <1>8

\* The rest of a command is a step of the repository, of a running command.
LEMMA GoesOn ==
  ASSUME Goes
  PROVE  Next /\ cmd # Idle
<1>1. Idle.at = "idle"
  BY BuiltCommands
<1>2. CASE \E d \in Disc : FinishStage(d) \/ PackPlans(d)
  BY <1>1, <1>2 DEF Next, DiscCommand, FinishStage, PackPlans
<1>3. CASE PackFails
  BY <1>1, <1>3 DEF Next, PackFails
<1>4. CASE \/ RepairDisc \/ VerifyRecords \/ LostItems \/ LostRoot \/ GcItems \/ GcUnlink
           \/ RecoverLedger \/ RecoverItems \/ RecoverEvents \/ RecheckItems \/ RecheckEvent
  <2>1. Next
    BY <1>4 DEF Next
  <2> QED
    BY <1>1, <1>4, <2>1 DEF RepairDisc, VerifyRecords, LostItems, LostRoot, GcItems, GcUnlink,
       RecoverLedger, RecoverItems, RecoverEvents, RecheckItems, RecheckEvent
<1>5. CASE \/ CommitRecords \/ PackRemoves \/ FinishPack \/ FinishEvent
           \/ PackTree \/ PackTables \/ PackRow \/ PackItems \/ PackEvent
  <2>1. Next
    BY <1>5 DEF Next
  <2> QED
    BY <1>1, <1>5, <2>1 DEF CommitRecords, PackRemoves, FinishPack, FinishEvent,
       PackTree, PackTables, PackRow, PackItems, PackEvent
<1> QED
  BY <1>2, <1>3, <1>4, <1>5 DEF Goes

\* The command that the block names is a step of the repository.
LEMMA CommandIsStep ==
  ASSUME ToldOK, Command(told.disc)
  PROVE  Next /\ told.step # "nothing"
<1>1. PICK d : d = told.disc
  OBVIOUS
<1>2. \/ told.step = "gc" /\ GcEvents
      \/ told.step = "missing" /\ (Recover(d) \/ DiscLost(d))
      \/ told.step = "lost" /\ DiscLost(d)
      \/ told.step = "commit" /\ \E s \in Snapshot : CommitWrites(s)
      \/ told.step \in {"verify", "burn"} /\ (VerifyFails(d) \/ VerifyReads(d))
      \/ told.step = "pack" /\ PackBegins
  BY <1>1, Zenon DEF Command
<1>3. told.step \in DiscBlocks => d \in Disc
  BY <1>1 DEF ToldOK
<1>4. told.step # "nothing"
  BY <1>2
<1>5. GcEvents \/ PackBegins \/ (\E s \in Snapshot : CommitWrites(s)) \/ (d \in Disc /\ DiscCommand(d))
  BY <1>2, <1>3 DEF DiscBlocks, DiscCommand
<1> QED
  BY <1>4, <1>5 DEF Next

-----------------------------------------------------------------------------
(* What the block saw still holds while the operator rests. *)

RestInv == Rests => cmd = Idle /\ NothingListed

LEMMA NothingStays ==
  ASSUME NothingListed, UNCHANGED vars
  PROVE  NothingListed'
<1>1. ToRepair' = ToRepair
  BY DEF vars, ToRepair, Repair, Direct, ObjectsBack, GivenBack, PackedItems, Known
<1>2. Shown' = Shown /\ InState("missing")' = InState("missing") /\ InState("verified")' = InState("verified")
  BY DEF vars, Shown, InState
<1>3. ToBurn' = ToBurn /\ StagedFiles' = StagedFiles
  BY DEF vars, ToBurn, FoundOnDiscOnly, Shown, StagedFiles, Readable
<1> QED
  BY <1>1, <1>2, <1>3 DEF NothingListed

FollowedInv == RepositoryInv /\ ToldOK /\ RestInv

LEMMA FollowedInit == NextInit => FollowedInv
<1> SUFFICES ASSUME NextInit PROVE FollowedInv
  OBVIOUS
<1>1. told.step = "free"
  BY DEF NextInit, Free, Say
<1>2. RepositoryInv
  BY RepositoryInit, LostHostHolds DEF NextInit
<1> QED
  BY <1>1, <1>2 DEF FollowedInv, ToldOK, RestInv, Rests, DiscBlocks

\* Every step of the operator, with the block that he follows after it.
LEMMA FollowedMoves ==
  ASSUME FollowedInv, NextFollows
  PROVE  /\ [Next]_vars
         /\ ToldOK'
         /\ Rests' => UNCHANGED vars /\ cmd = Idle /\ NothingListed
<1>0. TypeOK /\ ToldOK /\ RestInv
  BY DEF FollowedInv, RepositoryInv
<1>1. CASE Anything
  <2>1. Next /\ told' = told /\ told.step = "free"
    BY <1>1 DEF Anything, Free, Say
  <2> QED
    BY <1>0, <2>1 DEF ToldOK, Rests
<1>2. CASE Begin
  <2>1. PICK b \in Blocks :
          /\ told' = b
          /\ \/ (b.step = "nothing" \/ (b.step = "burn" /\ b.disc \notin root)) /\ UNCHANGED vars
             \/ b.step = "burn" /\ Burn(b.disc)
             \/ b.step # "nothing" /\ Open
    BY <1>2 DEF Begin
  <2>2. /\ b.step \in DiscBlocks => b.disc \in Disc
        /\ b.step = "nothing" => NothingListed
    BY <1>0, BlocksSay
  <2>3. ToldOK'
    BY <2>1, <2>2 DEF ToldOK
  <2>4. CASE (b.step = "nothing" \/ (b.step = "burn" /\ b.disc \notin root)) /\ UNCHANGED vars
    BY <1>2, <2>1, <2>2, <2>3, <2>4 DEF Begin, Rests
  <2>5. CASE b.step = "burn" /\ Burn(b.disc)
    <3>1. b.disc \in Disc
      BY <2>2, <2>5 DEF DiscBlocks
    <3>2. Next
      BY <2>5, <3>1 DEF Next
    <3>3. ~Rests'
      BY <2>1, <2>5 DEF Rests
    <3> QED
      BY <2>3, <3>2, <3>3
  <2>6. CASE b.step # "nothing" /\ Open
    <3>1. ~Rests'
      BY <2>1, <2>6 DEF Rests
    <3>2. Next
      BY <2>6 DEF Next
    <3> QED
      BY <2>3, <3>1, <3>2
  <2> QED
    BY <2>1, <2>4, <2>5, <2>6
<1>3. CASE (Command(told.disc) \/ Goes) /\ UNCHANGED told
  <2>1. ToldOK'
    BY <1>0, <1>3 DEF ToldOK
  <2>2. Next
    BY <1>0, <1>3, CommandIsStep, GoesOn
  <2>3. ~Rests'
    <3> SUFFICES ASSUME Rests PROVE FALSE
      BY <1>3 DEF Rests
    <3>1. cmd = Idle
      BY <1>0 DEF RestInv
    <3>2. told.step = "nothing"
      BY DEF Rests
    <3> QED
      BY <1>0, <1>3, <3>1, <3>2, CommandIsStep, GoesOn
  <2> QED
    BY <2>1, <2>2, <2>3
<1> QED
  BY <1>1, <1>2, <1>3 DEF NextFollows, Follows

LEMMA FollowedStep == FollowedInv /\ [NextFollows]_nvars => FollowedInv'
<1> SUFFICES ASSUME FollowedInv, [NextFollows]_nvars PROVE FollowedInv'
  OBVIOUS
<1>1. CASE UNCHANGED nvars
  <2>1. UNCHANGED vars /\ told' = told
    BY <1>1 DEF nvars
  <2>2. RepositoryInv'
    BY <2>1, RepositoryStep DEF FollowedInv
  <2>3. ASSUME Rests PROVE cmd' = Idle /\ NothingListed'
    <3>1. cmd = Idle /\ NothingListed
      BY <2>3 DEF FollowedInv, RestInv
    <3>2. cmd' = cmd
      BY <2>1 DEF vars
    <3> QED
      BY <2>1, <3>1, <3>2, NothingStays
  <2> QED
    BY <2>1, <2>2, <2>3 DEF FollowedInv, ToldOK, RestInv, Rests
<1>2. CASE NextFollows
  <2>1. RepositoryInv' /\ ToldOK'
    BY <1>2, FollowedMoves, RepositoryStep DEF FollowedInv
  <2>2. ASSUME Rests' PROVE cmd' = Idle /\ NothingListed'
    <3>1. UNCHANGED vars /\ cmd = Idle /\ NothingListed
      BY <1>2, <2>2, FollowedMoves
    <3>2. cmd' = cmd
      BY <3>1 DEF vars
    <3> QED
      BY <3>1, <3>2, NothingStays
  <2> QED
    BY <2>1, <2>2 DEF FollowedInv, RestInv
<1> QED
  BY <1>1, <1>2

-----------------------------------------------------------------------------
(* With nothing to list no item is staged, and a packed one is on the disc   *)
(* of a stopped pack.                                                        *)

LEMMA NothingWaits ==
  ASSUME RepositoryInv, NothingListed, Interrupted = {}, NEW i \in Item
  PROVE  item[i].state \in {"none", "OnDisc", "Lost"}
<1>0. TypeOK /\ DataInv /\ HeldInv /\ SitedInv
  BY DEF RepositoryInv
<1>1. ASSUME item[i].state = "Staged" PROVE FALSE
  <2>1. i \in Readable
    BY <1>0, <1>1 DEF DataInv, StagedDataKept, HeldInv, ItemsAreHeld, Held, Item, Readable
  <2> QED
    BY <1>1, <2>1 DEF NothingListed, StagedFiles
<1>2. ASSUME item[i].state = "Packed" PROVE FALSE
  <2>1. PICK d \in Disc : d = item[i].disc
    BY <1>0, <1>2, RecordsTyped
  <2>2. SitedOn(d)
    BY <1>0, <1>2, <2>1 DEF SitedInv, ItemsSited, Sited
  <2>3. Known(d) /\ disc[d].state # "missing"
    BY <2>2 DEF SitedOn, Absent, Interrupted
  <2>4. disc[d].state \notin {"lost", "undone", "on disc only"}
    <3> SUFFICES ASSUME disc[d].state \in {"lost", "undone", "on disc only"} PROVE FALSE
      OBVIOUS
    <3>1. Follow(disc[d].state, item[i], i \in objects) \in {StagedByLoss, Staged, OnDiscOf(item[i].disc)}
      BY <1>2, Zenon DEF Follow
    <3>2. Follow(disc[d].state, item[i], i \in objects) # item[i]
      BY <1>2, <3>1, NewRecords
    <3>3. i \in Direct(disc[d], d)
      BY <2>1, <3>2 DEF Direct
    <3>4. DOMAIN Repair(disc[d], d) # {}
      BY <3>3 DEF Repair
    <3> QED
      BY <2>3, <3>4 DEF NothingListed, ToRepair
  <2>5. disc[d].state \in {"packed", "burned", "verified"}
    BY <1>0, <2>3, <2>4 DEF Known, TypeOK, DiscInfo, DiscStates
  <2>6. d \in Shown
    BY <1>0, <2>5 DEF SitedInv, HostedRows, Hosted, Shown
  <2> QED
    BY <2>5, <2>6 DEF NothingListed, ToBurn, InState
<1> QED
  BY <1>0, <1>1, <1>2, RecordFacts DEF TypeOK

\* While the operator has nothing to do, each item that the log knows is on a
\* disc that was checked or was lost with one, whatever commands, stops, burns
\* and losses were before, unless a stopped pack has no Packed event yet.
THEOREM RestedDataIsOnDiscs == FollowSpec => []RestedIsOnDiscs
<1>1. FollowedInv => RestedIsOnDiscs
  BY NothingWaits DEF FollowedInv, RestInv, RestedIsOnDiscs
<1> QED
  BY <1>1, FollowedInit, FollowedStep, PTL DEF FollowSpec

===============================================================================
