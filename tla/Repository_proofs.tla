-------------------------- MODULE Repository_proofs --------------------------
(***************************************************************************)
(* Proofs about Repository.tla, for every set of discs and items, with     *)
(* torn batches, damaged copies and early burns allowed: the types, and    *)
(* that the host keeps the chunk file of every staged or packed chunk.     *)
(*                                                                         *)
(* StagedDataKept is not inductive.  A command decides in one step what it *)
(* records or unlinks in a later one: gc which chunk files to remove, pack *)
(* and commit which items to record, openLogs which repairs to make.  The  *)
(* parts of DataInv say that what was decided is right when it is done.    *)
(*                                                                         *)
(* Then that a record names a disc that holds the item, that gc finds the  *)
(* INDEX of each verified disc, and that gc frees only what a check of the *)
(* disc vouches for (see "The holders of the items"); last the numbers of  *)
(* the discs and what their tables name.                                   *)
(***************************************************************************)
EXTENDS Repository, TLAPS

-----------------------------------------------------------------------------
(* The replay table and the item records. *)

\* An event that a disc permits gives a disc record, and the state that the
\* replay table names.
LEMMA ApplyType ==
  ASSUME NEW d \in DiscInfo, NEW e, Permits(d, e)
  PROVE  Apply(d, e) \in DiscInfo /\ Apply(d, e).state \in Targets(d, e)
<1>1. PICK t \in DiscStates : t \in Targets(d, e)
  BY DEF Permits, Targets
<1>2. (CHOOSE u \in DiscStates : u \in Targets(d, e)) \in DiscStates \cap Targets(d, e)
  BY <1>1
<1>3. d.state \in DiscStates /\ d.before \in DiscStates /\ d.numbered \in BOOLEAN /\ d.failed \in BOOLEAN
  BY DEF DiscInfo
<1>4. "unknown" \in DiscStates
  BY DEF DiscStates
<1> QED
  BY <1>2, <1>3, <1>4 DEF Apply, DiscInfo

\* The record that an item needs is a record.
LEMMA FollowType ==
  ASSUME NEW s, NEW r \in Record \cup {NoRecord}, NEW held, r.disc \in Disc
  PROVE  Follow(s, r, held) \in Record
<1>1. /\ r \in Record
      /\ r.disc \in Disc
  BY NoDiscAssumption DEF NoRecord
<1>2. StagedByLoss \in Record /\ Staged \in Record /\ LostOf(r.disc) \in Record /\ OnDiscOf(r.disc) \in Record
  BY <1>1 DEF Record, Reasons, Staged, StagedByLoss, OnDiscOf, LostOf
<1>3. Follow(s, r, held) \in {StagedByLoss, Staged, LostOf(r.disc), OnDiscOf(r.disc), r}
  BY DEF Follow
<1> QED
  BY <1>1, <1>2, <1>3

LEMMA RecordTypes ==
  /\ Staged \in Record /\ StagedByLoss \in Record
  /\ \A d \in Disc : PackedOn(d) \in Record /\ OnDiscOf(d) \in Record /\ LostOf(d) \in Record
  BY DEF Record, Reasons, Staged, StagedByLoss, PackedOn, OnDiscOf, LostOf

-----------------------------------------------------------------------------
(* Type correctness.  TypeOK is not inductive: Apply is a disc record only   *)
(* for an event that the disc permits, and a command reads the state that    *)
(* permits its event some steps before it writes the event.  CommandOK says  *)
(* that the state is still the one that it read.                             *)

DiscSteps == Steps \ {"idle", "repair", "open", "freed", "unlink", "commit", "pack"}

\* The steps of a pack that makes or finishes a disc, and the removal after an error.
MakeSteps == {"finishPack", "finishEvent",
              "packTree", "packTables", "packRow", "packItems", "packEvent"}
NewDiscSteps == MakeSteps \cup {"packFails"}

CommandOK ==
  /\ cmd.at \in DiscSteps => cmd.disc \in Disc
  /\ cmd.at = "read" =>
       disc[cmd.disc].state \in {"packed", "burned", "verified", "on disc only"}
  /\ cmd.at \in {"recover", "recoverItems", "recoverEvents"} =>
       disc[cmd.disc].state \in {"unknown", "missing"}
  /\ cmd.at \in {"recheck", "recheckEvent"} => disc[cmd.disc].state = "on disc only"
  /\ cmd.at \in NewDiscSteps => disc[cmd.disc].state = "unknown"

\* The states in which the replay table permits an event.
LEMMA PermitStates ==
  ASSUME NEW d \in DiscInfo
  PROVE  /\ d.state = "unknown" =>
              Permits(d, "Packed") /\ Permits(d, "Recovered") /\ Permits(d, "NamedMissing")
         /\ d.state = "missing" => Permits(d, "Recovered")
         /\ d.state = "packed" => Permits(d, "BurnRecorded")
         /\ d.state \in {"burned", "verified", "on disc only"} => Permits(d, "CheckOK")
         /\ d.state \in {"packed", "burned", "verified", "on disc only"} => Permits(d, "CheckFailed")
         /\ d.state = "verified" => Permits(d, "Freed")
  BY DEF Permits, Targets, Moves, DiscStates

\* What Recovered, BurnRecorded and Packed give.
LEMMA AppliedStates ==
  ASSUME NEW d \in DiscInfo
  PROVE  /\ Permits(d, "Recovered") => Apply(d, "Recovered").state = "on disc only"
         /\ Permits(d, "BurnRecorded") => Apply(d, "BurnRecorded").state = "burned"
<1>1. Targets(d, "Recovered") \subseteq {"on disc only"} /\ Targets(d, "BurnRecorded") \subseteq {"burned"}
  BY DEF Targets, Moves
<1> QED
  BY <1>1, ApplyType

\* A batch of the item log keeps the type of the log and of the command.
LEMMA AppendItemsType ==
  ASSUME TypeOK, NEW S \in SUBSET Item, NEW recs \in [S -> Record],
         NEW next \in Cmd, AppendItems(recs, next)
  PROVE  /\ item' \in [Item -> Record \cup {NoRecord}]
         /\ cmd' \in {next, Idle}
         /\ \A i \in Item : item'[i] = item[i] \/ (i \in S /\ item'[i] = recs[i])
<1>1. PICK T \in Written(DOMAIN recs) :
        /\ item' = [i \in Item |-> IF i \in T THEN recs[i] ELSE item[i]]
        /\ cmd' = IF T = DOMAIN recs THEN next ELSE Idle
  BY DEF AppendItems
<1>2. T \subseteq S
  BY <1>1 DEF Written
<1> QED
  BY <1>1, <1>2 DEF TypeOK

\* The commands that the actions build.
LEMMA GoType ==
  /\ Idle \in Cmd /\ Idle.at = "idle" /\ Idle.disc = NoDisc /\ Idle.plans = {}
  /\ \A a \in Steps, d \in Disc \cup {NoDisc} :
       Go(a, d) \in Cmd /\ Go(a, d).at = a /\ Go(a, d).disc = d /\ Go(a, d).plans = {}
  BY DEF Idle, Go, Cmd, Steps

LEMMA CmdType ==
  ASSUME NEW c \in Cmd
  PROVE  /\ c.at \in Steps /\ c.disc \in Disc \cup {NoDisc} /\ c.discs \subseteq Disc
         /\ c.items \subseteq Item
         /\ \A a \in Steps : /\ [c EXCEPT !.at = a] \in Cmd
                             /\ [c EXCEPT !.at = a].at = a
                             /\ [c EXCEPT !.at = a].disc = c.disc
  BY DEF Cmd

\* The repair plan of a disc.
LEMMA RepairType ==
  ASSUME TypeOK, NEW info, NEW d \in Disc
  PROVE  /\ DOMAIN Repair(info, d) \subseteq Item
         /\ Repair(info, d) \in [DOMAIN Repair(info, d) -> Record]
<1> DEFINE D == Direct(info, d) \cup ObjectsBack(info, d) \cup GivenBack(info, d)
<1>1. D \subseteq Item /\ DOMAIN Repair(info, d) = D
  BY DEF Direct, ObjectsBack, GivenBack, Repair, TypeOK
<1>2. ASSUME NEW i \in D PROVE Repair(info, d)[i] \in Record
  <2>1. CASE i \in GivenBack(info, d)
    BY <2>1, RecordTypes DEF Repair
  <2>2. CASE i \notin GivenBack(info, d) /\ i \in ObjectsBack(info, d)
    BY <2>2, RecordTypes DEF Repair
  <2>3. CASE i \notin GivenBack(info, d) /\ i \notin ObjectsBack(info, d)
    <3>1. i \in Direct(info, d)
      BY <2>3
    <3>2. item[i].disc = d /\ item[i] \in Record \cup {NoRecord}
      BY <3>1, <1>1 DEF Direct, TypeOK
    <3>3. Follow(info.state, item[i], i \in objects) \in Record
      BY <3>2, FollowType
    <3> QED
      BY <2>3, <3>3 DEF Repair
  <2> QED
    BY <2>1, <2>2, <2>3
<1> QED
  BY <1>1, <1>2 DEF Repair

LEMMA NothingOwedType == DOMAIN NothingOwed \subseteq Item /\ NothingOwed \in [DOMAIN NothingOwed -> Record]
  BY DEF NothingOwed

\* A batch that settles what is owed keeps the type of the history, too.
LEMMA AppendOwedType ==
  ASSUME TypeOK, NEW S \in SUBSET Item, NEW recs \in [S -> Record],
         NEW next \in Cmd, AppendOwed(recs, next)
  PROVE  /\ item' \in [Item -> Record \cup {NoRecord}]
         /\ cmd' \in {next, Idle}
         /\ DOMAIN owed' \subseteq Item /\ owed' \in [DOMAIN owed' -> Record]
<1>1. owed' \in {owed, NothingOwed}
  BY DEF AppendOwed
<1> QED
  BY <1>1, AppendItemsType, NothingOwedType DEF AppendOwed, TypeOK

\* The same record for every item of a set.
LEMMA AllType ==
  ASSUME NEW S \in SUBSET Item, NEW r \in Record
  PROVE  All(S, r) \in [S -> Record]
  BY DEF All

\* An event that the disc permits keeps the type of the disc log.
LEMMA EventType ==
  ASSUME TypeOK, NEW d \in Disc, NEW e, Permits(disc[d], e), AppendEvent(d, e)
  PROVE  disc' \in [Disc -> DiscInfo]
  BY ApplyType DEF AppendEvent, TypeOK

LEMMA VouchType ==
  ASSUME TypeOK, NEW d \in Disc, NEW e, Vouch(d, e)
  PROVE  proof' \in [Disc -> SUBSET Item]
  BY DEF Vouch, TypeOK

\* CommandOK asks nothing of a command that works on no disc yet.
LEMMA NoDiscStep == cmd'.at \in Steps \ DiscSteps => CommandOK'
  BY DEF CommandOK, DiscSteps, NewDiscSteps, MakeSteps, Steps

\* A repair plan of openLogs.
LEMMA PlanType ==
  ASSUME TypeOK, NEW d \in Disc
  PROVE  [disc |-> d, recs |-> Repair(disc[d], d)] \in Plan
  BY RepairType DEF Plan

LEMMA TypeOpen == TypeOK /\ Open => TypeOK' /\ CommandOK'
<1> SUFFICES ASSUME TypeOK, Open PROVE TypeOK' /\ CommandOK'
  OBVIOUS
<1>1. cmd' \in Cmd /\ cmd'.at \in {"open", "repair"}
  <2>1. CASE ToRepair = {}
    BY <2>1, GoType DEF Open, Steps
  <2>2. CASE ToRepair # {}
    <3> DEFINE P == {[disc |-> d, recs |-> Repair(disc[d], d)] : d \in ToRepair}
    <3>1. P \in SUBSET Plan
      BY PlanType DEF ToRepair
    <3>2. Go("repair", NoDisc) \in Cmd /\ Go("repair", NoDisc).at = "repair"
      BY GoType DEF Steps
    <3>3. cmd' = [Go("repair", NoDisc) EXCEPT !.plans = P]
      BY <2>2 DEF Open
    <3> QED
      BY <3>1, <3>2, <3>3 DEF Cmd
  <2> QED
    BY <2>1, <2>2
<1> QED
  BY <1>1, NoDiscStep DEF Open, TypeOK, logs, catalog, staging, made, Steps, DiscSteps

LEMMA TypeRepairDisc == TypeOK /\ RepairDisc => TypeOK' /\ CommandOK'
<1> SUFFICES ASSUME TypeOK, RepairDisc PROVE TypeOK' /\ CommandOK'
  OBVIOUS
<1> DEFINE Next1(p) == IF cmd.plans = {p} THEN Go("open", NoDisc)
                       ELSE [cmd EXCEPT !.plans = @ \ {p}]
<1>1. PICK p \in cmd.plans : AppendOwed(p.recs, Next1(p))
  BY DEF RepairDisc
<1>2. Next1(p) \in Cmd /\ Next1(p).at \in {"open", "repair"}
  BY GoType DEF RepairDisc, TypeOK, Cmd, Steps
<1>3. PICK S \in SUBSET Item : p.recs \in [S -> Record]
  <2>1. p \in Plan
    BY DEF TypeOK, Cmd
  <2>2. p.recs \in UNION {[S -> Record] : S \in SUBSET Item}
    BY <2>1 DEF Plan
  <2> QED
    BY <2>2
<1> HIDE DEF Next1
<1>4. /\ item' \in [Item -> Record \cup {NoRecord}]
      /\ cmd' \in {Next1(p), Idle}
      /\ DOMAIN owed' \subseteq Item /\ owed' \in [DOMAIN owed' -> Record]
  BY <1>1, <1>2, <1>3, AppendOwedType
<1>5. cmd' \in Cmd /\ cmd'.at \in {"idle", "open", "repair"}
  BY <1>2, <1>4, GoType
<1> QED
  BY <1>4, <1>5, NoDiscStep DEF RepairDisc, TypeOK, catalog, staging, made, Steps, DiscSteps

LEMMA TypeStop == TypeOK /\ Stop => TypeOK' /\ CommandOK'
<1> SUFFICES ASSUME TypeOK, Stop PROVE TypeOK' /\ CommandOK'
  OBVIOUS
<1>1. cmd' \in Cmd /\ cmd'.at = "idle"
  BY GoType DEF Stop
<1> QED
  BY <1>1, NoDiscStep DEF Stop, TypeOK, logs, catalog, staging, made, Steps, DiscSteps

LEMMA TypeMark ==
  ASSUME TypeOK, NEW d \in Disc, NEW e, Mark(d, e)
  PROVE  TypeOK' /\ CommandOK'
<1>1. disc' \in [Disc -> DiscInfo] /\ proof' \in [Disc -> SUBSET Item]
  BY EventType, VouchType DEF Mark
<1>2. cmd' \in Cmd /\ cmd'.at = "idle"
  BY GoType DEF Mark
<1> QED
  BY <1>1, <1>2, NoDiscStep DEF Mark, TypeOK, catalog, staging, made, Steps, DiscSteps

LEMMA TypeVerifyFails ==
  ASSUME TypeOK, NEW d \in Disc, VerifyFails(d)
  PROVE  TypeOK' /\ CommandOK'
<1>1. Permits(disc[d], "CheckFailed")
  BY PermitStates DEF VerifyFails, CanVerify, TypeOK
<1>2. disc' \in [Disc -> DiscInfo] /\ proof' \in [Disc -> SUBSET Item]
  BY <1>1, EventType, VouchType DEF VerifyFails
<1>3. cmd' \in Cmd /\ cmd'.at = "idle"
  BY GoType DEF VerifyFails
<1> QED
  BY <1>2, <1>3, NoDiscStep DEF VerifyFails, TypeOK, catalog, staging, made, Steps, DiscSteps

LEMMA TypeVerifyReads ==
  ASSUME TypeOK, NEW d \in Disc, VerifyReads(d)
  PROVE  TypeOK' /\ CommandOK'
<1>1. cmd' \in Cmd /\ cmd'.at = "read" /\ cmd'.disc = d
  BY GoType DEF VerifyReads, Steps
<1>2. TypeOK'
  BY <1>1 DEF VerifyReads, TypeOK, logs, staging, made
<1>3. CommandOK'
  BY <1>1 DEF VerifyReads, CanVerify, CommandOK, DiscSteps, NewDiscSteps, MakeSteps, Steps, logs
<1> QED
  BY <1>2, <1>3

LEMMA TypeCatalogStops ==
  ASSUME TypeOK, NEW d \in Disc, CatalogStops(d)
  PROVE  TypeOK' /\ CommandOK'
<1>1. cmd' \in Cmd /\ cmd'.at = "idle"
  BY GoType DEF CatalogStops
<1>2. objects' \subseteq Meta
  BY DEF CatalogStops, TypeOK
<1> QED
  BY <1>1, <1>2, NoDiscStep DEF CatalogStops, TypeOK, logs, staging, made, Steps, DiscSteps

LEMMA TypeVerifyRecords == TypeOK /\ CommandOK /\ VerifyRecords => TypeOK' /\ CommandOK'
<1> SUFFICES ASSUME TypeOK, CommandOK, VerifyRecords PROVE TypeOK' /\ CommandOK'
  OBVIOUS
<1> DEFINE d == cmd.disc
           burned == IF disc[d].state = "packed" THEN Apply(disc[d], "BurnRecorded") ELSE disc[d]
<1>1. d \in Disc /\ disc[d].state \in {"packed", "burned", "verified", "on disc only"} /\ disc[d] \in DiscInfo
  BY DEF VerifyRecords, CommandOK, DiscSteps, Steps, TypeOK
<1>2. burned \in DiscInfo /\ burned.state \in {"burned", "verified", "on disc only"}
  BY <1>1, PermitStates, AppliedStates, ApplyType
<1>3. Apply(burned, "CheckOK") \in DiscInfo
  BY <1>2, PermitStates, ApplyType
<1>4. cmd' \in Cmd /\ cmd'.at = "idle"
  BY GoType DEF VerifyRecords
<1>5. proof' \in [Disc -> SUBSET Item]
  BY <1>1, VouchType DEF VerifyRecords, TypeOK
<1>6. disc' = [disc EXCEPT ![d] = Apply(burned, "CheckOK")] \/ disc' = [disc EXCEPT ![d] = burned]
  BY DEF VerifyRecords
<1> HIDE DEF burned
<1>7. disc' \in [Disc -> DiscInfo]
  BY <1>1, <1>2, <1>3, <1>6 DEF TypeOK
<1> QED
  BY <1>4, <1>5, <1>7, NoDiscStep DEF VerifyRecords, TypeOK, catalog, staging, made, Steps, DiscSteps

\* disc lost, disc lost --undo and pack --undo write an event and know what it
\* asks for.
LEMMA OwedType ==
  ASSUME TypeOK, NEW d \in Disc, NEW info, owed' = Repair(info, d)
  PROVE  DOMAIN owed' \subseteq Item /\ owed' \in [DOMAIN owed' -> Record]
  BY RepairType

LEMMA TypeDiscLost ==
  ASSUME TypeOK, NEW d \in Disc, DiscLost(d)
  PROVE  TypeOK' /\ CommandOK'
<1>1. disc' \in [Disc -> DiscInfo]
  BY EventType DEF DiscLost
<1>2. DOMAIN owed' \subseteq Item /\ owed' \in [DOMAIN owed' -> Record]
  BY OwedType DEF DiscLost
<1>3. cmd' \in Cmd /\ cmd'.at = "lost" /\ cmd'.disc = d
  BY GoType DEF DiscLost, Steps
<1>4. TypeOK'
  BY <1>1, <1>2, <1>3 DEF DiscLost, TypeOK, catalog, staging, made
<1> QED
  BY <1>3, <1>4 DEF CommandOK, NewDiscSteps, MakeSteps

LEMMA TypeDiscLostUndo ==
  ASSUME TypeOK, NEW d \in Disc, DiscLostUndo(d)
  PROVE  TypeOK' /\ CommandOK'
<1>1. disc' \in [Disc -> DiscInfo] /\ proof' \in [Disc -> SUBSET Item]
  BY EventType, VouchType DEF DiscLostUndo
<1>2. DOMAIN owed' \subseteq Item /\ owed' \in [DOMAIN owed' -> Record]
  BY OwedType DEF DiscLostUndo
<1>3. cmd' \in Cmd /\ cmd'.at = "found" /\ cmd'.disc = d
  BY GoType DEF DiscLostUndo, Steps
<1>4. TypeOK'
  BY <1>1, <1>2, <1>3 DEF DiscLostUndo, TypeOK, catalog, staging, made
<1> QED
  BY <1>3, <1>4 DEF CommandOK, NewDiscSteps, MakeSteps

LEMMA TypePackUndo ==
  ASSUME TypeOK, NEW d \in Disc, PackUndo(d)
  PROVE  TypeOK' /\ CommandOK'
<1>1. disc' \in [Disc -> DiscInfo]
  BY EventType DEF PackUndo
<1>2. DOMAIN owed' \subseteq Item /\ owed' \in [DOMAIN owed' -> Record]
  BY OwedType DEF PackUndo
<1>3. cmd' \in Cmd /\ cmd'.at = "undone" /\ cmd'.disc = d
  BY GoType DEF PackUndo, Steps
<1>4. TypeOK'
  BY <1>1, <1>2, <1>3 DEF PackUndo, TypeOK, catalog, staging, made
<1> QED
  BY <1>3, <1>4 DEF CommandOK, NewDiscSteps, MakeSteps

\* The item records of such an event: the repair plan of the disc.
LEMMA AppendRepairType ==
  ASSUME TypeOK, NEW d \in Disc, NEW a \in Steps, AppendOwed(Repair(disc[d], d), Go(a, d))
  PROVE  /\ item' \in [Item -> Record \cup {NoRecord}]
         /\ DOMAIN owed' \subseteq Item /\ owed' \in [DOMAIN owed' -> Record]
         /\ cmd' \in Cmd /\ (cmd'.at = "idle" \/ (cmd'.at = a /\ cmd'.disc = d))
<1>1. Repair(disc[d], d) \in [DOMAIN Repair(disc[d], d) -> Record] /\ DOMAIN Repair(disc[d], d) \in SUBSET Item
  BY RepairType
<1>2. Go(a, d) \in Cmd /\ Go(a, d).at = a /\ Go(a, d).disc = d /\ Idle \in Cmd /\ Idle.at = "idle"
  BY GoType
<1> QED
  BY <1>1, <1>2, AppendOwedType

LEMMA TypeLostItems == TypeOK /\ CommandOK /\ LostItems => TypeOK' /\ CommandOK'
<1> SUFFICES ASSUME TypeOK, CommandOK, LostItems PROVE TypeOK' /\ CommandOK'
  OBVIOUS
<1>1. cmd.disc \in Disc /\ "lostRoot" \in Steps
  BY DEF LostItems, CommandOK, DiscSteps, Steps
<1>2. AppendOwed(Repair(disc[cmd.disc], cmd.disc), Go("lostRoot", cmd.disc))
  BY DEF LostItems
<1>3. /\ item' \in [Item -> Record \cup {NoRecord}]
      /\ DOMAIN owed' \subseteq Item /\ owed' \in [DOMAIN owed' -> Record]
      /\ cmd' \in Cmd /\ (cmd'.at = "idle" \/ (cmd'.at = "lostRoot" /\ cmd'.disc = cmd.disc))
  BY <1>1, <1>2, AppendRepairType
<1>4. TypeOK'
  BY <1>3 DEF LostItems, TypeOK, catalog, staging, made
<1> QED
  BY <1>1, <1>3, <1>4 DEF CommandOK, DiscSteps, NewDiscSteps, MakeSteps

LEMMA TypeLostRoot == TypeOK /\ LostRoot => TypeOK' /\ CommandOK'
<1> SUFFICES ASSUME TypeOK, LostRoot PROVE TypeOK' /\ CommandOK'
  OBVIOUS
<1>1. cmd' \in Cmd /\ cmd'.at = "idle"
  BY GoType DEF LostRoot
<1> QED
  BY <1>1, NoDiscStep DEF LostRoot, TypeOK, logs, catalog, made, Steps, DiscSteps

LEMMA TypeFoundItems == TypeOK /\ CommandOK /\ FoundItems => TypeOK' /\ CommandOK'
<1> SUFFICES ASSUME TypeOK, CommandOK, FoundItems PROVE TypeOK' /\ CommandOK'
  OBVIOUS
<1>1. cmd.disc \in Disc
  BY DEF FoundItems, CommandOK, DiscSteps, Steps
<1>2. Repair(disc[cmd.disc], cmd.disc) \in [DOMAIN Repair(disc[cmd.disc], cmd.disc) -> Record]
      /\ DOMAIN Repair(disc[cmd.disc], cmd.disc) \in SUBSET Item
  BY <1>1, RepairType
<1>3. /\ item' \in [Item -> Record \cup {NoRecord}]
      /\ DOMAIN owed' \subseteq Item /\ owed' \in [DOMAIN owed' -> Record]
      /\ cmd' = Idle
  BY <1>2, AppendOwedType, GoType DEF FoundItems
<1>4. cmd' \in Cmd /\ cmd'.at = "idle"
  BY <1>3, GoType
<1> QED
  BY <1>3, <1>4, NoDiscStep DEF FoundItems, TypeOK, catalog, staging, made, Steps, DiscSteps

LEMMA TypeUndoneItems == TypeOK /\ CommandOK /\ UndoneItems => TypeOK' /\ CommandOK'
<1> SUFFICES ASSUME TypeOK, CommandOK, UndoneItems PROVE TypeOK' /\ CommandOK'
  OBVIOUS
<1>1. cmd.disc \in Disc /\ "undoing" \in Steps
  BY DEF UndoneItems, CommandOK, DiscSteps, Steps
<1>2. AppendOwed(Repair(disc[cmd.disc], cmd.disc), Go("undoing", cmd.disc))
  BY DEF UndoneItems
<1>3. /\ item' \in [Item -> Record \cup {NoRecord}]
      /\ DOMAIN owed' \subseteq Item /\ owed' \in [DOMAIN owed' -> Record]
      /\ cmd' \in Cmd /\ (cmd'.at = "idle" \/ (cmd'.at = "undoing" /\ cmd'.disc = cmd.disc))
  BY <1>1, <1>2, AppendRepairType
<1>4. TypeOK'
  BY <1>3 DEF UndoneItems, TypeOK, catalog, staging, made
<1> QED
  BY <1>1, <1>3, <1>4 DEF CommandOK, DiscSteps, NewDiscSteps, MakeSteps

\* The disc of the command keeps its tables or loses a part of itself.
LEMMA RemoveType ==
  ASSUME TypeOK, NEW d, RemoveNext(d)
  PROVE  ledger' \subseteq Disc /\ index' \subseteq Disc /\ root' \subseteq Disc
  BY DEF RemoveNext, TypeOK

LEMMA TypeUndoRemoves == TypeOK /\ CommandOK /\ UndoRemoves => TypeOK' /\ CommandOK'
  BY RemoveType DEF UndoRemoves, TypeOK, CommandOK, logs, made

LEMMA TypePackRemoves == TypeOK /\ CommandOK /\ PackRemoves => TypeOK' /\ CommandOK'
  BY RemoveType DEF PackRemoves, TypeOK, CommandOK, logs, made

LEMMA TypeGcEvents == TypeOK /\ GcEvents => TypeOK' /\ CommandOK'
<1> SUFFICES ASSUME TypeOK, GcEvents PROVE TypeOK' /\ CommandOK'
  OBVIOUS
<1>1. PICK G \in Written(Freeable) :
        /\ disc' = [d \in Disc |-> IF d \in G THEN Apply(disc[d], "Freed") ELSE disc[d]]
        /\ owed' = [i \in UNION {PackedItems(d) : d \in G} |-> OnDiscOf(item[i].disc)]
        /\ cmd' = IF G = Freeable
                  THEN [Go("freed", NoDisc) EXCEPT !.discs = Freeable \cup InState("on disc only"),
                                                   !.items = Garbage]
                  ELSE Idle
  BY DEF GcEvents
<1>2. G \subseteq Disc /\ \A d \in G : disc[d].state = "verified"
  BY <1>1 DEF Written, Freeable, InState
<1>3. disc' \in [Disc -> DiscInfo]
  BY <1>1, <1>2, PermitStates, ApplyType DEF TypeOK
<1>4. DOMAIN owed' \subseteq Item /\ owed' \in [DOMAIN owed' -> Record]
  <2>1. \A d \in G : \A i \in PackedItems(d) : i \in Item /\ OnDiscOf(item[i].disc) \in Record
    BY <1>2, RecordTypes DEF PackedItems, PackedOn
  <2> QED
    BY <1>1, <2>1
<1>5. cmd' \in Cmd /\ cmd'.at \in {"freed", "idle"}
  <2>1. Freeable \cup InState("on disc only") \subseteq Disc /\ Garbage \subseteq Item
    BY DEF Freeable, InState, Garbage, TypeOK, Item
  <2>2. Go("freed", NoDisc) \in Cmd /\ Go("freed", NoDisc).at = "freed"
    BY GoType DEF Steps
  <2>3. [Go("freed", NoDisc) EXCEPT !.discs = Freeable \cup InState("on disc only"),
                                    !.items = Garbage] \in Cmd
    BY <2>1, <2>2 DEF Cmd
  <2> QED
    BY <1>1, <2>2, <2>3, GoType DEF Cmd
<1> QED
  BY <1>3, <1>4, <1>5, NoDiscStep DEF GcEvents, TypeOK, catalog, staging, made, Steps, DiscSteps

LEMMA TypeGcItems == TypeOK /\ GcItems => TypeOK' /\ CommandOK'
<1> SUFFICES ASSUME TypeOK, GcItems PROVE TypeOK' /\ CommandOK'
  OBVIOUS
<1> DEFINE S == UNION {PackedItems(d) : d \in cmd.discs}
           recs == [i \in S |-> OnDiscOf(item[i].disc)]
           next == [cmd EXCEPT !.at = "unlink"]
<1>1. \A d \in cmd.discs : \A i \in PackedItems(d) : i \in Item /\ OnDiscOf(item[i].disc) \in Record
  BY CmdType, RecordTypes DEF PackedItems, PackedOn, TypeOK
<1>2. S \in SUBSET Item /\ recs \in [S -> Record]
  BY <1>1
<1>3. next \in Cmd /\ next.at = "unlink"
  <2>1. cmd \in Cmd /\ "unlink" \in Steps
    BY DEF TypeOK, Steps
  <2> QED
    BY <2>1, CmdType
<1>4. AppendOwed(recs, next)
  BY DEF GcItems
<1> HIDE DEF S, recs, next
<1>5. /\ item' \in [Item -> Record \cup {NoRecord}]
      /\ DOMAIN owed' \subseteq Item /\ owed' \in [DOMAIN owed' -> Record]
      /\ cmd' \in {next, Idle}
  BY <1>2, <1>3, <1>4, AppendOwedType
<1>6. cmd' \in Cmd /\ cmd'.at \in {"unlink", "idle"}
  BY <1>3, <1>5, GoType
<1> QED
  BY <1>5, <1>6, NoDiscStep DEF GcItems, TypeOK, catalog, staging, made, Steps, DiscSteps

LEMMA TypeGcUnlink == TypeOK /\ GcUnlink => TypeOK' /\ CommandOK'
<1> SUFFICES ASSUME TypeOK, GcUnlink PROVE TypeOK' /\ CommandOK'
  OBVIOUS
<1>1. cmd' \in Cmd /\ cmd'.at = "idle"
  BY GoType DEF GcUnlink
<1>2. files' \subseteq Chunk /\ root' \subseteq Disc
  BY DEF GcUnlink, TypeOK
<1> QED
  BY <1>1, <1>2, NoDiscStep DEF GcUnlink, TypeOK, logs, catalog, made, Steps, DiscSteps

\* What recover read, and what it goes on with.
LEMMA RecoverCommand ==
  ASSUME TypeOK, NEW d \in Disc, Recover(d)
  PROVE  /\ objects' \subseteq Meta /\ index' \subseteq Disc
         /\ cmd' \in Cmd /\ cmd'.plans = {}
         /\ \/ cmd'.at = "idle"
            \/ /\ cmd'.at = "recover" /\ cmd'.disc = d /\ cmd'.discs \subseteq names[d]
               /\ disc[d].state \in {"unknown", "missing"}
            \/ cmd'.at = "recheck" /\ cmd'.disc = d /\ disc[d].state = "on disc only"
<1>1. PICK bad \in IF Damage THEN SUBSET content[d] ELSE {{}},
           goodRefs, goodDiscs \in IF Damage THEN BOOLEAN ELSE {TRUE} :
        LET whole == bad = {} /\ goodRefs /\ goodDiscs
            read  == [Go("recover", d) EXCEPT
                        !.items = content[d] \ bad,
                        !.discs = IF goodDiscs THEN names[d] ELSE {},
                        !.whole = whole]
        IN /\ objects' = objects \cup ((content[d] \ bad) \cap Meta)
           /\ index' = IF goodRefs /\ goodDiscs THEN index \cup {d} ELSE index
           /\ cmd' = IF disc[d].state \in {"unknown", "missing"} THEN read
                     ELSE IF disc[d].state = "on disc only" /\ disc[d].failed /\ whole
                          THEN [read EXCEPT !.at = "recheck"]
                          ELSE Idle
  BY DEF Recover
<1> DEFINE named == IF goodDiscs THEN names[d] ELSE {}
           whole == bad = {} /\ goodRefs /\ goodDiscs
           read == [Go("recover", d) EXCEPT !.items = content[d] \ bad, !.discs = named, !.whole = whole]
<1>2. objects' \subseteq Meta /\ index' \subseteq Disc
  BY <1>1 DEF TypeOK
<1>3. content[d] \ bad \subseteq Item /\ named \subseteq Disc /\ named \subseteq names[d] /\ whole \in BOOLEAN
  BY DEF TypeOK
<1>4. Go("recover", d) \in Cmd /\ Go("recover", d).at = "recover" /\ Go("recover", d).disc = d
      /\ Go("recover", d).plans = {} /\ Idle.plans = {}
  BY GoType DEF Steps
<1>5. cmd' = IF disc[d].state \in {"unknown", "missing"} THEN read
             ELSE IF disc[d].state = "on disc only" /\ disc[d].failed /\ whole
                  THEN [read EXCEPT !.at = "recheck"]
                  ELSE Idle
  BY <1>1
<1> HIDE DEF named, whole
<1>6. read \in Cmd /\ read.at = "recover" /\ read.disc = d /\ read.discs = named /\ read.plans = {}
  BY <1>3, <1>4 DEF Cmd
<1>7. [read EXCEPT !.at = "recheck"] \in Cmd /\ [read EXCEPT !.at = "recheck"].at = "recheck"
      /\ [read EXCEPT !.at = "recheck"].disc = d /\ [read EXCEPT !.at = "recheck"].plans = {}
  <2> HIDE DEF read
  <2>1. "recheck" \in Steps
    BY DEF Steps
  <2> QED
    BY <1>6, <2>1, CmdType DEF Cmd
<1> HIDE DEF read
<1> QED
  BY <1>2, <1>3, <1>4, <1>5, <1>6, <1>7, GoType

LEMMA TypeRecover ==
  ASSUME TypeOK, NEW d \in Disc, Recover(d)
  PROVE  TypeOK' /\ CommandOK'
<1>1. TypeOK' /\ disc' = disc
  BY RecoverCommand DEF Recover, TypeOK, logs, staging, made
<1> QED
  BY <1>1, RecoverCommand DEF CommandOK, NewDiscSteps, MakeSteps, DiscSteps

LEMMA TypeRecoverLedger == TypeOK /\ CommandOK /\ RecoverLedger => TypeOK' /\ CommandOK'
<1> SUFFICES ASSUME TypeOK, CommandOK, RecoverLedger PROVE TypeOK' /\ CommandOK'
  OBVIOUS
<1>1. cmd' \in Cmd /\ cmd'.at = "recoverItems" /\ cmd'.disc = cmd.disc /\ cmd.discs \subseteq Disc
  BY CmdType DEF RecoverLedger, Steps, TypeOK
<1>2. TypeOK'
  BY <1>1 DEF RecoverLedger, TypeOK, logs, catalog, staging, made
<1>3. CommandOK'
  BY <1>1 DEF CommandOK, DiscSteps, NewDiscSteps, MakeSteps, RecoverLedger, Steps, logs
<1> QED
  BY <1>2, <1>3

LEMMA TypeEnsureOnDisc ==
  ASSUME TypeOK, CommandOK, NEW a \in Steps, cmd.disc \in Disc, EnsureOnDisc(a)
  PROVE  /\ TypeOK' /\ disc' = disc
         /\ cmd'.at = "idle" \/ (cmd'.at = a /\ cmd'.disc = cmd.disc)
<1> DEFINE S == {i \in cmd.items : NotKnown(item[i])}
           next == [cmd EXCEPT !.at = a]
<1>1. S \in SUBSET Item /\ All(S, OnDiscOf(cmd.disc)) \in [S -> Record]
  BY CmdType, RecordTypes, AllType DEF TypeOK
<1>2. next \in Cmd /\ next.at = a /\ next.disc = cmd.disc
  BY CmdType DEF TypeOK
<1>3. AppendItems(All(S, OnDiscOf(cmd.disc)), next) /\ proof' = [proof EXCEPT ![cmd.disc] = @ \cup cmd.items]
  BY DEF EnsureOnDisc
<1> HIDE DEF S, next
<1>4. item' \in [Item -> Record \cup {NoRecord}] /\ cmd' \in {next, Idle}
  BY <1>1, <1>2, <1>3, AppendItemsType
<1>5. cmd' \in Cmd /\ (cmd'.at = "idle" \/ (cmd'.at = a /\ cmd'.disc = cmd.disc))
  BY <1>2, <1>4, GoType
<1>6. proof' \in [Disc -> SUBSET Item]
  BY <1>3, CmdType DEF TypeOK
<1>7. TypeOK' /\ disc' = disc
  BY <1>4, <1>5, <1>6 DEF EnsureOnDisc, TypeOK, catalog, staging, made
<1> QED
  BY <1>5, <1>7

LEMMA TypeRecoverItems == TypeOK /\ CommandOK /\ RecoverItems => TypeOK' /\ CommandOK'
<1> SUFFICES ASSUME TypeOK, CommandOK, RecoverItems PROVE TypeOK' /\ CommandOK'
  OBVIOUS
<1>1. cmd.disc \in Disc /\ disc[cmd.disc].state \in {"unknown", "missing"} /\ "recoverEvents" \in Steps
  BY DEF RecoverItems, CommandOK, DiscSteps, Steps
<1>2. TypeOK' /\ disc' = disc /\ (cmd'.at = "idle" \/ (cmd'.at = "recoverEvents" /\ cmd'.disc = cmd.disc))
  BY <1>1, TypeEnsureOnDisc DEF RecoverItems
<1> QED
  BY <1>1, <1>2 DEF CommandOK, DiscSteps, NewDiscSteps, MakeSteps

LEMMA TypeRecheckItems == TypeOK /\ CommandOK /\ RecheckItems => TypeOK' /\ CommandOK'
<1> SUFFICES ASSUME TypeOK, CommandOK, RecheckItems PROVE TypeOK' /\ CommandOK'
  OBVIOUS
<1>1. cmd.disc \in Disc /\ disc[cmd.disc].state = "on disc only" /\ "recheckEvent" \in Steps
  BY DEF RecheckItems, CommandOK, DiscSteps, Steps
<1>2. TypeOK' /\ disc' = disc /\ (cmd'.at = "idle" \/ (cmd'.at = "recheckEvent" /\ cmd'.disc = cmd.disc))
  BY <1>1, TypeEnsureOnDisc DEF RecheckItems
<1> QED
  BY <1>1, <1>2 DEF CommandOK, DiscSteps, NewDiscSteps, MakeSteps

LEMMA TypeRecheckEvent == TypeOK /\ CommandOK /\ RecheckEvent => TypeOK' /\ CommandOK'
<1> SUFFICES ASSUME TypeOK, CommandOK, RecheckEvent PROVE TypeOK' /\ CommandOK'
  OBVIOUS
<1>1. cmd.disc \in Disc /\ Permits(disc[cmd.disc], "CheckOK")
  BY PermitStates DEF RecheckEvent, CommandOK, DiscSteps, Steps, TypeOK
<1>2. disc' \in [Disc -> DiscInfo] /\ proof' \in [Disc -> SUBSET Item]
  BY <1>1, EventType, VouchType DEF RecheckEvent
<1>3. cmd' \in Cmd /\ cmd'.at = "idle"
  BY GoType DEF RecheckEvent
<1> QED
  BY <1>2, <1>3, NoDiscStep DEF RecheckEvent, TypeOK, catalog, staging, made, Steps, DiscSteps

LEMMA TypeRecoverEvents == TypeOK /\ CommandOK /\ RecoverEvents => TypeOK' /\ CommandOK'
<1> SUFFICES ASSUME TypeOK, CommandOK, RecoverEvents PROVE TypeOK' /\ CommandOK'
  OBVIOUS
<1> DEFINE d == cmd.disc
           unknown == {e \in cmd.discs \ {d} : ~Known(e)}
           recovered == Apply(disc[d], "Recovered")
           checked == IF cmd.whole THEN recovered ELSE Apply(recovered, "CheckFailed")
<1>1. d \in Disc /\ disc[d] \in DiscInfo /\ Permits(disc[d], "Recovered")
  BY PermitStates DEF RecoverEvents, CommandOK, DiscSteps, Steps, TypeOK
<1>2. recovered \in DiscInfo /\ recovered.state = "on disc only"
  BY <1>1, ApplyType, AppliedStates
<1>3. checked \in DiscInfo
  BY <1>2, PermitStates, ApplyType
<1>4. PICK N \in Written(unknown), r \in IF TornBatches THEN {recovered, checked} ELSE {checked} :
        disc' = [e \in Disc |-> IF e = d THEN r
                                ELSE IF e \in N THEN Apply(disc[e], "NamedMissing")
                                ELSE disc[e]]
  BY DEF RecoverEvents
<1>5. \A e \in N : disc[e].state = "unknown"
  BY <1>4 DEF Written, Known
<1> HIDE DEF recovered, checked
<1>6. r \in DiscInfo
  BY <1>2, <1>3, <1>4
<1>7. disc' \in [Disc -> DiscInfo]
  BY <1>1, <1>4, <1>5, <1>6, PermitStates, ApplyType DEF TypeOK
<1>8. cmd' \in Cmd /\ cmd'.at = "idle"
  BY GoType DEF RecoverEvents
<1> QED
  BY <1>7, <1>8, NoDiscStep DEF RecoverEvents, TypeOK, catalog, staging, made, Steps, DiscSteps

LEMMA TypeCommitWrites ==
  ASSUME TypeOK, NEW s \in Snapshot, CommitWrites(s)
  PROVE  TypeOK' /\ CommandOK'
<1>1. PICK W \in (SUBSET Needs[s]) \cup {Needs[s] \cup {s}} :
        /\ files' = files \cup {c \in W \cap Chunk : ~OnADisc(item[c])}
        /\ objects' = objects \cup (W \cap Meta)
        /\ cmd' = IF s \in W THEN [Go("commit", NoDisc) EXCEPT !.items = W] ELSE Idle
  BY DEF CommitWrites
<1>2. W \subseteq Item
  <2>1. s \in Item
    BY ItemAssumption DEF Item
  <2>2. Needs[s] \subseteq Item
    BY <2>1, ItemAssumption
  <2>3. W \in SUBSET Needs[s] \/ W = Needs[s] \cup {s}
    BY <1>1
  <2> QED
    BY <2>1, <2>2, <2>3
<1>3. files' \subseteq Chunk /\ objects' \subseteq Meta
  BY <1>1 DEF TypeOK
<1>4. cmd' \in Cmd /\ cmd'.at \in {"commit", "idle"}
  <2>1. Go("commit", NoDisc) \in Cmd /\ Go("commit", NoDisc).at = "commit"
    BY GoType DEF Steps
  <2> QED
    BY <1>1, <1>2, <2>1, GoType DEF Cmd
<1> QED
  BY <1>3, <1>4, NoDiscStep DEF CommitWrites, TypeOK, logs, made, Steps, DiscSteps

\* A batch that gives the items of S one record, and goes on with next.
LEMMA AppendAllType ==
  ASSUME TypeOK, NEW S \in SUBSET Item, NEW r \in Record, NEW next \in Cmd,
         AppendItems(All(S, r), next)
  PROVE  /\ item' \in [Item -> Record \cup {NoRecord}]
         /\ cmd' \in Cmd /\ (cmd'.at = "idle" \/ cmd' = next)
<1>1. All(S, r) \in [S -> Record]
  BY AllType
<1> QED
  BY <1>1, AppendItemsType, GoType

LEMMA TypeCommitRecords == TypeOK /\ CommitRecords => TypeOK' /\ CommandOK'
<1> SUFFICES ASSUME TypeOK, CommitRecords PROVE TypeOK' /\ CommandOK'
  OBVIOUS
<1>1. {i \in cmd.items : NotKnown(item[i])} \in SUBSET Item
  BY CmdType DEF TypeOK
<1>2. AppendItems(All({i \in cmd.items : NotKnown(item[i])}, Staged), Idle)
  BY DEF CommitRecords
<1>3. item' \in [Item -> Record \cup {NoRecord}] /\ cmd' = Idle
  BY <1>1, <1>2, AllType, AppendItemsType, RecordTypes, GoType
<1>4. cmd' \in Cmd /\ cmd'.at = "idle"
  BY <1>3, GoType
<1> QED
  BY <1>3, <1>4, NoDiscStep DEF CommitRecords, TypeOK, catalog, staging, made, Steps, DiscSteps

LEMMA TypePackBegins == TypeOK /\ PackBegins => TypeOK' /\ CommandOK'
<1> SUFFICES ASSUME TypeOK, PackBegins PROVE TypeOK' /\ CommandOK'
  OBVIOUS
<1>1. cmd' \in Cmd /\ cmd'.at = "pack"
  BY GoType DEF PackBegins, Steps
<1> QED
  BY <1>1, NoDiscStep DEF PackBegins, TypeOK, logs, catalog, staging, made, Steps, DiscSteps

LEMMA TypeFinishStage ==
  ASSUME TypeOK, NEW d \in Disc, FinishStage(d)
  PROVE  TypeOK' /\ CommandOK'
<1> DEFINE ids == {i \in content[d] : item[i].state \in {"none", "Staged"}}
           new == {i \in ids : item[i].state = "none"}
           next == [Go("finishPack", d) EXCEPT !.items = ids]
<1>1. ids \in SUBSET Item /\ new \in SUBSET Item
  BY DEF TypeOK
<1>2. next \in Cmd /\ next.at = "finishPack" /\ next.disc = d
  <2>1. Go("finishPack", d) \in Cmd /\ Go("finishPack", d).at = "finishPack" /\ Go("finishPack", d).disc = d
    BY GoType DEF Steps
  <2> QED
    BY <1>1, <2>1 DEF Cmd
<1>3. AppendItems(All(new, Staged), next) /\ disc[d].state = "unknown"
  BY DEF FinishStage, Interrupted, Known
<1> HIDE DEF new, next
<1>4. item' \in [Item -> Record \cup {NoRecord}] /\ cmd' \in Cmd /\ (cmd'.at = "idle" \/ cmd' = next)
  BY <1>1, <1>2, <1>3, AppendAllType, RecordTypes
<1>5. TypeOK' /\ disc' = disc
  BY <1>4 DEF FinishStage, TypeOK, catalog, staging, made
<1> QED
  BY <1>2, <1>3, <1>4, <1>5 DEF CommandOK, DiscSteps, NewDiscSteps, MakeSteps

\* The items of the command become Packed on its disc.
LEMMA TypePackRecords ==
  ASSUME TypeOK, NEW a \in Steps, cmd.disc \in Disc,
         AppendItems(All(cmd.items, PackedOn(cmd.disc)), Go(a, cmd.disc))
  PROVE  /\ item' \in [Item -> Record \cup {NoRecord}]
         /\ cmd' \in Cmd /\ (cmd'.at = "idle" \/ (cmd'.at = a /\ cmd'.disc = cmd.disc))
<1>1. cmd.items \in SUBSET Item /\ PackedOn(cmd.disc) \in Record
  BY CmdType, RecordTypes DEF TypeOK
<1>2. Go(a, cmd.disc) \in Cmd /\ Go(a, cmd.disc).at = a /\ Go(a, cmd.disc).disc = cmd.disc
  BY GoType
<1> QED
  BY <1>1, <1>2, AppendAllType

LEMMA TypeFinishPack == TypeOK /\ CommandOK /\ FinishPack => TypeOK' /\ CommandOK'
<1> SUFFICES ASSUME TypeOK, CommandOK, FinishPack PROVE TypeOK' /\ CommandOK'
  OBVIOUS
<1>1. cmd.disc \in Disc /\ disc[cmd.disc].state = "unknown" /\ "finishEvent" \in Steps
  BY DEF FinishPack, CommandOK, DiscSteps, NewDiscSteps, MakeSteps, Steps
<1>2. /\ item' \in [Item -> Record \cup {NoRecord}]
      /\ cmd' \in Cmd /\ (cmd'.at = "idle" \/ (cmd'.at = "finishEvent" /\ cmd'.disc = cmd.disc))
  BY <1>1, TypePackRecords DEF FinishPack
<1>3. TypeOK' /\ disc' = disc
  BY <1>2 DEF FinishPack, TypeOK, catalog, staging, made
<1> QED
  BY <1>1, <1>2, <1>3 DEF CommandOK, DiscSteps, NewDiscSteps, MakeSteps

LEMMA TypePackItems == TypeOK /\ CommandOK /\ PackItems => TypeOK' /\ CommandOK'
<1> SUFFICES ASSUME TypeOK, CommandOK, PackItems PROVE TypeOK' /\ CommandOK'
  OBVIOUS
<1>1. cmd.disc \in Disc /\ disc[cmd.disc].state = "unknown" /\ "packEvent" \in Steps
  BY DEF PackItems, CommandOK, DiscSteps, NewDiscSteps, MakeSteps, Steps
<1>2. /\ item' \in [Item -> Record \cup {NoRecord}]
      /\ cmd' \in Cmd /\ (cmd'.at = "idle" \/ (cmd'.at = "packEvent" /\ cmd'.disc = cmd.disc))
  BY <1>1, TypePackRecords DEF PackItems
<1>3. TypeOK' /\ disc' = disc
  BY <1>2 DEF PackItems, TypeOK, catalog, staging, made
<1> QED
  BY <1>1, <1>2, <1>3 DEF CommandOK, DiscSteps, NewDiscSteps, MakeSteps

\* The Packed event of a new disc.
LEMMA PackedEventType ==
  ASSUME TypeOK, CommandOK, cmd.at \in NewDiscSteps, AppendEvent(cmd.disc, "Packed")
  PROVE  disc' \in [Disc -> DiscInfo]
<1>1. cmd.disc \in Disc /\ Permits(disc[cmd.disc], "Packed")
  BY PermitStates DEF CommandOK, DiscSteps, NewDiscSteps, MakeSteps, Steps, TypeOK
<1> QED
  BY <1>1, EventType

LEMMA TypeFinishEvent == TypeOK /\ CommandOK /\ FinishEvent => TypeOK' /\ CommandOK'
<1> SUFFICES ASSUME TypeOK, CommandOK, FinishEvent PROVE TypeOK' /\ CommandOK'
  OBVIOUS
<1>1. disc' \in [Disc -> DiscInfo]
  BY PackedEventType DEF FinishEvent, NewDiscSteps, MakeSteps
<1>2. cmd' \in Cmd /\ cmd'.at = "pack"
  BY GoType DEF FinishEvent, Steps
<1> QED
  BY <1>1, <1>2, NoDiscStep DEF FinishEvent, TypeOK, catalog, staging, made, Steps, DiscSteps

LEMMA TypePackEvent == TypeOK /\ CommandOK /\ PackEvent => TypeOK' /\ CommandOK'
<1> SUFFICES ASSUME TypeOK, CommandOK, PackEvent PROVE TypeOK' /\ CommandOK'
  OBVIOUS
<1>1. disc' \in [Disc -> DiscInfo]
  BY PackedEventType DEF PackEvent, NewDiscSteps, MakeSteps
<1>2. cmd' \in Cmd /\ cmd'.at = "idle"
  BY GoType DEF PackEvent
<1> QED
  BY <1>1, <1>2, NoDiscStep DEF PackEvent, TypeOK, catalog, staging, made, Steps, DiscSteps

LEMMA TypePackPlans ==
  ASSUME TypeOK, NEW d \in Disc, PackPlans(d)
  PROVE  TypeOK' /\ CommandOK'
<1> DEFINE unrecorded == {i \in Readable : /\ item[i].state = "none"
                                           /\ \E s \in Snapshot : i \in Needs[s]
                                                                  /\ item[s].state = "Staged"}
<1>1. unrecorded \in SUBSET Item
  BY DEF Readable, TypeOK, Item
<1>2. AppendItems(All(unrecorded, Staged), Go("packTree", d)) /\ disc[d].state = "unknown"
  BY DEF PackPlans, Fresh, Known
<1>3. Go("packTree", d) \in Cmd /\ Go("packTree", d).at = "packTree" /\ Go("packTree", d).disc = d
  BY GoType DEF Steps
<1> HIDE DEF unrecorded
<1>4. /\ item' \in [Item -> Record \cup {NoRecord}]
      /\ cmd' \in Cmd /\ (cmd'.at = "idle" \/ cmd' = Go("packTree", d))
  BY <1>1, <1>2, <1>3, AppendAllType, RecordTypes
<1>5. num' \in [Disc -> Nat] /\ root' \subseteq Disc
  BY DEF PackPlans, NextNum, Numbered, TypeOK
<1>6. TypeOK' /\ disc' = disc
  BY <1>4, <1>5 DEF PackPlans, TypeOK, catalog
<1> QED
  BY <1>2, <1>3, <1>4, <1>6 DEF CommandOK, DiscSteps, NewDiscSteps, MakeSteps

LEMMA TypePackTree == TypeOK /\ CommandOK /\ PackTree => TypeOK' /\ CommandOK'
<1> SUFFICES ASSUME TypeOK, CommandOK, PackTree PROVE TypeOK' /\ CommandOK'
  OBVIOUS
<1>1. cmd.disc \in Disc /\ disc[cmd.disc].state = "unknown"
  BY DEF PackTree, CommandOK, DiscSteps, NewDiscSteps, MakeSteps, Steps
<1>2. PICK S \in Selections :
        /\ content' = [content EXCEPT ![cmd.disc] = S \cup Carried]
        /\ cmd' = [Go("packTables", cmd.disc) EXCEPT !.items = S]
  BY DEF PackTree
<1>3. S \subseteq Item /\ Carried \subseteq Item
  BY DEF Selections, Carried, Readable, TypeOK, Item
<1>4. content' \in [Disc -> SUBSET Item] /\ names' \in [Disc -> SUBSET Disc]
  BY <1>1, <1>2, <1>3 DEF PackTree, TypeOK
<1>5. cmd' \in Cmd /\ cmd'.at = "packTables" /\ cmd'.disc = cmd.disc
  <2>1. Go("packTables", cmd.disc) \in Cmd /\ Go("packTables", cmd.disc).at = "packTables"
        /\ Go("packTables", cmd.disc).disc = cmd.disc
    BY <1>1, GoType DEF Steps
  <2> QED
    BY <1>2, <1>3, <2>1 DEF Cmd
<1>6. TypeOK' /\ disc' = disc
  BY <1>4, <1>5 DEF PackTree, TypeOK, logs, catalog, staging
<1> QED
  BY <1>1, <1>5, <1>6 DEF CommandOK, DiscSteps, NewDiscSteps, MakeSteps

LEMMA TypePackTables == TypeOK /\ CommandOK /\ PackTables => TypeOK' /\ CommandOK'
<1> SUFFICES ASSUME TypeOK, CommandOK, PackTables PROVE TypeOK' /\ CommandOK'
  OBVIOUS
<1>1. cmd.disc \in Disc /\ disc[cmd.disc].state = "unknown"
  BY DEF PackTables, CommandOK, DiscSteps, NewDiscSteps, MakeSteps, Steps
<1>2. cmd' \in Cmd /\ cmd'.at = "packRow" /\ cmd'.disc = cmd.disc
  BY CmdType DEF PackTables, Steps, TypeOK
<1>3. TypeOK' /\ disc' = disc
  BY <1>1, <1>2 DEF PackTables, TypeOK, logs, staging, made
<1> QED
  BY <1>1, <1>2, <1>3 DEF CommandOK, DiscSteps, NewDiscSteps, MakeSteps

LEMMA TypePackRow == TypeOK /\ CommandOK /\ PackRow => TypeOK' /\ CommandOK'
<1> SUFFICES ASSUME TypeOK, CommandOK, PackRow PROVE TypeOK' /\ CommandOK'
  OBVIOUS
<1>1. cmd.disc \in Disc /\ disc[cmd.disc].state = "unknown"
  BY DEF PackRow, CommandOK, DiscSteps, NewDiscSteps, MakeSteps, Steps
<1>2. cmd' \in Cmd /\ cmd'.at = "packItems" /\ cmd'.disc = cmd.disc
  BY CmdType DEF PackRow, Steps, TypeOK
<1>3. TypeOK' /\ disc' = disc
  BY <1>1, <1>2 DEF PackRow, TypeOK, logs, catalog, staging, made
<1> QED
  BY <1>1, <1>2, <1>3 DEF CommandOK, DiscSteps, NewDiscSteps, MakeSteps

LEMMA TypePackFails == TypeOK /\ CommandOK /\ PackFails => TypeOK' /\ CommandOK'
<1> SUFFICES ASSUME TypeOK, CommandOK, PackFails PROVE TypeOK' /\ CommandOK'
  OBVIOUS
<1>1. cmd.disc \in Disc /\ disc[cmd.disc].state = "unknown"
  BY DEF PackFails, CommandOK, DiscSteps, NewDiscSteps, MakeSteps, Steps
<1>2. CASE cmd' = Idle
  <2>1. cmd' \in Cmd /\ cmd'.at = "idle"
    BY <1>2, GoType
  <2> QED
    BY <2>1, NoDiscStep DEF PackFails, TypeOK, logs, made, Steps, DiscSteps
<1>3. CASE cmd' = Go("packFails", cmd.disc)
  <2>1. cmd' \in Cmd /\ cmd'.at = "packFails" /\ cmd'.disc = cmd.disc
    BY <1>1, <1>3, GoType DEF Steps
  <2>2. disc' = disc
    BY DEF PackFails, logs
  <2> QED
    BY <1>1, <2>1, <2>2 DEF PackFails, TypeOK, CommandOK, logs, made, DiscSteps, NewDiscSteps, MakeSteps
<1> QED
  BY <1>2, <1>3 DEF PackFails

LEMMA TypeBurn == ASSUME TypeOK, CommandOK, NEW d \in Disc, Burn(d) PROVE TypeOK' /\ CommandOK'
  BY DEF Burn, TypeOK, CommandOK, logs, catalog, staging, made

LEMMA TypeLoseRepository == TypeOK /\ LoseRepository => TypeOK' /\ CommandOK'
<1> SUFFICES ASSUME TypeOK, LoseRepository PROVE TypeOK' /\ CommandOK'
  OBVIOUS
<1>1. UnknownDisc \in DiscInfo
  BY DEF UnknownDisc, DiscInfo, DiscStates
<1>2. cmd' \in Cmd /\ cmd'.at = "idle"
  BY GoType DEF LoseRepository
<1>3. disasters' \in 0 .. Disasters
  BY ItemAssumption DEF LoseRepository, TypeOK
<1> QED
  BY <1>1, <1>2, <1>3, NothingOwedType, NoDiscStep DEF LoseRepository, TypeOK, made, Steps, DiscSteps

LEMMA TypeInit == Init => TypeOK /\ CommandOK
<1>1. UnknownDisc \in DiscInfo
  BY DEF UnknownDisc, DiscInfo, DiscStates
<1> SUFFICES ASSUME Init PROVE TypeOK /\ CommandOK
  OBVIOUS
<1>2. cmd \in Cmd /\ cmd.at = "idle"
  BY GoType DEF Init
<1>3. TypeOK
  BY <1>1, <1>2, NothingOwedType, ItemAssumption DEF Init, TypeOK
<1>4. CommandOK
  BY <1>2 DEF CommandOK, DiscSteps, NewDiscSteps, MakeSteps
<1> QED
  BY <1>3, <1>4

\* Every step keeps the types, and the state of the disc of the command.
LEMMA TypeStep == TypeOK /\ CommandOK /\ [Next]_vars => TypeOK' /\ CommandOK'
<1> SUFFICES ASSUME TypeOK, CommandOK, [Next]_vars PROVE TypeOK' /\ CommandOK'
  OBVIOUS
<1>1. CASE \E d \in Disc : DiscCommand(d)
  BY <1>1, TypeMark, TypeVerifyFails, TypeVerifyReads, TypeCatalogStops, TypeDiscLost,
     TypeDiscLostUndo, TypeRecover, TypeFinishStage, TypePackPlans, TypePackUndo
  DEF DiscCommand, DiscBurned, DiscBurnedUndo, DiscVerified, VerifyUndo
<1>2. CASE \E s \in Snapshot : CommitWrites(s)
  BY <1>2, TypeCommitWrites
<1>3. CASE \E d \in Disc : Burn(d)
  BY <1>3, TypeBurn
<1>4. CASE UNCHANGED vars
  BY <1>4 DEF vars, TypeOK, CommandOK
<1> QED
  BY <1>1, <1>2, <1>3, <1>4, TypeOpen, TypeRepairDisc, TypeStop, TypeVerifyRecords,
     TypeLostItems, TypeLostRoot, TypeFoundItems, TypeGcEvents, TypeGcItems, TypeGcUnlink,
     TypeRecoverLedger, TypeRecoverItems, TypeRecoverEvents, TypeRecheckItems,
     TypeRecheckEvent, TypeCommitRecords, TypePackBegins, TypePackRemoves, TypeFinishPack,
     TypeFinishEvent, TypePackTree, TypePackTables, TypePackRow, TypePackItems,
     TypePackEvent, TypePackFails, TypeUndoneItems, TypeUndoRemoves, TypeLoseRepository
  DEF Next

\* In every reachable state the variables have their types, and the disc of the
\* running command is in the state that permits the event it will write.
THEOREM TypeInvariant == Spec => [](TypeOK /\ CommandOK)
  BY TypeInit, TypeStep, PTL DEF Spec

-----------------------------------------------------------------------------
(* The chunk files of staged and packed chunks. *)

\* A repair stages or packs no chunk without a chunk file.
PlansHaveData ==
  \A p \in cmd.plans : \A c \in Chunk \cap DOMAIN p.recs :
    p.recs[c].state \in {"Staged", "Packed"} => c \in files

\* Every item of a disc root that is still there has a record.
RootRecorded ==
  \A d \in Disc : /\ content[d] = {} \/ d \in names[d]
                  /\ d \in root => \A i \in content[d] : item[i].state # "none"

TakingSteps == {"finishPack", "packTables", "packRow", "packItems"}
DataSteps == {"commit", "freed", "unlink"} \cup TakingSteps

\* What the running command has decided to record or to unlink.
DecisionHolds ==
  /\ cmd.at = "commit" => \A c \in cmd.items \cap Chunk : c \in files \/ OnADisc(item[c])
  /\ cmd.at \in TakingSteps => \A i \in cmd.items : item[i].state = "Staged"
  /\ cmd.at = "freed" => \A c \in cmd.items :
       \/ item[c].state = "OnDisc"
       \/ item[c].state = "Packed" /\ item[c].disc \in cmd.discs
  /\ cmd.at = "unlink" => \A c \in cmd.items : item[c].state = "OnDisc"

DataInv == StagedDataKept /\ PlansHaveData /\ RootRecorded /\ DecisionHolds

-----------------------------------------------------------------------------
(* Facts about the records that the commands write. *)

LEMMA RecordFacts ==
  ASSUME NEW r \in Record \cup {NoRecord}
  PROVE  /\ r.state \in {"none", "Staged", "Packed", "OnDisc", "Lost"}
         /\ r \in Record => r.state # "none"
         /\ r.state = "Packed" => r = PackedOn(r.disc) /\ r.disc \in Disc
  BY DEF Record, NoRecord, PackedOn

LEMMA NewRecords ==
  /\ Staged.state = "Staged" /\ StagedByLoss.state = "Staged"
  /\ \A d : /\ PackedOn(d).state = "Packed" /\ PackedOn(d).disc = d
           /\ OnDiscOf(d).state = "OnDisc" /\ LostOf(d).state = "Lost"
  BY DEF Staged, StagedByLoss, PackedOn, OnDiscOf, LostOf

LEMMA CmdPlans ==
  /\ Idle.plans = {} /\ \A a, d : Go(a, d).plans = {} /\ Go(a, d).items = {} /\ Go(a, d).at = a
  /\ \A a : \A c \in Cmd : /\ [c EXCEPT !.at = a].plans = c.plans
                           /\ [c EXCEPT !.at = a].items = c.items
                           /\ [c EXCEPT !.at = a].at = a
  BY DEF Idle, Go, Cmd

\* A repair stages or packs a chunk only when the log already calls it staged
\* or packed: the catalog holds no chunk.
LEMMA RepairHasData ==
  ASSUME TypeOK, StagedDataKept, NEW info, NEW d \in Disc,
         NEW c \in Chunk, c \in DOMAIN Repair(info, d),
         Repair(info, d)[c].state \in {"Staged", "Packed"}
  PROVE  c \in files
<1>1. c \in Item /\ c \notin objects
  BY ItemAssumption DEF Item, TypeOK
<1>2. CASE c \in GivenBack(info, d)
  BY <1>1, <1>2 DEF GivenBack, StagedDataKept
<1>3. CASE c \notin GivenBack(info, d)
  <2>1. c \notin ObjectsBack(info, d)
    BY <1>1 DEF ObjectsBack
  <2>2. c \in Direct(info, d) /\ Repair(info, d)[c] = Follow(info.state, item[c], c \in objects)
    BY <1>3, <2>1 DEF Repair
  <2>3. item[c].state \in {"Staged", "Packed"}
    <3>1. \/ Follow(info.state, item[c], c \in objects) \in {LostOf(item[c].disc), OnDiscOf(item[c].disc), item[c]}
          \/ item[c].state = "Packed"
      BY <1>1 DEF Follow
    <3> QED
      BY <2>2, <3>1, NewRecords
  <2> QED
    BY <2>3 DEF StagedDataKept
<1> QED
  BY <1>2, <1>3

-----------------------------------------------------------------------------
(* Two kinds of steps. *)

\* A command that has decided nothing.
LEMMA NothingDecided == cmd'.at \notin DataSteps => DecisionHolds'
  BY DEF DecisionHolds, DataSteps

\* A step that writes no item record and removes no chunk file.
LEMMA QuietStep ==
  ASSUME DataInv, item' = item, files \subseteq files', content' = content, names' = names,
         root' \subseteq root, cmd'.plans \subseteq cmd.plans, cmd'.at \notin DataSteps
  PROVE  DataInv'
<1>1. StagedDataKept' /\ PlansHaveData' /\ RootRecorded'
  BY DEF DataInv, StagedDataKept, PlansHaveData, RootRecorded
<1> QED
  BY <1>1, NothingDecided DEF DataInv

\* A step that writes item records and leaves the chunk files alone.  The root
\* of a new disc is still empty.
LEMMA RecordStep ==
  ASSUME TypeOK, DataInv, NEW S \in SUBSET Item, NEW recs \in [S -> Record],
         NEW next \in Cmd, AppendItems(recs, next),
         \A c \in Chunk \cap S : recs[c].state \in {"Staged", "Packed"} => c \in files,
         files' = files, content' = content, names' = names,
         \A d \in root' \ root : content[d] = {},
         next.plans \subseteq cmd.plans
  PROVE  /\ StagedDataKept' /\ PlansHaveData' /\ RootRecorded'
         /\ cmd' \in {next, Idle}
         /\ next.at \notin DataSteps => DecisionHolds'
<1>1. /\ \A i \in Item : item'[i] = item[i] \/ (i \in S /\ item'[i] = recs[i])
      /\ cmd' \in {next, Idle}
  BY AppendItemsType
<1>2. StagedDataKept'
  BY <1>1 DEF StagedDataKept, DataInv, Item
<1>3. PlansHaveData'
  BY <1>1, CmdPlans DEF PlansHaveData, DataInv
<1>4. RootRecorded'
  <2>1. \A i \in Item : item[i].state # "none" => item'[i].state # "none"
    BY <1>1, RecordFacts
  <2> QED
    BY <2>1 DEF RootRecorded, DataInv, TypeOK
<1>5. Idle.at \notin DataSteps
  BY DEF Idle, DataSteps, TakingSteps
<1> QED
  BY <1>1, <1>2, <1>3, <1>4, <1>5, NothingDecided

\* The same for a step that goes on with the repair of one disc.
LEMMA RepairStep ==
  ASSUME TypeOK, DataInv, NEW info, NEW d \in Disc, NEW next \in Cmd,
         AppendOwed(Repair(info, d), next),
         files' = files, content' = content, names' = names, root' = root,
         next.plans \subseteq cmd.plans, next.at \notin DataSteps
  PROVE  DataInv'
<1>1. DOMAIN Repair(info, d) \in SUBSET Item /\ Repair(info, d) \in [DOMAIN Repair(info, d) -> Record]
  BY RepairType
<1>2. \A c \in Chunk \cap DOMAIN Repair(info, d) :
        Repair(info, d)[c].state \in {"Staged", "Packed"} => c \in files
  BY RepairHasData DEF DataInv
<1>3. AppendItems(Repair(info, d), next)
  BY DEF AppendOwed
<1> QED
  BY <1>1, <1>2, <1>3, RecordStep DEF DataInv

-----------------------------------------------------------------------------
(* The actions. *)

LEMMA DataOpen == TypeOK /\ DataInv /\ Open => DataInv'
<1> SUFFICES ASSUME TypeOK, DataInv, Open PROVE DataInv'
  OBVIOUS
<1>1. CASE ToRepair = {}
  <2>1. cmd' = Go("open", NoDisc)
    BY <1>1 DEF Open
  <2>2. cmd'.plans = {} /\ cmd'.at \notin DataSteps
    BY <2>1, CmdPlans DEF DataSteps, TakingSteps
  <2> QED
    BY <2>2, QuietStep DEF Open, logs, staging, made
<1>2. CASE ToRepair # {}
  <2> DEFINE P == {[disc |-> d, recs |-> Repair(disc[d], d)] : d \in ToRepair}
  <2>1. cmd' = [Go("repair", NoDisc) EXCEPT !.plans = P]
    BY <1>2 DEF Open
  <2>2. cmd'.plans = P /\ cmd'.at = "repair"
    BY <2>1 DEF Go, Idle
  <2>3. PlansHaveData'
    <3>1. \A d \in ToRepair : \A c \in Chunk \cap DOMAIN Repair(disc[d], d) :
            Repair(disc[d], d)[c].state \in {"Staged", "Packed"} => c \in files
      BY RepairHasData DEF ToRepair, DataInv
    <3> QED
      BY <2>2, <3>1 DEF PlansHaveData, Open, staging
  <2>4. DecisionHolds'
    BY <2>2, NothingDecided DEF DataSteps, TakingSteps
  <2> QED
    BY <2>3, <2>4 DEF DataInv, StagedDataKept, RootRecorded, Open, logs, staging, made
<1> QED
  BY <1>1, <1>2

LEMMA DataRepairDisc == TypeOK /\ DataInv /\ RepairDisc => DataInv'
<1> SUFFICES ASSUME TypeOK, DataInv, RepairDisc PROVE DataInv'
  OBVIOUS
<1> DEFINE Next1(p) == IF cmd.plans = {p} THEN Go("open", NoDisc)
                       ELSE [cmd EXCEPT !.plans = @ \ {p}]
<1>1. PICK p \in cmd.plans : AppendOwed(p.recs, Next1(p))
  BY DEF RepairDisc
<1>2. Next1(p) \in Cmd /\ Next1(p).at \in {"open", "repair"} /\ Next1(p).plans \subseteq cmd.plans
  BY GoType, CmdPlans DEF RepairDisc, TypeOK, Cmd, Steps
<1>3. PICK S \in SUBSET Item : p.recs \in [S -> Record]
  <2>1. p \in Plan
    BY DEF TypeOK, Cmd
  <2>2. p.recs \in UNION {[S -> Record] : S \in SUBSET Item}
    BY <2>1 DEF Plan
  <2> QED
    BY <2>2
<1>4. \A c \in Chunk \cap S : p.recs[c].state \in {"Staged", "Packed"} => c \in files
  BY <1>3 DEF DataInv, PlansHaveData
<1>5. Next1(p).at \notin DataSteps
  BY <1>2 DEF DataSteps, TakingSteps
<1>6. AppendItems(p.recs, Next1(p)) /\ files' = files /\ content' = content /\ names' = names /\ root' = root
  BY <1>1 DEF AppendOwed, RepairDisc, staging, made
<1> HIDE DEF Next1
<1> QED
  BY <1>2, <1>3, <1>4, <1>5, <1>6, RecordStep DEF DataInv

\* The commands that write one event, and those that write the catalog, the
\* ledger or a disc root.
LEMMA DataQuiet ==
  ASSUME DataInv,
         \/ Stop \/ VerifyRecords \/ LostRoot \/ RecoverEvents \/ RecheckEvent
         \/ PackBegins \/ FinishEvent \/ PackEvent \/ PackFails
         \/ \E d \in Disc : \/ \E e : Mark(d, e)
                           \/ VerifyFails(d) \/ VerifyReads(d) \/ CatalogStops(d)
                           \/ DiscLost(d) \/ DiscLostUndo(d) \/ PackUndo(d)
  PROVE  DataInv'
<1>1. cmd'.plans = {} /\ cmd'.at \notin DataSteps
  <2>1. \/ cmd' = Idle
        \/ \E d : cmd' \in {Go("read", d), Go("lost", d), Go("found", d), Go("undone", d), Go("pack", d),
                           Go("packFails", d)}
    BY DEF Stop, VerifyRecords, LostRoot, RecoverEvents, RecheckEvent, PackBegins, FinishEvent,
           PackEvent, PackFails, Mark, VerifyFails, VerifyReads, CatalogStops, DiscLost,
           DiscLostUndo, PackUndo
  <2>2. Idle.at = "idle"
    BY DEF Idle
  <2> QED
    BY <2>1, <2>2, CmdPlans DEF DataSteps, TakingSteps
<1>2. item' = item /\ files' = files /\ content' = content /\ names' = names /\ root' \subseteq root
  BY DEF Stop, VerifyRecords, LostRoot, RecoverEvents, RecheckEvent, PackBegins, FinishEvent,
         PackEvent, PackFails, Mark, VerifyFails, VerifyReads, CatalogStops, DiscLost,
         DiscLostUndo, PackUndo, logs, staging, made
<1> QED
  BY <1>1, <1>2, QuietStep

\* The steps of pack and pack --undo that remove one more part of a disc, and a
\* burn, leave the command as it is.
LEMMA DataRemoves ==
  ASSUME DataInv, PackRemoves \/ UndoRemoves \/ (\E d \in Disc : Burn(d))
  PROVE  DataInv'
<1>1. cmd' = cmd /\ item' = item /\ files' = files /\ content' = content /\ names' = names
      /\ root' \subseteq root
  BY DEF PackRemoves, UndoRemoves, Burn, RemoveNext, logs, staging, made
<1>2. cmd.at \notin DataSteps
  BY DEF PackRemoves, UndoRemoves, Burn, DataSteps, TakingSteps, Idle
<1> QED
  BY <1>1, <1>2, QuietStep

LEMMA DataRecover ==
  ASSUME TypeOK, DataInv, NEW d \in Disc, Recover(d)
  PROVE  DataInv'
<1>1. cmd'.plans = {} /\ cmd'.at \in {"recover", "recheck", "idle"}
  BY RecoverCommand
<1>2. cmd'.at \notin DataSteps
  BY <1>1 DEF DataSteps, TakingSteps
<1> QED
  BY <1>1, <1>2, QuietStep DEF Recover, logs, staging, made

LEMMA DataRecoverLedger == TypeOK /\ DataInv /\ RecoverLedger => DataInv'
<1> SUFFICES ASSUME TypeOK, DataInv, RecoverLedger PROVE DataInv'
  OBVIOUS
<1>1. cmd'.plans = cmd.plans /\ cmd'.at = "recoverItems"
  BY CmdPlans DEF RecoverLedger, TypeOK
<1>2. cmd'.at \notin DataSteps
  BY <1>1 DEF DataSteps, TakingSteps
<1> QED
  BY <1>1, <1>2, QuietStep DEF RecoverLedger, logs, staging, made

LEMMA DataLostItems == TypeOK /\ CommandOK /\ DataInv /\ LostItems => DataInv'
<1> SUFFICES ASSUME TypeOK, CommandOK, DataInv, LostItems PROVE DataInv'
  OBVIOUS
<1>1. cmd.disc \in Disc /\ "lostRoot" \in Steps \ DataSteps
  BY DEF LostItems, CommandOK, DiscSteps, Steps, DataSteps, TakingSteps
<1>2. Go("lostRoot", cmd.disc) \in Cmd /\ Go("lostRoot", cmd.disc).at \notin DataSteps
      /\ Go("lostRoot", cmd.disc).plans = {}
  BY <1>1, GoType, CmdPlans
<1> QED
  BY <1>1, <1>2, RepairStep DEF LostItems, staging, made

LEMMA DataFoundItems == TypeOK /\ CommandOK /\ DataInv /\ FoundItems => DataInv'
<1> SUFFICES ASSUME TypeOK, CommandOK, DataInv, FoundItems PROVE DataInv'
  OBVIOUS
<1>1. cmd.disc \in Disc
  BY DEF FoundItems, CommandOK, DiscSteps, Steps
<1>2. Idle \in Cmd /\ Idle.at \notin DataSteps /\ Idle.plans = {}
  BY GoType, CmdPlans DEF DataSteps, TakingSteps
<1> QED
  BY <1>1, <1>2, RepairStep DEF FoundItems, staging, made

LEMMA DataUndoneItems == TypeOK /\ CommandOK /\ DataInv /\ UndoneItems => DataInv'
<1> SUFFICES ASSUME TypeOK, CommandOK, DataInv, UndoneItems PROVE DataInv'
  OBVIOUS
<1>1. cmd.disc \in Disc /\ "undoing" \in Steps \ DataSteps
  BY DEF UndoneItems, CommandOK, DiscSteps, Steps, DataSteps, TakingSteps
<1>2. Go("undoing", cmd.disc) \in Cmd /\ Go("undoing", cmd.disc).at \notin DataSteps
      /\ Go("undoing", cmd.disc).plans = {}
  BY <1>1, GoType, CmdPlans
<1> QED
  BY <1>1, <1>2, RepairStep DEF UndoneItems, staging, made

\* gc decides to unlink the files of the freed discs and the orphans.
LEMMA DataGcEvents == TypeOK /\ DataInv /\ GcEvents => DataInv'
<1> SUFFICES ASSUME TypeOK, DataInv, GcEvents PROVE DataInv'
  OBVIOUS
<1>1. item' = item /\ files' = files /\ content' = content /\ names' = names /\ root' = root
  BY DEF GcEvents, staging, made
<1>2. CASE cmd' = Idle
  <2>1. cmd'.plans = {} /\ cmd'.at \notin DataSteps
    BY <1>2, GoType, CmdPlans DEF DataSteps, TakingSteps
  <2> QED
    BY <1>1, <2>1, QuietStep
<1>3. CASE cmd' = [Go("freed", NoDisc) EXCEPT !.discs = Freeable \cup InState("on disc only"),
                                             !.items = Garbage]
  <2>1. cmd'.plans = {} /\ cmd'.at = "freed" /\ cmd'.items = Garbage
        /\ cmd'.discs = Freeable \cup InState("on disc only")
    BY <1>3 DEF Go, Idle
  <2>2. DecisionHolds'
    BY <1>1, <2>1 DEF DecisionHolds, Garbage, TakingSteps
  <2>3. StagedDataKept' /\ PlansHaveData' /\ RootRecorded'
    BY <1>1, <2>1 DEF DataInv, StagedDataKept, PlansHaveData, RootRecorded
  <2> QED
    BY <2>2, <2>3 DEF DataInv
<1> QED
  BY <1>2, <1>3 DEF GcEvents

\* Once the OnDisc records are written, no file that gc unlinks is of a staged
\* or packed chunk.
LEMMA DataGcItems == TypeOK /\ DataInv /\ GcItems => DataInv'
<1> SUFFICES ASSUME TypeOK, DataInv, GcItems PROVE DataInv'
  OBVIOUS
<1> DEFINE S == UNION {PackedItems(d) : d \in cmd.discs}
           recs == [i \in S |-> OnDiscOf(item[i].disc)]
           next == [cmd EXCEPT !.at = "unlink"]
<1>1. \A d \in cmd.discs : \A i \in PackedItems(d) : i \in Item /\ OnDiscOf(item[i].disc) \in Record
  BY CmdType, RecordTypes DEF PackedItems, PackedOn, TypeOK
<1>2. S \in SUBSET Item /\ recs \in [S -> Record]
  BY <1>1
<1>3. next \in Cmd /\ next.at = "unlink" /\ next.plans = cmd.plans /\ next.items = cmd.items
  <2>1. cmd \in Cmd /\ "unlink" \in Steps
    BY DEF TypeOK, Steps
  <2> QED
    BY <2>1, CmdType, CmdPlans
<1>4. \A c \in Chunk \cap S : recs[c].state = "OnDisc"
  BY NewRecords
<1>5. AppendItems(recs, next) /\ files' = files /\ content' = content /\ names' = names /\ root' = root
  BY DEF GcItems, AppendOwed, staging, made
<1>6. ASSUME cmd' = next PROVE DecisionHolds'
  <2>1. item' = [i \in Item |-> IF i \in S THEN recs[i] ELSE item[i]]
    <3>1. PICK T \in Written(DOMAIN recs) :
            /\ item' = [i \in Item |-> IF i \in T THEN recs[i] ELSE item[i]]
            /\ cmd' = IF T = DOMAIN recs THEN next ELSE Idle
      BY <1>5 DEF AppendItems
    <3>2. next # Idle
      BY <1>3 DEF Idle
    <3> QED
      BY <1>6, <3>1, <3>2
  <2>2. \A c \in cmd.items : c \in Item /\ item'[c].state = "OnDisc"
    <3> TAKE c \in cmd.items
    <3>1. c \in Item
      BY CmdType DEF TypeOK
    <3>2. CASE c \in S
      BY <2>1, <3>1, <3>2, NewRecords
    <3>3. CASE c \notin S
      <4>1. item[c].state = "OnDisc" \/ (item[c].state = "Packed" /\ item[c].disc \in cmd.discs)
        BY DEF GcItems, DataInv, DecisionHolds
      <4>2. item[c].state = "Packed" => c \in PackedItems(item[c].disc)
        BY <3>1, RecordFacts DEF PackedItems, TypeOK
      <4> QED
        BY <2>1, <3>1, <3>3, <4>1, <4>2
    <3> QED
      BY <3>1, <3>2, <3>3
  <2> QED
    BY <1>3, <1>6, <2>2 DEF DecisionHolds, TakingSteps
<1> HIDE DEF S, recs, next
<1>7. StagedDataKept' /\ PlansHaveData' /\ RootRecorded' /\ cmd' \in {next, Idle}
  BY <1>2, <1>3, <1>4, <1>5, RecordStep
<1>8. ASSUME cmd' = Idle PROVE DecisionHolds'
  BY <1>8, NothingDecided, GoType DEF DataSteps, TakingSteps
<1> QED
  BY <1>6, <1>7, <1>8 DEF DataInv

LEMMA DataGcUnlink == TypeOK /\ DataInv /\ GcUnlink => DataInv'
<1> SUFFICES ASSUME TypeOK, DataInv, GcUnlink PROVE DataInv'
  OBVIOUS
<1>1. PICK C \in SUBSET cmd.items : files' = files \ C
  BY DEF GcUnlink
<1>2. \A c \in C : item[c].state = "OnDisc"
  BY DEF GcUnlink, DataInv, DecisionHolds
<1>3. item' = item /\ content' = content /\ names' = names /\ root' \subseteq root /\ cmd' = Idle
  BY DEF GcUnlink, logs, made
<1>4. StagedDataKept'
  BY <1>1, <1>2, <1>3 DEF DataInv, StagedDataKept
<1>5. PlansHaveData' /\ DecisionHolds'
  BY <1>3, GoType, NothingDecided DEF PlansHaveData, DataSteps, TakingSteps
<1>6. RootRecorded'
  BY <1>3 DEF DataInv, RootRecorded
<1> QED
  BY <1>4, <1>5, <1>6 DEF DataInv

\* recover records items as OnDisc only.
LEMMA DataEnsureOnDisc ==
  ASSUME TypeOK, DataInv, NEW a \in Steps, a \notin DataSteps, cmd.disc \in Disc, EnsureOnDisc(a)
  PROVE  DataInv'
<1> DEFINE S == {i \in cmd.items : NotKnown(item[i])}
           recs == All(S, OnDiscOf(cmd.disc))
           next == [cmd EXCEPT !.at = a]
<1>1. S \in SUBSET Item /\ recs \in [S -> Record]
  BY CmdType, RecordTypes, AllType DEF TypeOK
<1>2. next \in Cmd /\ next.at = a /\ next.plans = cmd.plans
  BY CmdType, CmdPlans DEF TypeOK
<1>3. \A c \in Chunk \cap S : recs[c].state = "OnDisc"
  BY NewRecords DEF All
<1>4. AppendItems(recs, next) /\ files' = files /\ content' = content /\ names' = names /\ root' = root
  BY DEF EnsureOnDisc, staging, made
<1> HIDE DEF S, recs, next
<1> QED
  BY <1>1, <1>2, <1>3, <1>4, RecordStep DEF DataInv

LEMMA DataRecoverItems == TypeOK /\ CommandOK /\ DataInv /\ (RecoverItems \/ RecheckItems) => DataInv'
<1> SUFFICES ASSUME TypeOK, CommandOK, DataInv, RecoverItems \/ RecheckItems PROVE DataInv'
  OBVIOUS
<1>1. cmd.disc \in Disc
  BY DEF RecoverItems, RecheckItems, CommandOK, DiscSteps, Steps
<1>2. {"recoverEvents", "recheckEvent"} \subseteq Steps \ DataSteps
  BY DEF Steps, DataSteps, TakingSteps
<1> QED
  BY <1>1, <1>2, DataEnsureOnDisc DEF RecoverItems, RecheckItems

\* commit wrote the chunk file of every chunk that no disc holds.
LEMMA DataCommitWrites ==
  ASSUME TypeOK, DataInv, NEW s \in Snapshot, CommitWrites(s)
  PROVE  DataInv'
<1>1. PICK W :
        /\ files' = files \cup {c \in W \cap Chunk : ~OnADisc(item[c])}
        /\ cmd' = IF s \in W THEN [Go("commit", NoDisc) EXCEPT !.items = W] ELSE Idle
  BY DEF CommitWrites
<1>2. item' = item /\ content' = content /\ names' = names /\ root' = root /\ files \subseteq files'
  BY <1>1 DEF CommitWrites, logs, made
<1>3. cmd'.plans = {} /\ (cmd'.at = "idle" \/ (cmd'.at = "commit" /\ cmd'.items = W))
  BY <1>1 DEF Go, Idle
<1>4. StagedDataKept' /\ PlansHaveData' /\ RootRecorded'
  BY <1>2, <1>3 DEF DataInv, StagedDataKept, PlansHaveData, RootRecorded
<1>5. DecisionHolds'
  BY <1>1, <1>2, <1>3 DEF DecisionHolds, TakingSteps
<1> QED
  BY <1>4, <1>5 DEF DataInv

LEMMA DataCommitRecords == TypeOK /\ DataInv /\ CommitRecords => DataInv'
<1> SUFFICES ASSUME TypeOK, DataInv, CommitRecords PROVE DataInv'
  OBVIOUS
<1> DEFINE S == {i \in cmd.items : NotKnown(item[i])}
<1>1. S \in SUBSET Item /\ All(S, Staged) \in [S -> Record]
  BY CmdType, RecordTypes, AllType DEF TypeOK
<1>2. \A c \in Chunk \cap S : c \in files
  BY DEF CommitRecords, DataInv, DecisionHolds, NotKnown, OnADisc
<1>3. Idle \in Cmd /\ Idle.plans = {} /\ Idle.at \notin DataSteps
  BY GoType DEF DataSteps, TakingSteps
<1>4. AppendItems(All(S, Staged), Idle) /\ files' = files /\ content' = content /\ names' = names
      /\ root' = root
  BY DEF CommitRecords, staging, made
<1> HIDE DEF S
<1> QED
  BY <1>1, <1>2, <1>3, <1>4, RecordStep DEF DataInv

\* The items of an interrupted disc all have records, so pack stages none of
\* them: it takes those that are Staged.
LEMMA DataFinishStage ==
  ASSUME TypeOK, DataInv, NEW d \in Disc, FinishStage(d)
  PROVE  DataInv'
<1> DEFINE ids == {i \in content[d] : item[i].state \in {"none", "Staged"}}
           new == {i \in ids : item[i].state = "none"}
           next == [Go("finishPack", d) EXCEPT !.items = ids]
<1>1. ids \subseteq Item /\ new = {} /\ \A i \in ids : item[i].state = "Staged"
  BY DEF FinishStage, Interrupted, DataInv, RootRecorded, TypeOK
<1>2. next \in Cmd /\ next.at = "finishPack" /\ next.plans = {} /\ next.items = ids
  <2>1. Go("finishPack", d) \in Cmd /\ Go("finishPack", d).at = "finishPack" /\ Go("finishPack", d).plans = {}
    BY GoType DEF Steps
  <2> QED
    BY <1>1, <2>1 DEF Cmd
<1>3. AppendItems(All(new, Staged), next) /\ files' = files /\ content' = content /\ names' = names
      /\ root' = root
  BY DEF FinishStage, staging, made
<1>4. new \in SUBSET Item /\ All(new, Staged) \in [new -> Record] /\ Chunk \cap new = {}
  BY <1>1, RecordTypes, AllType
<1>5. item' = item
  BY <1>1, <1>3 DEF AppendItems, All, Written, TypeOK
<1> HIDE DEF new, ids
<1>6. StagedDataKept' /\ PlansHaveData' /\ RootRecorded' /\ cmd' \in {next, Idle}
  BY <1>2, <1>3, <1>4, RecordStep
<1>7. DecisionHolds'
  BY <1>1, <1>2, <1>5, <1>6, GoType DEF DecisionHolds, TakingSteps
<1> QED
  BY <1>6, <1>7 DEF DataInv

\* The items that a disc takes are Staged, so the host has their chunks.
LEMMA DataPackRecords ==
  ASSUME TypeOK, CommandOK, DataInv, FinishPack \/ PackItems
  PROVE  DataInv'
<1> DEFINE recs == All(cmd.items, PackedOn(cmd.disc))
<1>1. cmd.disc \in Disc /\ cmd.items \in SUBSET Item /\ \A i \in cmd.items : item[i].state = "Staged"
  BY CmdType DEF FinishPack, PackItems, CommandOK, DiscSteps, Steps, DataInv, DecisionHolds, TakingSteps, TypeOK
<1>2. recs \in [cmd.items -> Record]
  BY <1>1, AllType, RecordTypes
<1>3. PICK a \in {"finishEvent", "packEvent"} : AppendItems(recs, Go(a, cmd.disc))
  BY DEF FinishPack, PackItems
<1>4. Go(a, cmd.disc) \in Cmd /\ Go(a, cmd.disc).plans = {} /\ Go(a, cmd.disc).at \notin DataSteps
  BY <1>1, GoType DEF Steps, DataSteps, TakingSteps
<1>5. files' = files /\ content' = content /\ names' = names /\ root' = root
  BY DEF FinishPack, PackItems, staging, made
<1>6. \A c \in Chunk \cap cmd.items : c \in files
  BY <1>1 DEF DataInv, StagedDataKept
<1> HIDE DEF recs
<1> QED
  BY <1>1, <1>2, <1>3, <1>4, <1>5, <1>6, RecordStep DEF DataInv

LEMMA DataPackPlans ==
  ASSUME TypeOK, DataInv, NEW d \in Disc, PackPlans(d)
  PROVE  DataInv'
<1> DEFINE unrecorded == {i \in Readable : /\ item[i].state = "none"
                                           /\ \E s \in Snapshot : i \in Needs[s]
                                                                  /\ item[s].state = "Staged"}
<1>1. unrecorded \in SUBSET Item /\ \A c \in Chunk \cap unrecorded : c \in files
  BY ItemAssumption DEF Readable, TypeOK, Item
<1>2. AppendItems(All(unrecorded, Staged), Go("packTree", d)) /\ files' = files /\ content' = content
      /\ names' = names /\ root' = root \cup {d}
  BY DEF PackPlans
<1>3. content[d] = {}
  BY DEF PackPlans, Fresh, DataInv, RootRecorded
<1> HIDE DEF unrecorded
<1>4. All(unrecorded, Staged) \in [unrecorded -> Record]
  BY <1>1, AllType, RecordTypes
<1>5. Go("packTree", d) \in Cmd /\ Go("packTree", d).plans = {} /\ Go("packTree", d).at \notin DataSteps
  BY GoType DEF Steps, DataSteps, TakingSteps
<1> QED
  BY <1>1, <1>2, <1>3, <1>4, <1>5, RecordStep DEF DataInv

LEMMA DataPackTree == TypeOK /\ CommandOK /\ DataInv /\ PackTree => DataInv'
<1> SUFFICES ASSUME TypeOK, CommandOK, DataInv, PackTree PROVE DataInv'
  OBVIOUS
<1>1. PICK S \in Selections :
        /\ content' = [content EXCEPT ![cmd.disc] = S \cup Carried]
        /\ cmd' = [Go("packTables", cmd.disc) EXCEPT !.items = S]
  BY DEF PackTree
<1>2. /\ \A i \in S : item[i].state = "Staged"
      /\ \A i \in S \cup Carried : item[i].state # "none"
  BY DEF Selections, Carried, Taken
<1>3. cmd'.plans = {} /\ cmd'.at = "packTables" /\ cmd'.items = S
  BY <1>1 DEF Go, Idle
<1>4. item' = item /\ files' = files /\ root' = root
      /\ names' = [names EXCEPT ![cmd.disc] = ledger \cup {cmd.disc}]
  BY DEF PackTree, logs, staging
<1>5. StagedDataKept' /\ PlansHaveData'
  BY <1>3, <1>4 DEF DataInv, StagedDataKept, PlansHaveData
<1>6. RootRecorded'
  BY <1>1, <1>2, <1>4 DEF DataInv, RootRecorded, TypeOK
<1>7. DecisionHolds'
  BY <1>2, <1>3, <1>4 DEF DecisionHolds
<1> QED
  BY <1>5, <1>6, <1>7 DEF DataInv

LEMMA DataPackTables == TypeOK /\ DataInv /\ (PackTables \/ PackRow) => DataInv'
<1> SUFFICES ASSUME TypeOK, DataInv, PackTables \/ PackRow PROVE DataInv'
  OBVIOUS
<1>1. cmd'.plans = cmd.plans /\ cmd'.items = cmd.items /\ cmd'.at \in {"packRow", "packItems"}
  <2>1. cmd \in Cmd /\ \E a \in {"packRow", "packItems"} : cmd' = [cmd EXCEPT !.at = a]
    BY DEF PackTables, PackRow, TypeOK
  <2> QED
    BY <2>1, CmdPlans
<1>2. item' = item /\ files' = files /\ content' = content /\ names' = names /\ root' = root
  BY DEF PackTables, PackRow, logs, staging, made
<1>3. \A i \in cmd.items : item[i].state = "Staged"
  BY DEF PackTables, PackRow, DataInv, DecisionHolds, TakingSteps
<1>4. DecisionHolds'
  BY <1>1, <1>2, <1>3 DEF DecisionHolds
<1> QED
  BY <1>1, <1>2, <1>4 DEF DataInv, StagedDataKept, PlansHaveData, RootRecorded

LEMMA DataLoseRepository == TypeOK /\ DataInv /\ LoseRepository => DataInv'
<1> SUFFICES ASSUME TypeOK, DataInv, LoseRepository PROVE DataInv'
  OBVIOUS
<1>1. cmd' = Idle /\ item' = [i \in Item |-> NoRecord] /\ root' = {} /\ content' = content /\ names' = names
  BY DEF LoseRepository, made
<1>2. StagedDataKept'
  BY <1>1 DEF StagedDataKept, NoRecord, Item
<1>3. PlansHaveData' /\ DecisionHolds'
  BY <1>1, GoType, NothingDecided DEF PlansHaveData, DataSteps, TakingSteps
<1>4. RootRecorded'
  BY <1>1 DEF DataInv, RootRecorded
<1> QED
  BY <1>2, <1>3, <1>4 DEF DataInv

LEMMA DataInit == Init => DataInv
<1> SUFFICES ASSUME Init PROVE DataInv
  OBVIOUS
<1>1. cmd.plans = {} /\ cmd.at = "idle"
  BY GoType DEF Init
<1>2. StagedDataKept /\ RootRecorded
  BY DEF Init, StagedDataKept, RootRecorded, NoRecord, Item
<1>3. PlansHaveData /\ DecisionHolds
  BY <1>1 DEF PlansHaveData, DecisionHolds, TakingSteps
<1> QED
  BY <1>2, <1>3 DEF DataInv

LEMMA DataStep == TypeOK /\ CommandOK /\ DataInv /\ [Next]_vars => DataInv'
<1> SUFFICES ASSUME TypeOK, CommandOK, DataInv, [Next]_vars PROVE DataInv'
  OBVIOUS
<1>1. CASE \E d \in Disc : DiscCommand(d)
  BY <1>1, DataQuiet, DataRecover, DataFinishStage, DataPackPlans
  DEF DiscCommand, DiscBurned, DiscBurnedUndo, DiscVerified, VerifyUndo
<1>2. CASE UNCHANGED vars
  BY <1>2 DEF vars, DataInv, StagedDataKept, PlansHaveData, RootRecorded, DecisionHolds
<1>3. CASE \E s \in Snapshot : CommitWrites(s)
  BY <1>3, DataCommitWrites
<1> QED
  BY <1>1, <1>2, <1>3, DataOpen, DataRepairDisc, DataQuiet, DataRemoves, DataRecoverLedger,
     DataLostItems, DataFoundItems, DataUndoneItems, DataGcEvents, DataGcItems, DataGcUnlink,
     DataRecoverItems, DataCommitRecords, DataPackRecords, DataPackTree, DataPackTables,
     DataLoseRepository
  DEF Next

\* gc, `disc lost', `pack --undo', the repairs of stopped commands, recover and
\* pack never leave a staged or packed chunk without its chunk file.
THEOREM StagedDataIsKept == Spec => []StagedDataKept
<1>1. Init => TypeOK /\ CommandOK /\ DataInv
  BY TypeInit, DataInit
<1>2. TypeOK /\ CommandOK /\ DataInv /\ [Next]_vars => (TypeOK /\ CommandOK /\ DataInv)'
  BY TypeStep, DataStep
<1>3. DataInv => StagedDataKept
  BY DEF DataInv
<1> QED
  BY <1>1, <1>2, <1>3, PTL DEF Spec

-----------------------------------------------------------------------------
(***************************************************************************)
(* The holders of the items.                                               *)
(*                                                                         *)
(* None is inductive.  A plan of openLogs and the items of a command name  *)
(* a disc some writes before the records do, and pack changes the content  *)
(* of a disc: it must be a disc that no record can name yet.  A disc       *)
(* becomes verified many commands after its INDEX is written, and the      *)
(* table files of a disc go away while other commands stop and finish.     *)
(* A repair makes every Packed item of a disc that is "on disc only" an    *)
(* OnDisc one, and a disc comes to that state by gc or by recover: gc      *)
(* frees a disc whose check covers all of it, and recover reads a copy,    *)
(* which a disc with Packed items that no check covers does not have       *)
(* (BurntInv) unless it can never come back.                               *)
(***************************************************************************)

\* The record r of the item i names no disc, or one whose INDEX lists i.
NamesHolder(i, r) == r.disc # NoDisc => i \in content[r.disc]

HoldSteps == {"finishPack", "packTables", "packRow", "packItems",
              "recover", "recoverItems", "recheck"}

ItemsHeld == \A i \in Item : NamesHolder(i, item[i])
PlansHold == \A p \in cmd.plans : \A i \in DOMAIN p.recs : NamesHolder(i, p.recs[i])
CommandHolds ==
  /\ cmd.at \in HoldSteps => cmd.items \subseteq content[cmd.disc]
  /\ cmd.at = "packTree" => content[cmd.disc] = {}

HolderInv == ItemsHeld /\ PlansHold /\ CommandHolds

\* A disc that is verified, or that can become so without a new Packed event.
Indexed(r) == \/ r.state \in {"packed", "burned", "verified"}
              \/ r.state = "lost" /\ r.before = "verified"

UndoneSteps == {"undone", "undoing"}
TabledSteps == {"packRow", "packItems", "packEvent", "finishPack", "finishEvent"}

\* The catalog holds the tables of such a disc, and of one that pack records.
IndexInv ==
  /\ \A d \in Disc : Indexed(disc[d]) => d \in index
  /\ cmd.at \in TabledSteps => cmd.disc \in index
  /\ cmd.at \in UndoneSteps => disc[cmd.disc].state = "undone"

-----------------------------------------------------------------------------
(* Facts about the records that the commands write. *)

LEMMA RecordDiscs ==
  /\ Staged.disc = NoDisc /\ StagedByLoss.disc = NoDisc /\ NoRecord.disc = NoDisc
  /\ \A d : PackedOn(d).disc = d /\ OnDiscOf(d).disc = d /\ LostOf(d).disc = d
  BY DEF Staged, StagedByLoss, NoRecord, PackedOn, OnDiscOf, LostOf

\* A repair gives an item to no disc that does not hold it.
LEMMA RepairHolds ==
  ASSUME TypeOK, ItemsHeld, NEW info, NEW d \in Disc, NEW i \in DOMAIN Repair(info, d)
  PROVE  NamesHolder(i, Repair(info, d)[i])
<1>1. CASE i \in GivenBack(info, d)
  BY <1>1, RecordDiscs DEF Repair, GivenBack, NamesHolder
<1>2. CASE i \notin GivenBack(info, d) /\ i \in ObjectsBack(info, d)
  BY <1>2, RecordDiscs DEF Repair, ObjectsBack, NamesHolder
<1>3. CASE i \notin GivenBack(info, d) /\ i \notin ObjectsBack(info, d)
  <2>1. i \in Item /\ Repair(info, d)[i] = Follow(info.state, item[i], i \in objects)
    BY <1>3 DEF Repair, Direct
  <2>2. Follow(info.state, item[i], i \in objects)
          \in {StagedByLoss, Staged, LostOf(item[i].disc), OnDiscOf(item[i].disc), item[i]}
    BY DEF Follow
  <2> QED
    BY <2>1, <2>2, RecordDiscs DEF ItemsHeld, NamesHolder
<1> QED
  BY <1>1, <1>2, <1>3

-----------------------------------------------------------------------------
(* Kinds of steps. *)

LoudSteps == HoldSteps \cup {"packTree"}

LEMMA NothingHeld == cmd'.at \notin LoudSteps => CommandHolds'
  BY DEF CommandHolds, LoudSteps, HoldSteps

\* A step that writes no item record and no disc root.
LEMMA QuietHolder ==
  ASSUME HolderInv, item' = item, content' = content, cmd'.plans \subseteq cmd.plans
  PROVE  /\ ItemsHeld' /\ PlansHold'
         /\ cmd'.at \notin LoudSteps => HolderInv'
<1>1. ItemsHeld' /\ PlansHold'
  BY DEF HolderInv, ItemsHeld, PlansHold, NamesHolder
<1> QED
  BY <1>1, NothingHeld DEF HolderInv

\* A step that writes item records.
LEMMA RecordsHolder ==
  ASSUME TypeOK, HolderInv, NEW S \in SUBSET Item, NEW recs \in [S -> Record],
         NEW next \in Cmd, AppendItems(recs, next),
         \A i \in S : NamesHolder(i, recs[i]),
         content' = content, next.plans \subseteq cmd.plans
  PROVE  /\ ItemsHeld' /\ PlansHold' /\ cmd' \in {next, Idle}
         /\ next.at \notin LoudSteps => HolderInv'
<1>1. /\ \A i \in Item : item'[i] = item[i] \/ (i \in S /\ item'[i] = recs[i])
      /\ cmd' \in {next, Idle}
  BY AppendItemsType
<1>2. ItemsHeld'
  BY <1>1 DEF HolderInv, ItemsHeld, NamesHolder
<1>3. PlansHold'
  BY <1>1, CmdPlans DEF HolderInv, PlansHold, NamesHolder
<1>4. Idle.at \notin LoudSteps
  BY DEF Idle, LoudSteps, HoldSteps
<1> QED
  BY <1>1, <1>2, <1>3, <1>4, NothingHeld DEF HolderInv

\* A step that goes on with the repair of one disc.
LEMMA RepairHolder ==
  ASSUME TypeOK, HolderInv, NEW info, NEW d \in Disc, NEW next \in Cmd,
         AppendOwed(Repair(info, d), next), content' = content,
         next.plans \subseteq cmd.plans, next.at \notin LoudSteps
  PROVE  HolderInv'
<1>1. DOMAIN Repair(info, d) \in SUBSET Item /\ Repair(info, d) \in [DOMAIN Repair(info, d) -> Record]
  BY RepairType
<1>2. \A i \in DOMAIN Repair(info, d) : NamesHolder(i, Repair(info, d)[i])
  BY RepairHolds DEF HolderInv
<1>3. AppendItems(Repair(info, d), next)
  BY DEF AppendOwed
<1> QED
  BY <1>1, <1>2, <1>3, RecordsHolder

-----------------------------------------------------------------------------
(* The actions, for HolderInv. *)

LEMMA HolderOpen == TypeOK /\ HolderInv /\ Open => HolderInv'
<1> SUFFICES ASSUME TypeOK, HolderInv, Open PROVE HolderInv'
  OBVIOUS
<1>1. item' = item /\ content' = content
  BY DEF Open, logs, made
<1>2. CASE ToRepair = {}
  <2>1. cmd' = Go("open", NoDisc)
    BY <1>2 DEF Open
  <2>2. cmd'.plans = {} /\ cmd'.at \notin LoudSteps
    BY <2>1, CmdPlans DEF LoudSteps, HoldSteps
  <2> QED
    BY <1>1, <2>2, QuietHolder
<1>3. CASE ToRepair # {}
  <2> DEFINE P == {[disc |-> d, recs |-> Repair(disc[d], d)] : d \in ToRepair}
  <2>1. cmd' = [Go("repair", NoDisc) EXCEPT !.plans = P]
    BY <1>3 DEF Open
  <2>2. cmd'.plans = P /\ cmd'.at = "repair"
    BY <2>1 DEF Go, Idle
  <2>3. \A d \in ToRepair : \A i \in DOMAIN Repair(disc[d], d) : NamesHolder(i, Repair(disc[d], d)[i])
    BY RepairHolds DEF ToRepair, HolderInv
  <2>4. PlansHold'
    BY <1>1, <2>2, <2>3 DEF PlansHold, NamesHolder
  <2>5. ItemsHeld' /\ CommandHolds'
    BY <1>1, <2>2, NothingHeld DEF HolderInv, ItemsHeld, NamesHolder, LoudSteps, HoldSteps
  <2> QED
    BY <2>4, <2>5 DEF HolderInv
<1> QED
  BY <1>2, <1>3

LEMMA HolderRepairDisc == TypeOK /\ HolderInv /\ RepairDisc => HolderInv'
<1> SUFFICES ASSUME TypeOK, HolderInv, RepairDisc PROVE HolderInv'
  OBVIOUS
<1> DEFINE Next1(p) == IF cmd.plans = {p} THEN Go("open", NoDisc)
                       ELSE [cmd EXCEPT !.plans = @ \ {p}]
<1>1. PICK p \in cmd.plans : AppendOwed(p.recs, Next1(p))
  BY DEF RepairDisc
<1>2. Next1(p) \in Cmd /\ Next1(p).at \in {"open", "repair"} /\ Next1(p).plans \subseteq cmd.plans
  BY GoType, CmdPlans DEF RepairDisc, TypeOK, Cmd, Steps
<1>3. PICK S \in SUBSET Item : p.recs \in [S -> Record]
  <2>1. p \in Plan
    BY DEF TypeOK, Cmd
  <2>2. p.recs \in UNION {[S -> Record] : S \in SUBSET Item}
    BY <2>1 DEF Plan
  <2> QED
    BY <2>2
<1>4. \A i \in S : NamesHolder(i, p.recs[i])
  BY <1>3 DEF HolderInv, PlansHold
<1>5. Next1(p).at \notin LoudSteps
  BY <1>2 DEF LoudSteps, HoldSteps
<1>6. AppendItems(p.recs, Next1(p)) /\ content' = content
  BY <1>1 DEF AppendOwed, RepairDisc, made
<1> HIDE DEF Next1
<1> QED
  BY <1>2, <1>3, <1>4, <1>5, <1>6, RecordsHolder

\* The commands that write no item record and end, or go on with one disc.
LEMMA HolderQuiet ==
  ASSUME HolderInv,
         \/ Stop \/ VerifyRecords \/ LostRoot \/ RecoverEvents \/ RecheckEvent \/ GcUnlink
         \/ PackBegins \/ FinishEvent \/ PackEvent \/ PackFails
         \/ \E d \in Disc : \/ \E e : Mark(d, e)
                           \/ VerifyFails(d) \/ VerifyReads(d) \/ CatalogStops(d)
                           \/ DiscLost(d) \/ DiscLostUndo(d) \/ PackUndo(d)
  PROVE  HolderInv'
<1>1. cmd'.plans = {} /\ cmd'.at \notin LoudSteps
  <2>1. \/ cmd' = Idle
        \/ \E d : cmd' \in {Go("read", d), Go("lost", d), Go("found", d), Go("undone", d), Go("pack", d),
                           Go("packFails", d)}
    BY DEF Stop, VerifyRecords, LostRoot, RecoverEvents, RecheckEvent, GcUnlink, PackBegins,
           FinishEvent, PackEvent, PackFails, Mark, VerifyFails, VerifyReads, CatalogStops,
           DiscLost, DiscLostUndo, PackUndo
  <2>2. Idle.at = "idle"
    BY DEF Idle
  <2> QED
    BY <2>1, <2>2, CmdPlans DEF LoudSteps, HoldSteps
<1>2. item' = item /\ content' = content
  BY DEF Stop, VerifyRecords, LostRoot, RecoverEvents, RecheckEvent, GcUnlink, PackBegins,
         FinishEvent, PackEvent, PackFails, Mark, VerifyFails, VerifyReads, CatalogStops,
         DiscLost, DiscLostUndo, PackUndo, logs, made
<1> QED
  BY <1>1, <1>2, QuietHolder

LEMMA HolderRemoves ==
  ASSUME HolderInv, PackRemoves \/ UndoRemoves \/ (\E d \in Disc : Burn(d))
  PROVE  HolderInv'
<1>1. cmd' = cmd /\ item' = item /\ content' = content
  BY DEF PackRemoves, UndoRemoves, Burn, RemoveNext, logs, made
<1> QED
  BY <1>1 DEF HolderInv, ItemsHeld, PlansHold, CommandHolds, NamesHolder

LEMMA HolderItems ==
  ASSUME TypeOK, CommandOK, HolderInv, LostItems \/ FoundItems \/ UndoneItems
  PROVE  HolderInv'
<1>1. PICK next \in {Go("lostRoot", cmd.disc), Idle, Go("undoing", cmd.disc)} :
        AppendOwed(Repair(disc[cmd.disc], cmd.disc), next)
  BY DEF LostItems, FoundItems, UndoneItems
<1>2. cmd.disc \in Disc /\ content' = content
  BY DEF LostItems, FoundItems, UndoneItems, CommandOK, DiscSteps, Steps, made
<1>3. next \in Cmd /\ next.plans = {} /\ next.at \in {"lostRoot", "idle", "undoing"}
  BY <1>2, GoType DEF Steps
<1>4. next.at \notin LoudSteps
  BY <1>3 DEF LoudSteps, HoldSteps
<1> QED
  BY <1>1, <1>2, <1>3, <1>4, RepairHolder

LEMMA HolderGcEvents == TypeOK /\ HolderInv /\ GcEvents => HolderInv'
<1> SUFFICES ASSUME TypeOK, HolderInv, GcEvents PROVE HolderInv'
  OBVIOUS
<1>1. item' = item /\ content' = content
  BY DEF GcEvents, made
<1>2. \/ cmd' = Idle
      \/ cmd' = [Go("freed", NoDisc) EXCEPT !.discs = Freeable \cup InState("on disc only"),
                                            !.items = Garbage]
  BY DEF GcEvents
<1>3. CASE cmd' = Idle
  BY <1>1, <1>3, GoType, CmdPlans, QuietHolder DEF LoudSteps, HoldSteps
<1>4. CASE cmd' = [Go("freed", NoDisc) EXCEPT !.discs = Freeable \cup InState("on disc only"),
                                             !.items = Garbage]
  <2>1. cmd'.plans = {} /\ cmd'.at = "freed"
    BY <1>4 DEF Go, Idle
  <2> QED
    BY <1>1, <2>1, QuietHolder DEF LoudSteps, HoldSteps
<1> QED
  BY <1>2, <1>3, <1>4

LEMMA HolderGcItems == TypeOK /\ HolderInv /\ GcItems => HolderInv'
<1> SUFFICES ASSUME TypeOK, HolderInv, GcItems PROVE HolderInv'
  OBVIOUS
<1> DEFINE S == UNION {PackedItems(d) : d \in cmd.discs}
           recs == [i \in S |-> OnDiscOf(item[i].disc)]
           next == [cmd EXCEPT !.at = "unlink"]
<1>1. \A d \in cmd.discs : \A i \in PackedItems(d) : i \in Item /\ OnDiscOf(item[i].disc) \in Record
  BY CmdType, RecordTypes DEF PackedItems, PackedOn, TypeOK
<1>2. S \in SUBSET Item /\ recs \in [S -> Record]
  BY <1>1
<1>3. next \in Cmd /\ next.at = "unlink" /\ next.plans = cmd.plans
  <2>1. cmd \in Cmd /\ "unlink" \in Steps
    BY DEF TypeOK, Steps
  <2> QED
    BY <2>1, CmdType, CmdPlans
<1>4. \A i \in S : NamesHolder(i, recs[i])
  BY <1>2, RecordDiscs DEF HolderInv, ItemsHeld, NamesHolder
<1>5. AppendItems(recs, next) /\ content' = content
  BY DEF GcItems, AppendOwed, made
<1>6. next.at \notin LoudSteps
  BY <1>3 DEF LoudSteps, HoldSteps
<1> HIDE DEF S, recs, next
<1> QED
  BY <1>2, <1>3, <1>4, <1>5, <1>6, RecordsHolder

\* recover takes items of the INDEX of the disc only.
LEMMA RecoverReads ==
  ASSUME NEW d \in Disc, Recover(d)
  PROVE  cmd' = Idle \/ (cmd'.items \subseteq content[d])
<1>1. PICK bad \in IF Damage THEN SUBSET content[d] ELSE {{}},
           goodRefs, goodDiscs \in IF Damage THEN BOOLEAN ELSE {TRUE} :
        LET whole == bad = {} /\ goodRefs /\ goodDiscs
            read  == [Go("recover", d) EXCEPT
                        !.items = content[d] \ bad,
                        !.discs = IF goodDiscs THEN names[d] ELSE {},
                        !.whole = whole]
        IN cmd' = IF disc[d].state \in {"unknown", "missing"} THEN read
                  ELSE IF disc[d].state = "on disc only" /\ disc[d].failed /\ whole
                       THEN [read EXCEPT !.at = "recheck"]
                       ELSE Idle
  BY DEF Recover
<1> DEFINE named == IF goodDiscs THEN names[d] ELSE {}
           whole == bad = {} /\ goodRefs /\ goodDiscs
           read == [Go("recover", d) EXCEPT !.items = content[d] \ bad, !.discs = named, !.whole = whole]
<1>2. cmd' \in {read, [read EXCEPT !.at = "recheck"], Idle}
  BY <1>1
<1> HIDE DEF named, whole
<1>3. read.items = content[d] \ bad /\ [read EXCEPT !.at = "recheck"].items = content[d] \ bad
  BY DEF Go, Idle
<1> HIDE DEF read
<1> QED
  BY <1>2, <1>3

LEMMA HolderRecover ==
  ASSUME TypeOK, HolderInv, NEW d \in Disc, Recover(d)
  PROVE  HolderInv'
<1>1. item' = item /\ content' = content
  BY DEF Recover, logs, made
<1>2. /\ cmd'.plans = {} /\ cmd'.at \in {"idle", "recover", "recheck"}
      /\ cmd'.at # "idle" => cmd'.disc = d
  BY RecoverCommand
<1>3. cmd'.at # "idle" => cmd'.items \subseteq content[d]
  BY RecoverReads, CmdPlans, GoType
<1>4. CommandHolds'
  BY <1>1, <1>2, <1>3 DEF CommandHolds, HoldSteps
<1> QED
  BY <1>1, <1>2, <1>4, QuietHolder DEF HolderInv

\* The step of a command that goes on with the same disc and items.
LEMMA HolderGoesOn ==
  ASSUME TypeOK, HolderInv, RecoverLedger \/ PackTables \/ PackRow
  PROVE  HolderInv'
<1>1. item' = item /\ content' = content
  BY DEF RecoverLedger, PackTables, PackRow, logs, made
<1>2. PICK a \in {"recoverItems", "packRow", "packItems"} : cmd' = [cmd EXCEPT !.at = a]
  BY DEF RecoverLedger, PackTables, PackRow
<1>3. cmd'.at = a /\ cmd'.disc = cmd.disc /\ cmd'.items = cmd.items /\ cmd'.plans = cmd.plans
  BY <1>2 DEF TypeOK, Cmd
<1>4. cmd.at \in {"recover", "packTables", "packRow"}
  BY DEF RecoverLedger, PackTables, PackRow
<1>5. CommandHolds'
  BY <1>1, <1>3, <1>4 DEF HolderInv, CommandHolds, HoldSteps
<1> QED
  BY <1>1, <1>3, <1>5, QuietHolder DEF HolderInv

LEMMA HolderRecoverItems ==
  ASSUME TypeOK, CommandOK, HolderInv, RecoverItems \/ RecheckItems
  PROVE  HolderInv'
<1> DEFINE S == {i \in cmd.items : NotKnown(item[i])}
           recs == All(S, OnDiscOf(cmd.disc))
<1>1. PICK a \in {"recoverEvents", "recheckEvent"} : EnsureOnDisc(a)
  BY DEF RecoverItems, RecheckItems
<1>2. cmd.disc \in Disc /\ cmd.items \subseteq content[cmd.disc]
  BY DEF RecoverItems, RecheckItems, CommandOK, DiscSteps, Steps, HolderInv, CommandHolds, HoldSteps
<1>3. S \in SUBSET Item /\ recs \in [S -> Record]
  BY <1>2, CmdType, RecordTypes, AllType DEF TypeOK
<1> DEFINE next == [cmd EXCEPT !.at = a]
<1>4. next \in Cmd /\ next.at = a /\ next.plans = cmd.plans
  <2>1. cmd \in Cmd /\ a \in Steps
    BY DEF TypeOK, Steps
  <2> QED
    BY <2>1, CmdType, CmdPlans
<1>5. \A i \in S : NamesHolder(i, recs[i])
  BY <1>2, RecordDiscs DEF All, NamesHolder
<1>6. AppendItems(recs, next) /\ content' = content
  BY <1>1 DEF EnsureOnDisc, made
<1>7. next.at \notin LoudSteps
  BY <1>4 DEF LoudSteps, HoldSteps
<1> HIDE DEF S, recs, next
<1> QED
  BY <1>3, <1>4, <1>5, <1>6, <1>7, RecordsHolder

LEMMA HolderCommitWrites ==
  ASSUME TypeOK, HolderInv, NEW s \in Snapshot, CommitWrites(s)
  PROVE  HolderInv'
<1>1. item' = item /\ content' = content
  BY DEF CommitWrites, logs, made
<1>2. cmd' = Idle \/ \E W : cmd' = [Go("commit", NoDisc) EXCEPT !.items = W]
  BY DEF CommitWrites
<1>3. CASE cmd' = Idle
  BY <1>1, <1>3, GoType, CmdPlans, QuietHolder DEF LoudSteps, HoldSteps
<1>4. ASSUME NEW W, cmd' = [Go("commit", NoDisc) EXCEPT !.items = W] PROVE HolderInv'
  <2>1. cmd'.plans = {} /\ cmd'.at = "commit"
    BY <1>4 DEF Go, Idle
  <2> QED
    BY <1>1, <2>1, QuietHolder DEF LoudSteps, HoldSteps
<1> QED
  BY <1>2, <1>3, <1>4

\* A batch of Staged records names no disc.
LEMMA StagedHolds ==
  ASSUME TypeOK, HolderInv, NEW S \in SUBSET Item, NEW next \in Cmd, AppendItems(All(S, Staged), next),
         content' = content, next.plans \subseteq cmd.plans
  PROVE  /\ ItemsHeld' /\ PlansHold' /\ cmd' \in {next, Idle}
         /\ next.at \notin LoudSteps => HolderInv'
<1>1. All(S, Staged) \in [S -> Record]
  BY AllType, RecordTypes
<1>2. \A i \in S : NamesHolder(i, All(S, Staged)[i])
  BY RecordDiscs DEF All, NamesHolder
<1> QED
  BY <1>1, <1>2, RecordsHolder

LEMMA HolderCommitRecords == TypeOK /\ HolderInv /\ CommitRecords => HolderInv'
<1> SUFFICES ASSUME TypeOK, HolderInv, CommitRecords PROVE HolderInv'
  OBVIOUS
<1>1. {i \in cmd.items : NotKnown(item[i])} \in SUBSET Item
  BY CmdType DEF TypeOK
<1>2. Idle \in Cmd /\ Idle.plans = {} /\ Idle.at \notin LoudSteps
  BY GoType DEF LoudSteps, HoldSteps
<1> QED
  BY <1>1, <1>2, StagedHolds DEF CommitRecords, made

LEMMA HolderFinishStage ==
  ASSUME TypeOK, HolderInv, NEW d \in Disc, FinishStage(d)
  PROVE  HolderInv'
<1> DEFINE ids == {i \in content[d] : item[i].state \in {"none", "Staged"}}
           new == {i \in ids : item[i].state = "none"}
           next == [Go("finishPack", d) EXCEPT !.items = ids]
<1>1. ids \subseteq Item /\ new \in SUBSET Item /\ ids \subseteq content[d]
  BY DEF TypeOK
<1>2. Go("finishPack", d) \in Cmd /\ Go("finishPack", d).at = "finishPack"
      /\ Go("finishPack", d).plans = {} /\ Go("finishPack", d).disc = d
  BY GoType DEF Steps
<1>3. next \in Cmd /\ next.at = "finishPack" /\ next.plans = {} /\ next.disc = d /\ next.items = ids
  BY <1>1, <1>2 DEF Cmd
<1>4. AppendItems(All(new, Staged), next) /\ content' = content
  BY DEF FinishStage, made
<1> HIDE DEF new, ids, next
<1>5. ItemsHeld' /\ PlansHold' /\ cmd' \in {next, Idle}
  BY <1>1, <1>3, <1>4, StagedHolds
<1>6. CommandHolds'
  <2>1. CASE cmd' = Idle
    BY <2>1, GoType, NothingHeld DEF LoudSteps, HoldSteps
  <2>2. CASE cmd' = next
    BY <1>1, <1>3, <1>4, <2>2 DEF CommandHolds
  <2> QED
    BY <1>5, <2>1, <2>2
<1> QED
  BY <1>5, <1>6 DEF HolderInv

\* pack records the items of its disc root.
LEMMA HolderPackRecords ==
  ASSUME TypeOK, CommandOK, HolderInv, FinishPack \/ PackItems
  PROVE  HolderInv'
<1> DEFINE recs == All(cmd.items, PackedOn(cmd.disc))
<1>1. cmd.disc \in Disc /\ cmd.items \in SUBSET Item /\ cmd.items \subseteq content[cmd.disc]
  BY CmdType DEF FinishPack, PackItems, CommandOK, DiscSteps, Steps, HolderInv, CommandHolds, HoldSteps, TypeOK
<1>2. recs \in [cmd.items -> Record]
  BY <1>1, AllType, RecordTypes
<1>3. PICK a \in {"finishEvent", "packEvent"} : AppendItems(recs, Go(a, cmd.disc))
  BY DEF FinishPack, PackItems
<1>4. Go(a, cmd.disc) \in Cmd /\ Go(a, cmd.disc).plans = {} /\ Go(a, cmd.disc).at \notin LoudSteps
  BY <1>1, GoType DEF Steps, LoudSteps, HoldSteps
<1>5. content' = content /\ \A i \in cmd.items : NamesHolder(i, recs[i])
  BY <1>1, RecordDiscs DEF All, NamesHolder, FinishPack, PackItems, made
<1> HIDE DEF recs
<1> QED
  BY <1>1, <1>2, <1>3, <1>4, <1>5, RecordsHolder

\* pack takes a disc that no table names, so its content is still empty.
LEMMA HolderPackPlans ==
  ASSUME TypeOK, RootRecorded, HolderInv, NEW d \in Disc, PackPlans(d)
  PROVE  HolderInv'
<1> DEFINE unrecorded == {i \in Readable : /\ item[i].state = "none"
                                           /\ \E s \in Snapshot : i \in Needs[s]
                                                                  /\ item[s].state = "Staged"}
<1>1. unrecorded \in SUBSET Item
  BY DEF Readable, TypeOK, Item
<1>2. AppendItems(All(unrecorded, Staged), Go("packTree", d)) /\ content' = content
  BY DEF PackPlans
<1>3. content[d] = {}
  BY DEF PackPlans, Fresh, RootRecorded
<1> HIDE DEF unrecorded
<1>4. Go("packTree", d) \in Cmd /\ Go("packTree", d).plans = {} /\ Go("packTree", d).at = "packTree"
      /\ Go("packTree", d).disc = d
  BY GoType DEF Steps
<1>5. ItemsHeld' /\ PlansHold' /\ cmd' \in {Go("packTree", d), Idle}
  BY <1>1, <1>2, <1>4, StagedHolds
<1>6. CommandHolds'
  BY <1>2, <1>3, <1>4, <1>5, GoType DEF CommandHolds, HoldSteps
<1> QED
  BY <1>5, <1>6 DEF HolderInv

LEMMA HolderPackTree == TypeOK /\ CommandOK /\ HolderInv /\ PackTree => HolderInv'
<1> SUFFICES ASSUME TypeOK, CommandOK, HolderInv, PackTree PROVE HolderInv'
  OBVIOUS
<1>1. PICK S \in Selections :
        /\ content' = [content EXCEPT ![cmd.disc] = S \cup Carried]
        /\ cmd' = [Go("packTables", cmd.disc) EXCEPT !.items = S]
  BY DEF PackTree
<1>2. cmd.disc \in Disc /\ content[cmd.disc] = {}
  BY DEF PackTree, CommandOK, DiscSteps, Steps, HolderInv, CommandHolds
<1>3. \A d \in Disc : content[d] \subseteq content'[d]
  BY <1>1, <1>2 DEF TypeOK
<1>4. cmd'.plans = {} /\ cmd'.at = "packTables" /\ cmd'.items = S /\ cmd'.disc = cmd.disc
  BY <1>1 DEF Go, Idle
<1>5. item' = item /\ \A i \in Item : item[i].disc # NoDisc => item[i].disc \in Disc
  BY DEF PackTree, logs, TypeOK, Record, NoRecord
<1>6. ItemsHeld'
  BY <1>3, <1>5 DEF HolderInv, ItemsHeld, NamesHolder
<1>7. PlansHold'
  BY <1>4 DEF PlansHold
<1>8. CommandHolds'
  BY <1>1, <1>2, <1>4 DEF CommandHolds, TypeOK
<1> QED
  BY <1>6, <1>7, <1>8 DEF HolderInv

LEMMA HolderLoseRepository == TypeOK /\ HolderInv /\ LoseRepository => HolderInv'
<1> SUFFICES ASSUME TypeOK, HolderInv, LoseRepository PROVE HolderInv'
  OBVIOUS
<1>1. cmd' = Idle /\ item' = [i \in Item |-> NoRecord]
  BY DEF LoseRepository
<1>2. ItemsHeld'
  BY <1>1, RecordDiscs DEF ItemsHeld, NamesHolder
<1>3. PlansHold' /\ CommandHolds'
  BY <1>1, GoType, NothingHeld DEF PlansHold, LoudSteps, HoldSteps
<1> QED
  BY <1>2, <1>3 DEF HolderInv

LEMMA HolderInit == Init => HolderInv
<1> SUFFICES ASSUME Init PROVE HolderInv
  OBVIOUS
<1>1. cmd.plans = {} /\ cmd.at = "idle"
  BY GoType DEF Init
<1>2. ItemsHeld
  BY RecordDiscs DEF Init, ItemsHeld, NamesHolder
<1>3. PlansHold /\ CommandHolds
  BY <1>1 DEF PlansHold, CommandHolds, HoldSteps
<1> QED
  BY <1>2, <1>3 DEF HolderInv

LEMMA HolderStep == TypeOK /\ CommandOK /\ DataInv /\ HolderInv /\ [Next]_vars => HolderInv'
<1> SUFFICES ASSUME TypeOK, CommandOK, DataInv, HolderInv, [Next]_vars PROVE HolderInv'
  OBVIOUS
<1>1. CASE \E d \in Disc : DiscCommand(d)
  BY <1>1, HolderQuiet, HolderRecover, HolderFinishStage, HolderPackPlans
  DEF DiscCommand, DiscBurned, DiscBurnedUndo, DiscVerified, VerifyUndo, DataInv
<1>2. CASE UNCHANGED vars
  BY <1>2 DEF vars, HolderInv, ItemsHeld, PlansHold, CommandHolds, NamesHolder
<1>3. CASE \E s \in Snapshot : CommitWrites(s)
  BY <1>3, HolderCommitWrites
<1> QED
  BY <1>1, <1>2, <1>3, HolderOpen, HolderRepairDisc, HolderQuiet, HolderRemoves, HolderItems,
     HolderGcEvents, HolderGcItems, HolderGoesOn, HolderRecoverItems, HolderCommitRecords,
     HolderPackRecords, HolderPackTree, HolderLoseRepository
  DEF Next

\* Whatever commands and stops come, also after torn batches, damaged copies and
\* losses of the repository: a record that names a disc names one whose INDEX
\* lists the item.
THEOREM RecordsNameTheirHolder == Spec => []RecordsNameHolder
<1>1. Init => TypeOK /\ CommandOK /\ DataInv /\ HolderInv
  BY TypeInit, DataInit, HolderInit
<1>2. TypeOK /\ CommandOK /\ DataInv /\ HolderInv /\ [Next]_vars
        => (TypeOK /\ CommandOK /\ DataInv /\ HolderInv)'
  BY TypeStep, DataStep, HolderStep
<1>3. TypeOK /\ HolderInv => RecordsNameHolder
  BY NoDiscAssumption DEF HolderInv, ItemsHeld, NamesHolder, RecordsNameHolder, Taken, TypeOK, Record, NoRecord
<1> QED
  BY <1>1, <1>2, <1>3, PTL DEF Spec

-----------------------------------------------------------------------------
(* The tables in the catalog, for IndexInv. *)

TouchySteps == TabledSteps \cup UndoneSteps

\* The step at which a new command stands.
LEMMA CommandAt == Idle.at = "idle" /\ \A a, d : Go(a, d).at = a
  BY GoType, CmdPlans

LEMMA CommandGoesTo ==
  ASSUME NEW a, NEW d, NEW X,
         \/ cmd' = [Go(a, d) EXCEPT !.plans = X]
         \/ cmd' = [Go(a, d) EXCEPT !.items = X]
         \/ cmd \in Cmd /\ cmd' = [cmd EXCEPT !.at = a]
         \/ cmd \in Cmd /\ cmd.at = a /\ cmd' = [cmd EXCEPT !.plans = X]
  PROVE  cmd'.at = a
<1>1. CASE cmd' = [Go(a, d) EXCEPT !.plans = X]
  BY <1>1 DEF Go, Idle
<1>2. CASE cmd' = [Go(a, d) EXCEPT !.items = X]
  BY <1>2 DEF Go, Idle
<1>3. CASE cmd \in Cmd /\ cmd' = [cmd EXCEPT !.at = a]
  BY <1>3 DEF Cmd
<1>4. CASE cmd \in Cmd /\ cmd.at = a /\ cmd' = [cmd EXCEPT !.plans = X]
  BY <1>4 DEF Cmd
<1> QED
  BY <1>1, <1>2, <1>3, <1>4

\* Only the Packed event makes a disc need its tables.
LEMMA EventIndexed ==
  ASSUME NEW r \in DiscInfo, NEW e, e # "Packed", Permits(r, e), Indexed(Apply(r, e))
  PROVE  Indexed(r)
<1> DEFINE t == Apply(r, e).state
<1>1. t \in Targets(r, e)
  BY ApplyType
<1>2. CASE t \in {"packed", "burned", "verified"}
  BY <1>1, <1>2 DEF Targets, Moves, FoundMoves, Indexed
<1>3. CASE t = "lost" /\ Apply(r, e).before = "verified"
  <2>1. e = "Lost"
    BY <1>1, <1>3 DEF Targets, Moves, FoundMoves
  <2>2. Apply(r, e).before = r.state
    BY <2>1 DEF Apply
  <2> QED
    BY <1>3, <2>2 DEF Indexed
<1> HIDE DEF t
<1> QED
  BY <1>2, <1>3 DEF Indexed, t

\* A step that takes no table away and lets no other disc need one.
LEMMA IndexKeeps ==
  ASSUME IndexInv, index \subseteq index', cmd'.at \notin TouchySteps,
         \A d \in Disc : Indexed(disc'[d]) => Indexed(disc[d])
  PROVE  IndexInv'
  BY DEF IndexInv, TouchySteps

LEMMA IndexQuiet ==
  ASSUME TypeOK, IndexInv,
         \/ Open \/ RepairDisc \/ Stop \/ LostItems \/ LostRoot \/ FoundItems \/ GcItems \/ GcUnlink
         \/ CommitRecords \/ PackBegins
         \/ \E d \in Disc : VerifyReads(d) \/ CatalogStops(d) \/ PackPlans(d)
  PROVE  IndexInv'
<1>1. disc' = disc /\ index \subseteq index'
  BY DEF Open, RepairDisc, Stop, LostItems, LostRoot, FoundItems, GcItems, GcUnlink, CommitRecords,
         PackBegins, VerifyReads, CatalogStops, PackPlans, logs, catalog
<1>2. cmd'.at \in {"idle", "open", "repair", "lostRoot", "unlink", "pack", "read", "packTree"}
  <2>1. CASE Open
    <3>1. cmd' = Go("open", NoDisc) \/ \E P : cmd' = [Go("repair", NoDisc) EXCEPT !.plans = P]
      BY <2>1 DEF Open
    <3>2. ASSUME NEW P, cmd' = [Go("repair", NoDisc) EXCEPT !.plans = P] PROVE cmd'.at = "repair"
      BY <3>2, CommandGoesTo
    <3> QED
      BY <3>1, <3>2, CommandAt
  <2>2. CASE RepairDisc
    <3>1. PICK p \in cmd.plans : cmd' \in {Go("open", NoDisc), [cmd EXCEPT !.plans = @ \ {p}], Idle}
      BY <2>2 DEF RepairDisc, AppendOwed, AppendItems
    <3>2. cmd.at = "repair" /\ cmd \in Cmd
      BY <2>2 DEF RepairDisc, TypeOK
    <3>3. cmd' = [cmd EXCEPT !.plans = @ \ {p}] => cmd'.at = "repair"
      BY <3>2, CommandGoesTo
    <3> QED
      BY <3>1, <3>3, CommandAt
  <2>3. CASE Stop \/ LostRoot \/ GcUnlink \/ PackBegins
    BY <2>3, CommandAt DEF Stop, LostRoot, GcUnlink, PackBegins
  <2>4. CASE LostItems \/ FoundItems \/ CommitRecords
    <3>1. cmd' = Go("lostRoot", cmd.disc) \/ cmd' = Idle
      BY <2>4 DEF LostItems, FoundItems, CommitRecords, AppendOwed, AppendItems
    <3> QED
      BY <3>1, CommandAt
  <2>5. CASE GcItems
    <3>1. cmd' \in {[cmd EXCEPT !.at = "unlink"], Idle}
      BY <2>5 DEF GcItems, AppendOwed, AppendItems
    <3>2. cmd' = [cmd EXCEPT !.at = "unlink"] => cmd'.at = "unlink"
      BY CommandGoesTo DEF TypeOK
    <3> QED
      BY <3>1, <3>2, CommandAt
  <2>6. CASE \E d \in Disc : VerifyReads(d) \/ CatalogStops(d) \/ PackPlans(d)
    <3>1. PICK d \in Disc : cmd' \in {Go("read", d), Go("packTree", d), Idle}
      BY <2>6 DEF VerifyReads, CatalogStops, PackPlans, AppendItems
    <3> QED
      BY <3>1, CommandAt
  <2> QED
    BY <2>1, <2>2, <2>3, <2>4, <2>5, <2>6
<1> QED
  BY <1>1, <1>2, IndexKeeps DEF TouchySteps, TabledSteps, UndoneSteps

LEMMA IndexReads ==
  ASSUME TypeOK, IndexInv,
         \/ RecoverLedger \/ RecoverItems \/ RecheckItems \/ PackTree
         \/ \E d \in Disc : Recover(d)
         \/ \E s \in Snapshot : CommitWrites(s)
  PROVE  IndexInv'
<1>1. disc' = disc /\ index \subseteq index'
  <2>1. CASE RecoverLedger \/ PackTree
    BY <2>1 DEF RecoverLedger, PackTree, logs, catalog
  <2>2. CASE RecoverItems \/ RecheckItems
    BY <2>2 DEF RecoverItems, RecheckItems, EnsureOnDisc, catalog
  <2>3. CASE \E d \in Disc : Recover(d)
    <3>1. PICK d \in Disc : Recover(d)
      BY <2>3
    <3>2. disc' = disc
      BY <3>1, Zenon DEF Recover, logs
    <3>3. index \subseteq index'
      BY <3>1 DEF Recover
    <3> QED
      BY <3>2, <3>3
  <2>4. CASE \E s \in Snapshot : CommitWrites(s)
    BY <2>4 DEF CommitWrites, logs
  <2> QED
    BY <2>1, <2>2, <2>3, <2>4
<1>2. cmd'.at \in {"idle", "recover", "recheck", "recoverItems", "recoverEvents", "recheckEvent",
                   "packTables", "commit"}
  <2>1. CASE RecoverLedger
    BY <2>1, CmdPlans DEF RecoverLedger, TypeOK
  <2>2. CASE RecoverItems \/ RecheckItems
    <3>1. PICK a \in {"recoverEvents", "recheckEvent"} : cmd' \in {[cmd EXCEPT !.at = a], Idle}
      BY <2>2 DEF RecoverItems, RecheckItems, EnsureOnDisc, AppendItems
    <3>2. cmd' = [cmd EXCEPT !.at = a] => cmd'.at = a
      BY CommandGoesTo DEF TypeOK
    <3> QED
      BY <3>1, <3>2, CommandAt
  <2>3. CASE PackTree
    <3>1. PICK S : cmd' = [Go("packTables", cmd.disc) EXCEPT !.items = S]
      BY <2>3 DEF PackTree
    <3> QED
      BY <3>1 DEF Go, Idle
  <2>4. CASE \E d \in Disc : Recover(d)
    BY <2>4, RecoverCommand
  <2>5. CASE \E s \in Snapshot : CommitWrites(s)
    <3>1. cmd' = Idle \/ \E W : cmd' = [Go("commit", NoDisc) EXCEPT !.items = W]
      BY <2>5 DEF CommitWrites
    <3>2. ASSUME NEW W, cmd' = [Go("commit", NoDisc) EXCEPT !.items = W] PROVE cmd'.at = "commit"
      BY <3>2, CommandGoesTo
    <3> QED
      BY <3>1, <3>2, CommandAt
  <2> QED
    BY <2>1, <2>2, <2>3, <2>4, <2>5
<1> QED
  BY <1>1, <1>2, IndexKeeps DEF TouchySteps, TabledSteps, UndoneSteps

\* The steps of pack that follow the tables, and the records of pack --undo.
LEMMA IndexGoesOn ==
  ASSUME TypeOK, CommandOK, IndexInv,
         \/ PackTables \/ PackRow \/ PackItems \/ FinishPack \/ UndoneItems
         \/ \E d \in Disc : FinishStage(d)
  PROVE  IndexInv'
<1>1. disc' = disc /\ index \subseteq index'
  BY DEF PackTables, PackRow, PackItems, FinishPack, UndoneItems, FinishStage, logs, catalog
<1>2. Idle.at \notin TouchySteps
  BY GoType DEF TouchySteps, TabledSteps, UndoneSteps
<1>3. CASE cmd' = Idle
  BY <1>1, <1>2, <1>3, IndexKeeps
<1>4. CASE PackTables \/ PackRow
  <2>1. PICK a \in {"packRow", "packItems"} : cmd' = [cmd EXCEPT !.at = a]
    BY <1>4 DEF PackTables, PackRow
  <2>2. cmd'.at = a /\ cmd'.disc = cmd.disc
    BY <2>1 DEF TypeOK, Cmd
  <2>3. cmd.disc \in index'
    BY <1>4 DEF PackTables, PackRow, IndexInv, TabledSteps, catalog
  <2> QED
    BY <1>1, <2>2, <2>3 DEF IndexInv, TabledSteps, UndoneSteps
<1>5. ASSUME PackItems \/ FinishPack, cmd' # Idle PROVE IndexInv'
  <2>1. PICK a \in {"packEvent", "finishEvent"} : cmd' = Go(a, cmd.disc)
    BY <1>5 DEF PackItems, FinishPack, AppendItems
  <2>2. cmd'.at = a /\ cmd'.disc = cmd.disc
    BY <2>1 DEF Go, Idle
  <2>3. cmd.disc \in index
    BY <1>5 DEF PackItems, FinishPack, IndexInv, TabledSteps
  <2> QED
    BY <1>1, <2>2, <2>3 DEF IndexInv, TabledSteps, UndoneSteps
<1>6. ASSUME UndoneItems, cmd' # Idle PROVE IndexInv'
  <2>1. cmd' = Go("undoing", cmd.disc) /\ disc[cmd.disc].state = "undone"
    BY <1>6 DEF UndoneItems, AppendOwed, AppendItems, IndexInv, UndoneSteps
  <2>2. cmd'.at = "undoing" /\ cmd'.disc = cmd.disc
    BY <2>1 DEF Go, Idle
  <2> QED
    BY <1>1, <2>1, <2>2 DEF IndexInv, TabledSteps, UndoneSteps
<1>7. ASSUME NEW d \in Disc, FinishStage(d), cmd' # Idle PROVE IndexInv'
  <2>1. d \in index /\ \E ids : cmd' = [Go("finishPack", d) EXCEPT !.items = ids]
    BY <1>7 DEF FinishStage, AppendItems
  <2>2. cmd'.at = "finishPack" /\ cmd'.disc = d
    BY <2>1 DEF Go, Idle
  <2> QED
    BY <1>1, <2>1, <2>2 DEF IndexInv, TabledSteps, UndoneSteps
<1> QED
  BY <1>3, <1>4, <1>5, <1>6, <1>7

\* One event of a disc that permits it.
LEMMA OneEvent ==
  ASSUME TypeOK, NEW d \in Disc, NEW e, e # "Packed", Permits(disc[d], e), AppendEvent(d, e)
  PROVE  \A x \in Disc : Indexed(disc'[x]) => Indexed(disc[x])
  BY EventIndexed DEF AppendEvent, TypeOK

LEMMA IndexMarks ==
  ASSUME TypeOK, CommandOK, IndexInv,
         \/ RecheckEvent
         \/ \E d \in Disc : \/ \E e \in {"BurnRecorded", "BurnRemoved", "MarkedVerified", "VerifyUndone"} :
                                 Mark(d, e)
                           \/ VerifyFails(d) \/ DiscLost(d) \/ DiscLostUndo(d)
  PROVE  IndexInv'
<1>1. PICK d \in Disc, e \in {"CheckOK", "CheckFailed", "BurnRecorded", "BurnRemoved",
                             "MarkedVerified", "VerifyUndone", "Lost", "LostUndone"} :
        AppendEvent(d, e) /\ Permits(disc[d], e)
  <2>1. CASE RecheckEvent
    <3>1. cmd.disc \in Disc /\ disc[cmd.disc].state = "on disc only" /\ disc[cmd.disc] \in DiscInfo
      BY <2>1 DEF RecheckEvent, CommandOK, DiscSteps, Steps, TypeOK
    <3> QED
      BY <2>1, <3>1, PermitStates DEF RecheckEvent
  <2>2. ASSUME NEW d \in Disc, VerifyFails(d) PROVE Permits(disc[d], "CheckFailed")
    BY <2>2, PermitStates DEF VerifyFails, CanVerify, TypeOK
  <2> QED
    BY <2>1, <2>2 DEF Mark, VerifyFails, DiscLost, DiscLostUndo
<1>2. \A x \in Disc : Indexed(disc'[x]) => Indexed(disc[x])
  BY <1>1, OneEvent
<1>3. index' = index
  BY DEF RecheckEvent, Mark, VerifyFails, DiscLost, DiscLostUndo, catalog
<1>4. cmd'.at \in {"idle", "lost", "found"}
  BY CommandAt DEF RecheckEvent, Mark, VerifyFails, DiscLost, DiscLostUndo
<1> QED
  BY <1>2, <1>3, <1>4, IndexKeeps DEF TouchySteps, TabledSteps, UndoneSteps

LEMMA IndexVerifyRecords == TypeOK /\ CommandOK /\ IndexInv /\ VerifyRecords => IndexInv'
<1> SUFFICES ASSUME TypeOK, CommandOK, IndexInv, VerifyRecords PROVE IndexInv'
  OBVIOUS
<1> DEFINE d == cmd.disc
           burned == IF disc[d].state = "packed" THEN Apply(disc[d], "BurnRecorded") ELSE disc[d]
<1>1. d \in Disc /\ disc[d].state \in {"packed", "burned", "verified", "on disc only"} /\ disc[d] \in DiscInfo
  BY DEF VerifyRecords, CommandOK, DiscSteps, Steps, TypeOK
<1>2. burned \in DiscInfo /\ burned.state \in {"burned", "verified", "on disc only"}
  BY <1>1, PermitStates, AppliedStates, ApplyType
<1>3. Indexed(burned) => Indexed(disc[d])
  BY <1>1, PermitStates, EventIndexed
<1>4. disc' = [disc EXCEPT ![d] = Apply(burned, "CheckOK")] \/ disc' = [disc EXCEPT ![d] = burned]
  BY DEF VerifyRecords
<1> HIDE DEF burned
<1>5. Indexed(Apply(burned, "CheckOK")) => Indexed(burned)
  BY <1>2, PermitStates, EventIndexed
<1>6. \A x \in Disc : Indexed(disc'[x]) => Indexed(disc[x])
  BY <1>1, <1>3, <1>4, <1>5 DEF TypeOK
<1>7. index' = index /\ cmd'.at = "idle"
  BY GoType DEF VerifyRecords, catalog
<1> QED
  BY <1>6, <1>7, IndexKeeps DEF TouchySteps, TabledSteps, UndoneSteps

LEMMA IndexGcEvents == TypeOK /\ IndexInv /\ GcEvents => IndexInv'
<1> SUFFICES ASSUME TypeOK, IndexInv, GcEvents PROVE IndexInv'
  OBVIOUS
<1>1. PICK G \in Written(Freeable) :
        disc' = [d \in Disc |-> IF d \in G THEN Apply(disc[d], "Freed") ELSE disc[d]]
  BY DEF GcEvents
<1>2. \A d \in G : disc[d].state = "verified"
  BY <1>1 DEF Written, Freeable, InState
<1>3. \A x \in Disc : Indexed(disc'[x]) => Indexed(disc[x])
  BY <1>1, <1>2 DEF Indexed
<1>4. index' = index
  BY DEF GcEvents, catalog
<1>5. \/ cmd' = Idle
      \/ cmd' = [Go("freed", NoDisc) EXCEPT !.discs = Freeable \cup InState("on disc only"),
                                            !.items = Garbage]
  BY DEF GcEvents
<1>6. cmd'.at \in {"idle", "freed"}
  <2>1. CASE cmd' = Idle
    BY <2>1, CommandAt
  <2>2. CASE cmd' = [Go("freed", NoDisc) EXCEPT !.discs = Freeable \cup InState("on disc only"),
                                               !.items = Garbage]
    BY <2>2 DEF Go, Idle
  <2> QED
    BY <1>5, <2>1, <2>2
<1> QED
  BY <1>3, <1>4, <1>6, IndexKeeps DEF TouchySteps, TabledSteps, UndoneSteps

LEMMA IndexRecoverEvents == TypeOK /\ CommandOK /\ IndexInv /\ RecoverEvents => IndexInv'
<1> SUFFICES ASSUME TypeOK, CommandOK, IndexInv, RecoverEvents PROVE IndexInv'
  OBVIOUS
<1> DEFINE d == cmd.disc
           unknown == {e \in cmd.discs \ {d} : ~Known(e)}
           recovered == Apply(disc[d], "Recovered")
           checked == IF cmd.whole THEN recovered ELSE Apply(recovered, "CheckFailed")
<1>1. d \in Disc /\ disc[d] \in DiscInfo /\ Permits(disc[d], "Recovered")
  BY PermitStates DEF RecoverEvents, CommandOK, DiscSteps, Steps, TypeOK
<1>2. recovered \in DiscInfo /\ recovered.state = "on disc only"
  BY <1>1, ApplyType, AppliedStates
<1>3. Indexed(recovered) => Indexed(disc[d])
  BY <1>1, EventIndexed
<1>4. PICK N \in Written(unknown), r \in IF TornBatches THEN {recovered, checked} ELSE {checked} :
        disc' = [e \in Disc |-> IF e = d THEN r
                                ELSE IF e \in N THEN Apply(disc[e], "NamedMissing")
                                ELSE disc[e]]
  BY DEF RecoverEvents
<1>5. \A e \in N : disc[e].state = "unknown"
  BY <1>4 DEF Written, Known
<1> HIDE DEF recovered
<1>6. Indexed(Apply(recovered, "CheckFailed")) => Indexed(recovered)
  BY <1>2, PermitStates, EventIndexed
<1>7. Indexed(r) => Indexed(disc[d])
  BY <1>3, <1>4, <1>6
<1> HIDE DEF checked
<1>8. \A e \in Disc \cap N : Indexed(Apply(disc[e], "NamedMissing")) => Indexed(disc[e])
  BY <1>5, PermitStates, EventIndexed DEF TypeOK
<1>9. \A x \in Disc : Indexed(disc'[x]) => Indexed(disc[x])
  BY <1>1, <1>4, <1>7, <1>8
<1>10. index' = index /\ cmd'.at = "idle"
  BY GoType DEF RecoverEvents, catalog
<1> QED
  BY <1>9, <1>10, IndexKeeps DEF TouchySteps, TabledSteps, UndoneSteps

\* The event of pack --undo: from then on nothing needs the tables of the disc.
LEMMA IndexPackUndo ==
  ASSUME TypeOK, IndexInv, NEW d \in Disc, PackUndo(d)
  PROVE  IndexInv'
<1>1. \A x \in Disc : Indexed(disc'[x]) => Indexed(disc[x])
  BY OneEvent DEF PackUndo
<1>2. disc[d] \in DiscInfo /\ Targets(disc[d], "PackUndone") \subseteq {"undone"}
  BY DEF Targets, Moves, TypeOK
<1>3. disc'[d].state = "undone"
  BY <1>2, ApplyType DEF PackUndo, AppendEvent, TypeOK
<1>4. cmd'.at = "undone" /\ cmd'.disc = d /\ index' = index
  BY DEF PackUndo, Go, Idle, catalog
<1> QED
  BY <1>1, <1>3, <1>4 DEF IndexInv, TabledSteps, UndoneSteps

\* The Packed event comes after the tables.
LEMMA IndexPacked ==
  ASSUME TypeOK, CommandOK, IndexInv, FinishEvent \/ PackEvent
  PROVE  IndexInv'
<1>1. cmd.disc \in index /\ index' = index /\ AppendEvent(cmd.disc, "Packed")
  BY DEF FinishEvent, PackEvent, IndexInv, TabledSteps, catalog
<1>2. \A x \in Disc : x # cmd.disc => disc'[x] = disc[x]
  BY <1>1 DEF AppendEvent, TypeOK
<1>3. cmd'.at \in {"idle", "pack"}
  BY CommandAt DEF FinishEvent, PackEvent
<1> QED
  BY <1>1, <1>2, <1>3 DEF IndexInv, TabledSteps, UndoneSteps

\* pack removes the tables of an undone disc, and of one with no event.
LEMMA IndexRemoves ==
  ASSUME TypeOK, CommandOK, IndexInv, PackRemoves \/ UndoRemoves \/ PackFails
  PROVE  IndexInv'
<1>1. PICK d : /\ disc[d].state \in {"undone", "unknown"} /\ disc' = disc /\ index \ {d} \subseteq index'
               /\ cmd'.at \in {"pack", "packFails", "idle"} \/ (cmd' = cmd /\ cmd.at = "undoing")
  <2>1. CASE PackRemoves
    <3>1. PICK d \in IF Leftover # {} THEN Leftover ELSE Stray : RemoveNext(d)
      BY <2>1 DEF PackRemoves
    <3>2. disc[d].state \in {"undone", "unknown"}
      BY <3>1 DEF Leftover, Stray, InState, Known
    <3> QED
      BY <2>1, <3>1, <3>2 DEF PackRemoves, RemoveNext, logs
  <2>2. CASE UndoRemoves
    BY <2>2 DEF UndoRemoves, RemoveNext, logs, IndexInv, UndoneSteps
  <2>3. CASE PackFails
    <3>1. disc[cmd.disc].state = "unknown"
      BY <2>3 DEF PackFails, CommandOK, NewDiscSteps, MakeSteps
    <3> QED
      BY <2>3, <3>1, CommandAt DEF PackFails, logs
  <2> QED
    BY <2>1, <2>2, <2>3
<1>2. ~Indexed(disc[d])
  BY <1>1 DEF Indexed
<1> QED
  BY <1>1, <1>2 DEF IndexInv, TabledSteps, UndoneSteps

LEMMA IndexOutside ==
  ASSUME TypeOK, IndexInv, LoseRepository \/ \E d \in Disc : Burn(d)
  PROVE  IndexInv'
<1>1. CASE LoseRepository
  <2>1. \A x \in Disc : ~Indexed(disc'[x])
    BY <1>1 DEF LoseRepository, Indexed, UnknownDisc
  <2>2. cmd'.at = "idle"
    BY <1>1, GoType DEF LoseRepository
  <2> QED
    BY <2>1, <2>2 DEF IndexInv, TabledSteps, UndoneSteps
<1>2. CASE \E d \in Disc : Burn(d)
  BY <1>2 DEF Burn, logs, catalog, IndexInv
<1> QED
  BY <1>1, <1>2

LEMMA IndexInit == Init => IndexInv
  BY GoType DEF Init, IndexInv, Indexed, UnknownDisc, TabledSteps, UndoneSteps

LEMMA IndexStep == TypeOK /\ CommandOK /\ IndexInv /\ [Next]_vars => IndexInv'
<1> SUFFICES ASSUME TypeOK, CommandOK, IndexInv, [Next]_vars PROVE IndexInv'
  OBVIOUS
<1>1. ASSUME NEW d \in Disc, DiscCommand(d) PROVE IndexInv'
  BY <1>1, IndexMarks, IndexQuiet, IndexReads, IndexGoesOn, IndexPackUndo
  DEF DiscCommand, DiscBurned, DiscBurnedUndo, DiscVerified, VerifyUndo
<1>2. CASE UNCHANGED vars
  BY <1>2 DEF vars, IndexInv
<1> QED
  BY <1>1, <1>2, IndexQuiet, IndexReads, IndexGoesOn, IndexMarks, IndexVerifyRecords, IndexGcEvents,
     IndexRecoverEvents, IndexPacked, IndexRemoves, IndexOutside
  DEF Next

\* Whatever commands and stops come: the catalog holds the INDEX of a verified
\* disc, and that INDEX lists all that is packed on it, so gc skips none.
THEOREM VerifiedDiscsAreConfirmed == Spec => []VerifiedIsConfirmed
<1>1. Init => TypeOK /\ CommandOK /\ DataInv /\ HolderInv /\ IndexInv
  BY TypeInit, DataInit, HolderInit, IndexInit
<1>2. TypeOK /\ CommandOK /\ DataInv /\ HolderInv /\ IndexInv /\ [Next]_vars
        => (TypeOK /\ CommandOK /\ DataInv /\ HolderInv /\ IndexInv)'
  BY TypeStep, DataStep, HolderStep, IndexStep
<1>3. HolderInv /\ IndexInv => VerifiedIsConfirmed
  <2> SUFFICES ASSUME HolderInv, IndexInv, NEW d \in InState("verified")
               PROVE  d \in index /\ PackedItems(d) \subseteq content[d]
    BY DEF VerifiedIsConfirmed
  <2>1. d \in index
    BY DEF InState, IndexInv, Indexed
  <2>2. ASSUME NEW i \in PackedItems(d) PROVE i \in content[d]
    BY <2>2, RecordDiscs, NoDiscAssumption DEF PackedItems, HolderInv, ItemsHeld, NamesHolder, InState
  <2> QED
    BY <2>1, <2>2
<1> QED
  BY <1>1, <1>2, <1>3, PTL DEF Spec

-----------------------------------------------------------------------------
(* The proofs of the checks, for FreedIsProved. *)

RecoverSteps == {"recover", "recoverItems", "recoverEvents"}
BurntSteps == MakeSteps \cup RecoverSteps

\* A disc that anything names is in its own DISCS table, so pack never takes it
\* again: the disc of a running or an interrupted pack has no copy.
BurntInv ==
  /\ \A d \in ledger \cup burnt : d \in names[d]
  /\ \A e \in Disc : \A d \in names[e] : d \in names[d]
  /\ \A d \in root : ~Known(d) => d \notin burnt
  /\ cmd.at = "recover" => \A d \in cmd.discs : d \in names[d]
  /\ cmd.at \in {"packTables", "packRow"} => cmd.disc \in names[cmd.disc]
  /\ cmd.at \in MakeSteps => cmd.disc \notin burnt
  /\ cmd.at \in RecoverSteps => cmd.disc \in burnt

\* A disc that was never burned and has no Packed event on this host.
Unburned(d) == /\ d \notin burnt
               /\ \/ disc[d].state \in {"unknown", "missing"}
                  \/ disc[d].state = "lost" /\ disc[d].before = "missing"

\* A disc that no later event gives back.
Gone(d) == \/ disc[d].state = "undone"
           \/ disc[d].state = "lost" /\ disc[d].before \in {"packed", "burned"}

\* The record r of the chunk c: an OnDisc or Lost record rests on a check that
\* still holds, and a Packed one that a repair may complete does, too.
Proven(c, r) ==
  /\ r.state \in {"OnDisc", "Lost"} => /\ c \in proof[r.disc]
                                       /\ ~Indexed(disc[r.disc])
                                       /\ ~Known(r.disc) => r.disc \in burnt
  /\ r.state = "Packed" /\ ~Indexed(disc[r.disc]) =>
       c \in proof[r.disc] \/ Unburned(r.disc) \/ Gone(r.disc)

ItemsProven == \A c \in Chunk : Proven(c, item[c])
PlansProven == \A p \in cmd.plans : \A c \in Chunk \cap DOMAIN p.recs : Proven(c, p.recs[c])

\* A good check vouches for the whole disc until another event.
ChecksHold == \A d \in Disc : disc[d].state = "verified" => proof[d] = content[d]

FreedDiscs == cmd.at = "freed" => \A d \in cmd.discs : disc[d].state = "on disc only"

ProofInv == ItemsProven /\ PlansProven /\ ChecksHold /\ FreedDiscs

-----------------------------------------------------------------------------
(* Where a command stands after a step. *)

\* The steps after which no command works on a new disc or on a copy.
LEMMA QuietAt ==
  ASSUME TypeOK, CommandOK,
         \/ Open \/ RepairDisc \/ Stop \/ VerifyRecords \/ LostItems \/ LostRoot \/ FoundItems
         \/ GcEvents \/ GcItems \/ GcUnlink \/ RecoverEvents \/ RecheckItems \/ RecheckEvent
         \/ CommitRecords \/ PackBegins \/ FinishEvent \/ PackEvent \/ PackFails \/ UndoneItems
         \/ \E s \in Snapshot : CommitWrites(s)
         \/ \E d \in Disc : \/ \E e : Mark(d, e)
                           \/ VerifyFails(d) \/ VerifyReads(d) \/ CatalogStops(d)
                           \/ DiscLost(d) \/ DiscLostUndo(d) \/ PackUndo(d)
  PROVE  cmd'.at \in Steps \ BurntSteps
<1>1. CASE Open
  <2>1. cmd' = Go("open", NoDisc) \/ \E P : cmd' = [Go("repair", NoDisc) EXCEPT !.plans = P]
    BY <1>1 DEF Open
  <2>2. ASSUME NEW P, cmd' = [Go("repair", NoDisc) EXCEPT !.plans = P] PROVE cmd'.at = "repair"
    BY <2>2, CommandGoesTo
  <2> QED
    BY <2>1, <2>2, CommandAt DEF Steps, BurntSteps, NewDiscSteps, MakeSteps, RecoverSteps
<1>2. CASE RepairDisc
  <2>1. PICK p \in cmd.plans : cmd' \in {Go("open", NoDisc), [cmd EXCEPT !.plans = @ \ {p}], Idle}
    BY <1>2 DEF RepairDisc, AppendOwed, AppendItems
  <2>2. cmd.at = "repair" /\ cmd \in Cmd
    BY <1>2 DEF RepairDisc, TypeOK
  <2>3. cmd' = [cmd EXCEPT !.plans = @ \ {p}] => cmd'.at = "repair"
    BY <2>2, CommandGoesTo
  <2> QED
    BY <2>1, <2>3, CommandAt DEF Steps, BurntSteps, NewDiscSteps, MakeSteps, RecoverSteps
<1>3. CASE \/ Stop \/ VerifyRecords \/ LostRoot \/ GcUnlink \/ RecoverEvents \/ RecheckEvent \/ PackBegins
           \/ FinishEvent \/ PackEvent \/ PackFails \/ LostItems \/ FoundItems \/ UndoneItems \/ CommitRecords
  <2>1. \/ cmd' = Idle
        \/ \E a \in {"pack", "packFails", "lostRoot", "undoing"} : \E d : cmd' = Go(a, d)
    BY <1>3 DEF Stop, VerifyRecords, LostRoot, GcUnlink, RecoverEvents, RecheckEvent, PackBegins,
                FinishEvent, PackEvent, PackFails, LostItems, FoundItems, UndoneItems, CommitRecords,
                AppendOwed, AppendItems
  <2> QED
    BY <2>1, CommandAt DEF Steps, BurntSteps, NewDiscSteps, MakeSteps, RecoverSteps
<1>4. CASE GcEvents
  <2>1. \/ cmd' = Idle
        \/ cmd' = [Go("freed", NoDisc) EXCEPT !.discs = Freeable \cup InState("on disc only"),
                                              !.items = Garbage]
    BY <1>4 DEF GcEvents
  <2>2. CASE cmd' = Idle
    BY <2>2, CommandAt DEF Steps, BurntSteps, NewDiscSteps, MakeSteps, RecoverSteps
  <2>3. CASE cmd' = [Go("freed", NoDisc) EXCEPT !.discs = Freeable \cup InState("on disc only"),
                                               !.items = Garbage]
    <3>1. cmd'.at = "freed"
      BY <2>3 DEF Go, Idle
    <3> QED
      BY <3>1 DEF Steps, BurntSteps, NewDiscSteps, MakeSteps, RecoverSteps
  <2> QED
    BY <2>1, <2>2, <2>3
<1>5. CASE GcItems \/ RecheckItems
  <2>1. PICK a \in {"unlink", "recheckEvent"} : cmd' \in {[cmd EXCEPT !.at = a], Idle}
    BY <1>5 DEF GcItems, RecheckItems, EnsureOnDisc, AppendOwed, AppendItems
  <2>2. cmd' = [cmd EXCEPT !.at = a] => cmd'.at = a
    BY CommandGoesTo DEF TypeOK
  <2> QED
    BY <2>1, <2>2, CommandAt DEF Steps, BurntSteps, NewDiscSteps, MakeSteps, RecoverSteps
<1>6. CASE \E s \in Snapshot : CommitWrites(s)
  <2>1. cmd' = Idle \/ \E W : cmd' = [Go("commit", NoDisc) EXCEPT !.items = W]
    BY <1>6 DEF CommitWrites
  <2>2. ASSUME NEW W, cmd' = [Go("commit", NoDisc) EXCEPT !.items = W] PROVE cmd'.at = "commit"
    BY <2>2, CommandGoesTo
  <2> QED
    BY <2>1, <2>2, CommandAt DEF Steps, BurntSteps, NewDiscSteps, MakeSteps, RecoverSteps
<1>7. CASE \E d \in Disc : \/ \E e : Mark(d, e)
                          \/ VerifyFails(d) \/ VerifyReads(d) \/ CatalogStops(d)
                          \/ DiscLost(d) \/ DiscLostUndo(d) \/ PackUndo(d)
  <2>1. \/ cmd' = Idle
        \/ \E a \in {"read", "lost", "found", "undone"} : \E d : cmd' = Go(a, d)
    BY <1>7 DEF Mark, VerifyFails, VerifyReads, CatalogStops, DiscLost, DiscLostUndo, PackUndo
  <2> QED
    BY <2>1, CommandAt DEF Steps, BurntSteps, NewDiscSteps, MakeSteps, RecoverSteps
<1> QED
  BY <1>1, <1>2, <1>3, <1>4, <1>5, <1>6, <1>7

-----------------------------------------------------------------------------
(* The discs that have a copy, for BurntInv. *)

\* No event makes a disc unknown again.
LEMMA EventKnown ==
  ASSUME NEW r \in DiscInfo, NEW e, Permits(r, e)
  PROVE  Apply(r, e).state # "unknown"
<1>1. "unknown" \notin Targets(r, e)
  BY DEF Targets, Moves, FoundMoves
<1> QED
  BY <1>1, ApplyType

StayKnown == \A d \in Disc : Known(d) => Known(d)'

LEMMA OneEventKnown ==
  ASSUME TypeOK, NEW d \in Disc, NEW e, Permits(disc[d], e), AppendEvent(d, e)
  PROVE  StayKnown
<1>1. Apply(disc[d], e).state # "unknown"
  BY EventKnown DEF TypeOK
<1>2. disc'[d] = Apply(disc[d], e) /\ \A x \in Disc : x # d => disc'[x] = disc[x]
  BY DEF AppendEvent, TypeOK
<1> QED
  BY <1>1, <1>2 DEF StayKnown, Known

LEMMA DiscsStayKnown ==
  ASSUME TypeOK, CommandOK,
         \/ disc' = disc
         \/ VerifyRecords \/ GcEvents \/ RecoverEvents \/ RecheckEvent \/ FinishEvent \/ PackEvent
         \/ \E d \in Disc : \/ \E e : Mark(d, e)
                           \/ VerifyFails(d) \/ DiscLost(d) \/ DiscLostUndo(d) \/ PackUndo(d)
  PROVE  StayKnown
<1>1. CASE disc' = disc
  BY <1>1 DEF StayKnown, Known
<1>2. CASE \E d \in Disc : \/ \E e : Mark(d, e)
                          \/ VerifyFails(d) \/ DiscLost(d) \/ DiscLostUndo(d) \/ PackUndo(d)
  <2>1. PICK d \in Disc : \/ \E e : Mark(d, e)
                         \/ VerifyFails(d) \/ DiscLost(d) \/ DiscLostUndo(d) \/ PackUndo(d)
    BY <1>2
  <2>2. VerifyFails(d) => Permits(disc[d], "CheckFailed")
    BY PermitStates DEF VerifyFails, CanVerify, TypeOK
  <2> QED
    BY <2>1, <2>2, OneEventKnown DEF Mark, VerifyFails, DiscLost, DiscLostUndo, PackUndo
<1>3. CASE RecheckEvent \/ FinishEvent \/ PackEvent
  <2>1. cmd.disc \in Disc /\ disc[cmd.disc] \in DiscInfo
    BY <1>3 DEF RecheckEvent, FinishEvent, PackEvent, CommandOK, DiscSteps, Steps, TypeOK
  <2>2. RecheckEvent => Permits(disc[cmd.disc], "CheckOK")
    BY <2>1, PermitStates DEF RecheckEvent, CommandOK
  <2>3. FinishEvent \/ PackEvent => Permits(disc[cmd.disc], "Packed")
    BY <2>1, PermitStates DEF FinishEvent, PackEvent, CommandOK, NewDiscSteps, MakeSteps
  <2> QED
    BY <1>3, <2>1, <2>2, <2>3, OneEventKnown DEF RecheckEvent, FinishEvent, PackEvent
<1>4. CASE VerifyRecords
  <2> DEFINE d == cmd.disc
             burned == IF disc[d].state = "packed" THEN Apply(disc[d], "BurnRecorded") ELSE disc[d]
  <2>1. d \in Disc /\ disc[d].state \in {"packed", "burned", "verified", "on disc only"} /\ disc[d] \in DiscInfo
    BY <1>4 DEF VerifyRecords, CommandOK, DiscSteps, Steps, TypeOK
  <2>2. burned \in DiscInfo /\ burned.state \in {"burned", "verified", "on disc only"}
    BY <2>1, PermitStates, AppliedStates, ApplyType
  <2>3. disc' = [disc EXCEPT ![d] = Apply(burned, "CheckOK")] \/ disc' = [disc EXCEPT ![d] = burned]
    BY <1>4 DEF VerifyRecords
  <2> HIDE DEF burned
  <2>4. Apply(burned, "CheckOK").state # "unknown"
    BY <2>2, PermitStates, EventKnown
  <2> QED
    BY <2>1, <2>2, <2>3, <2>4 DEF StayKnown, Known, TypeOK
<1>5. CASE GcEvents
  <2>1. PICK G \in Written(Freeable) :
          disc' = [d \in Disc |-> IF d \in G THEN Apply(disc[d], "Freed") ELSE disc[d]]
    BY <1>5 DEF GcEvents
  <2>2. \A d \in G : d \in Disc /\ disc[d].state = "verified"
    BY <2>1 DEF Written, Freeable, InState
  <2>3. \A d \in G : Apply(disc[d], "Freed").state # "unknown"
    BY <2>2, PermitStates, EventKnown DEF TypeOK
  <2> QED
    BY <2>1, <2>3 DEF StayKnown, Known
<1>6. CASE RecoverEvents
  <2> DEFINE d == cmd.disc
             unknown == {e \in cmd.discs \ {d} : ~Known(e)}
             recovered == Apply(disc[d], "Recovered")
             checked == IF cmd.whole THEN recovered ELSE Apply(recovered, "CheckFailed")
  <2>1. d \in Disc /\ disc[d] \in DiscInfo /\ Permits(disc[d], "Recovered")
    BY <1>6, PermitStates DEF RecoverEvents, CommandOK, DiscSteps, Steps, TypeOK
  <2>2. recovered \in DiscInfo /\ recovered.state = "on disc only"
    BY <2>1, ApplyType, AppliedStates
  <2>3. PICK N \in Written(unknown), r \in IF TornBatches THEN {recovered, checked} ELSE {checked} :
          disc' = [e \in Disc |-> IF e = d THEN r
                                  ELSE IF e \in N THEN Apply(disc[e], "NamedMissing")
                                  ELSE disc[e]]
    BY <1>6 DEF RecoverEvents
  <2>4. \A e \in N : ~Known(e)
    BY <2>3 DEF Written
  <2> HIDE DEF recovered
  <2>5. Apply(recovered, "CheckFailed").state # "unknown"
    BY <2>2, PermitStates, EventKnown
  <2>6. r.state # "unknown"
    BY <2>2, <2>3, <2>5
  <2> HIDE DEF checked, unknown
  <2> QED
    BY <2>1, <2>3, <2>4, <2>6 DEF StayKnown, Known
<1> QED
  BY <1>1, <1>2, <1>3, <1>4, <1>5, <1>6

\* A step that burns no disc, names no disc and makes no disc root.
LEMMA BurntKeeps ==
  ASSUME TypeOK, BurntInv, StayKnown, ledger' \subseteq ledger, root' \subseteq root,
         burnt' = burnt, names' = names
  PROVE  /\ cmd'.at \notin BurntSteps => BurntInv'
         /\ cmd' = cmd => BurntInv'
<1>1. /\ \A d \in ledger' \cup burnt' : d \in names'[d]
      /\ \A e \in Disc : \A d \in names'[e] : d \in names'[d]
  BY DEF BurntInv
<1>2. \A d \in root' : ~Known(d)' => d \notin burnt'
  BY DEF BurntInv, StayKnown, TypeOK
<1> QED
  BY <1>1, <1>2 DEF BurntInv, BurntSteps, NewDiscSteps, MakeSteps, RecoverSteps

LEMMA BurntQuiet ==
  ASSUME TypeOK, CommandOK, BurntInv,
         \/ Open \/ RepairDisc \/ Stop \/ VerifyRecords \/ LostItems \/ LostRoot \/ FoundItems
         \/ GcEvents \/ GcItems \/ GcUnlink \/ RecoverEvents \/ RecheckItems \/ RecheckEvent
         \/ CommitRecords \/ PackBegins \/ FinishEvent \/ PackEvent \/ PackFails \/ UndoneItems
         \/ \E s \in Snapshot : CommitWrites(s)
         \/ \E d \in Disc : \/ \E e : Mark(d, e)
                           \/ VerifyFails(d) \/ VerifyReads(d) \/ CatalogStops(d)
                           \/ DiscLost(d) \/ DiscLostUndo(d) \/ PackUndo(d)
  PROVE  BurntInv'
<1>1. cmd'.at \notin BurntSteps
  BY QuietAt
<1>2. ledger' = ledger /\ root' \subseteq root /\ burnt' = burnt /\ names' = names
  BY DEF Open, RepairDisc, Stop, VerifyRecords, LostItems, LostRoot, FoundItems, GcEvents, GcItems,
         GcUnlink, RecoverEvents, RecheckItems, EnsureOnDisc, RecheckEvent, CommitRecords, PackBegins,
         FinishEvent, PackEvent, PackFails, UndoneItems, CommitWrites, Mark, VerifyFails, VerifyReads,
         CatalogStops, DiscLost, DiscLostUndo, PackUndo, staging, made
<1>3. CASE \/ Open \/ RepairDisc \/ Stop \/ LostItems \/ LostRoot \/ FoundItems \/ GcItems \/ GcUnlink
           \/ RecheckItems \/ CommitRecords \/ PackBegins \/ PackFails \/ UndoneItems
           \/ \E s \in Snapshot : CommitWrites(s)
           \/ \E d \in Disc : VerifyReads(d) \/ CatalogStops(d)
  <2>1. disc' = disc
    BY <1>3 DEF Open, RepairDisc, Stop, LostItems, LostRoot, FoundItems, GcItems, GcUnlink, RecheckItems,
                EnsureOnDisc, CommitRecords, PackBegins, PackFails, UndoneItems, CommitWrites,
                VerifyReads, CatalogStops, logs
  <2> QED
    BY <1>1, <1>2, <2>1, DiscsStayKnown, BurntKeeps
<1> QED
  BY <1>1, <1>2, <1>3, DiscsStayKnown, BurntKeeps

LEMMA BurntRemoves ==
  ASSUME TypeOK, CommandOK, BurntInv, PackRemoves \/ UndoRemoves
  PROVE  BurntInv'
<1>1. disc' = disc /\ cmd' = cmd /\ burnt' = burnt /\ names' = names
  BY DEF PackRemoves, UndoRemoves, logs, made
<1>2. ledger' \subseteq ledger /\ root' \subseteq root
  BY DEF PackRemoves, UndoRemoves, RemoveNext
<1> QED
  BY <1>1, <1>2, DiscsStayKnown, BurntKeeps

\* Without an early burn the operator burns no disc that has no Packed event.
LEMMA BurntBurn ==
  ASSUME TypeOK, BurntInv, ~EarlyBurn, NEW d \in Disc, Burn(d)
  PROVE  BurntInv'
<1>1. /\ disc' = disc /\ ledger' = ledger /\ root' = root /\ names' = names /\ cmd' = cmd
      /\ burnt' = burnt \cup {d} /\ d \in ledger /\ Known(d) /\ cmd = Idle
  BY DEF Burn, Known, logs, staging, made
<1>2. cmd.at = "idle"
  BY <1>1, CommandAt
<1> QED
  BY <1>1, <1>2 DEF BurntInv, Known, NewDiscSteps, MakeSteps, RecoverSteps

LEMMA BurntRecover ==
  ASSUME TypeOK, CommandOK, BurntInv, NEW d \in Disc, Recover(d)
  PROVE  BurntInv'
<1>1. /\ disc' = disc /\ ledger' = ledger /\ root' = root /\ names' = names /\ burnt' = burnt
      /\ d \in burnt
  BY DEF Recover, logs, staging, made
<1>2. /\ cmd'.at \in {"idle", "recover", "recheck"}
      /\ cmd'.at # "idle" => cmd'.disc = d
      /\ cmd'.at = "recover" => cmd'.discs \subseteq names[d]
  BY RecoverCommand
<1> QED
  BY <1>1, <1>2 DEF BurntInv, Known, NewDiscSteps, MakeSteps, RecoverSteps

\* The steps of recover and pack that go on with the disc of the command.
LEMMA BurntGoesOn ==
  ASSUME TypeOK, CommandOK, BurntInv,
         \/ RecoverLedger \/ RecoverItems \/ PackTables \/ PackRow \/ FinishPack \/ PackItems
  PROVE  BurntInv'
<1>1. disc' = disc /\ root' = root /\ names' = names /\ burnt' = burnt
  BY DEF RecoverLedger, RecoverItems, EnsureOnDisc, PackTables, PackRow, FinishPack, PackItems,
         logs, staging, made
<1>2. \A d \in ledger' : d \in names'[d]
  <2>1. CASE RecoverLedger
    BY <1>1, <2>1 DEF RecoverLedger, BurntInv
  <2>2. CASE PackRow
    BY <1>1, <2>2 DEF PackRow, BurntInv
  <2>3. CASE RecoverItems \/ PackTables \/ FinishPack \/ PackItems
    BY <1>1, <2>3 DEF RecoverItems, EnsureOnDisc, PackTables, FinishPack, PackItems, BurntInv
  <2> QED
    BY <2>1, <2>2, <2>3
<1>3. /\ \A d \in burnt' : d \in names'[d]
      /\ \A e \in Disc : \A d \in names'[e] : d \in names'[d]
      /\ \A d \in root' : ~Known(d)' => d \notin burnt'
  BY <1>1 DEF BurntInv, Known
<1>4. CASE cmd' = Idle
  BY <1>2, <1>3, <1>4, CommandAt DEF BurntInv, NewDiscSteps, MakeSteps, RecoverSteps
<1>5. ASSUME RecoverLedger \/ RecoverItems, cmd' # Idle PROVE BurntInv'
  <2>1. PICK a \in {"recoverItems", "recoverEvents"} : cmd' = [cmd EXCEPT !.at = a]
    BY <1>5 DEF RecoverLedger, RecoverItems, EnsureOnDisc, AppendItems
  <2>2. cmd'.at = a /\ cmd'.disc = cmd.disc
    BY <2>1 DEF TypeOK, Cmd
  <2>3. cmd.disc \in burnt
    BY <1>5 DEF RecoverLedger, RecoverItems, BurntInv, RecoverSteps
  <2> QED
    BY <1>1, <1>2, <1>3, <2>2, <2>3 DEF BurntInv, NewDiscSteps, MakeSteps, RecoverSteps
<1>6. ASSUME PackTables \/ PackRow, cmd' # Idle PROVE BurntInv'
  <2>1. PICK a \in {"packRow", "packItems"} : cmd' = [cmd EXCEPT !.at = a]
    BY <1>6 DEF PackTables, PackRow
  <2>2. cmd'.at = a /\ cmd'.disc = cmd.disc
    BY <2>1 DEF TypeOK, Cmd
  <2>3. cmd.disc \notin burnt /\ cmd.disc \in names[cmd.disc]
    BY <1>6 DEF PackTables, PackRow, BurntInv, NewDiscSteps, MakeSteps
  <2> QED
    BY <1>1, <1>2, <1>3, <2>2, <2>3 DEF BurntInv, NewDiscSteps, MakeSteps, RecoverSteps
<1>7. ASSUME FinishPack \/ PackItems, cmd' # Idle PROVE BurntInv'
  <2>1. PICK a \in {"finishEvent", "packEvent"} : cmd' = Go(a, cmd.disc)
    BY <1>7 DEF FinishPack, PackItems, AppendItems
  <2>2. cmd'.at = a /\ cmd'.disc = cmd.disc
    BY <2>1 DEF Go, Idle
  <2>3. cmd.disc \notin burnt
    BY <1>7 DEF FinishPack, PackItems, BurntInv, NewDiscSteps, MakeSteps
  <2> QED
    BY <1>1, <1>2, <1>3, <2>2, <2>3 DEF BurntInv, NewDiscSteps, MakeSteps, RecoverSteps
<1> QED
  BY <1>4, <1>5, <1>6, <1>7

LEMMA BurntFinishStage ==
  ASSUME TypeOK, BurntInv, NEW d \in Disc, FinishStage(d)
  PROVE  BurntInv'
<1>1. /\ disc' = disc /\ ledger' = ledger /\ root' = root /\ names' = names /\ burnt' = burnt
      /\ d \in root /\ ~Known(d)
  BY DEF FinishStage, Interrupted, staging, made
<1>2. cmd' = Idle \/ \E ids : cmd' = [Go("finishPack", d) EXCEPT !.items = ids]
  BY DEF FinishStage, AppendItems
<1>3. CASE cmd' = Idle
  BY <1>1, <1>3, CommandAt DEF BurntInv, Known, NewDiscSteps, MakeSteps, RecoverSteps
<1>4. ASSUME NEW ids, cmd' = [Go("finishPack", d) EXCEPT !.items = ids] PROVE BurntInv'
  <2>1. cmd'.at = "finishPack" /\ cmd'.disc = d
    BY <1>4 DEF Go, Idle
  <2> QED
    BY <1>1, <2>1 DEF BurntInv, Known, NewDiscSteps, MakeSteps, RecoverSteps
<1> QED
  BY <1>2, <1>3, <1>4

\* A burned disc is in its own table, so it is not a fresh one.
LEMMA BurntPackPlans ==
  ASSUME TypeOK, BurntInv, NEW d \in Disc, PackPlans(d)
  PROVE  BurntInv'
<1>1. /\ disc' = disc /\ ledger' = ledger /\ root' = root \cup {d} /\ names' = names /\ burnt' = burnt
  BY DEF PackPlans
<1>2. d \notin burnt
  BY DEF PackPlans, Fresh, BurntInv
<1>3. cmd' \in {Go("packTree", d), Idle}
  BY DEF PackPlans, AppendItems
<1>4. cmd'.at \in {"packTree", "idle"} /\ (cmd'.at = "packTree" => cmd'.disc = d)
  BY <1>3, GoType DEF Steps
<1> QED
  BY <1>1, <1>2, <1>4 DEF BurntInv, Known, NewDiscSteps, MakeSteps, RecoverSteps

LEMMA BurntPackTree == TypeOK /\ CommandOK /\ BurntInv /\ PackTree => BurntInv'
<1> SUFFICES ASSUME TypeOK, CommandOK, BurntInv, PackTree PROVE BurntInv'
  OBVIOUS
<1> DEFINE d == cmd.disc
<1>1. /\ disc' = disc /\ ledger' = ledger /\ root' = root /\ burnt' = burnt
      /\ names' = [names EXCEPT ![d] = ledger \cup {d}]
  BY DEF PackTree, logs, staging
<1>2. d \in Disc /\ d \notin burnt
  BY DEF PackTree, CommandOK, DiscSteps, Steps, BurntInv, NewDiscSteps, MakeSteps
<1>3. /\ names'[d] = ledger \cup {d}
      /\ \A e \in Disc : e # d => names'[e] = names[e]
  BY <1>1, <1>2 DEF TypeOK
<1>4. \A x \in Disc : x \in names[x] => x \in names'[x]
  BY <1>3
<1>5. \A x \in ledger' \cup burnt' : x \in names'[x]
  BY <1>1, <1>4 DEF BurntInv, TypeOK
<1>6. \A e \in Disc : \A x \in names'[e] : x \in names'[x]
  <2>1. \A x \in names'[d] : x \in names'[x]
    BY <1>1, <1>3, <1>5
  <2>2. \A e \in Disc \ {d} : \A x \in names[e] : x \in Disc /\ x \in names[x]
    BY DEF BurntInv, TypeOK
  <2> QED
    BY <1>3, <1>4, <2>1, <2>2
<1>7. \A x \in root' : ~Known(x)' => x \notin burnt'
  BY <1>1 DEF BurntInv, Known
<1>8. cmd'.at = "packTables" /\ cmd'.disc = d
  <2>1. PICK S : cmd' = [Go("packTables", cmd.disc) EXCEPT !.items = S]
    BY DEF PackTree
  <2> QED
    BY <2>1 DEF Go, Idle
<1> QED
  BY <1>1, <1>2, <1>3, <1>5, <1>6, <1>7, <1>8 DEF BurntInv, NewDiscSteps, MakeSteps, RecoverSteps

LEMMA BurntLoseRepository == BurntInv /\ LoseRepository => BurntInv'
<1> SUFFICES ASSUME BurntInv, LoseRepository PROVE BurntInv'
  OBVIOUS
<1>1. ledger' = {} /\ root' = {} /\ burnt' = burnt /\ names' = names /\ cmd' = cmd /\ cmd = Idle
  BY DEF LoseRepository, made
<1>2. cmd.at = "idle"
  BY <1>1, CommandAt
<1> QED
  BY <1>1, <1>2 DEF BurntInv, NewDiscSteps, MakeSteps, RecoverSteps

LEMMA BurntInit == Init => BurntInv
  BY CommandAt DEF Init, BurntInv, NewDiscSteps, MakeSteps, RecoverSteps

LEMMA BurntStep == TypeOK /\ CommandOK /\ ~EarlyBurn /\ BurntInv /\ [Next]_vars => BurntInv'
<1> SUFFICES ASSUME TypeOK, CommandOK, ~EarlyBurn, BurntInv, [Next]_vars PROVE BurntInv'
  OBVIOUS
<1>1. ASSUME NEW d \in Disc, DiscCommand(d) PROVE BurntInv'
  BY <1>1, BurntQuiet, BurntRecover, BurntFinishStage, BurntPackPlans
  DEF DiscCommand, DiscBurned, DiscBurnedUndo, DiscVerified, VerifyUndo
<1>2. CASE UNCHANGED vars
  BY <1>2 DEF vars, BurntInv, Known
<1> QED
  BY <1>1, <1>2, BurntQuiet, BurntRemoves, BurntBurn, BurntGoesOn, BurntPackTree, BurntLoseRepository
  DEF Next

-----------------------------------------------------------------------------
(* What the steps of a disc leave of its checks, for ProofInv. *)

\* A step after which the records of the disc d rest on what they rested on.
Kept(d) ==
  /\ ~Indexed(disc[d]) =>
       /\ ~Indexed(disc'[d])
       /\ proof[d] \cap content[d] \subseteq proof'[d]
       /\ Unburned(d) => Unburned(d)'
       /\ Gone(d) => Gone(d)'
       /\ Known(d) => Known(d)'
  /\ Indexed(disc[d]) /\ ~Indexed(disc'[d]) => content[d] \subseteq proof'[d] \/ Gone(d)'

ChecksAndMarks == {"BurnRecorded", "BurnRemoved", "CheckOK", "CheckFailed", "MarkedVerified",
                   "VerifyUndone", "LostUndone"}

\* A check or a mark of a disc that is not freed keeps it so, and of a freed
\* disc it takes nothing back.
LEMMA CheckKeeps ==
  ASSUME TypeOK, NEW d \in Disc, NEW e \in ChecksAndMarks, Permits(disc[d], e),
         disc'[d] = Apply(disc[d], e), burnt' = burnt, Vouch(d, e)
  PROVE  Kept(d)
<1> DEFINE s == disc[d].state
           t == disc'[d].state
<1>1. disc[d] \in DiscInfo /\ t \in Targets(disc[d], e)
  BY ApplyType DEF TypeOK
<1>2. CASE e = "LostUndone"
  <2>1. s = "lost" /\ <<disc[d].before, t>> \in FoundMoves
    BY <1>1, <1>2 DEF Targets, Moves
  <2>2. disc[d].before # "verified" => proof'[d] = proof[d]
    BY <1>2, <2>1 DEF Vouch, TypeOK
  <2> QED
    BY <2>1, <2>2 DEF FoundMoves, Kept, Indexed, Unburned, Gone, Known
<1>3. CASE e \in {"CheckOK", "MarkedVerified"}
  <2>1. (s \in {"burned", "verified"} /\ t = "verified") \/ (s = "on disc only" /\ t = "on disc only")
    BY <1>1, <1>3 DEF Targets, Moves
  <2>2. proof'[d] = content[d]
    BY <1>3 DEF Vouch, TypeOK
  <2> QED
    BY <2>1, <2>2 DEF Kept, Indexed, Unburned, Gone, Known
<1>4. CASE e \in {"BurnRecorded", "BurnRemoved", "CheckFailed", "VerifyUndone"}
  <2>1. \/ s \in {"packed", "burned", "verified"} /\ t \in {"packed", "burned"}
        \/ s = "on disc only" /\ t = "on disc only"
    BY <1>1, <1>4 DEF Targets, Moves
  <2>2. s = "on disc only" => proof'[d] = proof[d]
    BY <1>4 DEF Vouch, TypeOK
  <2> QED
    BY <2>1, <2>2 DEF Kept, Indexed, Unburned, Gone, Known
<1> QED
  BY <1>2, <1>3, <1>4 DEF ChecksAndMarks

\* gc frees a disc whose check covers all of it; a loss, an undone pack and a
\* name in a table leave the checks as they were.
LEMMA OtherKeeps ==
  ASSUME TypeOK, ChecksHold, NEW d \in Disc, NEW e \in {"Freed", "Lost", "PackUndone", "NamedMissing"},
         Permits(disc[d], e), disc'[d] = Apply(disc[d], e), burnt' = burnt, proof' = proof
  PROVE  Kept(d)
<1> DEFINE s == disc[d].state
           t == disc'[d].state
<1>1. disc[d] \in DiscInfo /\ t \in Targets(disc[d], e)
  BY ApplyType DEF TypeOK
<1>2. CASE e = "Freed"
  <2>1. s = "verified" /\ t = "on disc only"
    BY <1>1, <1>2 DEF Targets, Moves
  <2>2. proof'[d] = content[d]
    BY <2>1 DEF ChecksHold
  <2> QED
    BY <2>1, <2>2 DEF Kept, Indexed
<1>3. CASE e = "Lost"
  <2>1. s \in {"packed", "burned", "verified", "on disc only", "missing"} /\ t = "lost"
    BY <1>1, <1>3 DEF Targets, Moves
  <2>2. disc'[d].before = s
    BY <1>3 DEF Apply
  <2> QED
    BY <2>1, <2>2 DEF Kept, Indexed, Unburned, Gone, Known
<1>4. CASE e \in {"PackUndone", "NamedMissing"}
  <2>1. (s = "packed" /\ t = "undone") \/ (s = "unknown" /\ t = "missing")
    BY <1>1, <1>4 DEF Targets, Moves
  <2> QED
    BY <2>1 DEF Kept, Indexed, Unburned, Gone, Known
<1> QED
  BY <1>2, <1>3, <1>4

LEMMA SameKeeps ==
  ASSUME NEW d \in Disc, disc'[d] = disc[d], proof[d] \subseteq proof'[d],
         d \in burnt' => d \in burnt \/ Indexed(disc[d])
  PROVE  Kept(d)
  BY DEF Kept, Indexed, Unburned, Gone, Known

\* A record that a step leaves alone stays proven.
LEMMA RecordKept ==
  ASSUME NEW c, NEW r, r.state \in {"Packed", "OnDisc", "Lost"} => r.disc \in Disc /\ c \in content[r.disc],
         Proven(c, r), burnt \subseteq burnt', r.disc \in Disc => Kept(r.disc)
  PROVE  Proven(c, r)'
  BY DEF Proven, Kept

\* A record of a batch or a plan.
LEMMA HeldRecords ==
  ASSUME HolderInv, TypeOK
  PROVE  /\ \A c \in Chunk : item[c].state \in {"Packed", "OnDisc", "Lost"} =>
                              item[c].disc \in Disc /\ c \in content[item[c].disc]
         /\ \A p \in cmd.plans : \A c \in Chunk \cap DOMAIN p.recs :
              p.recs[c].state \in {"Packed", "OnDisc", "Lost"} =>
                 p.recs[c].disc \in Disc /\ c \in content[p.recs[c].disc]
<1>1. \A r \in Record \cup {NoRecord} : r.state \in {"Packed", "OnDisc", "Lost"} => r.disc \in Disc /\ r.disc # NoDisc
  BY NoDiscAssumption DEF Record, NoRecord
<1>2. \A c \in Chunk : c \in Item /\ item[c] \in Record \cup {NoRecord}
  BY DEF TypeOK, Item
<1>3. ASSUME NEW p \in cmd.plans, NEW c \in DOMAIN p.recs PROVE p.recs[c] \in Record
  <2>1. p \in Plan
    BY DEF TypeOK, Cmd
  <2>2. PICK S \in SUBSET Item : p.recs \in [S -> Record]
    BY <2>1 DEF Plan
  <2> QED
    BY <2>2
<1> QED
  BY <1>1, <1>2, <1>3 DEF HolderInv, ItemsHeld, PlansHold, NamesHolder

\* A step that writes no item record.
LEMMA DiscsMove ==
  ASSUME TypeOK, HolderInv, ProofInv, \A d \in Disc : Kept(d), burnt \subseteq burnt',
         item' = item, cmd'.plans \subseteq cmd.plans
  PROVE  ItemsProven' /\ PlansProven'
<1>1. \A c \in Chunk : Proven(c, item[c])'
  BY HeldRecords, RecordKept DEF ProofInv, ItemsProven
<1>2. \A p \in cmd.plans : \A c \in Chunk \cap DOMAIN p.recs : Proven(c, p.recs[c])'
  BY HeldRecords, RecordKept DEF ProofInv, PlansProven
<1> QED
  BY <1>1, <1>2 DEF ItemsProven, PlansProven
-----------------------------------------------------------------------------
(* The records that the commands write, for ProofInv. *)

\* A record that is neither OnDisc nor Lost nor Packed needs no check.
LEMMA StagedProven ==
  ASSUME NEW c, NEW r, r.state \notin {"Packed", "OnDisc", "Lost"}
  PROVE  Proven(c, r)
  BY DEF Proven

\* A repair records a chunk as OnDisc or Lost only when the check still holds.
LEMMA RepairProven ==
  ASSUME TypeOK, ItemsProven, NEW d \in Disc, NEW c \in Chunk \cap DOMAIN Repair(disc[d], d)
  PROVE  Proven(c, Repair(disc[d], d)[c])
<1> DEFINE info == disc[d]
<1>0. c \in Item /\ c \notin objects /\ item[c] \in Record \cup {NoRecord} /\ Proven(c, item[c])
  BY ItemAssumption DEF Item, TypeOK, ItemsProven
<1>1. CASE c \in GivenBack(info, d)
  <2>1. Repair(info, d)[c] = PackedOn(d) /\ disc[d].state = "burned"
    BY <1>1 DEF Repair, GivenBack
  <2>2. PackedOn(d).state = "Packed" /\ PackedOn(d).disc = d
    BY DEF PackedOn
  <2>3. Indexed(disc[d])
    BY <2>1 DEF Indexed
  <2> QED
    BY <2>1, <2>2, <2>3 DEF Proven
<1>2. CASE c \notin GivenBack(info, d)
  <2>1. c \notin ObjectsBack(info, d)
    BY <1>0 DEF ObjectsBack
  <2> DEFINE held == c \in objects
  <2>2. item[c].disc = d /\ Repair(info, d)[c] = Follow(info.state, item[c], held) /\ ~held
    BY <1>0, <1>2, <2>1 DEF Repair, Direct
  <2> HIDE DEF held
  <2>3. CASE info.state = "lost" /\ item[c].state = "Packed"
    BY <2>2, <2>3, NewRecords DEF Follow, Proven
  <2>4. CASE info.state = "lost" /\ item[c].state = "OnDisc"
    <3>1. Follow(info.state, item[c], held) = LostOf(d)
      BY <2>2, <2>4 DEF Follow
    <3>2. LostOf(d).state = "Lost" /\ LostOf(d).disc = d
      BY DEF LostOf
    <3> QED
      BY <1>0, <2>2, <2>4, <3>1, <3>2 DEF Proven
  <2>5. CASE info.state = "undone" /\ item[c].state = "Packed"
    BY <2>2, <2>5, NewRecords DEF Follow, Proven
  <2>6. CASE info.state = "on disc only" /\ item[c].state \in {"Packed", "Lost"}
    <3>1. Follow(info.state, item[c], held) = OnDiscOf(d)
      BY <2>2, <2>6 DEF Follow
    <3>2. OnDiscOf(d).state = "OnDisc" /\ OnDiscOf(d).disc = d
      BY DEF OnDiscOf
    <3>3. ~Indexed(disc[d]) /\ Known(d) /\ ~Unburned(d) /\ ~Gone(d)
      BY <2>6 DEF Indexed, Known, Unburned, Gone
    <3>4. c \in proof[d]
      BY <1>0, <2>2, <2>6, <3>3 DEF Proven
    <3> QED
      BY <2>2, <3>1, <3>2, <3>3, <3>4 DEF Proven
  <2>7. CASE ~(\/ info.state = "lost" /\ item[c].state \in {"Packed", "OnDisc"}
               \/ info.state = "undone" /\ item[c].state = "Packed"
               \/ info.state = "on disc only" /\ item[c].state \in {"Packed", "Lost"})
    <3>1. Follow(info.state, item[c], held) = item[c]
      BY <2>7 DEF Follow
    <3> QED
      BY <1>0, <2>2, <3>1
  <2> QED
    BY <2>3, <2>4, <2>5, <2>6, <2>7
<1> QED
  BY <1>1, <1>2

\* A step that writes item records and no disc event.
LEMMA RecordsProven ==
  ASSUME TypeOK, HolderInv, ProofInv, NEW S \in SUBSET Item, NEW recs \in [S -> Record],
         NEW next \in Cmd, AppendItems(recs, next), next.plans \subseteq cmd.plans,
         disc' = disc, burnt' = burnt, \A d \in Disc : proof[d] \subseteq proof'[d],
         \A c \in Chunk \cap S : Proven(c, recs[c])'
  PROVE  ItemsProven' /\ PlansProven'
<1>1. \A d \in Disc : Kept(d)
  BY SameKeeps
<1>2. /\ \A i \in Item : item'[i] = item[i] \/ (i \in S /\ item'[i] = recs[i])
      /\ cmd' \in {next, Idle}
  BY AppendItemsType
<1>3. ASSUME NEW c \in Chunk PROVE Proven(c, item[c])'
  <2>1. PICK r : r = item[c]
    OBVIOUS
  <2>2. Proven(c, r)'
    BY <1>1, <2>1, HeldRecords, RecordKept DEF ProofInv, ItemsProven
  <2>3. c \in Item /\ (item'[c] = r \/ (c \in S /\ item'[c] = recs[c]))
    BY <1>2, <2>1 DEF Item
  <2>4. PICK q : q = item'[c]
    OBVIOUS
  <2>5. Proven(c, q)'
    BY <2>2, <2>3, <2>4
  <2> QED
    BY <2>4, <2>5
<1>4. \A p \in cmd.plans : \A c \in Chunk \cap DOMAIN p.recs : Proven(c, p.recs[c])'
  BY <1>1, HeldRecords, RecordKept DEF ProofInv, PlansProven
<1>5. cmd'.plans \subseteq cmd.plans
  BY <1>2, CmdPlans
<1>6. PlansProven'
  BY <1>4, <1>5 DEF PlansProven
<1> QED
  BY <1>3, <1>6 DEF ItemsProven

\* The same, with the rest of ProofInv.
LEMMA RecordsInv ==
  ASSUME TypeOK, HolderInv, ProofInv, NEW S \in SUBSET Item, NEW recs \in [S -> Record],
         NEW next \in Cmd, AppendItems(recs, next), next.plans \subseteq cmd.plans, next.at # "freed",
         disc' = disc, burnt' = burnt, content' = content,
         \A d \in Disc : proof[d] \subseteq proof'[d],
         \A d \in InState("verified") : proof'[d] = proof[d],
         \A c \in Chunk \cap S : Proven(c, recs[c])'
  PROVE  ProofInv'
<1>1. ItemsProven' /\ PlansProven'
  BY RecordsProven
<1>2. ChecksHold'
  BY DEF ProofInv, ChecksHold, InState
<1>3. FreedDiscs'
  <2>1. cmd' \in {next, Idle}
    BY AppendItemsType
  <2> QED
    BY <2>1, CommandAt DEF FreedDiscs
<1> QED
  BY <1>1, <1>2, <1>3 DEF ProofInv

LEMMA ProofRepairDisc == TypeOK /\ HolderInv /\ ProofInv /\ RepairDisc => ProofInv'
<1> SUFFICES ASSUME TypeOK, HolderInv, ProofInv, RepairDisc PROVE ProofInv'
  OBVIOUS
<1> DEFINE Next1(p) == IF cmd.plans = {p} THEN Go("open", NoDisc)
                       ELSE [cmd EXCEPT !.plans = @ \ {p}]
<1>1. PICK p \in cmd.plans : AppendItems(p.recs, Next1(p))
  BY DEF RepairDisc, AppendOwed
<1>2. Next1(p) \in Cmd /\ Next1(p).at \in {"open", "repair"} /\ Next1(p).plans \subseteq cmd.plans
  BY GoType, CmdPlans DEF RepairDisc, TypeOK, Cmd, Steps
<1>3. PICK S \in SUBSET Item : p.recs \in [S -> Record]
  <2>1. p \in Plan
    BY DEF TypeOK, Cmd
  <2>2. p.recs \in UNION {[S -> Record] : S \in SUBSET Item}
    BY <2>1 DEF Plan
  <2> QED
    BY <2>2
<1>4. disc' = disc /\ burnt' = burnt /\ content' = content /\ proof' = proof
  BY DEF RepairDisc, made
<1>5. \A c \in Chunk \cap S : Proven(c, p.recs[c])
  BY <1>3 DEF ProofInv, PlansProven
<1>6. \A c \in Chunk \cap S : Proven(c, p.recs[c])'
  BY <1>4, <1>5 DEF Proven, Unburned, Gone, Known, Indexed
<1> HIDE DEF Next1
<1>7. PICK n : n = Next1(p)
  OBVIOUS
<1> QED
  BY <1>1, <1>2, <1>3, <1>4, <1>6, <1>7, RecordsInv

LEMMA ProofItems ==
  ASSUME TypeOK, CommandOK, HolderInv, ProofInv, LostItems \/ FoundItems \/ UndoneItems
  PROVE  ProofInv'
<1>1. PICK n \in {Go("lostRoot", cmd.disc), Idle, Go("undoing", cmd.disc)} :
        AppendItems(Repair(disc[cmd.disc], cmd.disc), n)
  BY DEF LostItems, FoundItems, UndoneItems, AppendOwed
<1>2. cmd.disc \in Disc
  BY DEF LostItems, FoundItems, UndoneItems, CommandOK, DiscSteps, Steps
<1>3. n \in Cmd /\ n.plans = {} /\ n.at \in {"lostRoot", "idle", "undoing"}
  BY <1>2, <1>1, GoType DEF Steps
<1>4. PICK R : R = Repair(disc[cmd.disc], cmd.disc)
  OBVIOUS
<1>5. DOMAIN R \in SUBSET Item /\ R \in [DOMAIN R -> Record]
  BY <1>2, <1>4, RepairType
<1>6. disc' = disc /\ burnt' = burnt /\ content' = content /\ proof' = proof
  BY DEF LostItems, FoundItems, UndoneItems, made
<1>7. \A c \in Chunk \cap DOMAIN R : Proven(c, R[c])
  BY <1>2, <1>4, RepairProven DEF ProofInv
<1>8. \A c \in Chunk \cap DOMAIN R : Proven(c, R[c])'
  BY <1>6, <1>7 DEF Proven, Unburned, Gone, Known, Indexed
<1> QED
  BY <1>1, <1>3, <1>4, <1>5, <1>6, <1>8, RecordsInv

LEMMA ProofGcItems == TypeOK /\ HolderInv /\ ProofInv /\ GcItems => ProofInv'
<1> SUFFICES ASSUME TypeOK, HolderInv, ProofInv, GcItems PROVE ProofInv'
  OBVIOUS
<1>1. PICK recs : recs = [i \in UNION {PackedItems(d) : d \in cmd.discs} |-> OnDiscOf(item[i].disc)]
  OBVIOUS
<1> DEFINE S == DOMAIN recs
<1>2. ASSUME NEW i \in S
      PROVE  /\ i \in Item /\ recs[i] = OnDiscOf(item[i].disc)
             /\ item[i].disc \in cmd.discs /\ item[i].disc \in Disc /\ item[i].state = "Packed"
  <2>1. PICK d \in cmd.discs : i \in Item /\ item[i] = PackedOn(d)
    BY <1>1 DEF PackedItems
  <2>2. d \in Disc
    BY CmdType DEF TypeOK
  <2> QED
    BY <1>1, <2>1, <2>2, NewRecords
<1>3. S \in SUBSET Item /\ recs \in [S -> Record]
  BY <1>1, <1>2, RecordTypes
<1>4. PICK n : n = [cmd EXCEPT !.at = "unlink"]
  OBVIOUS
<1>5. n \in Cmd /\ n.at = "unlink" /\ n.plans = cmd.plans
  <2>1. cmd \in Cmd /\ "unlink" \in Steps
    BY DEF TypeOK, Steps
  <2> QED
    BY <1>4, <2>1, CmdType, CmdPlans
<1>6. disc' = disc /\ burnt' = burnt /\ content' = content /\ proof' = proof /\ AppendItems(recs, n)
  BY <1>1, <1>4 DEF GcItems, AppendOwed, made
<1>7. ASSUME NEW c \in Chunk \cap S PROVE Proven(c, recs[c])
  <2>1. disc[item[c].disc].state = "on disc only"
    BY <1>2 DEF ProofInv, FreedDiscs, GcItems
  <2>2. c \in proof[item[c].disc]
    BY <1>2, <2>1 DEF ProofInv, ItemsProven, Proven, Indexed, Unburned, Gone
  <2>3. recs[c].disc = item[c].disc /\ recs[c].state = "OnDisc"
    BY <1>2 DEF OnDiscOf
  <2> QED
    BY <2>1, <2>2, <2>3 DEF Proven, Indexed, Known
<1>8. \A c \in Chunk \cap S : Proven(c, recs[c])'
  BY <1>6, <1>7 DEF Proven, Unburned, Gone, Known, Indexed
<1> QED
  BY <1>3, <1>5, <1>6, <1>8, RecordsInv

\* recover vouches for each item that it records, and the disc is a burned one.
LEMMA ProofEnsureOnDisc ==
  ASSUME TypeOK, CommandOK, BurntInv, HolderInv, ProofInv, RecoverItems \/ RecheckItems
  PROVE  ProofInv'
<1> DEFINE d == cmd.disc
           S == {i \in cmd.items : NotKnown(item[i])}
<1>1. PICK a \in {"recoverEvents", "recheckEvent"} : EnsureOnDisc(a)
  BY DEF RecoverItems, RecheckItems
<1>2. /\ d \in Disc /\ cmd.items \subseteq Item
      /\ disc[d].state \in {"unknown", "missing", "on disc only"}
      /\ disc[d].state = "unknown" => d \in burnt
  BY CmdType DEF RecoverItems, RecheckItems, CommandOK, DiscSteps, Steps, TypeOK, BurntInv, RecoverSteps
<1>3. PICK recs : recs = All(S, OnDiscOf(d))
  OBVIOUS
<1>4. S \in SUBSET Item /\ recs \in [S -> Record]
  BY <1>2, <1>3, RecordTypes, AllType
<1>5. PICK n : n = [cmd EXCEPT !.at = a]
  OBVIOUS
<1>6. n \in Cmd /\ n.at = a /\ n.plans = cmd.plans
  <2>1. cmd \in Cmd /\ a \in Steps
    BY DEF TypeOK, Steps
  <2> QED
    BY <1>5, <2>1, CmdType, CmdPlans
<1>7. /\ disc' = disc /\ burnt' = burnt /\ content' = content /\ AppendItems(recs, n)
      /\ proof' = [proof EXCEPT ![d] = @ \cup cmd.items]
  BY <1>1, <1>3, <1>5 DEF EnsureOnDisc, made
<1>8. /\ \A e \in Disc : proof[e] \subseteq proof'[e]
      /\ \A e \in InState("verified") : proof'[e] = proof[e]
      /\ cmd.items \subseteq proof'[d]
  BY <1>2, <1>7 DEF TypeOK, InState
<1>9. ASSUME NEW c \in Chunk \cap S PROVE Proven(c, recs[c])'
  <2>1. recs[c] = OnDiscOf(cmd.disc) /\ c \in cmd.items
    BY <1>3 DEF All
  <2>2. PICK r : r = recs[c]
    OBVIOUS
  <2>3. r.state = "OnDisc" /\ r.disc = cmd.disc
    BY <2>1, <2>2 DEF OnDiscOf
  <2>4. Proven(c, r)'
    BY <1>2, <1>7, <1>8, <2>1, <2>3 DEF Proven, Indexed, Known
  <2> QED
    BY <2>2, <2>4
<1> HIDE DEF S, d
<1> QED
  BY <1>4, <1>6, <1>7, <1>8, <1>9, RecordsInv

\* A batch of Staged records.
LEMMA ProofStaged ==
  ASSUME TypeOK, HolderInv, ProofInv, NEW S \in SUBSET Item, NEW next \in Cmd,
         AppendItems(All(S, Staged), next), next.plans \subseteq cmd.plans, next.at # "freed",
         disc' = disc, burnt' = burnt, content' = content, proof' = proof
  PROVE  ProofInv'
<1>1. PICK recs : recs = All(S, Staged)
  OBVIOUS
<1>2. recs \in [S -> Record] /\ \A i \in S : recs[i] = Staged
  BY <1>1, AllType, RecordTypes DEF All
<1>3. \A c \in Chunk \cap S : Proven(c, recs[c])'
  BY <1>2, NewRecords DEF Proven
<1> QED
  BY <1>1, <1>2, <1>3, RecordsInv

\* A record of a disc that pack still writes: it has no copy.
LEMMA ProofPackRecords ==
  ASSUME TypeOK, CommandOK, BurntInv, HolderInv, ProofInv, FinishPack \/ PackItems
  PROVE  ProofInv'
<1>1. /\ cmd.disc \in Disc /\ cmd.items \in SUBSET Item
      /\ disc[cmd.disc].state = "unknown" /\ cmd.disc \notin burnt
  BY CmdType DEF FinishPack, PackItems, CommandOK, DiscSteps, NewDiscSteps, MakeSteps, Steps, TypeOK, BurntInv
<1>2. PICK recs : recs = All(cmd.items, PackedOn(cmd.disc))
  OBVIOUS
<1>3. PICK a \in {"finishEvent", "packEvent"} : AppendItems(recs, Go(a, cmd.disc))
  BY <1>2 DEF FinishPack, PackItems
<1>4. PICK n : n = Go(a, cmd.disc)
  OBVIOUS
<1>5. n \in Cmd /\ n.plans = {} /\ n.at # "freed"
  BY <1>1, <1>4, GoType DEF Steps
<1>6. recs \in [cmd.items -> Record]
  BY <1>1, <1>2, AllType, RecordTypes
<1>7. disc' = disc /\ burnt' = burnt /\ content' = content /\ proof' = proof
  BY DEF FinishPack, PackItems, made
<1>8. ASSUME NEW c \in Chunk \cap cmd.items PROVE Proven(c, recs[c])'
  <2>1. recs[c] = PackedOn(cmd.disc)
    BY <1>2 DEF All
  <2>2. recs[c].state = "Packed" /\ recs[c].disc = cmd.disc
    BY <2>1, NewRecords
  <2>3. Unburned(recs[c].disc)'
    BY <1>1, <1>7, <2>2 DEF Unburned
  <2> QED
    BY <2>2, <2>3 DEF Proven
<1> QED
  BY <1>1, <1>3, <1>4, <1>5, <1>6, <1>7, <1>8, RecordsInv

\* commit, and pack of items that a stopped commit left.
LEMMA ProofStages ==
  ASSUME TypeOK, HolderInv, ProofInv,
         CommitRecords \/ \E d \in Disc : FinishStage(d) \/ PackPlans(d)
  PROVE  ProofInv'
<1>1. CASE CommitRecords
  <2>1. {i \in cmd.items : NotKnown(item[i])} \in SUBSET Item
    BY CmdType DEF TypeOK
  <2>2. Idle \in Cmd /\ Idle.plans = {} /\ Idle.at # "freed"
    BY GoType
  <2> QED
    BY <1>1, <2>1, <2>2, ProofStaged DEF CommitRecords, made
<1>2. ASSUME NEW d \in Disc, FinishStage(d) PROVE ProofInv'
  <2>1. PICK ids : ids = {i \in content[d] : item[i].state \in {"none", "Staged"}}
    OBVIOUS
  <2>2. PICK new : new = {i \in ids : item[i].state = "none"}
    OBVIOUS
  <2>3. PICK n : n = [Go("finishPack", d) EXCEPT !.items = ids]
    OBVIOUS
  <2>4. ids \subseteq Item /\ new \in SUBSET Item
    BY <2>1, <2>2 DEF TypeOK
  <2>5. Go("finishPack", d) \in Cmd /\ Go("finishPack", d).at = "finishPack"
        /\ Go("finishPack", d).plans = {}
    BY GoType DEF Steps
  <2>6. n \in Cmd /\ n.at = "finishPack" /\ n.plans = {}
    BY <2>3, <2>4, <2>5 DEF Cmd
  <2>7. /\ AppendItems(All(new, Staged), n)
        /\ disc' = disc /\ burnt' = burnt /\ content' = content /\ proof' = proof
    BY <1>2, <2>1, <2>2, <2>3 DEF FinishStage, made
  <2> QED
    BY <2>4, <2>6, <2>7, ProofStaged
<1>3. ASSUME NEW d \in Disc, PackPlans(d) PROVE ProofInv'
  <2>1. PICK new : new = {i \in Readable : /\ item[i].state = "none"
                                           /\ \E s \in Snapshot : i \in Needs[s]
                                                                  /\ item[s].state = "Staged"}
    OBVIOUS
  <2>2. new \in SUBSET Item
    BY <2>1 DEF Readable, TypeOK, Item
  <2>3. PICK n : n = Go("packTree", d)
    OBVIOUS
  <2>4. n \in Cmd /\ n.plans = {} /\ n.at = "packTree"
    BY <2>3, GoType DEF Steps
  <2>5. /\ AppendItems(All(new, Staged), n)
        /\ disc' = disc /\ burnt' = burnt /\ content' = content /\ proof' = proof
    BY <1>3, <2>1, <2>3 DEF PackPlans
  <2> QED
    BY <2>2, <2>4, <2>5, ProofStaged
<1> QED
  BY <1>1, <1>2, <1>3

\* A step that writes no record and no event.
LEMMA ProofQuiet ==
  ASSUME TypeOK, HolderInv, ProofInv,
         disc' = disc, item' = item, content' = content, proof' = proof,
         burnt \subseteq burnt', \A d \in Disc : d \in burnt' => d \in burnt \/ Indexed(disc[d]),
         cmd'.plans \subseteq cmd.plans, cmd'.at # "freed"
  PROVE  ProofInv'
<1>1. \A d \in Disc : Kept(d)
  BY SameKeeps
<1>2. ItemsProven' /\ PlansProven'
  BY <1>1, DiscsMove
<1>3. ChecksHold' /\ FreedDiscs'
  BY DEF ProofInv, ChecksHold, FreedDiscs
<1> QED
  BY <1>2, <1>3 DEF ProofInv

LEMMA ProofQuietSteps ==
  ASSUME TypeOK, CommandOK, HolderInv, ProofInv,
         \/ Stop \/ LostRoot \/ GcUnlink \/ PackBegins \/ PackFails
         \/ RecoverLedger \/ PackTables \/ PackRow \/ PackRemoves \/ UndoRemoves
         \/ \E d \in Disc : VerifyReads(d) \/ CatalogStops(d) \/ Recover(d)
         \/ \E s \in Snapshot : CommitWrites(s)
  PROVE  ProofInv'
<1>1. disc' = disc /\ item' = item /\ content' = content /\ proof' = proof /\ burnt' = burnt
  BY DEF Stop, LostRoot, GcUnlink, PackBegins, PackFails, RecoverLedger, PackTables, PackRow,
         PackRemoves, UndoRemoves, VerifyReads, CatalogStops, Recover, CommitWrites, logs, made
<1>2. cmd'.plans \subseteq cmd.plans /\ cmd'.at # "freed"
  <2>1. CASE \/ Stop \/ LostRoot \/ GcUnlink \/ PackBegins \/ PackFails
             \/ \E d \in Disc : VerifyReads(d) \/ CatalogStops(d)
    <3>1. cmd' = Idle \/ \E a \in {"pack", "packFails", "read"} : \E d : cmd' = Go(a, d)
      BY <2>1 DEF Stop, LostRoot, GcUnlink, PackBegins, PackFails, VerifyReads, CatalogStops
    <3> QED
      BY <3>1, CommandAt, CmdPlans
  <2>2. CASE RecoverLedger \/ PackTables \/ PackRow
    <3>1. PICK a \in {"recoverItems", "packRow", "packItems"} : cmd' = [cmd EXCEPT !.at = a]
      BY <2>2 DEF RecoverLedger, PackTables, PackRow
    <3> QED
      BY <3>1, CmdPlans DEF TypeOK
  <2>3. CASE PackRemoves \/ UndoRemoves
    BY <2>3 DEF PackRemoves, UndoRemoves
  <2>4. CASE \E d \in Disc : Recover(d)
    BY <2>4, RecoverCommand
  <2>5. CASE \E s \in Snapshot : CommitWrites(s)
    <3>1. cmd' = Idle \/ \E W : cmd' = [Go("commit", NoDisc) EXCEPT !.items = W]
      BY <2>5 DEF CommitWrites
    <3>2. ASSUME NEW W, cmd' = [Go("commit", NoDisc) EXCEPT !.items = W]
          PROVE  cmd'.plans = {} /\ cmd'.at = "commit"
      BY <3>2 DEF Go, Idle
    <3> QED
      BY <3>1, <3>2, CommandAt, CmdPlans
  <2> QED
    BY <2>1, <2>2, <2>3, <2>4, <2>5
<1> QED
  BY <1>1, <1>2, ProofQuiet

\* Without an early burn the operator burns packed discs only.
LEMMA ProofBurn ==
  ASSUME TypeOK, HolderInv, ProofInv, ~EarlyBurn, NEW d \in Disc, Burn(d)
  PROVE  ProofInv'
<1>1. /\ disc' = disc /\ item' = item /\ content' = content /\ proof' = proof /\ cmd' = cmd
      /\ burnt' = burnt \cup {d} /\ Indexed(disc[d]) /\ cmd = Idle
  BY DEF Burn, Indexed, logs, made
<1>2. cmd'.at # "freed"
  BY <1>1, CommandAt
<1> QED
  BY <1>1, <1>2, ProofQuiet

LEMMA ProofOpen == TypeOK /\ HolderInv /\ ProofInv /\ Open => ProofInv'
<1> SUFFICES ASSUME TypeOK, HolderInv, ProofInv, Open PROVE ProofInv'
  OBVIOUS
<1>1. disc' = disc /\ item' = item /\ content' = content /\ proof' = proof /\ burnt' = burnt
  BY DEF Open, logs, made
<1>2. CASE ToRepair = {}
  <2>1. cmd' = Go("open", NoDisc)
    BY <1>2 DEF Open
  <2>2. cmd'.plans = {} /\ cmd'.at # "freed"
    BY <2>1, CmdPlans
  <2> QED
    BY <1>1, <2>2, ProofQuiet
<1>3. CASE ToRepair # {}
  <2>1. PICK P : P = {[disc |-> d, recs |-> Repair(disc[d], d)] : d \in ToRepair}
    OBVIOUS
  <2>2. cmd' = [Go("repair", NoDisc) EXCEPT !.plans = P]
    BY <1>3, <2>1 DEF Open
  <2>3. cmd'.plans = P /\ cmd'.at = "repair"
    BY <2>2 DEF Go, Idle
  <2>4. ASSUME NEW p \in P, NEW c \in Chunk \cap DOMAIN p.recs PROVE Proven(c, p.recs[c])
    BY <2>1, RepairProven DEF ToRepair, ProofInv
  <2>5. \A p \in P : \A c \in Chunk \cap DOMAIN p.recs : Proven(c, p.recs[c])'
    BY <1>1, <2>4 DEF Proven, Unburned, Gone, Known, Indexed
  <2>6. PlansProven'
    BY <2>3, <2>5 DEF PlansProven
  <2>7. ItemsProven'
    BY <1>1 DEF ProofInv, ItemsProven, Proven, Unburned, Gone, Known, Indexed
  <2>8. ChecksHold' /\ FreedDiscs'
    BY <1>1, <2>3 DEF ProofInv, ChecksHold, FreedDiscs
  <2> QED
    BY <2>6, <2>7, <2>8 DEF ProofInv
<1> QED
  BY <1>2, <1>3

\* pack fills the content of its disc, which no check covers.
LEMMA ProofPackTree == TypeOK /\ CommandOK /\ HolderInv /\ ProofInv /\ PackTree => ProofInv'
<1> SUFFICES ASSUME TypeOK, CommandOK, HolderInv, ProofInv, PackTree PROVE ProofInv'
  OBVIOUS
<1>1. PICK S \in Selections :
        /\ content' = [content EXCEPT ![cmd.disc] = S \cup Carried]
        /\ cmd' = [Go("packTables", cmd.disc) EXCEPT !.items = S]
  BY DEF PackTree
<1>2. disc' = disc /\ item' = item /\ proof' = proof /\ burnt' = burnt
  BY DEF PackTree, logs
<1>3. disc[cmd.disc].state = "unknown"
  BY DEF PackTree, CommandOK, NewDiscSteps, MakeSteps
<1>4. cmd'.plans = {} /\ cmd'.at = "packTables"
  BY <1>1 DEF Go, Idle
<1>5. \A d \in Disc : Kept(d)
  BY <1>2, SameKeeps
<1>6. ItemsProven' /\ PlansProven'
  BY <1>2, <1>4, <1>5, DiscsMove
<1>7. ChecksHold'
  BY <1>1, <1>2, <1>3 DEF ProofInv, ChecksHold, TypeOK
<1>8. FreedDiscs'
  BY <1>4 DEF FreedDiscs
<1> QED
  BY <1>6, <1>7, <1>8 DEF ProofInv

LEMMA ProofLoseRepository == LoseRepository => ProofInv'
<1> SUFFICES ASSUME LoseRepository PROVE ProofInv'
  OBVIOUS
<1>1. cmd' = Idle /\ item' = [i \in Item |-> NoRecord] /\ disc' = [d \in Disc |-> UnknownDisc]
  BY DEF LoseRepository
<1>2. cmd'.plans = {} /\ cmd'.at = "idle"
  BY <1>1, CmdPlans, CommandAt
<1>3. NoRecord.state = "none" /\ UnknownDisc.state = "unknown"
  BY DEF NoRecord, UnknownDisc
<1>4. ItemsProven'
  BY <1>1, <1>3 DEF ItemsProven, Proven, Item
<1>5. PlansProven' /\ ChecksHold' /\ FreedDiscs'
  BY <1>1, <1>2, <1>3 DEF PlansProven, ChecksHold, FreedDiscs
<1> QED
  BY <1>4, <1>5 DEF ProofInv

LEMMA ProofInit == Init => ProofInv
<1> SUFFICES ASSUME Init PROVE ProofInv
  OBVIOUS
<1>1. cmd.plans = {} /\ cmd.at = "idle"
  BY CmdPlans, CommandAt DEF Init
<1>2. NoRecord.state = "none" /\ UnknownDisc.state = "unknown"
  BY DEF NoRecord, UnknownDisc
<1>3. ItemsProven
  BY <1>2 DEF Init, ItemsProven, Proven, Item
<1>4. PlansProven /\ ChecksHold /\ FreedDiscs
  BY <1>1, <1>2 DEF Init, PlansProven, ChecksHold, FreedDiscs
<1> QED
  BY <1>3, <1>4 DEF ProofInv

-----------------------------------------------------------------------------
(* The disc events, for ProofInv. *)

\* A check or a mark of one disc.
LEMMA ProofCheck ==
  ASSUME TypeOK, HolderInv, ProofInv, NEW d \in Disc, NEW e \in ChecksAndMarks,
         Permits(disc[d], e), AppendEvent(d, e), Vouch(d, e),
         item' = item, content' = content, burnt' = burnt, cmd'.plans = {}, cmd'.at # "freed"
  PROVE  ProofInv'
<1>1. /\ disc'[d] = Apply(disc[d], e)
      /\ \A x \in Disc : x # d => disc'[x] = disc[x] /\ proof'[x] = proof[x]
  BY DEF AppendEvent, Vouch, TypeOK
<1>2. \A x \in Disc : Kept(x)
  BY <1>1, CheckKeeps, SameKeeps
<1>3. ItemsProven' /\ PlansProven'
  BY <1>2, DiscsMove
<1>4. disc'[d].state = "verified" => proof'[d] = content[d]
  <2>1. disc'[d].state \in Targets(disc[d], e)
    BY <1>1, ApplyType DEF TypeOK
  <2>2. disc'[d].state = "verified" => e \in {"CheckOK", "MarkedVerified"}
    BY <2>1 DEF Targets, Moves, FoundMoves
  <2> QED
    BY <2>2 DEF Vouch, TypeOK
<1>5. ChecksHold'
  BY <1>1, <1>4 DEF ProofInv, ChecksHold
<1>6. FreedDiscs'
  BY DEF FreedDiscs
<1> QED
  BY <1>3, <1>5, <1>6 DEF ProofInv

LEMMA ProofChecks ==
  ASSUME TypeOK, CommandOK, HolderInv, ProofInv,
         \/ RecheckEvent
         \/ \E d \in Disc : \/ \E e \in {"BurnRecorded", "BurnRemoved", "MarkedVerified", "VerifyUndone"} :
                                 Mark(d, e)
                           \/ VerifyFails(d) \/ DiscLostUndo(d)
  PROVE  ProofInv'
<1>1. PICK d \in Disc, e \in ChecksAndMarks : AppendEvent(d, e) /\ Permits(disc[d], e) /\ Vouch(d, e)
  <2>1. CASE RecheckEvent
    <3>1. cmd.disc \in Disc /\ disc[cmd.disc].state = "on disc only" /\ disc[cmd.disc] \in DiscInfo
      BY <2>1 DEF RecheckEvent, CommandOK, DiscSteps, Steps, TypeOK
    <3> QED
      BY <2>1, <3>1, PermitStates DEF RecheckEvent, ChecksAndMarks
  <2>2. ASSUME NEW d \in Disc, VerifyFails(d) PROVE Permits(disc[d], "CheckFailed")
    BY <2>2, PermitStates DEF VerifyFails, CanVerify, TypeOK
  <2> QED
    BY <2>1, <2>2 DEF Mark, VerifyFails, DiscLostUndo, ChecksAndMarks
<1>2. item' = item /\ content' = content /\ burnt' = burnt
  BY DEF RecheckEvent, Mark, VerifyFails, DiscLostUndo, made
<1>3. cmd' = Idle \/ \E x : cmd' = Go("found", x)
  BY DEF RecheckEvent, Mark, VerifyFails, DiscLostUndo
<1>4. cmd'.plans = {} /\ cmd'.at # "freed"
  BY <1>3, CommandAt, CmdPlans
<1> QED
  BY <1>1, <1>2, <1>4, ProofCheck

\* A loss, or an undone pack.
LEMMA ProofTakenBack ==
  ASSUME TypeOK, HolderInv, ProofInv, NEW d \in Disc, DiscLost(d) \/ PackUndo(d)
  PROVE  ProofInv'
<1>1. PICK e \in {"Lost", "PackUndone"} : AppendEvent(d, e) /\ Permits(disc[d], e)
  BY DEF DiscLost, PackUndo
<1>2. item' = item /\ content' = content /\ burnt' = burnt /\ proof' = proof
  BY DEF DiscLost, PackUndo, made
<1>3. cmd'.plans = {} /\ cmd'.at # "freed"
  <2>1. \E a \in {"lost", "undone"} : cmd' = Go(a, d)
    BY DEF DiscLost, PackUndo
  <2> QED
    BY <2>1, CommandAt, CmdPlans
<1>4. disc'[d] = Apply(disc[d], e) /\ \A x \in Disc : x # d => disc'[x] = disc[x]
  BY <1>1 DEF AppendEvent, TypeOK
<1>5. Kept(d)
  BY <1>1, <1>2, <1>4, OtherKeeps DEF ProofInv
<1>6. \A x \in Disc : x # d => Kept(x)
  BY <1>2, <1>4, SameKeeps
<1>7. ItemsProven' /\ PlansProven'
  BY <1>2, <1>3, <1>5, <1>6, DiscsMove
<1>8. disc'[d].state # "verified"
  <2>1. disc'[d].state \in Targets(disc[d], e)
    BY <1>1, <1>4, ApplyType DEF TypeOK
  <2> QED
    BY <2>1 DEF Targets, Moves
<1>9. ChecksHold' /\ FreedDiscs'
  BY <1>2, <1>3, <1>4, <1>8 DEF ProofInv, ChecksHold, FreedDiscs
<1> QED
  BY <1>7, <1>9 DEF ProofInv

LEMMA ProofGcEvents == TypeOK /\ HolderInv /\ ProofInv /\ GcEvents => ProofInv'
<1> SUFFICES ASSUME TypeOK, HolderInv, ProofInv, GcEvents PROVE ProofInv'
  OBVIOUS
<1>1. PICK G \in Written(Freeable) :
        /\ disc' = [d \in Disc |-> IF d \in G THEN Apply(disc[d], "Freed") ELSE disc[d]]
        /\ cmd' = IF G = Freeable
                  THEN [Go("freed", NoDisc) EXCEPT !.discs = Freeable \cup InState("on disc only"),
                                                   !.items = Garbage]
                  ELSE Idle
  BY DEF GcEvents
<1>2. \A d \in G : d \in Disc /\ disc[d].state = "verified"
  BY <1>1 DEF Written, Freeable, InState
<1>3. item' = item /\ content' = content /\ burnt' = burnt /\ proof' = proof
  BY DEF GcEvents, made
<1>4. ASSUME NEW d \in G PROVE disc'[d] = Apply(disc[d], "Freed") /\ disc'[d].state = "on disc only"
                               /\ Permits(disc[d], "Freed")
  <2>1. d \in Disc /\ disc[d] \in DiscInfo /\ disc'[d] = Apply(disc[d], "Freed")
    BY <1>1, <1>2 DEF TypeOK
  <2>2. Permits(disc[d], "Freed")
    BY <1>2, <2>1, PermitStates
  <2>3. Targets(disc[d], "Freed") \subseteq {"on disc only"}
    BY DEF Targets, Moves
  <2> QED
    BY <2>1, <2>2, <2>3, ApplyType
<1>5. \A d \in Disc \ G : disc'[d] = disc[d]
  BY <1>1
<1>6. \A d \in Disc : Kept(d)
  <2>1. \A d \in G : Kept(d)
    BY <1>2, <1>3, <1>4, OtherKeeps DEF ProofInv
  <2>2. \A d \in Disc \ G : Kept(d)
    BY <1>3, <1>5, SameKeeps
  <2> QED
    BY <2>1, <2>2
<1>7. ChecksHold'
  BY <1>3, <1>4, <1>5 DEF ProofInv, ChecksHold
<1>8. CASE G = Freeable
  <2>1. PICK F, I : F = Freeable \cup InState("on disc only") /\ I = Garbage
    OBVIOUS
  <2>2. cmd' = [Go("freed", NoDisc) EXCEPT !.discs = F, !.items = I]
    BY <1>1, <1>8, <2>1
  <2>3. cmd'.plans = {} /\ cmd'.discs = F
    BY <2>2 DEF Go, Idle
  <2>4. \A d \in F : disc'[d].state = "on disc only"
    BY <1>4, <1>5, <1>8, <2>1 DEF InState
  <2> QED
    BY <1>3, <1>6, <1>7, <2>3, <2>4, DiscsMove DEF ProofInv, FreedDiscs
<1>9. CASE G # Freeable
  <2>1. cmd'.plans = {} /\ cmd'.at # "freed"
    BY <1>1, <1>9, CommandAt, CmdPlans
  <2> QED
    BY <1>3, <1>6, <1>7, <2>1, DiscsMove DEF ProofInv, FreedDiscs
<1> QED
  BY <1>8, <1>9

LEMMA ProofVerifyRecords == TypeOK /\ CommandOK /\ HolderInv /\ ProofInv /\ VerifyRecords => ProofInv'
<1> SUFFICES ASSUME TypeOK, CommandOK, HolderInv, ProofInv, VerifyRecords PROVE ProofInv'
  OBVIOUS
<1>1. PICK d : d = cmd.disc
  OBVIOUS
<1>2. PICK burned : burned = IF disc[d].state = "packed" THEN Apply(disc[d], "BurnRecorded") ELSE disc[d]
  OBVIOUS
<1>3. d \in Disc /\ disc[d].state \in {"packed", "burned", "verified", "on disc only"} /\ disc[d] \in DiscInfo
  BY <1>1 DEF VerifyRecords, CommandOK, DiscSteps, Steps, TypeOK
<1>4. /\ burned \in DiscInfo
      /\ disc[d].state # "on disc only" => burned.state \in {"burned", "verified"}
      /\ disc[d].state = "on disc only" => burned.state = "on disc only"
      /\ disc[d].state = "packed" => burned.state = "burned"
      /\ disc[d].state # "packed" => burned = disc[d]
  BY <1>2, <1>3, PermitStates, AppliedStates, ApplyType
<1>5. /\ item' = item /\ content' = content /\ burnt' = burnt /\ cmd' = Idle
      /\ \/ disc' = [disc EXCEPT ![d] = Apply(burned, "CheckOK")] /\ Vouch(d, "CheckOK")
         \/ disc' = [disc EXCEPT ![d] = burned] /\ proof' = proof
  BY <1>1, <1>2 DEF VerifyRecords, made
<1>6. \A x \in Disc : x # d => disc'[x] = disc[x] /\ proof'[x] = proof[x]
  BY <1>5 DEF Vouch, TypeOK
<1>7. /\ disc'[d].state \in {"burned", "verified", "on disc only"}
      /\ disc'[d].state = "on disc only" <=> disc[d].state = "on disc only"
      /\ disc'[d].state = "verified" => proof'[d] = content[d]
      /\ proof[d] \cap content[d] \subseteq proof'[d]
  <2>1. CASE disc' = [disc EXCEPT ![d] = Apply(burned, "CheckOK")] /\ Vouch(d, "CheckOK")
    <3>1. disc'[d] = Apply(burned, "CheckOK") /\ proof'[d] = content[d]
      BY <1>3, <2>1 DEF Vouch, TypeOK
    <3>2. Permits(burned, "CheckOK")
      BY <1>3, <1>4, PermitStates
    <3>3. disc'[d].state \in Targets(burned, "CheckOK")
      BY <1>4, <3>1, <3>2, ApplyType
    <3>4. /\ burned.state \in {"burned", "verified"} => Targets(burned, "CheckOK") \subseteq {"verified"}
          /\ burned.state = "on disc only" => Targets(burned, "CheckOK") \subseteq {"on disc only"}
      BY DEF Targets, Moves
    <3> QED
      BY <1>3, <1>4, <3>1, <3>3, <3>4
  <2>2. CASE disc' = [disc EXCEPT ![d] = burned] /\ proof' = proof
    <3>1. disc'[d] = burned
      BY <1>3, <2>2 DEF TypeOK
    <3> QED
      BY <1>3, <1>4, <2>2, <3>1 DEF ProofInv, ChecksHold
  <2> QED
    BY <1>5, <2>1, <2>2
<1>8. Kept(d)
  BY <1>3, <1>7 DEF Kept, Indexed, Unburned, Gone, Known
<1>9. \A x \in Disc : Kept(x)
  BY <1>5, <1>6, <1>8, SameKeeps
<1>10. cmd'.plans = {} /\ cmd'.at # "freed"
  BY <1>5, CommandAt, CmdPlans
<1>11. ItemsProven' /\ PlansProven'
  BY <1>5, <1>9, <1>10, DiscsMove
<1>12. ChecksHold' /\ FreedDiscs'
  BY <1>5, <1>6, <1>7, <1>10 DEF ProofInv, ChecksHold, FreedDiscs
<1> QED
  BY <1>11, <1>12 DEF ProofInv

LEMMA ProofRecoverEvents ==
  TypeOK /\ CommandOK /\ BurntInv /\ HolderInv /\ ProofInv /\ RecoverEvents => ProofInv'
<1> SUFFICES ASSUME TypeOK, CommandOK, BurntInv, HolderInv, ProofInv, RecoverEvents PROVE ProofInv'
  OBVIOUS
<1>1. PICK d : d = cmd.disc
  OBVIOUS
<1>2. PICK unknown : unknown = {e \in cmd.discs \ {d} : ~Known(e)}
  OBVIOUS
<1>3. PICK recovered : recovered = Apply(disc[d], "Recovered")
  OBVIOUS
<1>4. PICK checked : checked = IF cmd.whole THEN recovered ELSE Apply(recovered, "CheckFailed")
  OBVIOUS
<1>5. /\ d \in Disc /\ disc[d] \in DiscInfo /\ disc[d].state \in {"unknown", "missing"}
      /\ d \in burnt /\ Permits(disc[d], "Recovered")
  BY <1>1, PermitStates DEF RecoverEvents, CommandOK, DiscSteps, Steps, TypeOK, BurntInv, RecoverSteps
<1>6. recovered \in DiscInfo /\ recovered.state = "on disc only"
  BY <1>3, <1>5, ApplyType, AppliedStates
<1>7. Apply(recovered, "CheckFailed").state = "on disc only"
  <2>1. Targets(recovered, "CheckFailed") \subseteq {"on disc only"}
    BY <1>6 DEF Targets, Moves
  <2> QED
    BY <1>6, <2>1, PermitStates, ApplyType
<1>8. PICK N \in Written(unknown), r \in {recovered, checked} :
        disc' = [e \in Disc |-> IF e = d THEN r
                                ELSE IF e \in N THEN Apply(disc[e], "NamedMissing")
                                ELSE disc[e]]
  <2> DEFINE rec == Apply(disc[cmd.disc], "Recovered")
             chk == IF cmd.whole THEN rec ELSE Apply(rec, "CheckFailed")
  <2>1. PICK N \in Written({e \in cmd.discs \ {cmd.disc} : ~Known(e)}),
             r \in IF TornBatches THEN {rec, chk} ELSE {chk} :
          disc' = [e \in Disc |-> IF e = cmd.disc THEN r
                                  ELSE IF e \in N THEN Apply(disc[e], "NamedMissing")
                                  ELSE disc[e]]
    BY DEF RecoverEvents
  <2>2. rec = recovered /\ chk = checked
    BY <1>1, <1>3, <1>4
  <2> HIDE DEF rec, chk
  <2> QED
    BY <1>1, <1>2, <2>1, <2>2
<1>9. item' = item /\ content' = content /\ burnt' = burnt /\ proof' = proof /\ cmd' = Idle
  BY DEF RecoverEvents, made
<1>10. \A e \in N : e \in Disc /\ e # d /\ disc[e].state = "unknown"
  BY <1>2, <1>8, CmdType DEF Written, Known, TypeOK
<1>11. disc'[d].state = "on disc only"
  BY <1>4, <1>5, <1>6, <1>7, <1>8
<1>12. ASSUME NEW e \in N
       PROVE  /\ disc'[e] = Apply(disc[e], "NamedMissing") /\ Permits(disc[e], "NamedMissing")
              /\ disc'[e].state # "verified"
  <2>1. e \in Disc /\ disc[e] \in DiscInfo /\ disc'[e] = Apply(disc[e], "NamedMissing")
    BY <1>8, <1>10 DEF TypeOK
  <2>2. Permits(disc[e], "NamedMissing")
    BY <1>10, <2>1, PermitStates
  <2>3. Targets(disc[e], "NamedMissing") \subseteq {"missing"}
    BY DEF Targets, Moves
  <2> QED
    BY <2>1, <2>2, <2>3, ApplyType
<1>13. \A e \in Disc : e # d /\ e \notin N => disc'[e] = disc[e]
  BY <1>8
<1>14. \A e \in Disc : Kept(e)
  <2>1. Kept(d)
    BY <1>5, <1>9, <1>11 DEF Kept, Indexed, Unburned, Gone, Known
  <2>2. \A e \in N : Kept(e)
    BY <1>9, <1>10, <1>12, OtherKeeps DEF ProofInv
  <2>3. \A e \in Disc : e # d /\ e \notin N => Kept(e)
    BY <1>9, <1>13, SameKeeps
  <2> QED
    BY <2>1, <2>2, <2>3
<1>15. cmd'.plans = {} /\ cmd'.at # "freed"
  BY <1>9, CommandAt, CmdPlans
<1>16. ItemsProven' /\ PlansProven'
  BY <1>9, <1>14, <1>15, DiscsMove
<1>17. ChecksHold' /\ FreedDiscs'
  BY <1>9, <1>11, <1>12, <1>13, <1>15 DEF ProofInv, ChecksHold, FreedDiscs
<1> QED
  BY <1>16, <1>17 DEF ProofInv

\* The Packed event is the only one that makes a disc need checks again: no
\* OnDisc or Lost record names a disc with no event and no copy.
LEMMA ProofPacked ==
  ASSUME TypeOK, CommandOK, BurntInv, HolderInv, ProofInv, FinishEvent \/ PackEvent
  PROVE  ProofInv'
<1>1. PICK d : d = cmd.disc
  OBVIOUS
<1>2. /\ d \in Disc /\ disc[d] \in DiscInfo /\ disc[d].state = "unknown" /\ d \notin burnt
  BY <1>1 DEF FinishEvent, PackEvent, CommandOK, DiscSteps, NewDiscSteps, MakeSteps, Steps, TypeOK, BurntInv
<1>3. AppendEvent(d, "Packed") /\ item' = item /\ content' = content /\ burnt' = burnt /\ proof' = proof
  BY <1>1 DEF FinishEvent, PackEvent, made
<1>4. disc'[d].state = "packed"
  <2>1. Permits(disc[d], "Packed") /\ Targets(disc[d], "Packed") \subseteq {"packed"}
    BY <1>2, PermitStates DEF Targets, Moves
  <2> QED
    BY <1>2, <1>3, <2>1, ApplyType DEF AppendEvent, TypeOK
<1>5. \A x \in Disc : x # d => disc'[x] = disc[x]
  BY <1>3 DEF AppendEvent, TypeOK
<1>6. \A x \in Disc : x # d => Kept(x)
  BY <1>3, <1>5, SameKeeps
<1>7. cmd'.plans = {} /\ cmd'.at # "freed"
  BY CommandAt, CmdPlans DEF FinishEvent, PackEvent
<1>8. ASSUME NEW c \in Chunk, NEW r, Proven(c, r),
             r.state \in {"Packed", "OnDisc", "Lost"} => r.disc \in Disc /\ c \in content[r.disc]
      PROVE  Proven(c, r)'
  <2>1. CASE r.disc = d
    <3>1. r.state \notin {"OnDisc", "Lost"}
      BY <1>2, <1>8, <2>1 DEF Proven, Known
    <3>2. Indexed(disc[d])'
      BY <1>4 DEF Indexed
    <3> QED
      BY <2>1, <3>1, <3>2 DEF Proven
  <2>2. CASE r.disc # d
    BY <1>3, <1>6, <1>8, <2>2, RecordKept
  <2> QED
    BY <2>1, <2>2
<1>9. ItemsProven'
  BY <1>3, <1>8, HeldRecords DEF ProofInv, ItemsProven
<1>10. PlansProven' /\ FreedDiscs'
  BY <1>7 DEF PlansProven, FreedDiscs
<1>11. ChecksHold'
  BY <1>3, <1>4, <1>5 DEF ProofInv, ChecksHold
<1> QED
  BY <1>9, <1>10, <1>11 DEF ProofInv

-----------------------------------------------------------------------------
LEMMA ProofStep ==
  TypeOK /\ CommandOK /\ ~EarlyBurn /\ BurntInv /\ HolderInv /\ ProofInv /\ [Next]_vars => ProofInv'
<1> SUFFICES ASSUME TypeOK, CommandOK, ~EarlyBurn, BurntInv, HolderInv, ProofInv, [Next]_vars
             PROVE  ProofInv'
  OBVIOUS
<1>1. ASSUME NEW d \in Disc, DiscCommand(d) PROVE ProofInv'
  BY <1>1, ProofChecks, ProofQuietSteps, ProofTakenBack, ProofStages
  DEF DiscCommand, DiscBurned, DiscBurnedUndo, DiscVerified, VerifyUndo
<1>2. CASE UNCHANGED vars
  <2>1. /\ disc' = disc /\ item' = item /\ content' = content /\ proof' = proof /\ burnt' = burnt
        /\ cmd' = cmd
    BY <1>2 DEF vars
  <2>2. \A c, r : Proven(c, r) => Proven(c, r)'
    BY <2>1 DEF Proven, Unburned, Gone, Known, Indexed
  <2>3. ItemsProven' /\ PlansProven'
    BY <2>1, <2>2 DEF ProofInv, ItemsProven, PlansProven
  <2>4. ChecksHold' /\ FreedDiscs'
    BY <2>1 DEF ProofInv, ChecksHold, FreedDiscs
  <2> QED
    BY <2>3, <2>4 DEF ProofInv
<1> QED
  BY <1>1, <1>2, ProofOpen, ProofRepairDisc, ProofQuietSteps, ProofBurn, ProofVerifyRecords, ProofItems,
     ProofGcEvents, ProofGcItems, ProofEnsureOnDisc, ProofRecoverEvents, ProofChecks, ProofStages,
     ProofPackRecords, ProofPacked, ProofPackTree, ProofLoseRepository
  DEF Next

\* Whatever commands and stops come, also after torn batches, damaged copies and
\* losses of the repository: gc freed a chunk only when the newest check of its
\* disc vouches for it, if no disc root is burned before its Packed event.
THEOREM FreedItemsAreProved == Spec => [](~EarlyBurn => FreedIsProved)
<1>1. Init => TypeOK /\ CommandOK /\ DataInv /\ HolderInv /\ (~EarlyBurn => BurntInv /\ ProofInv)
  BY TypeInit, DataInit, HolderInit, BurntInit, ProofInit
<1>2. TypeOK /\ CommandOK /\ DataInv /\ HolderInv /\ (~EarlyBurn => BurntInv /\ ProofInv) /\ [Next]_vars
        => (TypeOK /\ CommandOK /\ DataInv /\ HolderInv /\ (~EarlyBurn => BurntInv /\ ProofInv))'
  BY TypeStep, DataStep, HolderStep, BurntStep, ProofStep
<1>3. ProofInv => FreedIsProved
  BY DEF ProofInv, ItemsProven, Proven, FreedIsProved
<1> QED
  BY <1>1, <1>2, <1>3, PTL DEF Spec

-----------------------------------------------------------------------------
(***************************************************************************)
(* The numbers of the discs and what their DISCS tables name,              *)
(* for every set of discs and items, with stops in every command.  No two  *)
(* recorded discs have one number until the host loses its records; no     *)
(* disc of the repository names an undone disc; and, with whole appends    *)
(* and undamaged copies, each disc that a recovered disc names is known.   *)
(*                                                                         *)
(* DiscNumbersUnique is not inductive.  pack takes the number above all    *)
(* ledger rows and Packed events three durable writes before its own row,  *)
(* and recover puts rows of other discs into the ledger.  NumberInv says   *)
(* that the rows and the events never forget a disc (a row leaves only a   *)
(* disc that has its event), that recover can add only discs that one of   *)
(* them already has, and that a number in the hands of pack stays above.   *)
(*                                                                         *)
(* UndoneNeverNamed is not either: recover gives rows back to discs that   *)
(* lost theirs.  UndoneInv says that a disc without a row which a recover  *)
(* may reach names no disc with a Packed event, that the disc of a stopped *)
(* pack is named by no other, and that a disc names lower numbers only, so *)
(* that the newest disc, which alone can be undone, is in no other table.  *)
(***************************************************************************)

\* A disc that can be burned, verified or undone, also after it is found, has
\* its Packed event, and a disc with no event has none.
RecordOK(r) ==
  /\ r.state \in {"packed", "burned", "verified", "undone"} => r.numbered
  /\ r.state = "lost" /\ r.before \in {"packed", "burned", "verified", "undone"} => r.numbered
  /\ r.state = "unknown" => ~r.numbered

RecordsOK == \A d \in Disc : RecordOK(disc[d])

\* The rows and events have each number once, and every disc that a written
\* copy or a table of a recorded disc names.
NumbersOnce == \A d, e \in Numbered : num[d] = num[e] => d = e
NamesRecorded == burnt \subseteq Numbered /\ \A d \in Numbered : names[d] \subseteq Numbered

NewSteps == {"packTree", "packTables", "packRow"}
RowSteps == {"packItems", "packEvent", "finishPack", "finishEvent"}
UndoSteps == {"undone", "undoing"}

\* What the running command knows of the numbers.
CommandNumbers ==
  /\ cmd.at = "recover" => cmd.discs \subseteq Numbered
  /\ cmd.at \in NewSteps => \A e \in Numbered : num[e] < num[cmd.disc]
  /\ cmd.at \in {"packTables", "packRow"} => names[cmd.disc] \subseteq Numbered \cup {cmd.disc}
  /\ cmd.at \in RowSteps => cmd.disc \in Numbered

NumberInv ==
  /\ RecordsOK
  /\ cmd.at \in UndoSteps => disc[cmd.disc].numbered
  /\ disasters = 0 => NumbersOnce /\ NamesRecorded /\ CommandNumbers

-----------------------------------------------------------------------------
(* The records of the discs. *)

LEMMA UnknownRecordOK == RecordOK(UnknownDisc)
  BY DEF RecordOK, UnknownDisc

\* The replay table keeps RecordOK, and only Packed gives a number.
LEMMA ApplyRecordOK ==
  ASSUME NEW r \in DiscInfo, RecordOK(r), NEW e, Permits(r, e)
  PROVE  /\ RecordOK(Apply(r, e))
         /\ Apply(r, e).numbered = (r.numbered \/ e = "Packed")
         /\ e = "PackUndone" => r.numbered
<1>1. Apply(r, e).state \in Targets(r, e)
  BY ApplyType
<1>2. /\ Apply(r, e).numbered = (r.numbered \/ e = "Packed")
      /\ e = "Lost" => Apply(r, e).before = r.state
      /\ e \notin {"Lost", "LostUndone"} => Apply(r, e).before = r.before
  <2>1. "Lost" # "LostUndone"
    OBVIOUS
  <2> QED
    BY <2>1, Zenon DEF Apply
<1>3. PICK t : t \in Targets(r, e) /\ t = Apply(r, e).state
  BY <1>1
<1>4. CASE e = "LostUndone"
  <2>1. r.state = "lost" /\ <<r.before, t>> \in FoundMoves
    BY <1>3, <1>4 DEF Targets, Moves
  <2>2. \/ r.before = "verified" /\ t = "burned"
        \/ t \in {"on disc only", "missing"}
    BY <2>1 DEF FoundMoves
  <2> QED
    BY <1>2, <1>3, <1>4, <2>1, <2>2 DEF RecordOK
<1>5. CASE e # "LostUndone"
  <2>1. <<e, r.state, t>> \in Moves
    BY <1>3, <1>5 DEF Targets
  <2>2. CASE e = "Lost"
    BY <1>2, <1>3, <2>1, <2>2 DEF RecordOK, Moves
  <2>3. CASE e # "Lost"
    BY <1>2, <1>3, <1>5, <2>1, <2>3 DEF RecordOK, Moves
  <2> QED
    BY <2>2, <2>3
<1> QED
  BY <1>4, <1>5

-----------------------------------------------------------------------------
(* Steps that leave the numbers alone. *)

NumberSteps == {"recover"} \cup NewSteps \cup RowSteps \cup UndoSteps

LEMMA QuietCommand ==
  ASSUME cmd'.at \notin NumberSteps
  PROVE  CommandNumbers' /\ cmd'.at \notin UndoSteps
  BY DEF CommandNumbers, NumberSteps, NewSteps, RowSteps, UndoSteps

Steady == disc' = disc /\ ledger' = ledger /\ UNCHANGED <<num, names, burnt, disasters>>

\* A step that changes no disc, row or number.
LEMMA SteadyStep ==
  ASSUME NumberInv, Steady,
         cmd'.at \in UndoSteps => disc[cmd'.disc].numbered,
         disasters = 0 => CommandNumbers'
  PROVE  NumberInv'
<1>1. Numbered' = Numbered
  BY DEF Steady, Numbered
<1> QED
  BY <1>1 DEF NumberInv, Steady, RecordsOK, NumbersOnce, NamesRecorded

\* A step that may write events of discs, Packed only for a disc with a row.
LEMMA EventStep ==
  ASSUME TypeOK, TypeOK', NumberInv,
         \A d \in Disc : /\ RecordOK(disc'[d])
                         /\ disc[d].numbered => disc'[d].numbered
                         /\ disc'[d].numbered => disc[d].numbered \/ d \in ledger,
         ledger' = ledger, UNCHANGED <<num, names, burnt, disasters>>,
         cmd'.at \in UndoSteps => disc'[cmd'.disc].numbered,
         disasters = 0 => CommandNumbers'
  PROVE  NumberInv'
<1>1. Numbered' = Numbered
  BY DEF Numbered, TypeOK
<1> QED
  BY <1>1 DEF NumberInv, RecordsOK, NumbersOnce, NamesRecorded

\* The event e of the disc d alone, which d permits.
LEMMA OneEventRecords ==
  ASSUME TypeOK, NumberInv, NEW d \in Disc, NEW e, Permits(disc[d], e), AppendEvent(d, e),
         e = "Packed" => disc[d].numbered \/ d \in ledger
  PROVE  \A f \in Disc : /\ RecordOK(disc'[f])
                         /\ disc[f].numbered => disc'[f].numbered
                         /\ disc'[f].numbered => disc[f].numbered \/ f \in ledger
<1>1. disc[d] \in DiscInfo /\ RecordOK(disc[d])
  BY DEF TypeOK, NumberInv, RecordsOK
<1>2. /\ RecordOK(Apply(disc[d], e))
      /\ Apply(disc[d], e).numbered = (disc[d].numbered \/ e = "Packed")
  BY <1>1, ApplyRecordOK
<1>3. \A f \in Disc : disc'[f] = IF f = d THEN Apply(disc[d], e) ELSE disc[f]
  BY DEF AppendEvent, TypeOK
<1> QED
  BY <1>2, <1>3 DEF NumberInv, RecordsOK

\* What a batch of the item log leaves of the command.
LEMMA BatchCommand ==
  ASSUME NEW recs, NEW next, AppendItems(recs, next)
  PROVE  cmd' \in {next, Idle}
  BY DEF AppendItems

LEMMA IdleQuiet == Idle.at \notin NumberSteps /\ \A d : Go("open", d).at \notin NumberSteps
  BY DEF Idle, Go, NumberSteps, NewSteps, RowSteps, UndoSteps

-----------------------------------------------------------------------------
(* The steps that change no disc, row or number. *)

QuietAction ==
  \/ Open \/ RepairDisc \/ Stop \/ LostItems \/ LostRoot \/ FoundItems
  \/ GcItems \/ GcUnlink \/ RecoverItems \/ RecheckItems \/ CommitRecords
  \/ PackBegins \/ PackFails
  \/ \E d \in Disc : VerifyReads(d) \/ CatalogStops(d)
  \/ \E s \in Snapshot : CommitWrites(s)

LEMMA QuietSteady == QuietAction => Steady
  BY DEF QuietAction, Open, RepairDisc, Stop, LostItems, LostRoot, FoundItems, GcItems, GcUnlink,
         RecoverItems, RecheckItems, EnsureOnDisc, CommitRecords, PackBegins, PackFails,
         VerifyReads, CatalogStops, CommitWrites, Steady, logs, made, staging, catalog

\* The commands that the actions build.
LEMMA GoFields ==
  /\ Idle.at = "idle"
  /\ \A a, d : Go(a, d).at = a /\ Go(a, d).disc = d
  /\ \A a, d, I : [Go(a, d) EXCEPT !.items = I].at = a /\ [Go(a, d) EXCEPT !.items = I].disc = d
  /\ \A a, d, P : [Go(a, d) EXCEPT !.plans = P].at = a
  /\ \A a : \A c \in Cmd : [c EXCEPT !.at = a].at = a /\ [c EXCEPT !.at = a].disc = c.disc
  /\ \A P : \A c \in Cmd : [c EXCEPT !.plans = P].at = c.at
  BY DEF Idle, Go, Cmd

\* Where they leave the command: only the items of a recover go on with its events.
QuietSteps == {"idle", "open", "repair", "lostRoot", "unlink", "recheckEvent", "commit", "pack",
               "packFails", "read"}

LEMMA QuietGoes ==
  ASSUME TypeOK, QuietAction
  PROVE  cmd'.at \in QuietSteps \/ (RecoverItems /\ cmd' = [cmd EXCEPT !.at = "recoverEvents"])
<1>1. cmd \in Cmd
  BY DEF TypeOK
<1>2. CASE RepairDisc \/ LostItems \/ FoundItems \/ GcItems \/ RecoverItems \/ RecheckItems \/ CommitRecords
  <2>1. CASE RepairDisc
    <3>1. PICK p \in cmd.plans :
            AppendItems(p.recs, IF cmd.plans = {p} THEN Go("open", NoDisc)
                                ELSE [cmd EXCEPT !.plans = @ \ {p}])
      BY <2>1 DEF RepairDisc, AppendOwed
    <3>2. cmd' \in {Go("open", NoDisc), [cmd EXCEPT !.plans = @ \ {p}], Idle}
      BY <3>1, BatchCommand
    <3>3. cmd.at = "repair"
      BY <2>1 DEF RepairDisc
    <3>4. CASE cmd' \in {Go("open", NoDisc), Idle}
      BY <3>4, GoFields DEF QuietSteps
    <3>5. CASE cmd' = [cmd EXCEPT !.plans = @ \ {p}]
      BY <1>1, <3>3, <3>5 DEF Cmd, QuietSteps
    <3> QED
      BY <3>2, <3>4, <3>5
  <2>2. CASE LostItems \/ FoundItems
    <3>1. cmd' \in {Go("lostRoot", cmd.disc), Idle}
      BY <2>2 DEF LostItems, FoundItems, AppendOwed, AppendItems
    <3> QED
      BY <3>1, GoFields DEF QuietSteps
  <2>3. CASE GcItems \/ RecheckItems
    <3>1. cmd' = Idle \/ \E a \in {"unlink", "recheckEvent"} : cmd' = [cmd EXCEPT !.at = a]
      BY <2>3 DEF GcItems, RecheckItems, EnsureOnDisc, AppendOwed, AppendItems
    <3>2. cmd'.at \in {"idle", "unlink", "recheckEvent"}
      BY <1>1, <3>1, GoFields DEF Idle, Cmd
    <3> QED
      BY <3>2 DEF QuietSteps
  <2>4. CASE RecoverItems
    <3>1. cmd' = Idle \/ cmd' = [cmd EXCEPT !.at = "recoverEvents"]
      BY <2>4 DEF RecoverItems, EnsureOnDisc, AppendItems
    <3> QED
      BY <2>4, <3>1, GoFields DEF QuietSteps
  <2>5. CASE CommitRecords
    BY <2>5, BatchCommand, GoFields DEF CommitRecords, AppendItems, QuietSteps
  <2> QED
    BY <1>2, <2>1, <2>2, <2>3, <2>4, <2>5
<1>3. CASE Open \/ Stop \/ LostRoot \/ GcUnlink \/ PackBegins \/ PackFails
  <2>1. CASE Open
    <3>1. \/ cmd' = Go("open", NoDisc)
          \/ \E P : cmd' = [Go("repair", NoDisc) EXCEPT !.plans = P]
      BY <2>1 DEF Open
    <3>2. cmd'.at \in {"open", "repair"}
      BY <3>1, GoType DEF Go, Idle
    <3> QED
      BY <3>2 DEF QuietSteps
  <2>2. CASE Stop \/ LostRoot \/ GcUnlink \/ PackBegins \/ PackFails
    <3>1. cmd' \in {Idle, Go("pack", NoDisc), Go("packFails", cmd.disc)}
      BY <2>2 DEF Stop, LostRoot, GcUnlink, PackBegins, PackFails
    <3> QED
      BY <3>1, GoFields DEF QuietSteps
  <2> QED
    BY <1>3, <2>1, <2>2
<1>4. CASE \E d \in Disc : VerifyReads(d) \/ CatalogStops(d)
  BY <1>4, GoFields DEF VerifyReads, CatalogStops, QuietSteps
<1>5. CASE \E s \in Snapshot : CommitWrites(s)
  BY <1>5, GoFields DEF CommitWrites, QuietSteps
<1> QED
  BY <1>2, <1>3, <1>4, <1>5 DEF QuietAction

\* None of them leaves a command that knows of a number.
LEMMA NumberQuietAt == TypeOK /\ QuietAction => cmd'.at \notin NumberSteps
<1>1. cmd \in Cmd /\ cmd' = [cmd EXCEPT !.at = "recoverEvents"] => cmd'.at = "recoverEvents"
  BY GoFields
<1> QED
  BY <1>1, QuietGoes DEF TypeOK, QuietSteps, NumberSteps, NewSteps, RowSteps, UndoSteps

LEMMA NumberQuiet == TypeOK /\ NumberInv /\ QuietAction => NumberInv'
  BY NumberQuietAt, QuietSteady, QuietCommand, SteadyStep

-----------------------------------------------------------------------------
(* Steps of a command that knows of a number. *)

LEMMA NumberUndoneItems == TypeOK /\ NumberInv /\ UndoneItems => NumberInv'
<1> SUFFICES ASSUME TypeOK, NumberInv, UndoneItems PROVE NumberInv'
  OBVIOUS
<1>1. Steady
  BY DEF UndoneItems, Steady, catalog, staging, made
<1>2. cmd' \in {Go("undoing", cmd.disc), Idle}
  BY DEF UndoneItems, AppendOwed, AppendItems
<1>3. cmd'.at \in {"undoing", "idle"} /\ (cmd'.at = "undoing" => cmd'.disc = cmd.disc)
  BY <1>2, GoFields
<1>4. disc[cmd.disc].numbered
  BY DEF NumberInv, UndoneItems, UndoSteps
<1>5. CommandNumbers'
  BY <1>3 DEF CommandNumbers, NewSteps, RowSteps
<1> QED
  BY <1>1, <1>3, <1>4, <1>5, SteadyStep DEF UndoSteps

LEMMA NumberPackTables == TypeOK /\ NumberInv /\ PackTables => NumberInv'
<1> SUFFICES ASSUME TypeOK, NumberInv, PackTables PROVE NumberInv'
  OBVIOUS
<1>1. Steady
  BY DEF PackTables, Steady, logs, staging, made
<1>2. cmd'.at = "packRow" /\ cmd'.disc = cmd.disc
  BY GoFields DEF PackTables, TypeOK
<1>3. disasters = 0 => CommandNumbers'
  <2>1. Numbered' = Numbered
    BY <1>1 DEF Steady, Numbered
  <2> QED
    BY <1>1, <1>2, <2>1 DEF NumberInv, CommandNumbers, PackTables, NewSteps, RowSteps, Steady
<1> QED
  BY <1>1, <1>2, <1>3, SteadyStep DEF UndoSteps

\* The item records of the disc that pack records or finishes.
LEMMA NumberItems ==
  ASSUME NumberInv, NEW d, disasters = 0 => d \in Numbered, NEW a \in RowSteps, Steady,
         NEW I, cmd' \in {Idle, Go(a, d), [Go(a, d) EXCEPT !.items = I]}
  PROVE  NumberInv'
<1>1. cmd'.at = "idle" \/ (cmd'.at = a /\ cmd'.disc = d)
  <2>1. CASE cmd' \in {Idle, Go(a, d)}
    BY <2>1, GoFields
  <2>2. CASE cmd' = [Go(a, d) EXCEPT !.items = I]
    BY <2>2 DEF Go, Idle
  <2> QED
    BY <2>1, <2>2
<1>2. Numbered' = Numbered
  BY DEF Numbered, Steady
<1>3. (disasters = 0 => CommandNumbers') /\ cmd'.at \notin UndoSteps
  BY <1>1, <1>2 DEF CommandNumbers, NewSteps, RowSteps, UndoSteps
<1> QED
  BY <1>3, SteadyStep

LEMMA NumberFinishStage ==
  ASSUME TypeOK, NumberInv, NEW d \in Disc, FinishStage(d)
  PROVE  NumberInv'
<1> DEFINE ids == {i \in content[d] : item[i].state \in {"none", "Staged"}}
<1>1. cmd' \in {Idle, [Go("finishPack", d) EXCEPT !.items = ids]} /\ Steady
  BY DEF FinishStage, AppendItems, Steady, catalog, staging, made
<1>2. d \in Numbered
  BY DEF FinishStage, Interrupted, Numbered
<1> QED
  BY <1>1, <1>2, NumberItems DEF RowSteps

LEMMA NumberPackRecords ==
  ASSUME TypeOK, NumberInv, FinishPack \/ PackItems
  PROVE  NumberInv'
<1>1. disasters = 0 => cmd.disc \in Numbered
  BY DEF NumberInv, CommandNumbers, FinishPack, PackItems, RowSteps
<1>2. Steady
  BY DEF FinishPack, PackItems, Steady, catalog, staging, made
<1>3. PICK a \in {"finishEvent", "packEvent"} : cmd' \in {Idle, Go(a, cmd.disc)}
  BY DEF FinishPack, PackItems, AppendItems
<1> QED
  BY <1>1, <1>2, <1>3, NumberItems DEF RowSteps

\* recover reads the table of a burned disc: each disc that it names is recorded.
LEMMA NumberRecover ==
  ASSUME TypeOK, NumberInv, NEW d \in Disc, Recover(d)
  PROVE  NumberInv'
<1>1. Steady
  BY DEF Recover, Steady, logs, staging, made
<1>3. cmd'.at \in {"idle", "recover", "recheck"} /\ (cmd'.at = "recover" => cmd'.discs \subseteq names[d])
  BY RecoverCommand
<1>4. disasters = 0 => names[d] \subseteq Numbered
  BY DEF NumberInv, NamesRecorded, Recover
<1>5. Numbered' = Numbered
  BY <1>1 DEF Numbered, Steady
<1>6. (disasters = 0 => CommandNumbers') /\ cmd'.at \notin UndoSteps
  BY <1>3, <1>4, <1>5 DEF CommandNumbers, NewSteps, RowSteps, UndoSteps
<1> QED
  BY <1>1, <1>6, SteadyStep

-----------------------------------------------------------------------------
(* Steps that write disc events. *)

\* The commands that write one event and end, or go on with its item records.
LEMMA NumberMark ==
  ASSUME TypeOK, TypeOK', NumberInv, NEW d \in Disc, NEW e, e # "Packed",
         Permits(disc[d], e), AppendEvent(d, e), ledger' = ledger,
         UNCHANGED <<num, names, burnt, disasters>>,
         cmd' = Idle \/ cmd' = Go("lost", d) \/ cmd' = Go("found", d)
  PROVE  NumberInv'
<1>1. cmd'.at \notin NumberSteps
  BY GoFields DEF NumberSteps, NewSteps, RowSteps, UndoSteps
<1> QED
  BY <1>1, OneEventRecords, EventStep, QuietCommand

LEMMA NumberDiscCommand ==
  ASSUME TypeOK, TypeOK', NumberInv, NEW d \in Disc,
         DiscBurned(d) \/ DiscBurnedUndo(d) \/ DiscVerified(d) \/ VerifyUndo(d)
           \/ VerifyFails(d) \/ DiscLost(d) \/ DiscLostUndo(d)
  PROVE  NumberInv'
<1>1. disc[d].state \in {"packed", "burned", "verified", "on disc only"} => Permits(disc[d], "CheckFailed")
  BY PermitStates DEF TypeOK
<1>2. \E e : /\ e # "Packed" /\ Permits(disc[d], e) /\ AppendEvent(d, e) /\ ledger' = ledger
             /\ UNCHANGED <<num, names, burnt, disasters>>
             /\ cmd' = Idle \/ cmd' = Go("lost", d) \/ cmd' = Go("found", d)
  <2>1. CASE DiscBurned(d) \/ DiscBurnedUndo(d) \/ DiscVerified(d) \/ VerifyUndo(d)
    BY <2>1 DEF DiscBurned, DiscBurnedUndo, DiscVerified, VerifyUndo, Mark, made
  <2>2. CASE VerifyFails(d)
    BY <1>1, <2>2 DEF VerifyFails, CanVerify, made
  <2>3. CASE DiscLost(d) \/ DiscLostUndo(d)
    BY <2>3 DEF DiscLost, DiscLostUndo, made
  <2> QED
    BY <2>1, <2>2, <2>3
<1> QED
  BY <1>2, NumberMark

\* Only a disc with a Packed event can be undone.
LEMMA NumberPackUndo ==
  ASSUME TypeOK, TypeOK', NumberInv, NEW d \in Disc, PackUndo(d)
  PROVE  NumberInv'
<1>1. /\ Permits(disc[d], "PackUndone") /\ AppendEvent(d, "PackUndone") /\ ledger' = ledger
      /\ UNCHANGED <<num, names, burnt, disasters>> /\ cmd' = Go("undone", d)
  BY DEF PackUndo, made
<1>2. cmd'.at = "undone" /\ cmd'.disc = d
  BY <1>1, GoFields
<1>3. disc[d].numbered
  BY <1>1, ApplyRecordOK DEF TypeOK, NumberInv, RecordsOK
<1>4. disc'[d].numbered
  BY <1>1, <1>3, OneEventRecords
<1>5. CommandNumbers'
  BY <1>2 DEF CommandNumbers, NewSteps, RowSteps
<1> QED
  BY <1>1, <1>2, <1>4, <1>5, OneEventRecords, EventStep

LEMMA NumberRecheckEvent ==
  ASSUME TypeOK, TypeOK', CommandOK, NumberInv, RecheckEvent
  PROVE  NumberInv'
<1>1. cmd.disc \in Disc /\ disc[cmd.disc].state = "on disc only"
  BY DEF RecheckEvent, CommandOK, DiscSteps, Steps
<1>2. Permits(disc[cmd.disc], "CheckOK")
  BY <1>1, PermitStates DEF TypeOK
<1> QED
  BY <1>1, <1>2, NumberMark DEF RecheckEvent, made

LEMMA NumberVerifyRecords ==
  ASSUME TypeOK, TypeOK', CommandOK, NumberInv, VerifyRecords
  PROVE  NumberInv'
<1> DEFINE d == cmd.disc
           burned == IF disc[d].state = "packed" THEN Apply(disc[d], "BurnRecorded") ELSE disc[d]
<1>1. d \in Disc /\ disc[d].state \in {"packed", "burned", "verified", "on disc only"}
  BY DEF VerifyRecords, CommandOK, DiscSteps, Steps
<1>2. disc[d] \in DiscInfo /\ RecordOK(disc[d])
  BY <1>1 DEF TypeOK, NumberInv, RecordsOK
<1>3. /\ burned \in DiscInfo /\ RecordOK(burned) /\ burned.numbered = disc[d].numbered
      /\ burned.state \in {"burned", "verified", "on disc only"}
  <2>1. CASE disc[d].state = "packed"
    BY <1>2, <2>1, PermitStates, AppliedStates, ApplyType, ApplyRecordOK DEF DiscInfo
  <2>2. CASE disc[d].state # "packed"
    BY <1>1, <1>2, <2>2
  <2> QED
    BY <2>1, <2>2
<1> HIDE DEF burned
<1>4. Permits(burned, "CheckOK")
  BY <1>3, PermitStates
<1>5. RecordOK(Apply(burned, "CheckOK")) /\ Apply(burned, "CheckOK").numbered = disc[d].numbered
  BY <1>3, <1>4, ApplyRecordOK DEF DiscInfo
<1>6. disc' = [disc EXCEPT ![d] = Apply(burned, "CheckOK")] \/ disc' = [disc EXCEPT ![d] = burned]
  BY DEF VerifyRecords, burned
<1>7. \A f \in Disc : RecordOK(disc'[f]) /\ disc'[f].numbered = disc[f].numbered
  BY <1>3, <1>5, <1>6 DEF TypeOK, NumberInv, RecordsOK
<1>8. cmd' = Idle /\ ledger' = ledger /\ UNCHANGED <<num, names, burnt, disasters>>
  BY DEF VerifyRecords, made
<1> QED
  BY <1>7, <1>8, EventStep, QuietCommand, IdleQuiet DEF NumberSteps

\* The Packed event: the disc has a row, or had its event before.
LEMMA NumberPackedEvent ==
  ASSUME TypeOK, TypeOK', CommandOK, NumberInv, FinishEvent \/ PackEvent
  PROVE  NumberInv'
<1>1. /\ AppendEvent(cmd.disc, "Packed") /\ ledger' = ledger
      /\ UNCHANGED <<num, names, burnt, disasters>>
      /\ cmd' \in {Idle, Go("pack", NoDisc)} /\ cmd.at \in {"finishEvent", "packEvent"}
  BY DEF FinishEvent, PackEvent, made
<1>2. cmd.disc \in Disc /\ disc[cmd.disc] \in DiscInfo /\ disc[cmd.disc].state = "unknown"
  BY <1>1 DEF CommandOK, DiscSteps, NewDiscSteps, MakeSteps, Steps, TypeOK
<1>3. Permits(disc[cmd.disc], "Packed")
  BY <1>2, PermitStates
<1>4. cmd'.at \notin NumberSteps
  BY <1>1, GoFields DEF NumberSteps, NewSteps, RowSteps, UndoSteps
<1>5. disasters = 0 => cmd.disc \in Numbered
  BY <1>1 DEF NumberInv, CommandNumbers, RowSteps
<1>6. /\ RecordOK(Apply(disc[cmd.disc], "Packed")) /\ Apply(disc[cmd.disc], "Packed").numbered
      /\ \A f \in Disc : disc'[f] = IF f = cmd.disc THEN Apply(disc[cmd.disc], "Packed") ELSE disc[f]
  BY <1>1, <1>2, <1>3, ApplyRecordOK DEF NumberInv, RecordsOK, AppendEvent, TypeOK
<1>7. RecordsOK'
  BY <1>6 DEF NumberInv, RecordsOK
<1>8. disasters = 0 => Numbered' = Numbered
  BY <1>1, <1>2, <1>5, <1>6 DEF Numbered
<1> QED
  BY <1>1, <1>4, <1>7, <1>8, QuietCommand DEF NumberInv, NumbersOnce, NamesRecorded, RecordsOK

LEMMA NumberGcEvents ==
  ASSUME TypeOK, TypeOK', NumberInv, GcEvents
  PROVE  NumberInv'
<1>1. PICK G \in Written(Freeable) :
        /\ disc' = [d \in Disc |-> IF d \in G THEN Apply(disc[d], "Freed") ELSE disc[d]]
        /\ \/ cmd' = Idle
           \/ cmd' = [Go("freed", NoDisc) EXCEPT !.discs = Freeable \cup InState("on disc only"),
                                                 !.items = Garbage]
  BY DEF GcEvents
<1>2. \A d \in G : d \in Disc /\ disc[d].state = "verified"
  BY DEF Written, Freeable, InState
<1>3. \A d \in Disc : disc[d] \in DiscInfo /\ RecordOK(disc[d])
  BY DEF TypeOK, NumberInv, RecordsOK
<1>4. \A d \in G : /\ RecordOK(Apply(disc[d], "Freed"))
                   /\ Apply(disc[d], "Freed").numbered = disc[d].numbered
  BY <1>2, <1>3, PermitStates, ApplyRecordOK DEF DiscInfo
<1>5. \A d \in Disc : RecordOK(disc'[d]) /\ disc'[d].numbered = disc[d].numbered
  BY <1>1, <1>3, <1>4
<1>6. cmd'.at \in {"idle", "freed"}
  <2>1. CASE cmd' = Idle
    BY <2>1, GoFields
  <2>2. CASE cmd' # Idle
    BY <1>1, <2>2 DEF Go, Idle
  <2> QED
    BY <2>1, <2>2
<1>7. cmd'.at \notin NumberSteps
  BY <1>6 DEF NumberSteps, NewSteps, RowSteps, UndoSteps
<1>8. ledger' = ledger /\ UNCHANGED <<num, names, burnt, disasters>>
  BY DEF GcEvents, made
<1> QED
  BY <1>5, <1>7, <1>8, EventStep, QuietCommand

LEMMA NumberRecoverEvents ==
  ASSUME TypeOK, TypeOK', CommandOK, NumberInv, RecoverEvents
  PROVE  NumberInv'
<1> DEFINE d == cmd.disc
           recovered == Apply(disc[d], "Recovered")
           checked == IF cmd.whole THEN recovered ELSE Apply(recovered, "CheckFailed")
<1>1. PICK N \in SUBSET {e \in cmd.discs \ {d} : ~Known(e)}, r \in {recovered, checked} :
        disc' = [e \in Disc |-> IF e = d THEN r
                                ELSE IF e \in N THEN Apply(disc[e], "NamedMissing") ELSE disc[e]]
  BY DEF RecoverEvents, Written
<1>2. d \in Disc /\ disc[d].state \in {"unknown", "missing"}
  BY DEF RecoverEvents, CommandOK, DiscSteps, Steps
<1>3. \A e \in Disc : disc[e] \in DiscInfo /\ RecordOK(disc[e])
  BY DEF TypeOK, NumberInv, RecordsOK
<1>4. /\ recovered \in DiscInfo /\ RecordOK(recovered) /\ recovered.numbered = disc[d].numbered
      /\ recovered.state = "on disc only"
  <2>1. Permits(disc[d], "Recovered")
    BY <1>2, <1>3, PermitStates
  <2>2. recovered \in DiscInfo /\ recovered.state = "on disc only"
    BY <1>2, <1>3, <2>1, AppliedStates, ApplyType
  <2>3. RecordOK(recovered) /\ recovered.numbered = (disc[d].numbered \/ "Recovered" = "Packed")
    BY <1>2, <1>3, <2>1, ApplyRecordOK
  <2> QED
    BY <1>2, <1>3, <2>2, <2>3 DEF DiscInfo
<1> HIDE DEF recovered
<1>5. RecordOK(checked) /\ checked.numbered = disc[d].numbered
  BY <1>4, PermitStates, ApplyRecordOK DEF DiscInfo
<1> HIDE DEF checked
<1>6. \A e \in N : /\ RecordOK(Apply(disc[e], "NamedMissing")) /\ e \in Disc
                   /\ Apply(disc[e], "NamedMissing").numbered = disc[e].numbered
  <2>1. \A e \in N : e \in Disc /\ disc[e].state = "unknown"
    BY DEF Known, TypeOK, Cmd
  <2> QED
    BY <1>3, <2>1, PermitStates, ApplyRecordOK DEF DiscInfo
<1>7. \A e \in Disc : RecordOK(disc'[e]) /\ disc'[e].numbered = disc[e].numbered
  BY <1>1, <1>3, <1>4, <1>5, <1>6
<1>8. cmd' = Idle /\ ledger' = ledger /\ UNCHANGED <<num, names, burnt, disasters>>
  BY DEF RecoverEvents, made
<1> QED
  BY <1>7, <1>8, EventStep, QuietCommand, IdleQuiet DEF NumberSteps

-----------------------------------------------------------------------------
(* Steps that change the rows, the numbers or the copies. *)

\* recover adds rows only of discs that are recorded.
LEMMA NumberRecoverLedger == TypeOK /\ NumberInv /\ RecoverLedger => NumberInv'
<1> SUFFICES ASSUME TypeOK, NumberInv, RecoverLedger PROVE NumberInv'
  OBVIOUS
<1>1. /\ ledger' = ledger \cup cmd.discs /\ disc' = disc
      /\ UNCHANGED <<num, names, burnt, disasters>>
      /\ cmd'.at = "recoverItems"
  BY GoFields DEF RecoverLedger, logs, made, TypeOK
<1>2. disasters = 0 => Numbered' = Numbered
  BY <1>1 DEF NumberInv, CommandNumbers, RecoverLedger, Numbered
<1>3. cmd'.at \notin NumberSteps
  BY <1>1 DEF NumberSteps, NewSteps, RowSteps, UndoSteps
<1> QED
  BY <1>1, <1>2, <1>3, QuietCommand DEF NumberInv, RecordsOK, NumbersOnce, NamesRecorded

\* A row leaves only a disc that keeps its Packed event.
LEMMA NumberRemoves ==
  ASSUME TypeOK, CommandOK, NumberInv, PackRemoves \/ UndoRemoves
  PROVE  NumberInv'
<1>1. /\ disc' = disc /\ cmd' = cmd /\ UNCHANGED <<num, names, burnt, disasters>>
      /\ cmd.at \in {"pack", "undoing"}
  BY DEF PackRemoves, UndoRemoves, logs, made
<1>2. PICK d : RemoveNext(d) /\ (d \in ledger => disc[d].numbered)
  <2>1. CASE PackRemoves
    <3>1. PICK d : d \in Leftover \cup Stray /\ RemoveNext(d)
      BY <2>1 DEF PackRemoves
    <3>2. d \in ledger => d \in Disc /\ disc[d].state = "undone"
      BY <3>1 DEF Leftover, Stray, InState
    <3> QED
      BY <3>1, <3>2 DEF NumberInv, RecordsOK, RecordOK
  <2>2. CASE UndoRemoves
    BY <2>2 DEF UndoRemoves, NumberInv, UndoSteps
  <2> QED
    BY <2>1, <2>2
<1>3. ledger' \in {ledger, ledger \ {d}} /\ (ledger' # ledger => d \in ledger)
  BY <1>2 DEF RemoveNext
<1>4. Numbered' = Numbered
  BY <1>1, <1>2, <1>3 DEF Numbered, TypeOK
<1>5. CommandNumbers'
  BY <1>1 DEF CommandNumbers, NewSteps, RowSteps
<1> QED
  BY <1>1, <1>4, <1>5 DEF NumberInv, RecordsOK, NumbersOnce, NamesRecorded

\* pack takes a disc that has no number, and the number above all others.
LEMMA NumberPackPlans ==
  ASSUME TypeOK, NumberInv, NEW d \in Disc, PackPlans(d)
  PROVE  NumberInv'
<1>1. PICK n \in NextNum : num' = [num EXCEPT ![d] = n]
  BY DEF PackPlans
<1>2. /\ disc' = disc /\ ledger' = ledger /\ UNCHANGED <<names, burnt, disasters>>
      /\ cmd' \in {Idle, Go("packTree", d)}
  BY DEF PackPlans, AppendItems
<1>3. d \notin Numbered
  BY DEF PackPlans, Fresh, Known, Numbered, NumberInv, RecordsOK, RecordOK
<1>4. Numbered' = Numbered /\ \A e \in Numbered : num'[e] = num[e] /\ num'[d] = n /\ num[e] < n
  BY <1>1, <1>2, <1>3 DEF Numbered, NextNum, TypeOK
<1>5. cmd'.at = "idle" \/ (cmd'.at = "packTree" /\ cmd'.disc = d)
  BY <1>2, GoFields
<1>6. CommandNumbers' /\ cmd'.at \notin UndoSteps
  BY <1>4, <1>5 DEF CommandNumbers, NewSteps, RowSteps, UndoSteps
<1> QED
  BY <1>2, <1>4, <1>6 DEF NumberInv, RecordsOK, NumbersOnce, NamesRecorded

\* The table of the new disc names the rows and the disc itself.
LEMMA NumberPackTree ==
  ASSUME TypeOK, CommandOK, NumberInv, PackTree
  PROVE  NumberInv'
<1>1. /\ names' = [names EXCEPT ![cmd.disc] = ledger \cup {cmd.disc}] /\ disc' = disc
      /\ ledger' = ledger /\ UNCHANGED <<num, burnt, disasters>> /\ cmd.at = "packTree"
  BY DEF PackTree, logs
<1>2. cmd.disc \in Disc
  BY <1>1 DEF CommandOK, DiscSteps, Steps
<1>3. cmd'.at = "packTables" /\ cmd'.disc = cmd.disc
  BY GoFields DEF PackTree
<1>4. Numbered' = Numbered /\ ledger \subseteq Numbered
  BY <1>1 DEF Numbered
<1>5. ASSUME disasters = 0 PROVE CommandNumbers' /\ NamesRecorded' /\ NumbersOnce'
  <2>1. \A e \in Numbered : num[e] < num[cmd.disc]
    BY <1>1, <1>5 DEF NumberInv, CommandNumbers, NewSteps
  <2>2. cmd.disc \notin Numbered
    BY <1>2, <2>1 DEF TypeOK
  <2>3. CommandNumbers'
    BY <1>1, <1>2, <1>3, <1>4, <2>1 DEF CommandNumbers, NewSteps, RowSteps, TypeOK
  <2>4. \A e \in Numbered : names'[e] = names[e]
    BY <1>1, <2>2 DEF Numbered, TypeOK
  <2> QED
    BY <1>1, <1>4, <1>5, <2>3, <2>4 DEF NumberInv, NamesRecorded, NumbersOnce
<1> QED
  BY <1>1, <1>3, <1>5 DEF NumberInv, RecordsOK, UndoSteps

\* The row of the new disc: its number is above all others.
LEMMA NumberPackRow ==
  ASSUME TypeOK, CommandOK, NumberInv, PackRow
  PROVE  NumberInv'
<1>1. /\ ledger' = ledger \cup {cmd.disc} /\ disc' = disc
      /\ UNCHANGED <<num, names, burnt, disasters>> /\ cmd.at = "packRow"
  BY DEF PackRow, logs, made
<1>2. cmd.disc \in Disc
  BY <1>1 DEF CommandOK, DiscSteps, Steps
<1>3. cmd'.at = "packItems" /\ cmd'.disc = cmd.disc
  BY GoFields DEF PackRow, TypeOK
<1>4. Numbered' = Numbered \cup {cmd.disc}
  BY <1>1 DEF Numbered
<1>5. ASSUME disasters = 0 PROVE CommandNumbers' /\ NamesRecorded' /\ NumbersOnce'
  <2>1. /\ \A e \in Numbered : num[e] < num[cmd.disc]
        /\ names[cmd.disc] \subseteq Numbered \cup {cmd.disc}
    BY <1>1, <1>5 DEF NumberInv, CommandNumbers, NewSteps
  <2>2. NumbersOnce'
    <3>1. \A e \in Numbered : num[e] \in Nat /\ num[cmd.disc] \in Nat
      BY <1>2 DEF Numbered, TypeOK
    <3>2. \A e \in Numbered : num[e] # num[cmd.disc]
      BY <2>1, <3>1
    <3> QED
      BY <1>1, <1>4, <1>5, <3>2 DEF NumberInv, NumbersOnce
  <2>3. NamesRecorded'
    BY <1>1, <1>4, <1>5, <2>1 DEF NumberInv, NamesRecorded
  <2>4. CommandNumbers'
    BY <1>3, <1>4 DEF CommandNumbers, NewSteps, RowSteps
  <2> QED
    BY <2>2, <2>3, <2>4
<1> QED
  BY <1>1, <1>3, <1>5 DEF NumberInv, RecordsOK, UndoSteps

\* The operator burns a disc that has its row.
LEMMA NumberBurn ==
  ASSUME TypeOK, NumberInv, NEW d \in Disc, Burn(d)
  PROVE  NumberInv'
<1>1. /\ burnt' = burnt \cup {d} /\ d \in ledger /\ disc' = disc /\ ledger' = ledger /\ cmd' = cmd
      /\ UNCHANGED <<num, names, disasters>>
  BY DEF Burn, logs, made
<1>2. Numbered' = Numbered /\ d \in Numbered
  BY <1>1 DEF Numbered
<1> QED
  BY <1>1, <1>2 DEF NumberInv, RecordsOK, NumbersOnce, NamesRecorded, CommandNumbers

\* The host loses its records, and what they said of the numbers.
LEMMA NumberLoseRepository == TypeOK /\ LoseRepository => NumberInv'
<1> SUFFICES ASSUME TypeOK, LoseRepository PROVE NumberInv'
  OBVIOUS
<1>1. \A d \in Disc : disc'[d] = UnknownDisc
  BY DEF LoseRepository
<1>2. disasters' # 0
  BY DEF LoseRepository, TypeOK
<1>3. cmd'.at = "idle"
  BY GoFields DEF LoseRepository
<1> QED
  BY <1>1, <1>2, <1>3, UnknownRecordOK DEF NumberInv, RecordsOK, UndoSteps

-----------------------------------------------------------------------------

LEMMA NumberInit == Init => NumberInv
<1> SUFFICES ASSUME Init PROVE NumberInv
  OBVIOUS
<1>1. \A d \in Disc : disc[d] = UnknownDisc
  BY DEF Init
<1>2. cmd.at = "idle"
  BY GoFields DEF Init
<1>3. Numbered = {} /\ burnt = {}
  BY <1>1 DEF Numbered, Init, UnknownDisc
<1> QED
  BY <1>1, <1>2, <1>3, UnknownRecordOK
  DEF NumberInv, RecordsOK, NumbersOnce, NamesRecorded, CommandNumbers, NewSteps, RowSteps, UndoSteps

LEMMA NumberStep ==
  TypeOK /\ TypeOK' /\ CommandOK /\ NumberInv /\ [Next]_vars => NumberInv'
<1> SUFFICES ASSUME TypeOK, TypeOK', CommandOK, NumberInv, [Next]_vars PROVE NumberInv'
  OBVIOUS
<1>1. CASE \E d \in Disc : DiscCommand(d) \/ Burn(d)
  BY <1>1, NumberDiscCommand, NumberQuiet, NumberRecover, NumberFinishStage, NumberPackPlans,
     NumberPackUndo, NumberBurn DEF DiscCommand, QuietAction
<1>2. CASE \E s \in Snapshot : CommitWrites(s)
  BY <1>2, NumberQuiet DEF QuietAction
<1>3. CASE UNCHANGED vars
  BY <1>3 DEF vars, NumberInv, RecordsOK, NumbersOnce, NamesRecorded, CommandNumbers, Numbered
<1>4. CASE Open \/ RepairDisc \/ Stop \/ LostItems \/ LostRoot \/ FoundItems \/ GcItems \/ GcUnlink
           \/ RecoverItems \/ RecheckItems \/ CommitRecords \/ PackBegins \/ PackFails
  BY <1>4, NumberQuiet DEF QuietAction
<1> QED
  BY <1>1, <1>2, <1>3, <1>4, NumberVerifyRecords, NumberGcEvents, NumberRecoverLedger,
     NumberRecoverEvents, NumberRecheckEvent, NumberRemoves, NumberPackRecords,
     NumberPackedEvent, NumberPackTree, NumberPackTables, NumberPackRow, NumberUndoneItems,
     NumberLoseRepository
  DEF Next

\* No two recorded discs have one number, whatever packs stopped, were finished
\* by a later pack or were undone, and whatever recover added to the ledger.
THEOREM NumbersAreUnique == Spec => []DiscNumbersUnique
<1>1. NumberInv => DiscNumbersUnique
  BY DEF NumberInv, NumbersOnce, Numbered, DiscNumbersUnique
<1> QED
  BY <1>1, TypeInvariant, NumberInit, NumberStep, PTL DEF Spec

-----------------------------------------------------------------------------
(* What the tables of the discs name. *)

\* A written disc names itself, so a disc that nothing names has not been
\* written; the disc of a running or an interrupted pack is named by no other
\* disc, and a disc names others with lower numbers only.  A disc without a
\* row that recover may still give one names no disc that can be undone.
TablesInv ==
  /\ \A d \in Disc : names[d] # {} => d \in names[d]
  /\ \A d \in ledger \cup burnt : d \in names[d]
  /\ \A d \in Disc : \A e \in names[d] : e \in names[e]
  /\ \A e \in root : ~Known(e) => \A d \in Disc \ {e} : e \notin names[d]
  /\ \A d \in Disc : \A e \in names[d] \ {d} : disc[e].numbered => num[e] < num[d]
  /\ \A d \in Disc \ ledger :
       (/\ disc[d].state # "undone"
        /\ d \in burnt \/ \E x \in Disc \ {d} : d \in names[x])
       => \A e \in names[d] : ~disc[e].numbered

CommandTables ==
  /\ cmd.at = "recover" => cmd.disc \in burnt /\ cmd.discs \subseteq names[cmd.disc]
  /\ cmd.at \in NewSteps => cmd.disc \in root \ ledger
  /\ cmd.at = "packTree" =>
       /\ names[cmd.disc] = {}
       /\ \A e \in ledger : /\ disc[e].state # "undone"
                            /\ ~(e \in root /\ ~Known(e))
                            /\ disc[e].numbered => num[e] < num[cmd.disc]
  /\ cmd.at \in {"packTables", "packRow"} =>
       cmd.disc \in names[cmd.disc] /\ \A e \in names[cmd.disc] : disc[e].state # "undone"
  /\ cmd.at \in RowSteps => cmd.disc \in root \cap ledger
  /\ cmd.at \in UndoSteps => disc[cmd.disc].state = "undone"

UndoneInv == TablesInv /\ CommandTables /\ UndoneNeverNamed

\* The disc f has no event, or one that neither numbers nor undoes it.
Plain(f) ==
  \/ disc'[f] = disc[f]
  \/ /\ disc'[f].numbered = disc[f].numbered
     /\ disc[f].state # "undone" /\ disc'[f].state \notin {"unknown", "undone"}

PlainEvents == \A f \in Disc : Plain(f)

\* Only PackUndone undoes a disc, no event makes a disc unknown again, and an undone disc has none.
LEMMA ApplyUndone ==
  ASSUME NEW r \in DiscInfo, NEW e, Permits(r, e)
  PROVE  /\ r.state # "undone" /\ Apply(r, e).state # "unknown"
         /\ Apply(r, e).state = "undone" <=> e = "PackUndone"
<1>1. PICK t : t \in Targets(r, e) /\ t = Apply(r, e).state
  BY ApplyType
<1>2. CASE e = "LostUndone"
  <2>1. r.state = "lost" /\ <<r.before, t>> \in FoundMoves
    BY <1>1, <1>2 DEF Targets, Moves
  <2>2. t \in {"burned", "on disc only", "missing"}
    BY <2>1 DEF FoundMoves
  <2> QED
    BY <1>1, <1>2, <2>1, <2>2
<1>3. CASE e # "LostUndone"
  <2>1. <<e, r.state, t>> \in Moves
    BY <1>1, <1>3 DEF Targets
  <2> QED
    BY <1>1, <2>1 DEF Moves
<1> QED
  BY <1>2, <1>3

LEMMA ApplyPlain ==
  ASSUME NEW r \in DiscInfo, RecordOK(r), NEW e, e \notin {"Packed", "PackUndone"}, Permits(r, e)
  PROVE  /\ Apply(r, e).numbered = r.numbered
         /\ r.state # "undone" /\ Apply(r, e).state \notin {"unknown", "undone"}
<1>1. Apply(r, e).numbered = (r.numbered \/ e = "Packed")
  BY ApplyRecordOK
<1> QED
  BY <1>1, ApplyUndone DEF DiscInfo

LEMMA OneEventPlain ==
  ASSUME TypeOK, NumberInv, NEW d \in Disc, NEW e, e \notin {"Packed", "PackUndone"},
         Permits(disc[d], e), AppendEvent(d, e)
  PROVE  PlainEvents
<1>1. disc[d] \in DiscInfo /\ RecordOK(disc[d])
  BY DEF TypeOK, NumberInv, RecordsOK
<1>2. \A f \in Disc : disc'[f] = IF f = d THEN Apply(disc[d], e) ELSE disc[f]
  BY DEF AppendEvent, TypeOK
<1> QED
  BY <1>1, <1>2, ApplyPlain DEF PlainEvents, Plain

\* The steps that write events other than Packed and PackUndone.
EventAction ==
  \/ VerifyRecords \/ GcEvents \/ RecoverEvents \/ RecheckEvent
  \/ \E d \in Disc : \/ DiscBurned(d) \/ DiscBurnedUndo(d) \/ DiscVerified(d) \/ VerifyUndo(d)
                    \/ VerifyFails(d) \/ DiscLost(d) \/ DiscLostUndo(d)

LEMMA EventActionFrame ==
  ASSUME EventAction
  PROVE  UNCHANGED <<ledger, root, names, num, burnt>>
  BY DEF EventAction, VerifyRecords, GcEvents, RecoverEvents, RecheckEvent, DiscBurned, DiscBurnedUndo,
         DiscVerified, VerifyUndo, Mark, VerifyFails, DiscLost, DiscLostUndo, made, staging

LEMMA EventActionAt ==
  ASSUME EventAction
  PROVE  cmd'.at \in {"idle", "lost", "found", "freed"} /\ cmd'.at \notin NumberSteps
<1>1. \/ cmd' = Idle
      \/ \E d : cmd' = Go("lost", d) \/ cmd' = Go("found", d)
      \/ cmd' = [Go("freed", NoDisc) EXCEPT !.discs = Freeable \cup InState("on disc only"), !.items = Garbage]
  BY DEF EventAction, VerifyRecords, GcEvents, RecoverEvents, RecheckEvent, DiscBurned, DiscBurnedUndo,
         DiscVerified, VerifyUndo, Mark, VerifyFails, DiscLost, DiscLostUndo
<1>2. cmd' = [Go("freed", NoDisc) EXCEPT !.discs = Freeable \cup InState("on disc only"), !.items = Garbage]
        => cmd'.at = "freed"
  BY DEF Go, Idle
<1>3. cmd'.at \in {"idle", "lost", "found", "freed"}
  BY <1>1, <1>2, GoFields
<1> QED
  BY <1>3 DEF NumberSteps, NewSteps, RowSteps, UndoSteps

LEMMA EventActionPlain ==
  ASSUME TypeOK, CommandOK, NumberInv, EventAction
  PROVE  PlainEvents
<1>0. \A f \in Disc : disc[f] \in DiscInfo /\ RecordOK(disc[f])
  BY DEF TypeOK, NumberInv, RecordsOK
<1>1. ASSUME NEW d \in Disc,
             \/ DiscBurned(d) \/ DiscBurnedUndo(d) \/ DiscVerified(d) \/ VerifyUndo(d)
             \/ VerifyFails(d) \/ DiscLost(d) \/ DiscLostUndo(d)
      PROVE  PlainEvents
  <2>1. disc[d].state \in {"packed", "burned", "verified", "on disc only"} => Permits(disc[d], "CheckFailed")
    BY <1>0, PermitStates
  <2>2. \E e : e \notin {"Packed", "PackUndone"} /\ Permits(disc[d], e) /\ AppendEvent(d, e)
    BY <1>1, <2>1 DEF DiscBurned, DiscBurnedUndo, DiscVerified, VerifyUndo, Mark, VerifyFails, CanVerify,
                      DiscLost, DiscLostUndo
  <2> QED
    BY <2>2, OneEventPlain
<1>2. CASE RecheckEvent
  <2>1. cmd.disc \in Disc /\ disc[cmd.disc].state = "on disc only"
    BY <1>2 DEF RecheckEvent, CommandOK, DiscSteps, Steps
  <2> QED
    BY <1>0, <1>2, <2>1, PermitStates, OneEventPlain DEF RecheckEvent
<1>3. CASE VerifyRecords
  <2>1. PICK d : d = cmd.disc
    OBVIOUS
  <2>2. PICK burned : burned = IF disc[d].state = "packed" THEN Apply(disc[d], "BurnRecorded") ELSE disc[d]
    OBVIOUS
  <2>3. d \in Disc /\ disc[d].state \in {"packed", "burned", "verified", "on disc only"}
    BY <1>3, <2>1 DEF VerifyRecords, CommandOK, DiscSteps, Steps
  <2>4. /\ burned \in DiscInfo /\ RecordOK(burned) /\ burned.numbered = disc[d].numbered
        /\ burned.state \in {"burned", "verified", "on disc only"}
    <3>1. CASE disc[d].state = "packed"
      <4>1. disc[d] \in DiscInfo /\ RecordOK(disc[d]) /\ Permits(disc[d], "BurnRecorded")
        BY <1>0, <2>3, <3>1, PermitStates
      <4>2. burned = Apply(disc[d], "BurnRecorded")
        BY <2>2, <3>1
      <4>3. burned.state = "burned" /\ burned \in DiscInfo
        BY <3>1, <4>1, <4>2, AppliedStates, ApplyType
      <4>4. RecordOK(burned) /\ burned.numbered = disc[d].numbered
        BY <4>1, <4>2, ApplyRecordOK, ApplyPlain
      <4> QED
        BY <4>3, <4>4
    <3>2. CASE disc[d].state # "packed"
      BY <1>0, <2>2, <2>3, <3>2
    <3> QED
      BY <3>1, <3>2
  <2>5. Permits(burned, "CheckOK")
    BY <2>4, PermitStates
  <2>6. /\ Apply(burned, "CheckOK").numbered = disc[d].numbered
        /\ Apply(burned, "CheckOK").state \notin {"unknown", "undone"}
    BY <2>4, <2>5, ApplyPlain
  <2>7. disc' = [disc EXCEPT ![d] = Apply(burned, "CheckOK")] \/ disc' = [disc EXCEPT ![d] = burned]
    BY <1>3, <2>1, <2>2 DEF VerifyRecords
  <2>8. \A f \in Disc : f # d => disc'[f] = disc[f]
    BY <2>7 DEF TypeOK
  <2>9. disc'[d] \in {burned, Apply(burned, "CheckOK")}
    BY <2>3, <2>7 DEF TypeOK
  <2> QED
    BY <2>3, <2>4, <2>6, <2>8, <2>9 DEF PlainEvents, Plain
<1>4. CASE GcEvents
  <2>1. PICK G \in Written(Freeable) : disc' = [d \in Disc |-> IF d \in G THEN Apply(disc[d], "Freed") ELSE disc[d]]
    BY <1>4 DEF GcEvents
  <2>2. \A d \in G : d \in Disc /\ disc[d].state = "verified"
    BY DEF Written, Freeable, InState
  <2>3. \A d \in G : Permits(disc[d], "Freed")
    BY <1>0, <2>2, PermitStates
  <2> QED
    BY <1>0, <2>1, <2>2, <2>3, ApplyPlain DEF PlainEvents, Plain
<1>5. CASE RecoverEvents
  <2>1. PICK d : d = cmd.disc
    OBVIOUS
  <2>2. PICK recovered : recovered = Apply(disc[d], "Recovered")
    OBVIOUS
  <2>3. PICK checked : checked = IF cmd.whole THEN recovered ELSE Apply(recovered, "CheckFailed")
    OBVIOUS
  <2>4. PICK N \in SUBSET {e \in cmd.discs \ {d} : ~Known(e)}, r \in {recovered, checked} :
          disc' = [e \in Disc |-> IF e = d THEN r
                                  ELSE IF e \in N THEN Apply(disc[e], "NamedMissing") ELSE disc[e]]
    BY <1>5, <2>1, <2>2, <2>3 DEF RecoverEvents, Written
  <2>5. d \in Disc /\ disc[d].state \in {"unknown", "missing"}
    BY <1>5, <2>1 DEF RecoverEvents, CommandOK, DiscSteps, Steps
  <2>6. Permits(disc[d], "Recovered")
    BY <1>0, <2>5, PermitStates
  <2>7. /\ recovered \in DiscInfo /\ RecordOK(recovered) /\ recovered.numbered = disc[d].numbered
        /\ recovered.state = "on disc only"
    BY <1>0, <2>2, <2>5, <2>6, AppliedStates, ApplyType, ApplyRecordOK, ApplyPlain
  <2>8. Permits(recovered, "CheckFailed")
    BY <2>7, PermitStates
  <2>9. r.numbered = disc[d].numbered /\ r.state \notin {"unknown", "undone"}
    <3>1. r \in {recovered, Apply(recovered, "CheckFailed")}
      BY <2>3
    <3>2. /\ Apply(recovered, "CheckFailed").numbered = recovered.numbered
          /\ Apply(recovered, "CheckFailed").state \notin {"unknown", "undone"}
      BY <2>7, <2>8, ApplyPlain
    <3> QED
      BY <2>7, <3>1, <3>2
  <2>10. \A e \in N : e \in Disc /\ disc[e].state = "unknown"
    BY DEF Known, TypeOK, Cmd
  <2>11. \A e \in N : Permits(disc[e], "NamedMissing")
    BY <1>0, <2>10, PermitStates
  <2>12. ASSUME NEW f \in Disc
         PROVE  Plain(f)
    <3>1. CASE f = d
      BY <2>4, <2>5, <2>9, <3>1 DEF Plain
    <3>2. CASE f # d /\ f \in N
      BY <1>0, <2>4, <2>10, <2>11, <3>2, ApplyPlain DEF Plain
    <3>3. CASE f # d /\ f \notin N
      BY <2>4, <3>3 DEF Plain
    <3> QED
      BY <3>1, <3>2, <3>3
  <2> QED
    BY <2>12 DEF PlainEvents
<1> QED
  BY <1>1, <1>2, <1>3, <1>4, <1>5 DEF EventAction

LEMMA QuietFrame ==
  ASSUME QuietAction
  PROVE  /\ UNCHANGED <<disc, ledger, names, num, burnt>>
         /\ root' \subseteq root
<1>1. Steady
  BY QuietSteady
<1>2. root' \subseteq root
  BY DEF QuietAction, Open, RepairDisc, Stop, LostItems, LostRoot, FoundItems, GcItems, GcUnlink,
         RecoverItems, RecheckItems, EnsureOnDisc, CommitRecords, PackBegins, PackFails,
         VerifyReads, CatalogStops, CommitWrites, staging
<1> QED
  BY <1>1, <1>2 DEF Steady

LEMMA QuietTables ==
  ASSUME cmd'.at \notin NumberSteps
  PROVE  CommandTables'
  BY DEF CommandTables, NumberSteps, NewSteps, RowSteps, UndoSteps

\* A step that may write plain events, and takes rows only from undone discs.
LEMMA TablesFrame ==
  ASSUME TypeOK, TablesInv, UndoneNeverNamed, PlainEvents, names' = names, num' = num, burnt' = burnt,
         root' \subseteq root, ledger' \subseteq ledger, \A d \in ledger \ ledger' : disc'[d].state = "undone"
  PROVE  TablesInv' /\ UndoneNeverNamed'
<1>1. \A f \in Disc : /\ disc'[f].numbered = disc[f].numbered /\ (Known(f) => Known(f)')
                      /\ disc'[f].state = "undone" <=> disc[f].state = "undone"
  BY DEF PlainEvents, Plain, Known
<1>2. \A d \in Disc : names[d] \subseteq Disc
  BY DEF TypeOK
<1>3. ledger \subseteq Disc /\ root \subseteq Disc /\ burnt \subseteq Disc
  BY DEF TypeOK
<1>4. UndoneNeverNamed'
  BY <1>1, <1>2, <1>3 DEF UndoneNeverNamed
<1>5. /\ \A d \in Disc : names'[d] # {} => d \in names'[d]
      /\ \A d \in ledger' \cup burnt' : d \in names'[d]
      /\ \A d \in Disc : \A e \in names'[d] : e \in names'[e]
  BY DEF TablesInv
<1>6. \A e \in root' : ~Known(e)' => \A d \in Disc \ {e} : e \notin names'[d]
  BY <1>1, <1>3 DEF TablesInv
<1>7. \A d \in Disc : \A e \in names'[d] \ {d} : disc'[e].numbered => num'[e] < num'[d]
  BY <1>1, <1>2 DEF TablesInv
<1>8. ASSUME NEW d \in Disc \ ledger', disc'[d].state # "undone",
             d \in burnt' \/ \E x \in Disc \ {d} : d \in names'[x], NEW e \in names'[d]
      PROVE  ~disc'[e].numbered
  <2>1. d \notin ledger /\ disc[d].state # "undone"
    BY <1>1, <1>8
  <2> QED
    BY <1>1, <1>2, <1>8, <2>1 DEF TablesInv
<1> QED
  BY <1>4, <1>5, <1>6, <1>7, <1>8 DEF TablesInv

LEMMA UndoneQuiet ==
  ASSUME TypeOK, CommandOK, NumberInv, UndoneInv, QuietAction \/ EventAction
  PROVE  UndoneInv'
<1>1. cmd'.at \notin NumberSteps
  BY NumberQuietAt, EventActionAt
<1>2. /\ PlainEvents /\ names' = names /\ num' = num /\ burnt' = burnt
      /\ root' \subseteq root /\ ledger' = ledger
  BY QuietFrame, EventActionFrame, EventActionPlain DEF PlainEvents, Plain
<1> QED
  BY <1>1, <1>2, TablesFrame, QuietTables DEF UndoneInv

LEMMA UndoneUndo ==
  ASSUME TypeOK, NumberInv, UndoneInv, NEW d \in Disc, PackUndo(d)
  PROVE  UndoneInv'
<1>1. /\ Permits(disc[d], "PackUndone") /\ AppendEvent(d, "PackUndone") /\ Newest(d) /\ cmd' = Go("undone", d)
      /\ UNCHANGED <<ledger, root, names, num, burnt>>
  BY DEF PackUndo, made, staging
<1>2. cmd'.at = "undone" /\ cmd'.disc = d
  BY <1>1, GoFields
<1>4. disc[d] \in DiscInfo /\ RecordOK(disc[d])
  BY DEF TypeOK, NumberInv, RecordsOK
<1>5. /\ disc[d].numbered /\ disc'[d].numbered /\ disc'[d].state = "undone" /\ disc[d].state # "unknown"
      /\ \A f \in Disc \ {d} : disc'[f] = disc[f]
  <2>1. disc'[d] = Apply(disc[d], "PackUndone") /\ \A f \in Disc \ {d} : disc'[f] = disc[f]
    BY <1>1 DEF AppendEvent, TypeOK
  <2>2. disc[d].numbered /\ Apply(disc[d], "PackUndone").state = "undone"
    BY <1>1, <1>4, ApplyRecordOK, ApplyUndone
  <2>3. Apply(disc[d], "PackUndone").numbered = (disc[d].numbered \/ "PackUndone" = "Packed")
    BY <1>1, <1>4, ApplyRecordOK
  <2>4. disc[d].state # "unknown"
    BY <1>4, <2>2 DEF RecordOK
  <2> QED
    BY <2>1, <2>2, <2>3, <2>4
<1>3. CommandTables'
  BY <1>2, <1>5 DEF CommandTables, NewSteps, RowSteps
<1>6. \A f \in Disc : disc'[f].numbered = disc[f].numbered /\ (Known(f)' <=> Known(f))
  <2>1. \A f \in Disc \ {d} : disc'[f].numbered = disc[f].numbered /\ (Known(f)' <=> Known(f))
    BY <1>5 DEF Known
  <2>2. disc'[d].numbered = disc[d].numbered
    BY <1>5
  <2>3. Known(d)' /\ Known(d)
    BY <1>5 DEF Known
  <2> QED
    BY <2>1, <2>2, <2>3
<1>7. \A f \in Disc : names[f] \subseteq Disc
  BY DEF TypeOK
<1>8. ASSUME NEW x \in ledger, disc'[x].state # "undone", NEW e \in names[x]
      PROVE  disc'[e].state # "undone"
  <2>1. x \in Disc /\ x # d /\ disc[x].state # "undone"
    BY <1>5, <1>8 DEF TypeOK
  <2>2. CASE e = d
    <3>1. num[d] < num[x]
      BY <1>5, <2>1, <2>2, <1>8 DEF UndoneInv, TablesInv
    <3>2. num[x] < num[d]
      BY <1>1, <1>8, <2>1 DEF Newest, Numbered, InState
    <3> QED
      BY <2>1, <3>1, <3>2 DEF TypeOK
  <2>3. CASE e # d
    BY <1>5, <1>7, <1>8, <2>1, <2>3 DEF UndoneInv, UndoneNeverNamed
  <2> QED
    BY <2>2, <2>3
<1>9. UndoneNeverNamed'
  BY <1>1, <1>8 DEF UndoneNeverNamed
<1>10. TablesInv'
  <2>1. /\ \A f \in Disc : names'[f] # {} => f \in names'[f]
        /\ \A f \in ledger' \cup burnt' : f \in names'[f]
        /\ \A f \in Disc : \A e \in names'[f] : e \in names'[e]
    BY <1>1 DEF UndoneInv, TablesInv
  <2>2. \A e \in root' : ~Known(e)' => \A f \in Disc \ {e} : e \notin names'[f]
    BY <1>1, <1>6 DEF UndoneInv, TablesInv, TypeOK
  <2>3. \A f \in Disc : \A e \in names'[f] \ {f} : disc'[e].numbered => num'[e] < num'[f]
    BY <1>1, <1>6, <1>7 DEF UndoneInv, TablesInv
  <2>4. ASSUME NEW f \in Disc \ ledger', disc'[f].state # "undone",
               f \in burnt' \/ \E x \in Disc \ {f} : f \in names'[x], NEW e \in names'[f]
        PROVE  ~disc'[e].numbered
    <3>1. disc[f].state # "undone"
      BY <1>5, <2>4
    <3> QED
      BY <1>1, <1>6, <1>7, <2>4, <3>1 DEF UndoneInv, TablesInv
  <2> QED
    BY <2>1, <2>2, <2>3, <2>4 DEF TablesInv
<1> QED
  BY <1>3, <1>9, <1>10 DEF UndoneInv

LEMMA UndoneFresh ==
  ASSUME TypeOK, NumberInv, UndoneInv, NEW d \in Disc, PackPlans(d)
  PROVE  UndoneInv'
<1>1. /\ UNCHANGED <<disc, ledger, names, burnt>> /\ root' = root \cup {d}
      /\ Fresh(d) /\ Leftover \cup Stray \cup Interrupted = {}
      /\ cmd' \in {Idle, Go("packTree", d)}
  BY DEF PackPlans, AppendItems
<1>2. PICK n \in NextNum : num' = [num EXCEPT ![d] = n]
  BY DEF PackPlans
<1>3. ~Known(d) /\ ~disc[d].numbered /\ d \notin ledger
  BY <1>1 DEF Fresh, Known, NumberInv, RecordsOK, RecordOK
<1>4. d \notin burnt /\ names[d] = {} /\ \A x \in Disc : d \notin names[x]
  BY <1>1 DEF Fresh, UndoneInv, TablesInv
<1>5. \A e \in Disc \ {d} : num'[e] = num[e]
  BY <1>2 DEF TypeOK
<1>6. num'[d] = n /\ \A e \in Numbered : num[e] < n
  BY <1>2 DEF TypeOK, NextNum
<1>7. \A x \in Disc : names[x] \subseteq Disc
  BY DEF TypeOK
<1>8. UndoneNeverNamed'
  BY <1>1 DEF UndoneInv, UndoneNeverNamed
<1>9. TablesInv'
  <2>1. /\ \A x \in Disc : names'[x] # {} => x \in names'[x]
        /\ \A x \in ledger' \cup burnt' : x \in names'[x]
        /\ \A x \in Disc : \A e \in names'[x] : e \in names'[e]
    BY <1>1 DEF UndoneInv, TablesInv
  <2>2. \A e \in root' : ~Known(e)' => \A x \in Disc \ {e} : e \notin names'[x]
    BY <1>1, <1>4 DEF UndoneInv, TablesInv, Known
  <2>3. \A x \in Disc : \A e \in names'[x] \ {x} : disc'[e].numbered => num'[e] < num'[x]
    BY <1>1, <1>4, <1>5, <1>7 DEF UndoneInv, TablesInv
  <2>4. \A x \in Disc \ ledger' :
          (disc'[x].state # "undone" /\ (x \in burnt' \/ \E y \in Disc \ {x} : x \in names'[y]))
          => \A e \in names'[x] : ~disc'[e].numbered
    BY <1>1 DEF UndoneInv, TablesInv
  <2> QED
    BY <2>1, <2>2, <2>3, <2>4 DEF TablesInv
<1>10. \A e \in ledger : /\ disc[e].state # "undone" /\ ~(e \in root /\ ~Known(e)) /\ e # d
                         /\ disc[e].numbered => num'[e] < num'[d]
  <2>1. \A e \in ledger : disc[e].state # "undone" /\ ~(e \in root /\ ~Known(e)) /\ e \in Disc
    BY <1>1 DEF Leftover, Interrupted, InState, TypeOK
  <2>2. \A e \in ledger : e # d /\ e \in Numbered
    BY <1>3 DEF Numbered
  <2> QED
    BY <1>5, <1>6, <2>1, <2>2
<1>11. CommandTables'
  <2>1. CASE cmd' = Idle
    BY <2>1, GoFields DEF CommandTables, NewSteps, RowSteps, UndoSteps
  <2>2. CASE cmd' = Go("packTree", d)
    <3>1. cmd'.at = "packTree" /\ cmd'.disc = d
      BY <2>2, GoFields
    <3>2. d \in root' \ ledger' /\ names'[d] = {}
      BY <1>1, <1>3, <1>4
    <3>3. \A e \in ledger' : /\ disc'[e].state # "undone" /\ ~(e \in root' /\ ~Known(e)')
                             /\ disc'[e].numbered => num'[e] < num'[d]
      BY <1>1, <1>10 DEF Known
    <3> QED
      BY <3>1, <3>2, <3>3 DEF CommandTables, NewSteps, RowSteps, UndoSteps
  <2> QED
    BY <1>1, <2>1, <2>2
<1> QED
  BY <1>8, <1>9, <1>11 DEF UndoneInv

\* The table of the new disc names the rows, of which none is undone, and itself.
LEMMA UndoneTree ==
  ASSUME TypeOK, CommandOK, UndoneInv, PackTree
  PROVE  UndoneInv'
<1>1. PICK d : d = cmd.disc
  OBVIOUS
<1>2. /\ names' = [names EXCEPT ![d] = ledger \cup {d}] /\ cmd.at = "packTree"
      /\ UNCHANGED <<disc, ledger, root, num, burnt>>
  BY <1>1 DEF PackTree, logs, staging
<1>3. d \in Disc /\ disc[d].state = "unknown"
  BY <1>1, <1>2 DEF CommandOK, DiscSteps, NewDiscSteps, MakeSteps, Steps
<1>4. cmd'.at = "packTables" /\ cmd'.disc = d
  BY <1>1, GoFields DEF PackTree
<1>5. /\ d \in root \ ledger /\ names[d] = {}
      /\ \A e \in ledger : /\ disc[e].state # "undone" /\ ~(e \in root /\ ~Known(e))
                           /\ disc[e].numbered => num[e] < num[d]
  BY <1>1, <1>2 DEF UndoneInv, CommandTables, NewSteps
<1>6. \A x \in Disc \ {d} : d \notin names[x]
  BY <1>3, <1>5 DEF UndoneInv, TablesInv, Known
<1>7. d \notin burnt
  BY <1>5 DEF UndoneInv, TablesInv
<1>8. names'[d] = ledger \cup {d} /\ \A x \in Disc \ {d} : names'[x] = names[x]
  BY <1>2, <1>3 DEF TypeOK
<1>9. ledger \subseteq Disc /\ burnt \subseteq Disc /\ root \subseteq Disc /\ \A x \in Disc : names[x] \subseteq Disc
  BY DEF TypeOK
<1>10. UndoneNeverNamed'
  BY <1>2, <1>5, <1>8, <1>9 DEF UndoneInv, UndoneNeverNamed
<1>11. TablesInv'
  <2>1. \A x \in Disc : names'[x] # {} => x \in names'[x]
    BY <1>8 DEF UndoneInv, TablesInv
  <2>2. \A x \in ledger' \cup burnt' : x \in names'[x]
    BY <1>2, <1>8, <1>9 DEF UndoneInv, TablesInv
  <2>3. \A x \in Disc : \A e \in names'[x] : e \in names'[e]
    <3>1. ASSUME NEW x \in Disc, NEW e \in names'[x] PROVE e \in names'[e]
      <4>1. CASE e = d
        BY <1>8, <4>1
      <4>2. CASE e # d /\ x = d
        BY <1>8, <1>9, <3>1, <4>2 DEF UndoneInv, TablesInv
      <4>3. CASE e # d /\ x # d
        BY <1>8, <1>9, <3>1, <4>3 DEF UndoneInv, TablesInv
      <4> QED
        BY <4>1, <4>2, <4>3
    <3> QED
      BY <3>1
  <2>4. \A e \in root' : ~Known(e)' => \A x \in Disc \ {e} : e \notin names'[x]
    <3>1. ASSUME NEW e \in root', ~Known(e)', NEW x \in Disc \ {e} PROVE e \notin names'[x]
      <4>1. e \in root /\ ~Known(e)
        BY <1>2, <3>1 DEF Known
      <4>2. CASE x = d
        BY <1>5, <1>8, <3>1, <4>1, <4>2
      <4>3. CASE x # d
        BY <1>8, <3>1, <4>1, <4>3 DEF UndoneInv, TablesInv
      <4> QED
        BY <4>2, <4>3
    <3> QED
      BY <3>1
  <2>5. \A x \in Disc : \A e \in names'[x] \ {x} : disc'[e].numbered => num'[e] < num'[x]
    <3>1. ASSUME NEW x \in Disc, NEW e \in names'[x] \ {x}, disc'[e].numbered PROVE num'[e] < num'[x]
      <4>1. CASE x = d
        BY <1>2, <1>5, <1>8, <3>1, <4>1
      <4>2. CASE x # d
        BY <1>2, <1>8, <3>1, <4>2 DEF UndoneInv, TablesInv
      <4> QED
        BY <4>1, <4>2
    <3> QED
      BY <3>1
  <2>6. \A x \in Disc \ ledger' :
          (disc'[x].state # "undone" /\ (x \in burnt' \/ \E y \in Disc \ {x} : x \in names'[y]))
          => \A e \in names'[x] : ~disc'[e].numbered
    <3>1. ASSUME NEW x \in Disc \ ledger', disc'[x].state # "undone",
                 x \in burnt' \/ \E y \in Disc \ {x} : x \in names'[y], NEW e \in names'[x]
          PROVE  ~disc'[e].numbered
      <4>1. x # d
        BY <1>2, <1>6, <1>7, <1>8, <3>1
      <4>2. x \notin ledger /\ disc[x].state # "undone" /\ e \in names[x]
        BY <1>2, <1>8, <3>1, <4>1
      <4>3. x \in burnt \/ \E y \in Disc \ {x} : x \in names[y]
        <5>1. CASE x \in burnt'
          BY <1>2, <5>1
        <5>2. CASE x \notin burnt'
          <6>1. PICK y \in Disc \ {x} : x \in names'[y]
            BY <3>1, <5>2
          <6>2. y # d
            BY <1>8, <4>1, <4>2, <6>1
          <6> QED
            BY <1>8, <6>1, <6>2
        <5> QED
          BY <5>1, <5>2
      <4>4. ~disc[e].numbered
        BY <3>1, <4>2, <4>3 DEF UndoneInv, TablesInv
      <4> QED
        BY <1>2, <4>4
    <3> QED
      BY <3>1
  <2> QED
    BY <2>1, <2>2, <2>3, <2>4, <2>5, <2>6 DEF TablesInv
<1>12. CommandTables'
  <2>1. d \in root' \ ledger' /\ d \in names'[d] /\ \A e \in names'[d] : disc'[e].state # "undone"
    BY <1>2, <1>3, <1>5, <1>8
  <2> QED
    BY <1>4, <2>1 DEF CommandTables, NewSteps, RowSteps, UndoSteps
<1> QED
  BY <1>10, <1>11, <1>12 DEF UndoneInv

\* A step that changes no disc, row, table or number and takes no plan directory.
LEMMA UndoneSteady ==
  ASSUME TypeOK, UndoneInv, UNCHANGED <<disc, ledger, names, num, burnt>>, root' \subseteq root, CommandTables'
  PROVE  UndoneInv'
<1>1. PlainEvents
  BY DEF PlainEvents, Plain
<1> QED
  BY <1>1, TablesFrame DEF UndoneInv

LEMMA UndonePackTables ==
  ASSUME TypeOK, UndoneInv, PackTables
  PROVE  UndoneInv'
<1>1. UNCHANGED <<disc, ledger, root, names, num, burnt>> /\ cmd.at = "packTables"
  BY DEF PackTables, logs, made, staging
<1>2. cmd'.at = "packRow" /\ cmd'.disc = cmd.disc
  BY GoFields DEF PackTables, TypeOK
<1>3. CommandTables'
  BY <1>1, <1>2 DEF UndoneInv, CommandTables, NewSteps, RowSteps, UndoSteps
<1> QED
  BY <1>1, <1>3, UndoneSteady

LEMMA UndonePackRow ==
  ASSUME TypeOK, CommandOK, UndoneInv, PackRow
  PROVE  UndoneInv'
<1>1. PICK d : d = cmd.disc
  OBVIOUS
<1>2. /\ UNCHANGED <<disc, root, names, num, burnt>> /\ ledger' = ledger \cup {d} /\ cmd.at = "packRow"
      /\ d \in Disc
  BY <1>1 DEF PackRow, logs, made, staging, CommandOK, DiscSteps, Steps
<1>3. cmd'.at = "packItems" /\ cmd'.disc = d
  BY <1>1, GoFields DEF PackRow, TypeOK
<1>4. d \in root /\ d \in names[d] /\ \A e \in names[d] : disc[e].state # "undone"
  BY <1>1, <1>2 DEF UndoneInv, CommandTables, NewSteps
<1>5. UndoneNeverNamed'
  BY <1>2, <1>4 DEF UndoneInv, UndoneNeverNamed
<1>6. CommandTables'
  BY <1>2, <1>3, <1>4 DEF CommandTables, NewSteps, RowSteps, UndoSteps
<1>7. TablesInv'
  BY <1>2, <1>4 DEF UndoneInv, TablesInv, Known
<1> QED
  BY <1>5, <1>6, <1>7 DEF UndoneInv

LEMMA UndoneItemsStep ==
  ASSUME TypeOK, CommandOK, UndoneInv,
         FinishPack \/ PackItems \/ UndoneItems \/ \E d \in Disc : FinishStage(d)
  PROVE  UndoneInv'
<1>1. UNCHANGED <<disc, ledger, root, names, num, burnt>>
  BY DEF FinishPack, PackItems, UndoneItems, FinishStage, staging, made
<1>2. CommandTables'
  <2>1. CASE FinishPack \/ PackItems
    <3>1. PICK a \in {"finishEvent", "packEvent"} : cmd' \in {Idle, Go(a, cmd.disc)}
      BY <2>1 DEF FinishPack, PackItems, AppendItems
    <3>2. cmd.disc \in root \cap ledger
      BY <2>1 DEF FinishPack, PackItems, UndoneInv, CommandTables, RowSteps
    <3>3. cmd'.at = "idle" \/ (cmd'.at \in {"finishEvent", "packEvent"} /\ cmd'.disc = cmd.disc)
      BY <3>1, GoFields
    <3> QED
      BY <1>1, <3>2, <3>3 DEF CommandTables, NewSteps, RowSteps, UndoSteps
  <2>2. CASE UndoneItems
    <3>1. cmd' \in {Go("undoing", cmd.disc), Idle} /\ cmd.at = "undone"
      BY <2>2 DEF UndoneItems, AppendOwed, AppendItems
    <3>2. disc[cmd.disc].state = "undone"
      BY <3>1 DEF UndoneInv, CommandTables, UndoSteps
    <3>3. cmd'.at = "idle" \/ (cmd'.at = "undoing" /\ cmd'.disc = cmd.disc)
      BY <3>1, GoFields
    <3> QED
      BY <1>1, <3>2, <3>3 DEF CommandTables, NewSteps, RowSteps, UndoSteps
  <2>3. CASE \E d \in Disc : FinishStage(d)
    <3>1. PICK d \in Disc : FinishStage(d)
      BY <2>3
    <3>2. PICK ids : cmd' \in {Idle, [Go("finishPack", d) EXCEPT !.items = ids]}
      BY <3>1 DEF FinishStage, AppendItems
    <3>3. d \in root \cap ledger
      BY <3>1 DEF FinishStage, Interrupted
    <3>4. cmd'.at = "idle" \/ (cmd'.at = "finishPack" /\ cmd'.disc = d)
      <4>1. CASE cmd' = Idle
        BY <4>1, GoFields
      <4>2. CASE cmd' = [Go("finishPack", d) EXCEPT !.items = ids]
        BY <4>2 DEF Go, Idle
      <4> QED
        BY <3>2, <4>1, <4>2
    <3> QED
      BY <1>1, <3>3, <3>4 DEF CommandTables, NewSteps, RowSteps, UndoSteps
  <2> QED
    BY <2>1, <2>2, <2>3
<1> QED
  BY <1>1, <1>2, UndoneSteady

\* The Packed event numbers a disc that only its own table names.
LEMMA UndonePackedEvent ==
  ASSUME TypeOK, CommandOK, NumberInv, UndoneInv, FinishEvent \/ PackEvent
  PROVE  UndoneInv'
<1>1. PICK d : d = cmd.disc
  OBVIOUS
<1>2. /\ AppendEvent(d, "Packed") /\ cmd' \in {Idle, Go("pack", NoDisc)}
      /\ cmd.at \in {"finishEvent", "packEvent"} /\ UNCHANGED <<ledger, root, names, num, burnt>>
  BY <1>1 DEF FinishEvent, PackEvent, staging, made
<1>3. d \in Disc /\ disc[d].state = "unknown" /\ disc[d] \in DiscInfo /\ RecordOK(disc[d])
  BY <1>1, <1>2 DEF CommandOK, DiscSteps, NewDiscSteps, MakeSteps, Steps, TypeOK, NumberInv, RecordsOK
<1>4. d \in root \cap ledger
  BY <1>1, <1>2 DEF UndoneInv, CommandTables, RowSteps
<1>5. \A x \in Disc \ {d} : d \notin names[x]
  BY <1>3, <1>4 DEF UndoneInv, TablesInv, Known
<1>6. /\ disc'[d].state \notin {"unknown", "undone"}
      /\ \A e \in Disc \ {d} : disc'[e] = disc[e]
  <2>1. Permits(disc[d], "Packed")
    BY <1>3, PermitStates
  <2>2. disc'[d] = Apply(disc[d], "Packed")
    BY <1>2, <1>3 DEF AppendEvent, TypeOK
  <2> QED
    BY <1>2, <1>3, <2>1, <2>2, ApplyUndone DEF AppendEvent, TypeOK
<1>7. \A x \in Disc : names[x] \subseteq Disc
  BY DEF TypeOK
<1>8. ledger \subseteq Disc /\ root \subseteq Disc
  BY DEF TypeOK
<1>9. UndoneNeverNamed'
  BY <1>2, <1>3, <1>6, <1>7, <1>8 DEF UndoneInv, UndoneNeverNamed
<1>10. TablesInv'
  <2>1. /\ \A x \in Disc : names'[x] # {} => x \in names'[x]
        /\ \A x \in ledger' \cup burnt' : x \in names'[x]
        /\ \A x \in Disc : \A e \in names'[x] : e \in names'[e]
    BY <1>2 DEF UndoneInv, TablesInv
  <2>2. \A e \in root' : ~Known(e)' => \A x \in Disc \ {e} : e \notin names'[x]
    BY <1>2, <1>5, <1>6, <1>8 DEF UndoneInv, TablesInv, Known
  <2>3. \A x \in Disc : \A e \in names'[x] \ {x} : disc'[e].numbered => num'[e] < num'[x]
    <3>1. ASSUME NEW x \in Disc, NEW e \in names'[x] \ {x}, disc'[e].numbered PROVE num'[e] < num'[x]
      <4>1. e \in Disc \ {d} /\ e \in names[x] \ {x}
        BY <1>2, <1>5, <1>7, <3>1
      <4> QED
        BY <1>2, <1>6, <3>1, <4>1 DEF UndoneInv, TablesInv
    <3> QED
      BY <3>1
  <2>4. ASSUME NEW x \in Disc \ ledger', disc'[x].state # "undone",
               x \in burnt' \/ \E y \in Disc \ {x} : x \in names'[y], NEW e \in names'[x]
        PROVE  ~disc'[e].numbered
    <3>1. x # d /\ x \notin ledger
      BY <1>2, <1>4, <2>4
    <3>2. e \in Disc \ {d} /\ e \in names[x]
      BY <1>2, <1>5, <1>7, <2>4, <3>1
    <3> QED
      BY <1>2, <1>6, <2>4, <3>1, <3>2 DEF UndoneInv, TablesInv
  <2> QED
    BY <2>1, <2>2, <2>3, <2>4 DEF TablesInv
<1>11. CommandTables'
  <2>1. cmd'.at \in {"idle", "pack"}
    BY <1>2, GoFields
  <2> QED
    BY <2>1 DEF CommandTables, NewSteps, RowSteps, UndoSteps
<1> QED
  BY <1>9, <1>10, <1>11 DEF UndoneInv

\* pack and pack --undo take rows and plan directories of undone discs, or of
\* discs with no row.
LEMMA UndoneRemoves ==
  ASSUME TypeOK, UndoneInv, PackRemoves \/ UndoRemoves
  PROVE  UndoneInv'
<1>1. /\ UNCHANGED <<disc, names, num, burnt>> /\ cmd' = cmd /\ cmd.at \in {"pack", "undoing"}
  BY DEF PackRemoves, UndoRemoves, logs, made
<1>2. PICK d : RemoveNext(d) /\ (d \in ledger => disc[d].state = "undone")
  <2>1. CASE PackRemoves
    <3>1. PICK d : d \in Leftover \cup Stray /\ RemoveNext(d)
      BY <2>1 DEF PackRemoves
    <3> QED
      BY <3>1 DEF Leftover, Stray, InState
  <2>2. CASE UndoRemoves
    BY <2>2 DEF UndoRemoves, UndoneInv, CommandTables, UndoSteps
  <2> QED
    BY <2>1, <2>2
<1>3. root' \subseteq root /\ ledger' \subseteq ledger /\ ledger \ ledger' \subseteq {d}
  BY <1>2 DEF RemoveNext
<1>4. \A e \in ledger \ ledger' : disc'[e].state = "undone"
  BY <1>1, <1>2, <1>3
<1>5. PlainEvents
  BY <1>1 DEF PlainEvents, Plain
<1>6. CommandTables'
  BY <1>1 DEF UndoneInv, CommandTables, NewSteps, RowSteps
<1> QED
  BY <1>1, <1>3, <1>4, <1>5, <1>6, TablesFrame DEF UndoneInv

LEMMA UndoneRecover ==
  ASSUME TypeOK, UndoneInv, NEW d \in Disc, Recover(d)
  PROVE  UndoneInv'
<1>1. UNCHANGED <<disc, ledger, root, names, num, burnt>> /\ d \in burnt
  BY DEF Recover, logs, staging, made
<1>2. cmd'.at \in {"idle", "recover", "recheck"}
      /\ (cmd'.at = "recover" => cmd'.disc = d /\ cmd'.discs \subseteq names[d])
  BY RecoverCommand
<1>3. CommandTables'
  BY <1>1, <1>2 DEF CommandTables, NewSteps, RowSteps, UndoSteps
<1> QED
  BY <1>1, <1>3, UndoneSteady

\* The rows that recover adds are of discs that name no disc with a Packed event.
LEMMA UndoneRecoverLedger ==
  ASSUME TypeOK, CommandOK, NumberInv, UndoneInv, RecoverLedger
  PROVE  UndoneInv'
<1>1. PICK d : d = cmd.disc
  OBVIOUS
<1>2. /\ UNCHANGED <<disc, root, names, num, burnt>> /\ ledger' = ledger \cup cmd.discs
      /\ cmd.at = "recover"
  BY DEF RecoverLedger, logs, made, staging
<1>3. cmd'.at = "recoverItems"
  BY GoFields DEF RecoverLedger, TypeOK
<1>4. d \in burnt /\ d \in Disc /\ cmd.discs \subseteq names[d]
  BY <1>1, <1>2 DEF UndoneInv, CommandTables, CommandOK, DiscSteps, Steps
<1>5. names[d] \subseteq Disc /\ \A x \in Disc : names[x] \subseteq Disc
  BY <1>4 DEF TypeOK
<1>6. ASSUME NEW x \in cmd.discs \ ledger, disc[x].state # "undone", NEW e \in names[x]
      PROVE  disc[e].state # "undone"
  <2>1. x \in Disc \ ledger /\ (x \in burnt \/ \E y \in Disc \ {x} : x \in names[y])
    BY <1>4, <1>5, <1>6
  <2>2. ~disc[e].numbered /\ e \in Disc
    BY <1>5, <1>6, <2>1 DEF UndoneInv, TablesInv
  <2> QED
    BY <2>2 DEF NumberInv, RecordsOK, RecordOK
<1>7. UndoneNeverNamed'
  BY <1>2, <1>6 DEF UndoneInv, UndoneNeverNamed
<1>8. TablesInv'
  BY <1>2, <1>4, <1>5 DEF UndoneInv, TablesInv, Known
<1>9. CommandTables'
  BY <1>3 DEF CommandTables, NewSteps, RowSteps, UndoSteps
<1> QED
  BY <1>7, <1>8, <1>9 DEF UndoneInv

LEMMA UndoneBurn ==
  ASSUME TypeOK, UndoneInv, NEW d \in Disc, Burn(d)
  PROVE  UndoneInv'
<1>1. /\ UNCHANGED <<disc, ledger, root, names, num, cmd>> /\ burnt' = burnt \cup {d} /\ d \in ledger
      /\ cmd.at = "idle"
  BY GoFields DEF Burn, logs, staging, made
<1>2. TablesInv'
  BY <1>1 DEF UndoneInv, TablesInv, Known
<1>3. UndoneNeverNamed' /\ CommandTables'
  BY <1>1 DEF UndoneInv, UndoneNeverNamed, CommandTables, NewSteps, RowSteps, UndoSteps
<1> QED
  BY <1>2, <1>3 DEF UndoneInv

LEMMA UndoneLoseRepository ==
  ASSUME TypeOK, UndoneInv, LoseRepository
  PROVE  UndoneInv'
<1>1. /\ UNCHANGED <<names, num, burnt, cmd>> /\ ledger' = {} /\ root' = {} /\ cmd.at = "idle"
      /\ \A e \in Disc : disc'[e].state = "unknown" /\ ~disc'[e].numbered
  BY GoFields DEF LoseRepository, made, UnknownDisc
<1>2. \A x \in Disc : names[x] \subseteq Disc
  BY DEF TypeOK
<1>3. TablesInv'
  BY <1>1, <1>2 DEF UndoneInv, TablesInv
<1>4. UndoneNeverNamed' /\ CommandTables'
  BY <1>1 DEF UndoneNeverNamed, CommandTables, NewSteps, RowSteps, UndoSteps
<1> QED
  BY <1>3, <1>4 DEF UndoneInv

LEMMA UndoneInit == Init => UndoneInv
<1> SUFFICES ASSUME Init PROVE UndoneInv
  OBVIOUS
<1>1. cmd.at = "idle" /\ ledger = {} /\ root = {} /\ burnt = {} /\ \A d \in Disc : names[d] = {}
  BY GoFields DEF Init
<1> QED
  BY <1>1 DEF UndoneInv, TablesInv, CommandTables, UndoneNeverNamed, NewSteps, RowSteps, UndoSteps

LEMMA UndoneStep ==
  TypeOK /\ TypeOK' /\ CommandOK /\ NumberInv /\ UndoneInv /\ [Next]_vars => UndoneInv'
<1> SUFFICES ASSUME TypeOK, CommandOK, NumberInv, UndoneInv, [Next]_vars PROVE UndoneInv'
  OBVIOUS
<1>1. CASE \E d \in Disc : DiscCommand(d) \/ Burn(d)
  BY <1>1, UndoneQuiet, UndoneRecover, UndoneItemsStep, UndoneFresh, UndoneUndo, UndoneBurn
  DEF DiscCommand, QuietAction, EventAction
<1>2. CASE \E s \in Snapshot : CommitWrites(s)
  BY <1>2, UndoneQuiet DEF QuietAction
<1>3. CASE UNCHANGED vars
  <2>1. UNCHANGED <<disc, ledger, root, names, num, burnt, cmd>>
    BY <1>3 DEF vars
  <2>2. CommandTables'
    BY <2>1 DEF UndoneInv, CommandTables, Known
  <2> QED
    BY <2>1, <2>2, UndoneSteady
<1>4. CASE Open \/ RepairDisc \/ Stop \/ LostItems \/ LostRoot \/ FoundItems \/ GcItems \/ GcUnlink
           \/ RecoverItems \/ RecheckItems \/ CommitRecords \/ PackBegins \/ PackFails
  BY <1>4, UndoneQuiet DEF QuietAction
<1>5. CASE VerifyRecords \/ GcEvents \/ RecoverEvents \/ RecheckEvent
  BY <1>5, UndoneQuiet DEF EventAction
<1> QED
  BY <1>1, <1>2, <1>3, <1>4, <1>5, UndoneRecoverLedger, UndoneRemoves, UndoneItemsStep,
     UndonePackedEvent, UndoneTree, UndonePackTables, UndonePackRow, UndoneLoseRepository
  DEF Next

\* The DISCS table of a disc of the repository names no undone disc: an undone
\* disc leaves the ledger before any later pack writes a table, and no row that
\* recover brings back is of a disc that names one.
THEOREM UndoneIsNotNamed == Spec => []UndoneNeverNamed
<1>1. UndoneInv => UndoneNeverNamed
  BY DEF UndoneInv
<1> QED
  BY <1>1, TypeInvariant, NumberInit, NumberStep, UndoneInit, UndoneStep, PTL DEF Spec

-----------------------------------------------------------------------------
(* What a recover makes known. *)

\* A disc with no Packed event that a recover gave, also while it is lost.
Recovered(r) ==
  ~r.numbered /\ (r.state = "on disc only" \/ (r.state = "lost" /\ r.before = "on disc only"))

NamingSteps == {"recover", "recoverItems", "recoverEvents"}

\* A recover whose records are whole names each disc of the table that it read.
NamedInv ==
  /\ \A d \in Disc : Recovered(disc[d]) => \A e \in names[d] : Known(e)
  /\ cmd.at \in NamingSteps => cmd.discs = names[cmd.disc] /\ cmd.whole

\* Only the event Recovered makes such a disc, and no event makes a disc unknown.
LEMMA ApplyRecovered ==
  ASSUME NEW r \in DiscInfo, RecordOK(r), NEW e, e # "Recovered", Permits(r, e)
  PROVE  Apply(r, e).state # "unknown" /\ (Recovered(Apply(r, e)) => Recovered(r))
<1>1. PICK t : t \in Targets(r, e) /\ t = Apply(r, e).state
  BY ApplyType
<1>2. Apply(r, e).numbered = (r.numbered \/ e = "Packed")
  BY ApplyRecordOK
<1>3. e = "Lost" => Apply(r, e).before = r.state
  <2>1. "Lost" # "LostUndone"
    OBVIOUS
  <2> QED
    BY <2>1, Zenon DEF Apply
<1>4. CASE e = "LostUndone"
  <2>1. r.state = "lost" /\ <<r.before, t>> \in FoundMoves
    BY <1>1, <1>4 DEF Targets, Moves
  <2> QED
    BY <1>1, <1>2, <2>1 DEF Recovered, FoundMoves
<1>5. CASE e # "LostUndone"
  <2>1. <<e, r.state, t>> \in Moves
    BY <1>1, <1>5 DEF Targets
  <2>2. t = "lost" => e = "Lost"
    BY <2>1 DEF Moves
  <2>3. t = "on disc only" => r.state \in {"on disc only", "verified"}
    BY <2>1 DEF Moves
  <2>4. t = "lost" => r.state # "lost"
    BY <2>1 DEF Moves
  <2>5. r.state = "verified" => r.numbered
    BY DEF RecordOK
  <2> QED
    BY <1>1, <1>2, <1>3, <2>2, <2>3, <2>4, <2>5, ApplyUndone DEF Recovered
<1> QED
  BY <1>4, <1>5

Unnamed == \A f \in Disc : (Known(f) => Known(f)') /\ (Recovered(disc'[f]) => Recovered(disc[f]))

\* A step that keeps the tables and recovers no disc.
LEMMA NamedStep ==
  ASSUME TypeOK, NamedInv, Unnamed, names' = names,
         cmd'.at \in NamingSteps => cmd'.discs = names[cmd'.disc] /\ cmd'.whole
  PROVE  NamedInv'
<1>1. \A d \in Disc : names[d] \subseteq Disc
  BY DEF TypeOK
<1> QED
  BY <1>1 DEF NamedInv, Unnamed

LEMMA OneEventUnnamed ==
  ASSUME TypeOK, NumberInv, NEW d \in Disc, NEW e, e # "Recovered",
         Permits(disc[d], e), AppendEvent(d, e)
  PROVE  Unnamed
<1>1. disc[d] \in DiscInfo /\ RecordOK(disc[d])
  BY DEF TypeOK, NumberInv, RecordsOK
<1>2. \A f \in Disc : disc'[f] = IF f = d THEN Apply(disc[d], e) ELSE disc[f]
  BY DEF AppendEvent, TypeOK
<1> QED
  BY <1>1, <1>2, ApplyRecovered DEF Unnamed, Known

LEMMA EventActionUnnamed ==
  ASSUME TypeOK, CommandOK, NumberInv, EventAction, ~RecoverEvents
  PROVE  Unnamed
<1>0. \A f \in Disc : disc[f] \in DiscInfo /\ RecordOK(disc[f])
  BY DEF TypeOK, NumberInv, RecordsOK
<1>1. ASSUME NEW d \in Disc,
             \/ DiscBurned(d) \/ DiscBurnedUndo(d) \/ DiscVerified(d) \/ VerifyUndo(d)
             \/ VerifyFails(d) \/ DiscLost(d) \/ DiscLostUndo(d)
      PROVE  Unnamed
  <2>1. disc[d].state \in {"packed", "burned", "verified", "on disc only"} => Permits(disc[d], "CheckFailed")
    BY <1>0, PermitStates
  <2>2. \E e : e # "Recovered" /\ Permits(disc[d], e) /\ AppendEvent(d, e)
    BY <1>1, <2>1 DEF DiscBurned, DiscBurnedUndo, DiscVerified, VerifyUndo, Mark, VerifyFails, CanVerify,
                      DiscLost, DiscLostUndo
  <2> QED
    BY <2>2, OneEventUnnamed
<1>2. CASE RecheckEvent
  <2>1. cmd.disc \in Disc /\ disc[cmd.disc].state = "on disc only"
    BY <1>2 DEF RecheckEvent, CommandOK, DiscSteps, Steps
  <2> QED
    BY <1>0, <1>2, <2>1, PermitStates, OneEventUnnamed DEF RecheckEvent
<1>3. CASE VerifyRecords
  <2>1. PICK d : d = cmd.disc
    OBVIOUS
  <2>2. PICK burned : burned = IF disc[d].state = "packed" THEN Apply(disc[d], "BurnRecorded") ELSE disc[d]
    OBVIOUS
  <2>3. d \in Disc /\ disc[d].state \in {"packed", "burned", "verified", "on disc only"}
    BY <1>3, <2>1 DEF VerifyRecords, CommandOK, DiscSteps, Steps
  <2>4. /\ burned \in DiscInfo /\ RecordOK(burned) /\ (Recovered(burned) => Recovered(disc[d]))
        /\ burned.state \in {"burned", "verified", "on disc only"}
    <3>1. CASE disc[d].state = "packed"
      <4>1. disc[d] \in DiscInfo /\ RecordOK(disc[d]) /\ Permits(disc[d], "BurnRecorded")
        BY <1>0, <2>3, <3>1, PermitStates
      <4>2. burned = Apply(disc[d], "BurnRecorded")
        BY <2>2, <3>1
      <4>3. burned.state = "burned" /\ burned \in DiscInfo
        BY <3>1, <4>1, <4>2, AppliedStates, ApplyType
      <4>4. RecordOK(burned) /\ (Recovered(burned) => Recovered(disc[d]))
        BY <4>1, <4>2, ApplyRecordOK, ApplyRecovered
      <4> QED
        BY <4>3, <4>4
    <3>2. CASE disc[d].state # "packed"
      BY <1>0, <2>2, <2>3, <3>2
    <3> QED
      BY <3>1, <3>2
  <2>5. Permits(burned, "CheckOK")
    BY <2>4, PermitStates
  <2>6. /\ Apply(burned, "CheckOK").state # "unknown"
        /\ Recovered(Apply(burned, "CheckOK")) => Recovered(disc[d])
    BY <2>4, <2>5, ApplyRecovered
  <2>7. disc' = [disc EXCEPT ![d] = Apply(burned, "CheckOK")] \/ disc' = [disc EXCEPT ![d] = burned]
    BY <1>3, <2>1, <2>2 DEF VerifyRecords
  <2>8. \A f \in Disc : f # d => disc'[f] = disc[f]
    BY <2>7 DEF TypeOK
  <2>9. disc'[d] \in {burned, Apply(burned, "CheckOK")}
    BY <2>3, <2>7 DEF TypeOK
  <2> QED
    BY <2>3, <2>4, <2>6, <2>8, <2>9 DEF Unnamed, Known
<1>4. CASE GcEvents
  <2>1. PICK G \in Written(Freeable) : disc' = [d \in Disc |-> IF d \in G THEN Apply(disc[d], "Freed") ELSE disc[d]]
    BY <1>4 DEF GcEvents
  <2>2. \A d \in G : d \in Disc /\ disc[d].state = "verified"
    BY DEF Written, Freeable, InState
  <2>3. \A d \in G : Permits(disc[d], "Freed")
    BY <1>0, <2>2, PermitStates
  <2> QED
    BY <1>0, <2>1, <2>2, <2>3, ApplyRecovered DEF Unnamed, Known
<1> QED
  BY <1>1, <1>2, <1>3, <1>4 DEF EventAction

LEMMA NamedQuiet ==
  ASSUME TypeOK, NamedInv, QuietAction
  PROVE  NamedInv'
<1>1. disc' = disc /\ names' = names
  BY QuietSteady DEF Steady
<1>2. Unnamed
  BY <1>1 DEF Unnamed, Known
<1>3. cmd'.at \in NamingSteps => cmd'.discs = names[cmd'.disc] /\ cmd'.whole
  <2>1. CASE cmd'.at \in QuietSteps
    BY <2>1 DEF QuietSteps, NamingSteps
  <2>2. CASE RecoverItems /\ cmd' = [cmd EXCEPT !.at = "recoverEvents"]
    <3>1. cmd.discs = names[cmd.disc] /\ cmd.whole
      BY <2>2 DEF RecoverItems, NamedInv, NamingSteps
    <3>2. cmd'.discs = cmd.discs /\ cmd'.disc = cmd.disc /\ cmd'.whole = cmd.whole
      BY <2>2 DEF TypeOK, Cmd
    <3> QED
      BY <3>1, <3>2
  <2> QED
    BY <2>1, <2>2, QuietGoes
<1> QED
  BY <1>1, <1>2, <1>3, NamedStep

LEMMA NamedEvents ==
  ASSUME TypeOK, CommandOK, NumberInv, NamedInv, EventAction, ~RecoverEvents
  PROVE  NamedInv'
<1>1. names' = names /\ cmd'.at \notin NamingSteps
  BY EventActionFrame, EventActionAt DEF NamingSteps
<1> QED
  BY <1>1, EventActionUnnamed, NamedStep

\* The batch of a recover that is written whole: Recovered, and NamedMissing for
\* each unknown disc of the table.
LEMMA NamedRecoverEvents ==
  ASSUME TypeOK, CommandOK, NumberInv, NamedInv, ~TornBatches, RecoverEvents
  PROVE  NamedInv'
<1>1. PICK d : d = cmd.disc
  OBVIOUS
<1>2. PICK N : N = {e \in cmd.discs \ {d} : ~Known(e)}
  OBVIOUS
<1>3. PICK r : r = Apply(disc[d], "Recovered")
  OBVIOUS
<1>4. cmd.at = "recoverEvents"
  BY DEF RecoverEvents
<1>5. cmd.discs = names[d] /\ cmd.whole
  BY <1>1, <1>4 DEF NamedInv, NamingSteps
<1>6. disc' = [e \in Disc |-> IF e = d THEN r ELSE IF e \in N THEN Apply(disc[e], "NamedMissing") ELSE disc[e]]
  BY <1>1, <1>2, <1>3, <1>5 DEF RecoverEvents, Written
<1>7. d \in Disc /\ disc[d].state \in {"unknown", "missing"}
  BY <1>1, <1>4 DEF CommandOK, DiscSteps, Steps
<1>8. \A e \in Disc : disc[e] \in DiscInfo /\ RecordOK(disc[e])
  BY DEF TypeOK, NumberInv, RecordsOK
<1>9. r.state = "on disc only"
  BY <1>3, <1>7, <1>8, PermitStates, AppliedStates
<1>10. N \subseteq Disc /\ names[d] \subseteq Disc
  BY <1>2, <1>5, <1>7 DEF TypeOK
<1>11. \A e \in N : Apply(disc[e], "NamedMissing").state # "unknown"
                    /\ ~Recovered(Apply(disc[e], "NamedMissing"))
  <2>1. ASSUME NEW e \in N PROVE /\ Apply(disc[e], "NamedMissing").state # "unknown"
                                 /\ ~Recovered(Apply(disc[e], "NamedMissing"))
    <3>1. e \in Disc /\ disc[e].state = "unknown"
      BY <1>2, <1>10, <2>1 DEF Known
    <3>2. Permits(disc[e], "NamedMissing") /\ ~Recovered(disc[e])
      BY <1>8, <3>1, PermitStates DEF Recovered
    <3> QED
      BY <1>8, <3>1, <3>2, ApplyRecovered
  <2> QED
    BY <2>1
<1>12. \A e \in Disc : Known(e) => Known(e)'
  BY <1>2, <1>6, <1>9, <1>11 DEF Known
<1>13. \A e \in names[d] : Known(e)'
  <2>1. ASSUME NEW e \in names[d] PROVE Known(e)'
    <3>1. CASE e = d
      BY <1>6, <1>7, <1>9, <3>1 DEF Known
    <3>2. CASE e # d
      BY <1>2, <1>5, <1>6, <1>10, <1>11, <1>12, <3>2 DEF Known
    <3> QED
      BY <3>1, <3>2
  <2> QED
    BY <2>1
<1>14. \A f \in Disc \ {d} : Recovered(disc'[f]) => Recovered(disc[f])
  BY <1>6, <1>11
<1>15. names' = names /\ cmd'.at = "idle"
  BY GoFields DEF RecoverEvents, made
<1>16. \A f \in Disc : names[f] \subseteq Disc
  BY DEF TypeOK
<1> QED
  BY <1>12, <1>13, <1>14, <1>15, <1>16 DEF NamedInv, NamingSteps

LEMMA NamedRecover ==
  ASSUME TypeOK, NamedInv, ~Damage, NEW d \in Disc, Recover(d)
  PROVE  NamedInv'
<1>1. disc' = disc /\ names' = names
  BY DEF Recover, logs, made
<1>2. PICK c : c = [[[Go("recover", d) EXCEPT !.items = content[d] \ {}] EXCEPT !.discs = names[d]]
                      EXCEPT !.whole = TRUE]
  OBVIOUS
<1>3. c.at = "recover" /\ c.disc = d /\ c.discs = names[d] /\ c.whole
  BY <1>2 DEF Go, Idle
<1>4. cmd' = c \/ cmd'.at \in {"recheck", "idle"}
  <2>1. cmd' = c \/ cmd' = [c EXCEPT !.at = "recheck"] \/ cmd' = Idle
    BY <1>2 DEF Recover, Go, Idle
  <2>2. [c EXCEPT !.at = "recheck"].at = "recheck"
    BY <1>2 DEF Go, Idle
  <2> QED
    BY <2>1, <2>2, GoFields
<1>5. cmd'.at \in NamingSteps => cmd'.discs = names[cmd'.disc] /\ cmd'.whole
  BY <1>3, <1>4 DEF NamingSteps
<1>6. Unnamed
  BY <1>1 DEF Unnamed, Known
<1> QED
  BY <1>1, <1>5, <1>6, NamedStep

LEMMA NamedRecoverLedger ==
  ASSUME TypeOK, NamedInv, RecoverLedger
  PROVE  NamedInv'
<1>1. disc' = disc /\ names' = names /\ cmd.at = "recover" /\ cmd' = [cmd EXCEPT !.at = "recoverItems"]
  BY DEF RecoverLedger, logs, made
<1>2. cmd'.discs = cmd.discs /\ cmd'.disc = cmd.disc /\ cmd'.whole = cmd.whole
  BY <1>1 DEF TypeOK, Cmd
<1>3. Unnamed
  BY <1>1 DEF Unnamed, Known
<1> QED
  BY <1>1, <1>2, <1>3, NamedStep DEF NamedInv, NamingSteps

\* The steps of pack and pack --undo that write no table, and the burn.
PackingAction ==
  \/ PackRemoves \/ UndoRemoves \/ FinishPack \/ PackItems \/ UndoneItems
  \/ FinishEvent \/ PackEvent \/ PackTables \/ PackRow
  \/ \E d \in Disc : FinishStage(d) \/ PackPlans(d) \/ PackUndo(d) \/ Burn(d)

LEMMA NamedPacking ==
  ASSUME TypeOK, CommandOK, NumberInv, NamedInv, PackingAction
  PROVE  NamedInv'
<1>1. CASE PackRemoves \/ UndoRemoves \/ \E d \in Disc : Burn(d)
  <2>1. disc' = disc /\ names' = names /\ cmd' = cmd
    BY <1>1 DEF PackRemoves, UndoRemoves, Burn, logs, made
  <2> QED
    BY <2>1 DEF NamedInv, Known
<1>2. CASE FinishPack \/ PackItems \/ UndoneItems \/ \E d \in Disc : FinishStage(d) \/ PackPlans(d)
  <2>1. disc' = disc /\ names' = names
    BY <1>2 DEF FinishPack, PackItems, UndoneItems, FinishStage, PackPlans, made
  <2>2. cmd'.at \notin NamingSteps
    <3>1. CASE FinishPack \/ PackItems \/ UndoneItems \/ \E d \in Disc : PackPlans(d)
      <4>1. cmd' = Idle \/ \E a \in {"finishEvent", "packEvent", "undoing", "packTree"} : \E d : cmd' = Go(a, d)
        BY <3>1 DEF FinishPack, PackItems, UndoneItems, PackPlans, AppendOwed, AppendItems
      <4> QED
        BY <4>1, GoFields DEF NamingSteps
    <3>2. CASE \E d \in Disc : FinishStage(d)
      <4>1. PICK d \in Disc : FinishStage(d)
        BY <3>2
      <4>2. PICK ids : cmd' \in {Idle, [Go("finishPack", d) EXCEPT !.items = ids]}
        BY <4>1 DEF FinishStage, AppendItems
      <4>3. [Go("finishPack", d) EXCEPT !.items = ids].at = "finishPack"
        BY DEF Go, Idle
      <4> QED
        BY <4>2, <4>3, GoFields DEF NamingSteps
    <3> QED
      BY <1>2, <3>1, <3>2
  <2>3. Unnamed
    BY <2>1 DEF Unnamed, Known
  <2> QED
    BY <2>1, <2>2, <2>3, NamedStep
<1>3. CASE PackTables \/ PackRow
  <2>1. disc' = disc /\ names' = names
    BY <1>3 DEF PackTables, PackRow, logs, made
  <2>2. cmd'.at \in {"packRow", "packItems"}
    <3>1. PICK a \in {"packRow", "packItems"} : cmd' = [cmd EXCEPT !.at = a]
      BY <1>3 DEF PackTables, PackRow
    <3>2. cmd'.at = a
      BY <3>1, GoFields DEF TypeOK
    <3> QED
      BY <3>2
  <2>3. Unnamed
    BY <2>1 DEF Unnamed, Known
  <2> QED
    BY <2>1, <2>2, <2>3, NamedStep DEF NamingSteps
<1>4. CASE FinishEvent \/ PackEvent
  <2>1. /\ AppendEvent(cmd.disc, "Packed") /\ names' = names /\ cmd' \in {Idle, Go("pack", NoDisc)}
        /\ cmd.at \in {"finishEvent", "packEvent"}
    BY <1>4 DEF FinishEvent, PackEvent, made
  <2>2. cmd.disc \in Disc /\ disc[cmd.disc].state = "unknown" /\ disc[cmd.disc] \in DiscInfo
    BY <2>1 DEF CommandOK, DiscSteps, NewDiscSteps, MakeSteps, Steps, TypeOK
  <2>3. Permits(disc[cmd.disc], "Packed")
    BY <2>2, PermitStates
  <2>4. Unnamed
    BY <2>1, <2>2, <2>3, OneEventUnnamed
  <2>5. cmd'.at \in {"idle", "pack"}
    BY <2>1, GoFields
  <2> QED
    BY <2>1, <2>4, <2>5, NamedStep DEF NamingSteps
<1>5. CASE \E d \in Disc : PackUndo(d)
  <2>1. PICK d \in Disc : PackUndo(d)
    BY <1>5
  <2>2. /\ AppendEvent(d, "PackUndone") /\ Permits(disc[d], "PackUndone") /\ names' = names
        /\ cmd' = Go("undone", d)
    BY <2>1 DEF PackUndo, made
  <2>3. Unnamed /\ cmd'.at = "undone"
    BY <2>2, OneEventUnnamed, GoFields
  <2> QED
    BY <2>2, <2>3, NamedStep DEF NamingSteps
<1> QED
  BY <1>1, <1>2, <1>3, <1>4, <1>5 DEF PackingAction

\* The table of a new disc: the disc has no event yet.
LEMMA NamedPackTree ==
  ASSUME TypeOK, CommandOK, NamedInv, PackTree
  PROVE  NamedInv'
<1>1. PICK d : d = cmd.disc
  OBVIOUS
<1>2. /\ names' = [names EXCEPT ![d] = ledger \cup {d}] /\ disc' = disc /\ cmd.at = "packTree"
  BY <1>1 DEF PackTree, logs
<1>3. disc[d].state = "unknown" /\ d \in Disc
  BY <1>1, <1>2 DEF CommandOK, NewDiscSteps, MakeSteps, DiscSteps, Steps
<1>4. cmd'.at = "packTables"
  BY GoFields DEF PackTree
<1>5. ~Recovered(disc[d])
  BY <1>3 DEF Recovered
<1>6. \A x \in Disc \ {d} : names'[x] = names[x]
  BY <1>2, <1>3 DEF TypeOK
<1> QED
  BY <1>2, <1>4, <1>5, <1>6 DEF NamedInv, NamingSteps, Known

LEMMA NamedLoseRepository == LoseRepository => NamedInv'
<1> SUFFICES ASSUME LoseRepository PROVE NamedInv'
  OBVIOUS
<1>1. cmd'.at = "idle" /\ \A d \in Disc : disc'[d].state = "unknown"
  BY GoFields DEF LoseRepository, UnknownDisc
<1> QED
  BY <1>1 DEF NamedInv, Recovered, NamingSteps

LEMMA NamedInit == Init => NamedInv
<1> SUFFICES ASSUME Init PROVE NamedInv
  OBVIOUS
<1>1. cmd.at = "idle" /\ \A d \in Disc : disc[d].state = "unknown"
  BY GoFields DEF Init, UnknownDisc
<1> QED
  BY <1>1 DEF NamedInv, Recovered, NamingSteps

LEMMA NamedNext ==
  ASSUME ~TornBatches, ~Damage
  PROVE  TypeOK /\ CommandOK /\ NumberInv /\ NamedInv /\ [Next]_vars => NamedInv'
<1> SUFFICES ASSUME TypeOK, CommandOK, NumberInv, NamedInv, [Next]_vars PROVE NamedInv'
  OBVIOUS
<1>1. CASE \E d \in Disc : DiscCommand(d) \/ Burn(d)
  <2>1. PICK d \in Disc : DiscCommand(d) \/ Burn(d)
    BY <1>1
  <2>2. CASE DiscBurned(d) \/ DiscBurnedUndo(d) \/ DiscVerified(d) \/ VerifyUndo(d)
             \/ VerifyFails(d) \/ DiscLost(d) \/ DiscLostUndo(d)
    <3>1. EventAction
      BY <2>2 DEF EventAction
    <3>2. CASE RecoverEvents
      BY <3>2, NamedRecoverEvents
    <3> QED
      BY <3>1, <3>2, NamedEvents
  <2>3. CASE VerifyReads(d) \/ CatalogStops(d)
    BY <2>3, NamedQuiet DEF QuietAction
  <2>4. CASE Recover(d)
    BY <2>4, NamedRecover
  <2>5. CASE FinishStage(d) \/ PackPlans(d) \/ PackUndo(d) \/ Burn(d)
    BY <2>5, NamedPacking DEF PackingAction
  <2> QED
    BY <2>1, <2>2, <2>3, <2>4, <2>5 DEF DiscCommand
<1>2. CASE \E s \in Snapshot : CommitWrites(s)
  BY <1>2, NamedQuiet DEF QuietAction
<1>3. CASE UNCHANGED vars
  BY <1>3 DEF vars, NamedInv, Known
<1>4. CASE Open \/ RepairDisc \/ Stop \/ LostItems \/ LostRoot \/ FoundItems \/ GcItems \/ GcUnlink
           \/ RecoverItems \/ RecheckItems \/ CommitRecords \/ PackBegins \/ PackFails
  BY <1>4, NamedQuiet DEF QuietAction
<1>5. CASE RecoverEvents
  BY <1>5, NamedRecoverEvents
<1>6. CASE VerifyRecords \/ GcEvents \/ RecheckEvent
  BY <1>5, <1>6, NamedEvents DEF EventAction
<1>7. CASE PackRemoves \/ UndoRemoves \/ FinishPack \/ PackItems \/ UndoneItems
           \/ FinishEvent \/ PackEvent \/ PackTables \/ PackRow
  BY <1>7, NamedPacking DEF PackingAction
<1> QED
  BY <1>1, <1>2, <1>3, <1>4, <1>5, <1>6, <1>7, NamedRecoverLedger, NamedPackTree, NamedLoseRepository DEF Next

\* While appends are whole and the copies have no damage, every disc that the
\* table of a recovered disc names has a state: `status' names it, and commit
\* and pack refuse while it is missing.
THEOREM NamedDiscsAreKnown == Spec => [](~TornBatches /\ ~Damage => NamedDiscsKnown)
<1>1. CASE ~TornBatches /\ ~Damage
  <2>1. NamedInv => NamedDiscsKnown
    BY DEF NamedInv, NamedDiscsKnown, Recovered, InState
  <2>2. TypeOK /\ CommandOK /\ NumberInv /\ NamedInv /\ [Next]_vars => NamedInv'
    BY <1>1, NamedNext
  <2>3. NamedDiscsKnown => (~TornBatches /\ ~Damage => NamedDiscsKnown)
    OBVIOUS
  <2> QED
    BY <2>1, <2>2, <2>3, TypeInvariant, NumberInit, NumberStep, NamedInit, PTL DEF Spec
<1>2. CASE ~(~TornBatches /\ ~Damage)
  <2>1. TRUE => (~TornBatches /\ ~Damage => NamedDiscsKnown)
    BY <1>2
  <2> QED
    BY <2>1, PTL
<1> QED
  BY <1>1, <1>2
=============================================================================
