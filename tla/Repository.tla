------------------------------ MODULE Repository ------------------------------
(***************************************************************************)
(* One repository of noahsark and the commands that hold its lock: the two *)
(* state logs, the disc ledger, the tables and objects of the catalog, the *)
(* chunk files and disc roots of the staging store, and the burned discs.  *)
(*                                                                         *)
(* The lock is exclusive (internal/repolock), so at most one command runs. *)
(* `cmd' is that command.  A command makes one durable write in each step  *)
(* and may stop before each of them: a crash, a full disk, an error.  The  *)
(* next command opens the logs and first writes the item records that the  *)
(* stopped one still owed.                                                 *)
(***************************************************************************)
EXTENDS DiscLog, ItemLog, Naturals

CONSTANTS Chunk,        \* items whose only host copy is a chunk file in staging
          Meta,         \* snapshot, tree and blob objects; the catalog keeps them
          Snapshot,     \* the snapshots, a subset of Meta
          Needs,        \* all items that an item reaches, directly or not
          TornBatches,  \* an append may stop part way and leave a part of its batch
          Damage,       \* a disc copy may have items or tables that cannot be read
          EarlyBurn,    \* the operator may burn a disc root before its Packed event
          Disasters     \* bound: how often the host loses the whole repository

Item == Chunk \cup Meta

ASSUME ItemAssumption ==
  /\ Chunk \cap Meta = {}
  /\ Snapshot \subseteq Meta
  /\ Needs \in [Item -> SUBSET Item]
  /\ TornBatches \in BOOLEAN
  /\ Damage \in BOOLEAN
  /\ EarlyBurn \in BOOLEAN
  /\ Disasters \in Nat

\* An object names what is directly below it by content hash: nothing is below
\* itself, and what is below an item of the closure belongs to it.
ASSUME NeedsAssumption ==
  \A i \in Item : i \notin Needs[i] /\ \A j \in Needs[i] : Needs[j] \subseteq Needs[i]

VARIABLES
  disc,      \* the disc state log: the record of each disc
  item,      \* the item log: the newest record of each item
  index,     \* the discs whose INDEX, REFS and DISCS tables the catalog holds
  objects,   \* the snapshot, tree and blob objects that the catalog holds
  ledger,    \* the discs with a row in the disc ledger
  files,     \* the chunks with a chunk file in the staging store
  root,      \* the discs with a plan directory: the disc root that pack wrote
  content,   \* what the INDEX of each written disc lists; {} before it is written
  names,     \* what the DISCS table of each written disc names
  num,       \* the disc number that pack gave each disc
  burnt,     \* the discs that were burned: a copy exists outside the host
  cmd,       \* the command that holds the lock, Idle when there is none
  disasters, \* how often the repository was lost
  (* History, read by properties only. *)
  proof,     \* the items of each disc that its newest check vouches for
  owed       \* the item records that the newest disc event asked for, until written

logs    == <<disc, item>>
catalog == <<index, objects>>
staging == <<files, root>>
made    == <<content, names, num>>
vars    == <<disc, item, index, objects, ledger, files, root, content, names,
             num, burnt, cmd, disasters, proof, owed>>

-----------------------------------------------------------------------------
(* The command. *)

Steps == {"idle", "repair", "open",
          "undone", "undoing", "lost", "lostRoot", "found",
          "freed", "unlink", "read", "recover", "recoverItems", "recoverEvents",
          "recheck", "recheckEvent", "commit",
          "pack", "finishPack", "finishEvent",
          "packTree", "packTables", "packRow", "packItems", "packEvent", "packFails"}

Plan == [disc : Disc, recs : UNION {[S -> Record] : S \in SUBSET Item}]

Cmd == [at : Steps,
        disc : Disc \cup {NoDisc},   \* the disc that it works on
        discs : SUBSET Disc,         \* discs that it read in a table
        items : SUBSET Item,         \* items that it will record, or unlink
        whole : BOOLEAN,             \* the disc that it read has no damage
        plans : SUBSET Plan]         \* the repairs that openLogs has left

Idle == [at |-> "idle", disc |-> NoDisc, discs |-> {}, items |-> {},
         whole |-> TRUE, plans |-> {}]

Go(step, d) == [Idle EXCEPT !.at = step, !.disc = d]

NothingOwed == [i \in {} |-> NoRecord]

Init ==
  /\ disc = [d \in Disc |-> UnknownDisc]
  /\ item = [i \in Item |-> NoRecord]
  /\ index = {} /\ objects = {} /\ ledger = {} /\ files = {} /\ root = {}
  /\ content = [d \in Disc |-> {}]
  /\ names = [d \in Disc |-> {}]
  /\ num = [d \in Disc |-> 0]
  /\ burnt = {}
  /\ cmd = Idle
  /\ disasters = 0
  /\ proof = [d \in Disc |-> {}]
  /\ owed = NothingOwed

-----------------------------------------------------------------------------
(* Writing the logs. *)

InState(s) == {d \in Disc : disc[d].state = s}
Known(d) == disc[d].state # "unknown"
PackedItems(d) == {i \in Item : item[i] = PackedOn(d)}

\* What a stop leaves of a batch B: with TornBatches, any part of it.
Written(B) == IF TornBatches THEN SUBSET B ELSE {B}

\* One batch of the item log: the whole batch goes on with next, a torn one
\* stops the command.
AppendItems(recs, next) ==
  \E S \in Written(DOMAIN recs) :
    /\ item' = [i \in Item |-> IF i \in S THEN recs[i] ELSE item[i]]
    /\ cmd' = IF S = DOMAIN recs THEN next ELSE Idle

\* The same for the batch that a disc event asked for, and for a repair: they
\* settle what is owed once every owed record is written, or another found
\* disc took the item.
Settled(i) ==
  \/ item'[i] = owed[i]
  \/ Taken(owed[i]) /\ item'[i] \in {PackedOn(d) : d \in Disc \ {owed[i].disc}}

AppendOwed(recs, next) ==
  /\ AppendItems(recs, next)
  /\ owed' = IF \A i \in DOMAIN owed : Settled(i) THEN NothingOwed ELSE owed

All(S, r) == [i \in S |-> r]

AppendEvent(d, e) == disc' = [disc EXCEPT ![d] = Apply(@, e)]

\* What the checks of d vouch for after the event e: a good check covers the
\* whole disc, and any other event of a disc that gc did not free yet leaves
\* nothing.  The items of a freed disc keep what freed them.
Vouch(d, e) ==
  proof' = [proof EXCEPT ![d] =
              IF e \in {"CheckOK", "MarkedVerified"} THEN content[d]
              ELSE IF \/ disc[d].state \in {"packed", "burned", "verified"}
                      \/ disc[d].state = "lost" /\ disc[d].before = "verified"
                   THEN {}
              ELSE @]

-----------------------------------------------------------------------------
(* The item records that the state of a disc asks for (stage/repair.go).   *)

\* The records that name the disc d and do not follow its state in info.
Direct(info, d) ==
  {i \in Item : item[i].disc = d
                /\ Follow(info.state, item[i], i \in objects) # item[i]}

\* catalogObjectsBack: the catalog objects that `disc lost' staged, while an
\* item of the disc is still Lost.
ObjectsBack(info, d) ==
  IF /\ info.state = "on disc only"
     /\ d \in index
     /\ \E i \in Direct(info, d) : item[i].state = "Lost"
  THEN {i \in content[d] \cap objects : item[i] = StagedByLoss}
  ELSE {}

\* The slip that looks at the newest event and not at the state.
GivenBackInAnyState(info, d) ==
  IF info.found /\ PackedItems(d) = {} /\ d \in index
  THEN {i \in content[d] : item[i].state = "Staged"}
  ELSE {}

\* The items that a burned disc gets back after `disc lost --undo'.
GivenBack(info, d) ==
  IF /\ info.state = "burned"
     /\ info.found
     /\ PackedItems(d) = {}
     /\ d \in index
  THEN {i \in content[d] : item[i].state = "Staged"}
  ELSE {}

\* The repair plan of the disc d when its record is info.
Repair(info, d) ==
  [i \in Direct(info, d) \cup ObjectsBack(info, d) \cup GivenBack(info, d) |->
     IF i \in GivenBack(info, d) THEN PackedOn(d)
     ELSE IF i \in ObjectsBack(info, d) THEN OnDiscOf(d)
     ELSE Follow(info.state, item[i], i \in objects)]

\* The slip that completes no lost disc.
ToRepairButLost == {d \in Disc \ InState("lost") : Known(d) /\ DOMAIN Repair(disc[d], d) # {}}

ToRepair == {d \in Disc : Known(d) /\ DOMAIN Repair(disc[d], d) # {}}

\* openLogs of a command that takes the lock: it computes every plan first.
Open ==
  /\ cmd = Idle
  /\ cmd' = IF ToRepair = {} THEN Go("open", NoDisc)
            ELSE [Go("repair", NoDisc) EXCEPT
                    !.plans = {[disc |-> d, recs |-> Repair(disc[d], d)] : d \in ToRepair}]
  /\ UNCHANGED <<logs, catalog, ledger, staging, made, burnt, disasters, proof, owed>>

\* DiscInfo.DiscSeq: 0 for a disc with no Packed event.
DiscSeq(d) == IF disc[d].numbered THEN num[d] ELSE 0

\* Logs.Complete: one batch for each disc, in the order of the disc numbers.
RepairDisc ==
  /\ cmd.at = "repair"
  /\ \E p \in cmd.plans :
       /\ \A q \in cmd.plans : DiscSeq(p.disc) <= DiscSeq(q.disc)
       /\ AppendOwed(p.recs, IF cmd.plans = {p} THEN Go("open", NoDisc)
                             ELSE [cmd EXCEPT !.plans = @ \ {p}])
  /\ UNCHANGED <<disc, catalog, ledger, staging, made, burnt, disasters, proof>>

\* A crash or an error before the next durable write; also the end of a
\* command that refuses its work after it opened the logs.
Stop ==
  /\ cmd # Idle
  /\ cmd' = Idle
  /\ UNCHANGED <<logs, catalog, ledger, staging, made, burnt, disasters, proof, owed>>

-----------------------------------------------------------------------------
(* disc burned, disc burned --undo, disc verified, verify --undo: one event. *)

Mark(d, e) ==
  /\ cmd.at = "open"
  /\ d \in ledger
  /\ Permits(disc[d], e)
  /\ AppendEvent(d, e)
  /\ Vouch(d, e)
  /\ cmd' = Idle
  /\ UNCHANGED <<item, catalog, ledger, staging, made, burnt, disasters, owed>>

DiscBurned(d)     == Mark(d, "BurnRecorded")
DiscBurnedUndo(d) == Mark(d, "BurnRemoved")
DiscVerified(d)   == Mark(d, "MarkedVerified")
VerifyUndo(d)     == Mark(d, "VerifyUndone")

-----------------------------------------------------------------------------
(* A counted verify of a mounted copy of the disc d. *)

CanVerify(d) ==
  /\ cmd.at = "open"
  /\ d \in burnt
  /\ disc[d].state \in {"packed", "burned", "verified", "on disc only"}

VerifyFails(d) ==
  /\ CanVerify(d)
  /\ AppendEvent(d, "CheckFailed")
  /\ Vouch(d, "CheckFailed")
  /\ cmd' = Idle
  /\ UNCHANGED <<item, catalog, ledger, staging, made, burnt, disasters, owed>>

\* The read finds no damage; the catalog takes the tables and objects first.
VerifyReads(d) ==
  /\ CanVerify(d)
  /\ objects' = objects \cup (content[d] \cap Meta)
  /\ index' = index \cup {d}
  /\ cmd' = Go("read", d)
  /\ UNCHANGED <<logs, ledger, staging, made, burnt, disasters, proof, owed>>

\* A verify or a recover that stops while it writes the catalog.
CatalogStops(d) ==
  /\ cmd.at = "open"
  /\ d \in burnt
  /\ disc[d].state # "undone"
  /\ \E W \in SUBSET (content[d] \cap Meta) : objects' = objects \cup W
  /\ cmd' = Idle
  /\ UNCHANGED <<logs, index, ledger, staging, made, burnt, disasters, proof, owed>>

\* BurnRecorded for a packed disc and CheckOK are one batch.
VerifyRecords ==
  LET d == cmd.disc
      burned == IF disc[d].state = "packed" THEN Apply(disc[d], "BurnRecorded") ELSE disc[d]
  IN /\ cmd.at = "read"
     /\ \/ /\ disc' = [disc EXCEPT ![d] = Apply(burned, "CheckOK")]
           /\ Vouch(d, "CheckOK")
        \/ /\ TornBatches
           /\ disc' = [disc EXCEPT ![d] = burned]
           /\ UNCHANGED proof
     /\ cmd' = Idle
     /\ UNCHANGED <<item, catalog, ledger, staging, made, burnt, disasters, owed>>

-----------------------------------------------------------------------------
(* disc lost and disc lost --undo: the event, then the item records. *)

DiscLost(d) ==
  /\ cmd.at = "open"
  /\ d \in ledger
  /\ Permits(disc[d], "Lost")
  /\ AppendEvent(d, "Lost")
  /\ owed' = Repair(Apply(disc[d], "Lost"), d)
  /\ cmd' = Go("lost", d)
  /\ UNCHANGED <<item, catalog, ledger, staging, made, burnt, disasters, proof>>

LostItems ==
  /\ cmd.at = "lost"
  /\ AppendOwed(Repair(disc[cmd.disc], cmd.disc), Go("lostRoot", cmd.disc))
  /\ UNCHANGED <<disc, catalog, ledger, staging, made, burnt, disasters, proof>>

LostRoot ==
  /\ cmd.at = "lostRoot"
  /\ root' = root \ {cmd.disc}
  /\ cmd' = Idle
  /\ UNCHANGED <<logs, catalog, ledger, files, made, burnt, disasters, proof, owed>>

DiscLostUndo(d) ==
  /\ cmd.at = "open"
  /\ d \in ledger
  /\ Permits(disc[d], "LostUndone")
  /\ AppendEvent(d, "LostUndone")
  /\ Vouch(d, "LostUndone")
  /\ owed' = Repair(Apply(disc[d], "LostUndone"), d)
  /\ cmd' = Go("found", d)
  /\ UNCHANGED <<item, catalog, ledger, staging, made, burnt, disasters>>

FoundItems ==
  /\ cmd.at = "found"
  /\ AppendOwed(Repair(disc[cmd.disc], cmd.disc), Idle)
  /\ UNCHANGED <<disc, catalog, ledger, staging, made, burnt, disasters, proof>>

-----------------------------------------------------------------------------
(* gc: Freed for every disc that its INDEX confirms, then the OnDisc       *)
(* records, then the files.                                                *)

\* planVerified: gc skips a disc whose INDEX does not list every Packed item.
Confirmed(d) == PackedItems(d) = {} \/ (d \in index /\ PackedItems(d) \subseteq content[d])

Freeable == {d \in InState("verified") : Confirmed(d)}

\* The slip that removes the chunk file of every item that a disc took.
GarbageOfAll == {c \in files : Taken(item[c])}

\* The chunk files that gc removes: those of the freed discs and the orphans.
Garbage == {c \in files : \/ item[c].state = "OnDisc"
                          \/ item[c].state = "Packed" /\ item[c].disc \in Freeable}

\* One batch of Freed events, in the order of the disc numbers.
GcEvents ==
  /\ cmd.at = "open"
  /\ \E G \in Written(Freeable) :
       /\ \A d \in G, e \in Freeable \ G : DiscSeq(d) <= DiscSeq(e)
       /\ disc' = [d \in Disc |-> IF d \in G THEN Apply(disc[d], "Freed") ELSE disc[d]]
       /\ owed' = [i \in UNION {PackedItems(d) : d \in G} |-> OnDiscOf(item[i].disc)]
       /\ cmd' = IF G = Freeable
                 THEN [Go("freed", NoDisc) EXCEPT !.discs = Freeable \cup InState("on disc only"),
                                                  !.items = Garbage]
                 ELSE Idle
  /\ UNCHANGED <<item, catalog, ledger, staging, made, burnt, disasters, proof>>

GcItems ==
  /\ cmd.at = "freed"
  /\ AppendOwed([i \in UNION {PackedItems(d) : d \in cmd.discs} |-> OnDiscOf(item[i].disc)],
                [cmd EXCEPT !.at = "unlink"])
  /\ UNCHANGED <<disc, catalog, ledger, staging, made, burnt, disasters, proof>>

\* gc goes on when it cannot remove a path, and it may stop anywhere.
GcUnlink ==
  /\ cmd.at = "unlink"
  /\ \E C \in SUBSET cmd.items : files' = files \ C
  /\ \E R \in SUBSET cmd.discs : root' = root \ R
  /\ cmd' = Idle
  /\ UNCHANGED <<logs, catalog, ledger, made, burnt, disasters, proof, owed>>

-----------------------------------------------------------------------------
(* recover of a mounted copy of the disc d.  It read the copy before it    *)
(* took the lock; a copy never changes.                                    *)

\* The read finds the items of `bad' damaged.  The catalog takes the good
\* objects, and the tables when REFS and DISCS are good.  A damaged DISCS
\* table names no disc.
Recover(d) ==
  /\ cmd.at = "open"
  /\ d \in burnt
  /\ disc[d].state # "undone"
  /\ \E bad \in IF Damage THEN SUBSET content[d] ELSE {{}},
        goodRefs, goodDiscs \in IF Damage THEN BOOLEAN ELSE {TRUE} :
       LET whole == bad = {} /\ goodRefs /\ goodDiscs
           read  == [Go("recover", d) EXCEPT
                       !.items = content[d] \ bad,
                       !.discs = IF goodDiscs THEN names[d] ELSE {},
                       !.whole = whole]
       IN /\ objects' = objects \cup ((content[d] \ bad) \cap Meta)
          /\ index' = IF goodRefs /\ goodDiscs THEN index \cup {d} ELSE index
          /\ cmd' = IF disc[d].state \in {"unknown", "missing"} THEN read
                    ELSE IF disc[d].state = "on disc only" /\ disc[d].failed /\ whole
                         THEN [read EXCEPT !.at = "recheck"]
                         ELSE Idle
  /\ UNCHANGED <<logs, ledger, staging, made, burnt, disasters, proof, owed>>

\* The slip that names only the discs that the ledger did not have yet.
RecoverLedgerNew ==
  /\ cmd.at = "recover"
  /\ ledger' = ledger \cup cmd.discs
  /\ cmd' = [cmd EXCEPT !.at = "recoverItems", !.discs = @ \ ledger]
  /\ UNCHANGED <<logs, catalog, staging, made, burnt, disasters, proof, owed>>

RecoverLedger ==
  /\ cmd.at = "recover"
  /\ ledger' = ledger \cup cmd.discs
  /\ cmd' = [cmd EXCEPT !.at = "recoverItems"]
  /\ UNCHANGED <<logs, catalog, staging, made, burnt, disasters, proof, owed>>

\* The slip that records every item of the INDEX, the damaged ones too.
EnsureOnDiscAll(next) ==
  LET d == cmd.disc
  IN /\ AppendItems(All({i \in content[d] : NotKnown(item[i])}, OnDiscOf(d)),
                    [cmd EXCEPT !.at = next])
     /\ proof' = [proof EXCEPT ![d] = @ \cup cmd.items]
     /\ UNCHANGED <<disc, catalog, ledger, staging, made, burnt, disasters, owed>>

\* EnsureOnDisc of the items that the read found good.
EnsureOnDisc(next) ==
  LET d == cmd.disc
  IN /\ AppendItems(All({i \in cmd.items : NotKnown(item[i])}, OnDiscOf(d)),
                    [cmd EXCEPT !.at = next])
     /\ proof' = [proof EXCEPT ![d] = @ \cup cmd.items]
     /\ UNCHANGED <<disc, catalog, ledger, staging, made, burnt, disasters, owed>>

RecoverItems == cmd.at = "recoverItems" /\ EnsureOnDisc("recoverEvents")
RecheckItems == cmd.at = "recheck" /\ EnsureOnDisc("recheckEvent")

\* One batch: Recovered, CheckFailed for a damaged copy, then NamedMissing for
\* each disc that the log does not know.
RecoverEvents ==
  LET d == cmd.disc
      unknown == {e \in cmd.discs \ {d} : ~Known(e)}
      recovered == Apply(disc[d], "Recovered")
      checked == IF cmd.whole THEN recovered ELSE Apply(recovered, "CheckFailed")
  IN /\ cmd.at = "recoverEvents"
     /\ \E N \in Written(unknown), r \in IF TornBatches THEN {recovered, checked} ELSE {checked} :
          /\ N # {} => r = checked
          /\ disc' = [e \in Disc |-> IF e = d THEN r
                                     ELSE IF e \in N THEN Apply(disc[e], "NamedMissing")
                                     ELSE disc[e]]
     /\ cmd' = Idle
     /\ UNCHANGED <<item, catalog, ledger, staging, made, burnt, disasters, proof, owed>>

RecheckEvent ==
  /\ cmd.at = "recheckEvent"
  /\ AppendEvent(cmd.disc, "CheckOK")
  /\ Vouch(cmd.disc, "CheckOK")
  /\ cmd' = Idle
  /\ UNCHANGED <<item, catalog, ledger, staging, made, burnt, disasters, owed>>

-----------------------------------------------------------------------------
(* commit of a source tree whose snapshot is s. *)

\* The writer makes every file durable before the log records an item, the
\* snapshot object last.  It writes no chunk that a disc holds.
CommitWrites(s) ==
  /\ cmd.at = "open"
  /\ InState("missing") = {}
  /\ \E W \in (SUBSET Needs[s]) \cup {Needs[s] \cup {s}} :
       /\ files' = files \cup {c \in W \cap Chunk : ~OnADisc(item[c])}
       /\ objects' = objects \cup (W \cap Meta)
       /\ cmd' = IF s \in W THEN [Go("commit", NoDisc) EXCEPT !.items = W] ELSE Idle
  /\ UNCHANGED <<logs, index, ledger, root, made, burnt, disasters, proof, owed>>

CommitRecords ==
  /\ cmd.at = "commit"
  /\ AppendItems(All({i \in cmd.items : NotKnown(item[i])}, Staged), Idle)
  /\ UNCHANGED <<disc, catalog, ledger, staging, made, burnt, disasters, proof, owed>>

-----------------------------------------------------------------------------
(* pack. *)

\* removeUndoneDisc: the ledger row, then the tables, then the plan directory.
RemoveNext(d) ==
  \/ d \in ledger /\ ledger' = ledger \ {d} /\ UNCHANGED <<index, root>>
  \/ d \in index \ ledger /\ index' = index \ {d} /\ UNCHANGED <<ledger, root>>
  \/ d \in root \ (ledger \cup index) /\ root' = root \ {d} /\ UNCHANGED <<ledger, index>>

\* The slip that leaves an undone disc as it is.
LeftoverNone == {}

Leftover == InState("undone") \cap (ledger \cup index \cup root)
Stray == {d \in (index \cup root) \ ledger : ~Known(d)}
Interrupted == {d \in ledger \cap root : ~Known(d)}

PackBegins ==
  /\ cmd.at = "open"
  /\ InState("missing") = {}
  /\ cmd' = Go("pack", NoDisc)
  /\ UNCHANGED <<logs, catalog, ledger, staging, made, burnt, disasters, proof, owed>>

\* finishUndonePacks, then the first part of finishInterruptedPacks: pack
\* removes an undone disc, and a disc that no record names.
PackRemoves ==
  /\ cmd.at = "pack"
  /\ \E d \in IF Leftover # {} THEN Leftover ELSE Stray : RemoveNext(d)
  /\ UNCHANGED <<logs, objects, files, made, burnt, cmd, disasters, proof, owed>>

\* The slip that takes every staged item for one of the interrupted disc.
FinishStageAll(d) ==
  LET ids == {i \in Item : item[i].state = "Staged"}
  IN /\ cmd.at = "pack"
     /\ Leftover \cup Stray = {}
     /\ d \in Interrupted
     /\ AppendItems(All({}, Staged), [Go("finishPack", d) EXCEPT !.items = ids])
     /\ UNCHANGED <<disc, catalog, ledger, staging, made, burnt, disasters, proof, owed>>

\* The rest of finishInterruptedPacks, for the lowest disc number: the items
\* that the INDEX lists and that no disc has, then the Packed event.
FinishStage(d) ==
  LET ids == {i \in content[d] : item[i].state \in {"none", "Staged"}}
  IN /\ cmd.at = "pack"
     /\ Leftover \cup Stray = {}
     /\ d \in Interrupted \cap index
     /\ \A e \in Interrupted : num[d] <= num[e]
     /\ AppendItems(All({i \in ids : item[i].state = "none"}, Staged),
                    [Go("finishPack", d) EXCEPT !.items = ids])
     /\ UNCHANGED <<disc, catalog, ledger, staging, made, burnt, disasters, proof, owed>>

FinishPack ==
  /\ cmd.at = "finishPack"
  /\ AppendItems(All(cmd.items, PackedOn(cmd.disc)), Go("finishEvent", cmd.disc))
  /\ UNCHANGED <<disc, catalog, ledger, staging, made, burnt, disasters, proof, owed>>

FinishEvent ==
  /\ cmd.at = "finishEvent"
  /\ AppendEvent(cmd.disc, "Packed")
  /\ cmd' = Go("pack", NoDisc)
  /\ UNCHANGED <<item, catalog, ledger, staging, made, burnt, disasters, proof, owed>>

\* A new disc has an identity that nothing names yet.
Fresh(d) ==
  /\ ~Known(d)
  /\ d \notin ledger \cup index \cup root
  /\ \A e \in Disc : d \notin names[e]

\* The slip that counts the ledger rows only.
NumberedInLedger == ledger

\* nextPackSeqNumbers: the number above the ledger rows and all Packed events,
\* 0 when there is none.
Numbered == ledger \cup {d \in Disc : disc[d].numbered}
NextNum == {n \in {0} \cup {num[d] + 1 : d \in Numbered} : \A d \in Numbered : num[d] < n}

Readable == files \cup objects

\* The plan directory, then a Staged record for each item with no record below
\* a staged snapshot: a commit that stopped in its records wrote the item.
PackPlans(d) ==
  LET unrecorded == {i \in Readable : /\ item[i].state = "none"
                                      /\ \E s \in Snapshot : i \in Needs[s]
                                                             /\ item[s].state = "Staged"}
  IN /\ cmd.at = "pack"
     /\ Leftover \cup Stray \cup Interrupted = {}
     /\ Fresh(d)
     /\ root' = root \cup {d}
     /\ \E n \in NextNum : num' = [num EXCEPT ![d] = n]
     /\ AppendItems(All(unrecorded, Staged), Go("packTree", d))
     /\ UNCHANGED <<disc, catalog, ledger, files, content, names, burnt, disasters, proof, owed>>

\* What pack is sure to take with i: PackOrder.tla has the walk, which may
\* come to an item below an item of a disc only later.
Below(i) == {j \in Needs[i] : ~\E k \in Needs[i] : j \in Needs[k] /\ Taken(item[k])}

\* The slip that takes an item without the items below it.
SelectionsOfAny == (SUBSET {i \in Readable : item[i].state = "Staged"}) \ {{}}

\* The runs that pack can select: staged items that it can read, each after
\* the staged items below it.  The capacity decides how many it takes.
Selections ==
  {S \in SUBSET {i \in Readable : item[i].state = "Staged"} :
     S # {} /\ \A i \in S : {j \in Below(i) : item[j].state = "Staged"} \subseteq S}

\* carriedSnapshots: every run carries the snapshots that a disc has.
Carried == {s \in Snapshot \cap objects : Taken(item[s])}

PackTree ==
  /\ cmd.at = "packTree"
  /\ \E S \in Selections :
       /\ content' = [content EXCEPT ![cmd.disc] = S \cup Carried]
       /\ cmd' = [Go("packTables", cmd.disc) EXCEPT !.items = S]
  /\ names' = [names EXCEPT ![cmd.disc] = ledger \cup {cmd.disc}]
  /\ UNCHANGED <<logs, catalog, ledger, staging, num, burnt, disasters, proof, owed>>

\* The slip that records the disc without its tables.
PackTablesNone ==
  /\ cmd.at = "packTables"
  /\ cmd' = [cmd EXCEPT !.at = "packRow"]
  /\ UNCHANGED <<logs, catalog, ledger, staging, made, burnt, disasters, proof, owed>>

PackTables ==
  /\ cmd.at = "packTables"
  /\ index' = index \cup {cmd.disc}
  /\ cmd' = [cmd EXCEPT !.at = "packRow"]
  /\ UNCHANGED <<logs, objects, ledger, staging, made, burnt, disasters, proof, owed>>

PackRow ==
  /\ cmd.at = "packRow"
  /\ ledger' = ledger \cup {cmd.disc}
  /\ cmd' = [cmd EXCEPT !.at = "packItems"]
  /\ UNCHANGED <<logs, catalog, staging, made, burnt, disasters, proof, owed>>

PackItems ==
  /\ cmd.at = "packItems"
  /\ AppendItems(All(cmd.items, PackedOn(cmd.disc)), Go("packEvent", cmd.disc))
  /\ UNCHANGED <<disc, catalog, ledger, staging, made, burnt, disasters, proof, owed>>

PackEvent ==
  /\ cmd.at = "packEvent"
  /\ AppendEvent(cmd.disc, "Packed")
  /\ cmd' = Idle
  /\ UNCHANGED <<item, catalog, ledger, staging, made, burnt, disasters, proof, owed>>

\* An error before the ledger row, or nothing to pack: pack takes the disc back,
\* the disc root and then the catalog tables.
PackFails ==
  /\ \/ /\ cmd.at \in {"packTree", "packTables", "packRow"}
        /\ root' = root \ {cmd.disc} /\ index' = index
        /\ cmd' = Go("packFails", cmd.disc)
     \/ /\ cmd.at = "packFails"
        /\ index' = index \ {cmd.disc} /\ root' = root
        /\ cmd' = Idle
  /\ UNCHANGED <<logs, objects, ledger, files, made, burnt, disasters, proof, owed>>

-----------------------------------------------------------------------------
(* pack --undo: the event, the item records, then the files of the disc. *)

\* isNewestDisc: undone discs do not count.
Newest(d) == \A e \in Numbered \ (InState("undone") \cup {d}) : num[e] < num[d]

PackUndo(d) ==
  /\ cmd.at = "open"
  /\ d \in ledger
  /\ Permits(disc[d], "PackUndone")
  /\ Newest(d)
  /\ AppendEvent(d, "PackUndone")
  /\ owed' = Repair(Apply(disc[d], "PackUndone"), d)
  /\ cmd' = Go("undone", d)
  /\ UNCHANGED <<item, catalog, ledger, staging, made, burnt, disasters, proof>>

UndoneItems ==
  /\ cmd.at = "undone"
  /\ AppendOwed(Repair(disc[cmd.disc], cmd.disc), Go("undoing", cmd.disc))
  /\ UNCHANGED <<disc, catalog, ledger, staging, made, burnt, disasters, proof>>

UndoRemoves ==
  /\ cmd.at = "undoing"
  /\ RemoveNext(cmd.disc)
  /\ UNCHANGED <<logs, objects, files, made, burnt, cmd, disasters, proof, owed>>

-----------------------------------------------------------------------------
(* Outside the program. *)

\* The operator burns a disc root.  The program makes an image only of a disc
\* with a Packed event; EarlyBurn is a burn of the directory itself before it.
Burn(d) ==
  /\ cmd = Idle
  /\ d \in root \cap ledger
  /\ (disc[d].state \in {"packed", "burned", "verified"}) \/ (EarlyBurn /\ ~Known(d))
  /\ burnt' = burnt \cup {d}
  /\ UNCHANGED <<logs, catalog, ledger, staging, made, cmd, disasters, proof, owed>>

\* The host loses the repository and the staging store; the copies remain.
LoseRepository ==
  /\ cmd = Idle
  /\ disasters < Disasters
  /\ disasters' = disasters + 1
  /\ disc' = [d \in Disc |-> UnknownDisc]
  /\ item' = [i \in Item |-> NoRecord]
  /\ index' = {} /\ objects' = {} /\ ledger' = {} /\ files' = {} /\ root' = {}
  /\ proof' = [d \in Disc |-> {}]
  /\ owed' = NothingOwed
  /\ UNCHANGED <<made, burnt, cmd>>

-----------------------------------------------------------------------------
DiscCommand(d) ==
  \/ DiscBurned(d) \/ DiscBurnedUndo(d) \/ DiscVerified(d) \/ VerifyUndo(d)
  \/ VerifyFails(d) \/ VerifyReads(d) \/ CatalogStops(d)
  \/ DiscLost(d) \/ DiscLostUndo(d) \/ Recover(d)
  \/ FinishStage(d) \/ PackPlans(d) \/ PackUndo(d)

Next ==
  \/ Open \/ RepairDisc \/ Stop
  \/ \E d \in Disc : DiscCommand(d) \/ Burn(d)
  \/ VerifyRecords
  \/ LostItems \/ LostRoot \/ FoundItems
  \/ GcEvents \/ GcItems \/ GcUnlink
  \/ RecoverLedger \/ RecoverItems \/ RecoverEvents \/ RecheckItems \/ RecheckEvent
  \/ \E s \in Snapshot : CommitWrites(s)
  \/ CommitRecords
  \/ PackBegins \/ PackRemoves \/ FinishPack \/ FinishEvent
  \/ PackTree \/ PackTables \/ PackRow \/ PackItems \/ PackEvent \/ PackFails
  \/ UndoneItems \/ UndoRemoves
  \/ LoseRepository

Spec == Init /\ [][Next]_vars

-----------------------------------------------------------------------------
(* Properties. *)

\* Every variable keeps its type.
TypeOK ==
  /\ disc \in [Disc -> DiscInfo]
  /\ item \in [Item -> Record \cup {NoRecord}]
  /\ index \subseteq Disc /\ ledger \subseteq Disc /\ root \subseteq Disc /\ burnt \subseteq Disc
  /\ objects \subseteq Meta
  /\ files \subseteq Chunk
  /\ content \in [Disc -> SUBSET Item]
  /\ names \in [Disc -> SUBSET Disc]
  /\ num \in [Disc -> Nat]
  /\ cmd \in Cmd
  /\ disasters \in 0 .. Disasters
  /\ proof \in [Disc -> SUBSET Item]
  /\ DOMAIN owed \subseteq Item /\ owed \in [DOMAIN owed -> Record]

\* A chunk that the log calls staged or packed still has its chunk file: gc
\* removes the only copy on the host after no crash and no repair too early.
StagedDataKept ==
  \A c \in Chunk : item[c].state \in {"Staged", "Packed"} => c \in files

\* A record that names a disc names one whose INDEX lists the item: no repair
\* and no return of a lost disc binds an item to a disc that does not hold it.
RecordsNameHolder ==
  \A i \in Item : Taken(item[i]) => i \in content[item[i].disc]

\* gc frees only what the newest check of the disc vouches for: a chunk with an
\* OnDisc record has a good copy on a disc that a full read, a recover of that
\* item, or the operator vouched for.
FreedIsProved ==
  \A c \in Chunk : item[c].state = "OnDisc" => c \in proof[item[c].disc]

\* The next command with the lock completes the item records of the disc event
\* that the stopped one wrote, before it does its own work.
EventsFollowed == cmd.at = "open" => owed = NothingOwed

\* A repair of `disc lost', `pack --undo' or gc means that such a command
\* stopped: no ordinary history asks for those records.
RepairsAreOwed ==
  \A p \in cmd.plans : disc[p.disc].state # "burned" => owed # NothingOwed

\* The same for every repair, as the comment of stage/repair.go says.
EveryRepairIsOwed == cmd.plans # {} => owed # NothingOwed

\* A recovered disc leaves no disc unnamed: once recover read a good copy of a
\* disc, every disc that its DISCS table names has a state, so `status' names it
\* and `commit' and `pack' refuse while it is missing.
NamedDiscsKnown ==
  \A d \in InState("on disc only") :
    ~disc[d].numbered /\ ~disc[d].failed => \A e \in names[d] : Known(e)

\* No two discs that pack recorded have the same disc number, whatever packs
\* stopped or were undone, unless the host lost its records.
DiscNumbersUnique ==
  disasters = 0 =>
    \A d, e \in Disc : disc[d].numbered /\ disc[e].numbered /\ num[d] = num[e] => d = e

\* The DISCS table of a disc of the repository names no undone disc.
UndoneNeverNamed ==
  \A d \in ledger : disc[d].state # "undone" =>
    \A e \in names[d] : disc[e].state # "undone"

\* gc never has to skip a verified disc: the catalog holds its INDEX, and that
\* INDEX lists every item packed on the disc.
VerifiedIsConfirmed ==
  \A d \in InState("verified") : d \in index /\ PackedItems(d) \subseteq content[d]

\* A disc never waits for a later one: every child of an item of a packed disc
\* is on that disc or on one with a lower number, whatever packs stopped or
\* were undone between them.
PrerequisitesEarlier ==
  disasters = 0 =>
    LET packed == {d \in Disc : disc[d].numbered /\ disc[d].state # "undone"}
        children(i) == {j \in Needs[i] : ~\E k \in Needs[i] : j \in Needs[k]}
    IN \A d \in packed : \A i \in content[d] : \A j \in children(i) :
         \E e \in packed : num[e] <= num[d] /\ j \in content[e]
=============================================================================
