# A verification project for noahsark

noahsark backs up a directory tree to write-once discs.  `commit` chunks the
source into a staging store, `pack` writes a disc root from staged items, the
operator burns it, `verify` reads the burned disc back, and `gc` then removes
the chunk files from the host.  From that moment the disc holds the only copy,
so the program turns on three questions.  Do the records on the host say the
truth about which disc holds what, whatever command stopped where?  Do the
files under the records (logs, object files, catalog, part files) survive kills,
power losses and damaged discs in the order in which the code writes them?
And does the operator who follows what the program says come to an end?

Source lines are named from the root of the repository.  `src/OPERATIONS.md`
and `src/docs/*.md` are its documents.

## 1. Inventory

| Component | Code | State | Operations |
|---|---|---|---|
| disc state log | `internal/stage/disclog.go` | one replayed record per disc: state, state before Lost, newest event, last check | append a batch of events; the replay table permits each event |
| item log | `internal/stage/log.go` | newest record per item: Staged, Packed, OnDisc, Lost, with disc and reason | batches: EnsureStaged, MarkPacked, MarkOnDisc, EnsureOnDisc, MarkLost, ReturnToDisc |
| repair | `internal/stage/repair.go`, `cmd/noahsark/repolock.go` | none of its own | complete the item records that a disc state asks for, at each open with the lock |
| record files, sequence mark | `internal/stage/recfile.go`, `mark.go`, `logs.go` | fixed-width records with CRC and sequence; a mark of the last sequences | append and sync, cut a torn tail, detect a roll back, read without the lock |
| catalog | `internal/catalog` | INDEX, REFS, DISCS tables per disc; snapshot, tree, blob objects; completeness marks | write from a disc or a disc root, remove, refresh the marks |
| refs | `cmd/noahsark/refs.go`, `internal/image` | `refs.txt`, the ref ledger, the REFS table of each disc | resolve a name, merge in recover and pack, move in commit |
| disc ledger | `internal/image` | one row per disc | replaced as a whole file |
| staging store, object writer | `internal/object/writer.go`, `durable.go` | chunk files, temporary files, groups with a background flush, plan directories | commit writes, gc removes |
| commit | `cmd_commit.go`, `internal/object` | the walk, the current file, what it dropped | read files, write objects, records, marks, ref |
| pack, pack --undo | `cmd_pack.go`, `cmd_pack_undo.go`, `internal/image/pack.go` | a run number and a disc number for each disc | write a disc root, record it; finish or remove what stopped |
| pack order, capacity | `internal/image/snaporder.go`, `pack.go` | none | select a closed run that fits |
| verify, disc burned, disc verified, disc lost, gc, recover | `cmd/noahsark/cmd_*.go` | - | events, item records, files |
| restore, read plan | `internal/restore`, `internal/plan` | part files, file states | plan a source for each chunk, walk the selection once per disc, finish files |
| status, next block | `cmd/noahsark/next.go` | none | name the one next action |
| chunker | `internal/chunker` | a buffer | cut a stream at content-defined points |
| formats, image build, CLI | `internal/format`, `internal/image/udf.go`, `cmd/noahsark/cli.go` | - | encoding, printing |

**Interaction.**  All state is on disk.  A command that writes takes an
exclusive `flock` (`internal/repolock`), opens both logs, lets
`completeItemRecords` write what an earlier command still owed, and then does
its own durable writes one after another.  `status`, `ls` and `restore` take no
lock and read beside it.  Commands call each other through files only.  Inside
one command the object writer alone runs a second thread, the flush of a group.
The operator and the drive stand outside: they burn, mount, lose and damage
discs.

**What is hard.**  *Stops*: each command is a sequence of durable writes to
several files with no transaction, and the next command is any command.  A disc
event is the intent; the item records follow, and other commands may change the
records of that disc before the repair runs.  *Order on the medium*: a rename,
a sync and a directory sync may be lost apart from each other.  *Damage*: a
copy may have bad items or bad tables, and the host may lose everything and be
rebuilt from discs in any order.  *Caches*: the completeness file, the sequence
mark, the plan of restore and the first walk of pack all say something that
another command may have made untrue.

**What makes each component correct.**

- Logs and repair: an event is followed by exactly its item records before
  any other work; a record never names a disc that does not hold the item; a
  repair means a stopped command; the two files are append-only logs.
- gc: no chunk file goes while the log calls the chunk staged or packed, and
  none goes without a good copy that somebody vouched for; gc finds the INDEX of
  each verified disc.
- pack: disc numbers are unique; a disc needs only itself and earlier discs;
  no disc names an undone one; nothing that can be taken is left; a run fits.
- recover, catalog, refs: a disc that a recovered disc names is never
  forgotten; a snapshot marked complete is held; a name never goes back.
- commit: a ref names whole snapshots only, an entry holds one version of its
  file, and a dropped read takes nothing away that another record needs.
- restore: a final name never holds a part of a file; reports and counts are
  true; another program's file is not overwritten, but for the one race that the
  code names where there are no hard links; run again, it ends.
- next block: the operator who follows it comes to "nothing to do" with all
  data on checked discs.
- chunker: chunks depend on the content and never on the reads.

## 2. Modules

| Module | Models | Composed from |
|---|---|---|
| `DiscLog`, `ItemLog` | the two record types, the replay table, `itemRepair`, as pure operators | - |
| `Repository` | every command with the lock, one durable write per action | `DiscLog`, `ItemLog` |
| `AppendLog` | what a state log promises: append-only, no acknowledged record lost | - |
| `RecordLog` | record files, torn tails, sequence mark, the holder and a reader; shown to implement `AppendLog` | `INSTANCE AppendLog` |
| `Commit` | the walk over a changing source, the object writer and its background flush, records, marks and ref | - |
| `Catalog` | object and table files, completeness, the three stores of refs; recover, verify, commit, pack, pack --undo as they write them | - |
| `Capacity` | sectors of a run: fixed files, INDEX, space bitmap, data budget | - |
| `PackOrder` | both walks, the orphan pass, the plan, the copy that plans again | `ItemLog`, `Capacity` |
| `Restore` | the read plan, one walk per source, part files, final names, reruns | - |
| `NextBlock` | the choice of the block and the operator who follows it | `Repository` |
| `Chunker` | buffer, reads, cut rule | - |
| `Repository_proofs` | theorems about the files, the holders and the disc numbers | `Repository` |
| `Repairs_proofs` | theorems about the item records that a command owes, closed discs, and the operator who rests | `NextBlock`, `Repository_proofs` |
| `PackOrder_proofs` | theorems about the runs of pack and the budget of a disc | `PackOrder`, `Capacity` |
| `RecordLog_proofs`, `Restore_proofs`, `Commit_proofs`, `Catalog_proofs`, `Chunker_proofs` | theorems about one component each | `RecordLog`, `Restore`, `Commit`, `Catalog`, `Chunker` |

The `MC*` modules give TLC the small instances; a definition with the comment
"The slip that ..." is a plausible mistake in the definition after it, and each
property of a passing run fails when one of them takes that definition's place.

### Repository

`Repository` has one variable for each durable thing (`disc`, `item`, `index`,
`objects`, `ledger`, `files`, `root`), what a written disc holds (`content`,
`names`, `num`), the copies outside the host (`burnt`), and the running command
`cmd`.  `cmd.at` is the next durable write of that command and the other fields
are its local variables: what it read before and uses after.  One action is one
durable write with everything the code does with it; a command is a chain of
actions; `Stop` may take the place of any of them.

| Command | Actions |
|---|---|
| open with the lock | `Open` (all plans first), `RepairDisc` (one batch per disc, by disc number) |
| disc burned, disc verified, their undo | `DiscBurned`, `DiscBurnedUndo`, `DiscVerified`, `VerifyUndo` |
| verify of a mounted disc | `VerifyFails`; or `VerifyReads`, `VerifyRecords`; `CatalogStops` |
| disc lost | `DiscLost`, `LostItems`, `LostRoot` |
| disc lost --undo | `DiscLostUndo`, `FoundItems` |
| gc | `GcEvents`, `GcItems`, `GcUnlink` |
| recover | `Recover`, `RecoverLedger`, `RecoverItems`, `RecoverEvents`; `RecheckItems`, `RecheckEvent` |
| commit | `CommitWrites`, `CommitRecords` |
| pack | `PackBegins`, `PackRemoves`, `FinishStage`, `FinishPack`, `FinishEvent`, `PackPlans`, `PackTree`, `PackTables`, `PackRow`, `PackItems`, `PackEvent`, `PackFails` |
| pack --undo | `PackUndo`, `UndoneItems`, `UndoRemoves` |
| outside | `Burn`, `LoseRepository`, `Stop` |

Abstractions, and why they keep the questions:

- An item is a chunk or a metadata object; its content is its identity.
  `Needs` is the transitive reach of an item, as the object graph fixes it.
- Run numbers, times, labels and the close flag decide nothing that is asked.
  The reason of an item record is kept where it is read ("disc lost").
- A selection is any non-empty set of readable staged items that is closed
  below; capacity and walk order (`PackOrder`) choose one of these.
- A torn item batch leaves any subset: but for the snapshot record of commit,
  which comes first, the records have the order of a map or of random content
  ids.  `PackOrder`, where it matters, keeps the snapshot record first.  A torn
  event batch leaves a prefix.
- `gc` computes the orphans before it writes, and removes any part of them: it
  goes on after a file that it cannot remove.
- A disc identity is random, so pack takes one that nothing names (`Fresh`).  A
  pack that fails removes its root and its tables (`PackFails`, two steps) and
  leaves its written content in `content`; nothing reads it.
- `proof` and `owed` are history.  They record what the checks of a disc vouch
  for, and which item records the newest disc event asked for; no guard reads
  them.  `owed` is also settled when another found disc took the item.
- The operator burns a disc only between commands, and only a disc that `image
  build` accepts; `EarlyBurn` lifts the second limit.

### The other modules

`RecordLog`.  A file is a sequence of records and a flag for a part of one
behind them; `disk` is what a power loss leaves at least.  The holder goes
through open, cut, mark, append, sync, mark; a kill leaves the page cache, a
power loss leaves any prefix of what was not synced, with a torn end.  A reader
(`status`, `ls`) reads the logs and the mark in its own order, one file a step.
A checkout puts an older version of `state/` in place.  Bytes are left out: a
record is its sequence and an identity, or `Bad` when its CRC is wrong.

`Commit`.  A source file is a version and the sequence of its chunks; a program
may change or remove it at any step.  The actions are the stat, the reads of the
chunks, the second stat, the retry, the skip, the write of an object (temporary
file, group), the background flush of a group (sync, then rename), the sync of
the directories, the removal of dropped files, which may fail, the records, the
completeness file and the ref.  `named`,
`synced` and `soft` tell a name, the bytes under it and the directory entry
apart; a power loss takes what is soft.  Symlinks, special files, excludes and
nested directories go through the same order of steps and are left out.

`Catalog`.  A disc is its objects, its ref records and the discs that it names;
a copy adds what is damaged.  recover, verify, commit, pack and pack --undo are
split at each file they replace (object, each table, completeness file, ref
ledger, `refs.txt`, events), and may be killed between them; object files may
rot in their head or their payload.  The events log says which discs are known;
that a good copy also clears the failed check of a known disc is in `Repository`
(`RecheckItems`, `RecheckEvent`).

`PackOrder` and `Capacity` are translations of pure functions as recursive
functions over sets and sequences, with a small state machine (commit, pack,
disc lost, gc, bad files) that produces the repositories they are asked about.
`Walk` is `planWalk`, `Visit` the mutual recursion of `tree`, `blob` and `chunk`,
`Walked` the loop over the snapshots, and `PackRun` the loop of `Pack` that plans
again.  They are functions on sets that shrink or grow, not RECURSIVE operators,
so that one can prove about them.
An item is a number, which stands for the byte order of its content id.

`Restore`.  A file is a sequence of positions, each with one chunk.  The actions
are the scan, the plan, each visit of a file on each disc (write a chunk, seal,
check, link, unlink, metadata, flush), and the end of a walk; kills, power
losses, bad objects, gc and another program at the destination come between.
Below a directory whose file system has no hard links (`NoLinks`), `linkPart`
looks with Lstat (`LinkPart`) and renames in a step of its own (`RenamePart`),
which replaces what is there by then.  `NameFails` is each other error of the
unlink, the link and the rename.

`NextBlock` adds to `Repository` the block that `status` shows (`Blocks`) and an
operator who starts its command (`Begin`, `Command`) and lets it run (`Goes`).
`Anything` is any prefix of commands and stops before the operator begins.

`Chunker`.  `CutPoint` is the loop of `cutPoint` with its two masks and the
rolling word; `Fill` is one `Read` of any length; io.EOF comes with the last
bytes or after them.

## 3. Properties and runs

| Run | Instance | Properties | States |
|---|---|---|---|
| `crashes` | `MCRepository`: 2 discs, 1 snapshot of 1 chunk, 1 loss of the repository | `TypeOK`, `StagedDataKept`, `EventsFollowed`, `RepairsAreOwed`, `VerifiedIsConfirmed`, `NamedDiscsKnown`, `PrerequisitesEarlier`, `DiscNumbersUnique`, `UndoneNeverNamed` | 1,759,857 |
| `damaged` | `MCRepository`: as `crashes`, with torn batches and damaged copies | `FreedIsProved`, `RecordsNameHolder` | 3,796,817 |
| `record_log` | 2 records, 1 checkout, all faults, `status` and `ls` | `HolderNotRefused`, `ReaderSeesPrefix`, `AckedKept`, `LsWarningTrue`, `ImplementsAppendLog` | 629,708 |
| `commit` | `MCCommit`: 2 commits of 2 files, 4 chunks | `EntryIsOneVersion`, `DroppedAreGone`, `NeededFilesStay`, `CommittedIsWhole` | 2,175,028 |
| `catalog` | `MCCatalog`: 3 old discs, 1 commit, 1 pack, 1 kill | `CompleteIsHeld`, `NameNeverGoesBack`, `CommitStaysResolved`, `NewestDiscNamesEveryRef`, `RecoveredIsRecorded` | 2,419,111 |
| `catalog_operator` | `MCCatalog`: 2 old discs, 2 kills, 1 rotten file, fair | `MarksFollowTheDiscs`, `EventuallyComplete` | 176,573 |
| `pack_order` | `MCPackOrder`: 8 items, 3 discs of 4 items | `TakesEverySound`, `PlacedIsClosed`, `OlderFirst`, `FitsWithoutCarried` | 76,702 |
| `pack_full` | `MCPackOrder`: 20 items, a run that fills its disc | `SelectedFits` | violated |
| `pack_torn` | `MCPackOrder`: 9 items, recovered from 2 discs of 3, 1 torn commit | `SnapshotsAreWhole` | violated |
| `restore` | `MCRestore`: 2 files, 3 chunks, 2 discs and the staging store, fair | `NamedFileWhole`, `CountIsOwed`, `EveryFileAccounted`, `FailedIsNotRestored`, `NothingOverwritten`, `EventuallyRestored` | 251,452 |
| `next_block` | `MCNextBlock`: 2 discs, 1 snapshot of 1 chunk, new or lost repository, fair | `RestedIsOnDiscs`, `EventuallyRests` | 692,423 |
| `chunker` | all files of up to 8 bytes of 2 values | `CutsAreOfContent` | 10,910 |

What they state, in the words of the program:

- `StagedDataKept`: a chunk that the log calls Staged or Packed has its chunk
  file.  `FreedIsProved`: a chunk that the log calls OnDisc has a copy that a
  full read, an item check of recover, or the operator vouched for.  Together:
  gc takes no last copy.
- `EventsFollowed`: when a command starts its own work, no item record of an
  earlier disc event is owed.  `RepairsAreOwed`: a repair of disc lost,
  pack --undo or gc means that such a command stopped.
- `RecordsNameHolder`: a record that names a disc names one whose INDEX lists
  the item.  `VerifiedIsConfirmed`: the catalog holds the INDEX of each verified
  disc, and it lists all that is packed there, so gc skips no disc.
- `NamedDiscsKnown`: every disc that a recovered, undamaged disc names has a
  state.  `DiscNumbersUnique`, `UndoneNeverNamed`, `PrerequisitesEarlier`: numbers
  come once, no disc of the ledger names an undone one, and a disc needs itself
  and lower numbers only, whatever packs stopped or were undone.
- `HolderNotRefused`: no kill, failed write or power loss makes the next command
  call the logs damaged or rolled back.  `AckedKept`: a command that passed the
  open works on every acknowledged record.  `ReaderSeesPrefix`, `LsWarningTrue`:
  what a command without the lock shows and says is true.
  `ImplementsAppendLog`: the files refine `AppendLog`, with `log` mapped to the
  replay of each file and `kept` to the number of acknowledged records.
- `EntryIsOneVersion`: an entry without the UNSTABLE flag holds one version of
  its file.  `DroppedAreGone`, `NeededFilesStay`: a read that is given up leaves
  nothing, and takes nothing that a record or another entry needs.
  `CommittedIsWhole`: all that a ref names is there, durable and whole.
- `CompleteIsHeld`: a snapshot marked complete is held by the catalog, whatever
  stopped.  `NameNeverGoesBack`: recover in any order of discs moves no name to
  an older snapshot.  `CommitStaysResolved`: what a commit named stays what the
  name resolves to.  `NewestDiscNamesEveryRef`: the disc that pack writes has a
  record of each name that the repository resolves, and the newest one of a name in
  `refs.txt` is of its line.
  `RecoveredIsRecorded`: a disc that is known has its ref records in the ledger.
  `MarksFollowTheDiscs`, `EventuallyComplete`: with nothing left to give, the marks
  say what the catalog holds, and an operator who gives good copies gets there.
- `TakesEverySound`: pack takes each Staged item that it can, wherever it hides.
  `PlacedIsClosed`, `OlderFirst`: a run is closed, and before it takes a snapshot
  object it takes all that is left of it and of each older one.
  `FitsWithoutCarried`, `SelectedFits`: the run passes its own capacity check.
  `TakesEverySound` and `OlderFirst` have the condition `Undecided = {}`: no item
  without a record is below both a Staged item and a snapshot of a disc.  Such an
  item may be of a commit that stopped, or of a disc that is missing; the code
  cannot tell, and `SnapshotsAreWhole` (section 4) shows what follows.
- `NamedFileWhole`: a final name holds the whole file or none, also after a power
  loss.  `CountIsOwed`: the count of missing chunks of a file is right at each
  point of the walk.  `EveryFileAccounted`, `FailedIsNotRestored`: each file ends
  restored or reported, never both.  `NothingOverwritten`: without --overwrite no
  file of another program changes, also one that appears while the run works.  It
  excepts the rename of a file in `NoLinks`, whose race `linkPart` names
  (`src/internal/restore/discswap.go:425-428`; `OPERATIONS.md:1395-1397` says "with
  no race" of the link only): without the exception TLC finds the replaced file in
  19 steps.  `EventuallyRestored`: an operator who runs
  restore again ends with exit code 0.
- `EventuallyRests`: the operator who follows each `next:` block comes to
  "nothing to do" (or the model has no disc left).  `RestedIsOnDiscs`: then no
  data waits on the host.
- `CutsAreOfContent`: the chunks are those of the content, for every read pattern.

**Bounds.**  In `Repository` the number of discs, snapshots and chunks, and
`Disasters`, are the only bounds: no counter is cut, and a disc cannot be used
twice, so every instance is finite by itself.  Two discs are enough for the
hazards of one item: it can be on a disc, leave it and go to another while a
command of the first is unfinished.  `Disc` is a symmetry set; `num` orders discs
by value only.  `LossComesFirst` makes `damaged` explore the commands after a loss, with commits
and packs before it.  The three
properties of disc numbers and prerequisites hold for any number of discs,
snapshots and chunks: they are proved.

`FewFaults` allows at most two kinds of fault in one behaviour of `record_log`;
two records are enough for a bad one, the last good one before it, and a record
after it.  `MaxStops`, `MaxPower`, `MaxErrors`, `MaxForeign`, `MaxTorn`,
`MaxFaults`, `MaxRot`, `MaxPacks` count the faults of one behaviour: one or two,
since the second kill after a kill is what a recovery must survive.
In `restore` one of the two files is in `NoLinks`, so that both ways to the final
name meet the same faults.  `PowerFirst` and `OverwriteStops = 0` leave out what section 4 reports.
`FirstDisc` fixes the order in which `next_block` takes fresh discs, which are
alike.  `pack_order` runs at a capacity that four items miss by the run headers
only, so that a run is cut in the middle of a snapshot.  `chunker` uses chunks of
two to four bytes: eight bytes give chunks at each end of the profile.

**Deadlock.**  `Repository` and `RecordLog` runs check it: a command that is
refused, and an operator who walks away, is a `Stop`, and `Open` is always
possible.  `commit`, `pack_order`, `pack_full`, `pack_torn`, `restore`, `next_block` and `chunker`
turn it off, for the program ends there: each cfg says why.

**Fairness.**  `Spec` of each module has none: a command may stop for ever.
`Restore!FairSpec` gives weak fairness to the start of a run and to its steps:
the process runs, and the operator starts it again.  `Catalog!FairSpec` gives weak
fairness to the steps of a command and strong fairness to the gift of each good
disc: the operator keeps on giving discs although commands may stop in between.
`NextBlock!FollowSpec` gives weak fairness to the operator's next step and
strong fairness to a good check: a disc that is burned again and again reads
well at last.  `disc burned` is told only of discs that were burned.

## 4. Where the code and its documents disagree

Two runs show such a case, because one ends a pack for good and the other leaves
a snapshot on the discs with a hole:

- `pack_full` (`src/internal/image/pack.go:754`).  `selectRun` counts INDEX rows
  for the selected objects; the INDEX that `packRun` lays out also has a row for
  each carried snapshot.  When the selected run fills the budget and these rows
  need one more sector, pack ends with "internal error: selected run does not
  fit after all", every time.  `CarriedRowsAreTheGap` proves that nothing else can
  make the two differ.
- `pack_torn` (`src/internal/image/snaporder.go:298`).  `role` judges an item with
  no record by the snapshot that the walk is in, but each item is visited once.
  A repository was recovered from a part of its discs; a commit shares a blob with
  the snapshot of a disc and stops in its records, after those of its snapshot
  and the blob; another disc is lost, so that the second walk runs.  It
  comes to the blob below the older snapshot first, leaves its chunk alone as
  below a missing disc, takes the blob, and marks it seen.  The new snapshot,
  its tree and the blob go on a disc; the chunk is on none and has no record,
  although "an item with no record counts as Staged in a snapshot whose snapshot
  object is Staged" (`snaporder.go:275-277`).  The chunk file stays on the host,
  and a later commit that reads the file again stages it.

The others came out of the same modules with other constants; the properties
above are stated so that they hold beside them.  Each line names the constants
and the property that show it.

- *A repair with no stop.*  Lose a verified disc A, pack its items on B, find A,
  lose or undo B: the next command gives the items to A and says that an earlier
  `disc lost` stopped (`src/internal/stage/repair.go:152` against its comment at
  21-22).  The records are right.  `crashes` with `EveryRepairIsOwed`.
- *A torn batch after `disc lost --undo`.*  One surviving Packed record makes the
  rule for burned discs skip the disc; the rest is packed again
  (`repair.go:152`, `src/OPERATIONS.md:420-421`).  `TornBatches`, `EventsFollowed`.
- *A torn batch in recover.*  A `Recovered` event without its `NamedMissing` events
  makes the disc known; the discs that it names are never asked for
  (`src/cmd/noahsark/cmd_recover.go:354` against 308-309).  `TornBatches`,
  `Disasters = 1`, `NamedDiscsKnown`.
- *A damaged DISCS table.*  The same without a crash: a later recover of a good
  copy writes no `NamedMissing` (`cmd_recover.go:372`, `src/docs/states.md:483`, 743).
  `Damage`, `Disasters = 1`, `LossComesFirst`, `NamedDiscsKnown`.
- *A root burned before its Packed event.*  A damaged copy of it, recovered,
  makes the disc "on disc only" while its items are Packed; the repair of that
  state needs no proof (`repair.go:217`, `docs/states.md:486`).  `EarlyBurn`, `Damage`,
  `FreedIsProved`.  `RepairsAreOwed` fails with `EarlyBurn`, too, and with damage and
  a loss together in a long history.
- *A pack killed before its Packed event, and no other data.*  No item is
  Staged and the disc has no state, so `nextBlock` says "nothing to do" although the
  disc was never burned (`src/cmd/noahsark/next.go:122`, `docs/states.md:663`, 715).
  `next_block` with `RestIsSafe`.
- *The warning of status.*  `openLogs` replays the logs and reads the mark after
  them, so a holder in between makes `status` say that state/ went back
  (`src/cmd/noahsark/repolock.go:98`, `src/internal/stage/mark.go:20-21`).
  `LsWarningTrue` with "status" in place of "ls".
- *A mark ahead of its log.*  The open writes a record of a killed command into
  the synced mark without a sync of the log; a power loss then leaves the log
  below the mark and every command refuses (`mark.go:54`, `OPERATIONS.md:105-106`).
  `HolderNotRefused` without `MarkMayLead`.
- *A read that ends early.*  A reader takes the size of a log that a holder then
  cuts, and fails with EOF (`src/internal/stage/recfile.go:135`,
  `OPERATIONS.md:383-384`).  The step is in the model (`reader.told = "failed"`).
- *A name synced by nobody.*  commit takes a file that is under its name as
  written and does not sync its directory; after a kill before `syncDirtyDirs`
  and a power loss the ref names a file that is gone
  (`src/internal/object/writer.go:825`, 265-266).  `PowerFirst = FALSE`,
  `CommittedIsWhole`.
- *Metadata after a kill.*  A kill between the link and the metadata leaves a file
  that the next run counts as restored, with mode 0644
  (`src/internal/restore/discswap.go:211`, `OPERATIONS.md:1488-1489`).
  `RestoredHasMetadata`.
- *One file, two PATHs, two discs.*  The second visit reports `file not restored`
  for a restored file (`discswap.go:384`, `OPERATIONS.md:1515`).  `Selected` with
  one file twice, `FailedIsNotRestored`.
- *Two names of one file.*  A kill between link and unlink, then a run of another
  snapshot with --overwrite, writes into the file under its final name
  (`discswap.go:276`, `OPERATIONS.md:1529-1530`).  `TwoSnapshots`, `OneFile`,
  `OverwriteStops = 1`, `NamedFileWhole`.
- *A name goes back.*  When the newer snapshot object is damaged, its line has
  time 0 and recover of an older disc wins (`cmd_recover.go:417`,
  `OPERATIONS.md:480-481`).  `Copies <- BadSnapshot`, `OldMedia <- TwoDiscs`,
  `NameNeverGoesBack`.
- *Partial, but whole.*  A verify that brings the missing object of another
  disc's snapshot does not refresh its mark (`src/internal/catalog/write.go:149`,
  `OPERATIONS.md:205-206`).  `PartialIsMissing`.
- *Refs of a good second copy.*  After a copy with a damaged REFS table, a good
  one adds its refs to no ledger (`cmd_recover.go:205`, `OPERATIONS.md:473-475`).
  A copy with `tables` FALSE, `NewestDiscNamesEveryRef`.
- *A line older than a disc.*  recover stops after the ref ledger and before
  `refs.txt`, another commit is packed, an older disc is recovered and packed: the
  pack gives the line of the older disc a record with the time of the pack.  Until
  the newer disc is read again, the newest disc says what `refs.txt` says, and
  another table has a newer snapshot under an older record
  (`src/cmd/noahsark/cmd_pack.go:549`).  No document speaks of it;
  `NewestDiscNamesEveryRef` is stated by the lines of `refs.txt` for this reason.
- *A rotten snapshot object.*  `localRefRecord` drops the error and an older
  record wins (`src/cmd/noahsark/refs.go:122`, `OPERATIONS.md:234-236`).
  `DamagedIsAnError`.  The theorems on names therefore ask for `CommitsVerify` and
  `LinesVerify` (section 5).
- *An item above an unreadable one.*  Behind an item of a disc the first walk
  does not see an unreadable Staged item, so what is above it can go on a disc
  (`src/internal/image/snaporder.go:310`, 489, `OPERATIONS.md:648-654`).
  `MaxTorn = 0`, `NoneAboveUnreadable`.

Two remarks without a rule to break: the dry run computes the carried snapshots
once, so it is an estimate after its first disc (`pack.go:583-592`); and a larger
capacity can hold one sector less when the space bitmap grows by a block
(`pack.go:775`).

## 5. Proofs

`Repository_proofs` and `Repairs_proofs` hold the theorems about `Repository` and
`NextBlock`; `RecordLog`, `Restore`, `Commit`, `Catalog`, `Chunker` and `PackOrder` with
`Capacity` have a module each.  They hold for every value of the constants
(numbers of records and checkouts, sets of discs, items, files, chunks and snapshots, what an item or a snapshot
reaches, what a copy lost, the number of kills, power losses and bad files, the
switches of the configurations) unless a line below says otherwise.

| Theorem | States | Rests on |
|---|---|---|
| `Repository_proofs!TypeInvariant` | `Spec => [](TypeOK /\ CommandOK)` | - |
| `Repository_proofs!StagedDataIsKept` | `Spec => []StagedDataKept` | `DataInv` |
| `Repository_proofs!RecordsNameTheirHolder` | `Spec => []RecordsNameHolder` | `DataInv`, `HolderInv` |
| `Repository_proofs!VerifiedDiscsAreConfirmed` | `Spec => []VerifiedIsConfirmed` | `HolderInv`, `IndexInv` |
| `Repository_proofs!FreedItemsAreProved` | `Spec => [](~EarlyBurn => FreedIsProved)` | `HolderInv`, `BurntInv`, `ProofInv` |
| `Repository_proofs!NumbersAreUnique` | `Spec => []DiscNumbersUnique` | `NumberInv` |
| `Repository_proofs!UndoneIsNotNamed` | `Spec => []UndoneNeverNamed` | `NumberInv`, `UndoneInv` |
| `Repository_proofs!NamedDiscsAreKnown` | `Spec => [](~TornBatches /\ ~Damage => NamedDiscsKnown)` | `NumberInv`, `NamedInv` |
| `Repairs_proofs!RepairsFollowStops` | `Spec => [](~EarlyBurn /\ (~Damage \/ disasters = 0) => RepairsAreOwed)` | the invariants above, `RepairInv` |
| `Repairs_proofs!StopsAreFollowed` | `Spec => [](~TornBatches => EventsFollowed)` | `ClearInv`, `FollowInv` |
| `Repairs_proofs!DiscsAreClosed` | `Spec => [](~TornBatches /\ ~EarlyBurn => PrerequisitesEarlier)` | `OwnInv`, `RepairInv`, `RecordedInv`, `ClosedInv` |
| `Repairs_proofs!RestedDataIsOnDiscs` | `FollowSpec => []RestedIsOnDiscs` | `HeldInv`, `SitedInv`, `RestInv` |
| `RecordLog_proofs!RecordFilesReplay` | `Spec => []BaseInv` | - |
| `RecordLog_proofs!AckedIsKept` | `Spec => []AckedKept` | `BaseInv`, `AckInv`, `VersionInv` |
| `RecordLog_proofs!HolderIsNotRefused` | `Spec => []HolderNotRefused` | `BaseInv`, `MarkInv` |
| `RecordLog_proofs!ReadersSeePrefixes` | `Spec => []ReaderSeesPrefix` | `BaseInv`, `ReaderInv` |
| `RecordLog_proofs!WarningsAreTrue` | `Spec => []LsWarningTrue` | `BaseInv`, `MarkInv`, `LsInv` |
| `RecordLog_proofs!LogsImplementAppendLog` | `Spec => ImplementsAppendLog` | `BaseInv`, `AckInv` |
| `Restore_proofs!FinalNamesAreWhole` | `Spec => [](NoLateOverwrite => NamedFileWhole)` | `RestoreInv` |
| `Restore_proofs!FilesAreAccounted` | the same for `EveryFileAccounted` | `RestoreInv` |
| `Restore_proofs!FailedFilesAreNotThere` | the same for `FailedIsNotRestored` | `RestoreInv` |
| `Restore_proofs!CountsAreOwed` | the same for `CountIsOwed` | `RestoreInv` |
| `Restore_proofs!NoFileIsOverwritten` | the same for the steps of `NothingOverwritten`, which excepts the rename without hard links | `RestoreInv` |
| `Commit_proofs!EntriesAreOneVersion` | `Spec => []EntryIsOneVersion` | `EntriesInv` |
| `Commit_proofs!NoNeededFileGoes` | `Spec => NeededFilesStay` | `ReachInv` |
| `Commit_proofs!DroppedFilesAreGone` | `Spec => []DroppedAreGone` | `ReachInv`, `DropInv` |
| `Commit_proofs!CommitsAreWhole` | `Spec => [](PowerFirst => CommittedIsWhole)` | `ReachInv`, `HeldInv` |
| `Catalog_proofs!MarkedIsHeld` | `Spec => []CompleteIsHeld` | `MarkIsOwed`, `ReadOK` |
| `Catalog_proofs!RecoverTellsTheMarks` | `Spec => []MarksFollowTheDiscs` | `WalkedIsKnown` |
| `Catalog_proofs!RecoverLeavesItsRecords` | `Spec => []RecoveredIsRecorded` | `PackCarries`, `ReadOK` |
| `Catalog_proofs!CommitIsNotHidden` | `Spec /\ []CommitsVerify => []CommitStaysResolved` | `RefsInv`, `MovedOK` |
| `Catalog_proofs!NamesDoNotGoBack` | `Spec /\ []LinesVerify => [](SoundLoss => NameNeverGoesBack)` | `RefsInv`, `MergedIsCovered` |
| `Catalog_proofs!NewestDiscHasTheNames` | `Spec => [](SoundTables => NewestDiscNamesEveryRef)` | `NamesInv` |
| `Chunker_proofs!ChunksDependOnContent` | `Spec => []CutsAreOfContent` | `StreamInv` |
| `PackOrder_proofs!TypeCorrect` | `Spec => []TypeOK` | - |
| `PackOrder_proofs!RunsAreClosed` | `Spec => []PlacedIsClosed` | `WalkOK` |
| `PackOrder_proofs!NoStagedIsForgotten` | `Spec => []TakesEverySound` | `WalkOK` |
| `PackOrder_proofs!OldestFirst` | `Spec => []OlderFirst` | `WalkOK`, `OrderOK` |
| `PackOrder_proofs!RunsFit` | `Spec => []FitsWithoutCarried` | `SelectedRunFits` |
| `PackOrder_proofs!BudgetShrinks` | the data budget never grows with the number of files | - |
| `PackOrder_proofs!BudgetPassesCheck` | files within the budget pass the check of their capacity | - |
| `PackOrder_proofs!SelectedRunFits` | a selected run without carried snapshots fits when it is laid out | the two above |
| `PackOrder_proofs!CarriedRowsAreTheGap` | what `selectRun` leaves out is at most the sectors of the carried rows | - |

None of the invariants is inductive by itself.  What each one needs, and why:

- `TypeOK` needs `CommandOK`.  `Apply` gives a disc record only for an event that
  the disc permits, and a command reads the state some steps before it writes
  the event.  `CommandOK` says that the state is still the one it read: only one
  command runs, and a loss of the repository needs an idle one.
- `StagedDataKept` needs `DataInv`.  Each open repair plan stages or packs only
  chunks with a chunk file (`PlansHaveData`: all plans are computed before the
  first batch).  Every item of a disc root that is still there has a record
  (`RootRecorded`: the completion of a stopped pack never records a chunk that
  nothing staged).  What the running command decided to record or to unlink is
  still as it read it (`DecisionHolds`).
- `RecordsNameHolder` needs `HolderInv`.  Plans and the items of a command name a
  disc some writes before the records do (`PlansHold`, `CommandHolds`), and
  pack changes the content of a disc, which must be one that no record can name
  yet.
- `VerifiedIsConfirmed` needs `IndexInv`.  Only the Packed event makes a disc need
  its tables (`EventIndexed`), pack writes them before it, and the steps that
  remove tables do it on an undone disc or on one without an event.
- `FreedIsProved` needs `ProofInv` and `BurntInv`.  A repair makes every Packed item
  of a disc that is "on disc only" an OnDisc one, so a Packed item of a disc in
  such a state must have its proof already.  A disc comes to the state by gc,
  which needs a good check of all of it (`ChecksHold`), or by recover, which needs
  a copy.  A Packed item without proof is on a disc that is still under the rules
  of `verify` (`Indexed`), or was never burned (`Unburned`), or never comes back
  (`Gone`).  `BurntInv` says that the disc of a running or a stopped pack has no
  copy.  This is false when the operator burns a root before its Packed event,
  hence the condition `~EarlyBurn`; section 4 shows that it is needed.
- `DiscNumbersUnique` needs `NumberInv`.  pack takes the number above all rows and
  events three durable writes before its own row, and recover adds rows of other
  discs.  A row leaves only a disc that has its event, recover adds only discs
  that one of the recorded discs or copies names, and a number in the hands of
  pack stays above all others.
- `UndoneNeverNamed` needs `UndoneInv`.  recover gives rows back to discs that lost
  theirs, so `TablesInv` speaks of discs without a row: one that was burned, or that
  another table names, names no disc with a Packed event.  pack --undo takes the
  newest disc only, and a table names lower numbers only.  The disc of a stopped
  pack may get its Packed event later; until then only its own table names it.
- `NamedDiscsKnown` needs `NamedInv`: a recover keeps every name of the table that it
  read until it writes the events, and only `Recovered` makes a disc with no Packed
  event one that is "on disc only".  Section 4 shows that both conditions are needed.
- `RepairsAreOwed` needs `RepairInv`.  An event changes the state of a disc under all
  the records that name it, and `owed` has only what the command asked for.
  `ItemsFit` says which records a disc in each state can have: Packed on one that
  still has its row, OnDisc and Lost on one that is away, so a `Recovered` or a
  `Freed` event finds no record that it does not ask for.  `BehindIsOwed` and
  `BehindIsNext` say that a record which is behind its disc is owed, and that the
  next command repairs it before its own first write.  `PlansAreBehind` says that
  no plan is empty of such records while the batches are written.  With `EarlyBurn`, or
  with damage and a loss together, it is false (section 4).
- `EventsFollowed` needs `ClearInv` and `FollowInv`, and no condition on damage or
  on burns.  `ClearInv`: a record is behind its disc only while no command works, the
  plans of openLogs cover each such record, and a plan asks for no record that is
  itself behind.  `FollowInv`: a record that is owed and not written is what
  the state of a known disc asks for (`OwedIsDue`), so openLogs has a plan for it, and
  the plan of another disc either writes the same record or gives the item to
  a disc that was found (`PlansSettle`).  Plans of two discs can ask for
  one staged item: after `disc lost --undo` stops, an item that the first disc staged may be in
  the INDEX of another one that is found.  `OwedFits`, `LostIsAlone` and
  `OneDiscStaged` say for which owed records this cannot go wrong.  After a torn batch
  the rule for a burned disc skips it, and the rest of what is owed is not asked for
  again (section 4), hence `~TornBatches`.
- `PrerequisitesEarlier` needs `RecordedInv` and `ClosedInv`.  pack lays a disc out
  from the item log, so the log must be closed: what is below a recorded item has a
  record, too, and all items of a disc and of a repair plan have one.
  `ClosedInv` adds the discs that are laid out but have no event yet: a stop
  leaves one, and the next pack gives it its event without a new plan.  pack --undo
  takes the newest disc only, so no disc that stays has a child on it.
  `OwnInv` says that, until the host loses its repository, recover has no new disc
  to write.  A torn batch of commit leaves a snapshot whose chunks have no record
  (`~TornBatches`), and a disc that was burned without an event comes back
  with a number that another disc may have (`~EarlyBurn`).
- `RestedIsOnDiscs` needs `HeldInv`, `SitedInv` and `RestInv`.  The `next:` block sees
  the staged items that it can read and the discs of the ledger.  `HeldInv`: the
  catalog has each object that the log calls staged or packed, or that a repair is
  to stage, thus no staged item is hidden from the block.  `SitedInv`: a disc
  that can still be burned has its row, and a Packed record names no missing disc,
  nor an unknown one without its row and its directory, thus no packed item is
  hidden either.  `RestInv`: what the block saw still holds
  while the operator rests, for no command runs then.  The lost repository of the
  second initial state has to be one that packs could have left
  (`OldDiscsAssumption`: each disc names itself and only discs that were written).
- All of `RecordLog` rests on `BaseInv`.  `FilesInv`: each version of a file replays to
  good records with growing sequences, and what is synced is the start of what a
  command reads; the lemma `SurvivingIs` says that a power loss leaves a log between
  the two.  `HolderInv`: after the open a log has nothing behind its last good
  record, but for the batch in hand.  The refinement and `AckedKept` then need
  only that what was acknowledged is synced (`AckInv`).
- `HolderNotRefused` needs `MarkInv` in two degrees: before the first stop the mark is
  not above what is synced, and after it not above what is read, until a
  power loss.  `LsWarningTrue` needs `LsInv`: the size that `ls` took is at most one
  above the good records, and the record that it will find there is not below its
  mark, also when the file is cut and written again before the read.
- `AckedKept` after a checkout needs `VersionInv`: either the file is the newest
  version, or the saved one is and no command has passed `UseMark` since.  The
  mark is the last sequence of what was acknowledged, and a start of a log
  that has its last sequence is all of it (`LastSeqSame`), so `UseMark` lets only the
  newest version pass.
- `Restore` needs `RestoreInv`, one invariant for five properties.  `WholeInv`
  says what each name can hold at each step of `finishPart`: a part file that is
  sealed was read again and flushed, and a final name that a stop left beside its
  part file (`linked`) is one file with it, so no walk may write there.
  `CountInv` splits the positions of a file by the sources that the walk has
  passed; `AccountInv` and `FailedInv` say which files the loop has still to come
  to.  A run with --overwrite that starts after a stop can write through the second
  name (section 4); `NoLateOverwrite` leaves out exactly such runs.  A rename never
  makes a second name, and it takes only a part file that was read again and flushed.
- `Commit` has a chain, each part of the next one.  `EntriesInv`: what a read has
  is the start of the version that the stat before it saw, as long as the file
  has that version.  `ReachInv`: what the snapshot reaches has a record from
  `markStaged` on.  `DropInv`: every chunk file is an old one, has a record, is
  reached, or is one that `removeDropped` will come to.  `HeldInv`: a Staged object
  has its bytes under its name, in a group, or in the flush that the commit waits
  for.  The last one is lost when a power loss follows a kill or a failed flush: a
  name that the killed commit left is in a directory that no later commit syncs
  (section 4).  `PowerFirst` is the condition that there is no such power loss.
- `CompleteIsHeld` needs that a commit has all objects of its snapshot before it
  marks it (`MarkIsOwed`), and `MarksFollowTheDiscs` what a walk has behind it
  (`WalkedIsKnown`).  `RecoveredIsRecorded` needs what a read has left so far
  (`ReadOK`), and that the refs of a pack carry the ledger (`PackCarries`).
- The refs of `Catalog` need the times.  Each record is older than the clock and
  its snapshot is older than the record (`RecordsOK`), a running commit is newer
  than every record (`CommitOK`), and a record of a name that is made after the
  commit of the name has no older snapshot (`MovedOK`).  Catalog
  files may go bad, snapshots too; `CommitsVerify` asks that the catalog can read
  the snapshots of the commits, and `LinesVerify` those that the lines name, at
  each step.  Both are needed: a line whose snapshot is bad has no time and an
  older record wins (section 4).  `SoundLoss`: the snapshots and tables of the
  copies are intact, and the lost repository was one whose records are each of
  the newest snapshot of their name, as pack writes them.  `NamesInv` says of a running pack
  that its disc has a record of each line (`PackNames`), and of an earlier one
  that each of its names is in the ledger or has a line (`PackedNames`).  A copy with a
  damaged REFS table leaves a disc that counts as recovered, whose refs come to
  no ledger: `SoundTables`.  The run `catalog` meets
  these conditions: no snapshot goes bad in it.

- `CutsAreOfContent` needs `StreamInv`: what is in the buffer and behind it is the
  file from the end of the last chunk on.  The cut of the code looks at a sliding
  fingerprint of a buffer, the closed form at the whole content: the fingerprint
  is the weighted sum of the gear numbers modulo the word by induction over the
  offset, and a buffer which is not full is at the end of the file.
- The properties of `PackOrder` speak of what a program computes in one step, so
  their invariant is one of the walk.  `WalkOK` holds between any two visits:
  the units are what the walk has taken (`TakenUnits`), each once (`UnitsDiffer`)
  and after its children (`UnitsClosed`); what is seen is taken or on a disc
  (`SeenTaken`); what is marked bad has something unsound below (`BadUnsound`);
  what is met has all below it met (`MetCovers`), but for what the walk may
  leave to a disc (`Settled`).  A visit keeps it when the visits of the children do
  (`VisitedWell`), thus every visit does (`VisitOK`), then the walk of the
  snapshots (`WalkedOK`), the second one, which meets all that the first one met
  (`SecondMeets`), the orphans (`OrphansOK`), the plans that are built again
  (`PlanOK`) and the copies that find a bad chunk (`PackRunOK`).  `OrderOK` adds the
  pack order.  Then each property follows from the type of the item log.
  `TakesEverySound` and `OlderFirst` need `Undecided = {}` (sections 3 and 4).
- `FitsWithoutCarried` needs no invariant: `SelectedRunFits` says that the rounding of
  the budget and of the check agree, and the fixed files are the same in both.

Each proof has one lemma per action, or one for the actions that change nothing
it asks about, and a last step that joins them.  The constants have the
assumptions that each module states as `...Assumption`: types, disjoint sets,
that the data of a lost repository is finite, and that `Needs` is transitive and no
item needs itself (an object names the ones below it by content hash).  TLC evaluates them in each run.
The parts of the invariants were checked by TLC on the instances of section 3
before they were proved.

**Recursive definitions.**  `Chunker` and `PackOrder` compute by recursive functions,
which TLA+ defines by CHOOSE: that such a function exists, and that it follows
its own definition, is something to prove.  The induction theorems of the
library take an operator as a parameter, which the provers cannot
instantiate.  Both modules thus prove a first-order form once.  In
`PackOrder_proofs`, `Grounded` says of a set with a map to smaller elements that no
subset of it goes down for ever, `Local` that a rule looks at smaller elements
only; `RecursionExists` and `GroundInduction` follow from these.  Instances are the
numbers up to n (a loop over entries), the subsets that shrink (the loop
over the snapshots, the orphans) or grow (the plan that is built again with more
damaged chunks), and the objects with their children, for which
`EntriesAssumption` is the whole reason: an object names the ones below it by
the hash of their content, so no set of objects is closed under going down.
`Chunker_proofs` does the same over ranks in the numbers.

**Only model-checked.**  Liveness under fairness (`EventuallyRestored`,
`EventuallyComplete`, `EventuallyRests`) is out of the reach of the provers that
are used here.  Every invariant and every step property of the passing runs is
proved.

## 6. Not modelled

- *Image build, UDF, on-disc formats, CRC and hash computations*
  (`src/internal/image/udf.go`, `src/internal/format`).  They are encodings; a bad
  byte appears in the models as a bad record, object, table or copy.
- *Command line, configuration, layout, output, progress and state documents*
  (`src/cmd/noahsark/cli.go` and others).  They decide nothing about the stored
  state.  Of the printed text only the `next:` block of `status` and the warnings
  about the logs are modelled.  The advice lines that other commands print are not.
- *Listings* (`ls`, `log`, `restore --dry-run`): reads of what `Catalog` and `RecordLog` model.
- *pack --out and the close flag*: they change where a root is written and how it is
  burned, not the records.
- *The staging check of `openLogs`*: a staging directory that is not mounted ends a
  command before its first step.
- *Parts of commit*: symlinks, special files, excludes and nested
  directories.  They go through the same writer in the same order.
- *Parts of restore*: the path selection, the external sort of the plan,
  directories and links in the tree, and the prompt for a disc.  A power loss gives
  back what a rename replaced, but not a path that --overwrite unlinked.  A plan is given by
  what it assigns to each chunk.
- *Disc sizes by media name* and the space check of the host.

## 7. Plan

1. `Repository` with whole batches as an implementation of a log of atomic
   commands, under the pending repair as refinement mapping.
2. `Restore` over a `Repository`: commands with the lock beside a running restore.
3. Directories and links in `Commit` and `Restore`.
