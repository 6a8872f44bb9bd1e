-------------------------------- MODULE Restore --------------------------------
(* The disc swap restore (internal/restore, internal/plan and the loop of     *)
(* cmd/noahsark/cmd_restore.go): one walk of the selection for each chunk     *)
(* source, part files, and runs that stop and are run again.  A file is a     *)
(* sequence of positions, each with one chunk of its blob.                    *)
EXTENDS Integers, SequencesExt, FiniteSetsExt

CONSTANTS
  File, Chunk, Disc,
  Hole,          \* bytes that no restore wrote
  Foreign,       \* bytes of a file of the operator
  Snapshots,     \* the contents that the restores write: a set of [File -> Seq(Chunk)]
  Selected,      \* the files of the selection, in walk order
  On,            \* the chunks that the catalog INDEX of each disc lists
  Store,         \* the chunk files of the staging store at the start
  Losses,        \* the sets of discs that may be lost
  DiscOrder,     \* the discs by number
  NoLinks,       \* the files below a directory whose file system has no hard links
  Overwrite,     \* the values of --overwrite of the runs
  MaxStops,      \* bound: kills, power losses and discs that nobody inserts
  OverwriteStops,  \* bound: stops before a run with --overwrite
  MaxErrors,     \* bound: objects that do not read or verify
  MaxForeign,    \* bound: files that the operator puts at a destination
  PowerLosses    \* whether a stop can be a power loss

\* The selection names each file one time.
ASSUME SelectionAssumption ==
  /\ Selected \in Seq(File)
  /\ \A i, j \in DOMAIN Selected : Selected[i] = Selected[j] => i = j
  /\ Snapshots \subseteq [File -> Seq(Chunk)]
  /\ On \in [Disc -> SUBSET Chunk] /\ Range(DiscOrder) = Disc
  /\ NoLinks \subseteq File /\ Overwrite \subseteq BOOLEAN
  /\ Hole \notin Chunk /\ Foreign \notin Chunk

VARIABLES
  lost,     \* the discs that are lost
  dest,     \* the final name of each file
  part,     \* its part file
  linked,   \* files whose two names are one file
  synced,   \* files whose part file is flushed
  soft,     \* files whose final name is not flushed
  meta,     \* files that have the metadata of the snapshot
  store,    \* the chunk files of the staging store
  run,      \* the running restore, with its file state file
  done,     \* history: the last restore ended with exit code 0
  stops, errors, foreign   \* counters of the bounds

files == <<dest, part, linked, synced, soft, meta>>
vars == <<lost, files, store, run, done, stops, errors, foreign>>

Nowhere == [there |-> FALSE, pos |-> << >>]
Holding(p) == [there |-> TRUE, pos |-> p]
NoState == [pending |-> FALSE, remaining |-> 0, resume |-> FALSE]
Walk == DOMAIN Selected
NoSource == "nothing"
NoDisc == "no disc"   \* the source of the one walk that needs none

--------------------------------------------------------------------------------
(* The plan *)

\* The positions of a part file that hold the chunk of the blob.
ChunkAt(f, entries) == {i \in DOMAIN entries : i <= Len(part[f].pos) /\ part[f].pos[i] = entries[i]}

Restored(f, entries) == dest[f].there /\ dest[f].pos = entries

\* Scan: the chunks that a restore must still read.
Needed(content, ov) ==
  UNION {{content[f][i] : i \in DOMAIN content[f] \ ChunkAt(f, content[f])} :
           f \in {g \in Range(Selected) : ov \/ ~dest[g].there}}

\* restoreDiscs: the plan knows the lost discs and does not ask for them.
Usable == Disc \ lost

\* The first disc that lists c, of those that are not lost before the lost ones.
Preferred(c) ==
  LET holders == {i \in DOMAIN DiscOrder : c \in On[DiscOrder[i]]}
      good == {i \in holders : DiscOrder[i] \in Usable}
  IN DiscOrder[Min(IF good = {} THEN holders ELSE good)]

\* The one source of each needed chunk: the staging store, then a disc, else none.
Owner(c) ==
  CASE c \in store -> "store"
    [] c \notin store /\ (\E d \in Disc : c \in On[d]) -> Preferred(c)
    [] OTHER -> NoSource

--------------------------------------------------------------------------------
(* A run *)

NoRun == [at |-> "none", content |-> << >>, overwrite |-> FALSE, owner |-> << >>,
          todo |-> {}, source |-> NoDisc, first |-> FALSE, no |-> 0,
          states |-> [i \in Walk |-> NoState], st |-> NoState, wanted |-> {},
          failed |-> {}, skipped |-> {}]

Current == Selected[run.no]
Entries == run.content[Current]

\* The sources that supply a chunk and are not lost.
Sources(owner) == Range(owner) \cap (Usable \cup {"store"})
Owns(source, c) == c \in DOMAIN run.owner /\ run.owner[c] = source

\* The plan, and the sources to walk: a lost disc is not asked for, and with no
\* source the selection is walked one time.
Begin ==
  \E content \in Snapshots, ov \in Overwrite :
    /\ run.at = "none" /\ ~done /\ (ov => stops <= OverwriteStops)
    /\ LET need == Needed(content, ov)
           owner == [c \in need |-> Owner(c)]
           sources == Sources(owner)
       IN run' = [NoRun EXCEPT
                    !.at = "pick", !.content = content, !.overwrite = ov, !.owner = owner,
                    !.todo = IF sources = {} THEN {NoDisc} ELSE sources, !.first = TRUE]
    /\ UNCHANGED <<lost, files, store, done, stops, errors, foreign>>

\* The store comes first; then the disc at the mount point, whichever it is.
\* A source that no pending file needs is not walked.
PickSource ==
  /\ run.at = "pick" /\ run.todo # {}
  /\ \E s \in IF "store" \in run.todo THEN {"store"} ELSE run.todo :
       LET walks == run.first \/ \E i \in Walk : run.states[i].pending
       IN run' = [run EXCEPT !.todo = @ \ {s}, !.source = s, !.no = 1,
                             !.at = IF walks THEN "file" ELSE "pick"]
  /\ UNCHANGED <<lost, files, store, done, stops, errors, foreign>>

\* The slip that does not clear the record of a file that is complete.
NextFileKept(r, st) ==
  [r EXCEPT !.states[r.no] = IF st = NoState THEN @ ELSE st, !.no = @ + 1, !.at = "file",
            !.st = NoState, !.wanted = {}]

\* The walk goes on with the next file; st is what the file state file keeps.
NextFile(r, st) ==
  [r EXCEPT !.states[r.no] = st, !.no = @ + 1, !.at = "file", !.st = NoState, !.wanted = {}]

\* The slip that takes the count of a part file of an earlier run as nothing.
RegisterNew(f, entries) ==
  [pending |-> FALSE, remaining |-> Len(entries), resume |-> part[f].there]

\* register counts the positions that still owe their bytes.
Register(f, entries) ==
  [pending |-> FALSE, resume |-> part[f].there,
   remaining |-> Len(entries) - IF part[f].there THEN Cardinality(ChunkAt(f, entries)) ELSE 0]

\* The first walk decides an existing destination.
DecideExisting ==
  /\ run.at = "file" /\ run.no \in Walk
  /\ run.first /\ ~run.overwrite /\ dest[Current].there
  /\ IF Restored(Current, Entries)
     THEN /\ part' = [part EXCEPT ![Current] = Nowhere]
          /\ linked' = linked \ {Current}
          /\ run' = NextFile(run, NoState)
     ELSE /\ run' = [NextFile(run, NoState) EXCEPT !.skipped = @ \cup {Current}]
          /\ UNCHANGED <<part, linked>>
  /\ UNCHANGED <<lost, dest, synced, soft, meta, store, done, stops, errors, foreign>>

\* Ftruncate to the size of the tree entry.
Sized(p, n) == [i \in 1 .. n |-> IF i <= Len(p) THEN p[i] ELSE Hole]

\* One file of a walk: what this source gives to it.
VisitFile ==
  /\ run.at = "file" /\ run.no \in Walk
  /\ ~(run.first /\ ~run.overwrite /\ dest[Current].there)
  /\ LET f == Current
         st == IF run.first THEN Register(f, Entries) ELSE run.states[run.no]
         wanted == {i \in DOMAIN Entries : Owns(run.source, Entries[i])}
     IN IF ~run.first /\ ~st.pending
        THEN /\ run' = NextFile(run, NoState)
             /\ UNCHANGED <<files>>
        ELSE IF wanted = {} /\ st.remaining > 0
        THEN /\ run' = NextFile(run, [st EXCEPT !.pending = TRUE])
             /\ UNCHANGED <<files>>
        ELSE /\ run' = [run EXCEPT !.at = "write", !.st = st, !.wanted = wanted]
             /\ part' = [part EXCEPT ![f] = Holding(Sized(@.pos, Len(Entries)))]
             /\ dest' = IF f \in linked THEN [dest EXCEPT ![f] = part'[f]] ELSE dest
             /\ synced' = synced \ {f}
             /\ UNCHANGED <<linked, soft, meta>>
  /\ UNCHANGED <<lost, store, done, stops, errors, foreign>>

\* A problem of one file: it is not pending any more, and the walk goes on.
Fails(r) == [NextFile(r, NoState) EXCEPT !.failed = @ \cup {Current}]

\* A chunk file that gc removed after the plan does not read.
Supplies(source, c) == source # "store" \/ c \in store

WriteChunk ==
  /\ run.at = "write" /\ run.wanted # {}
  /\ LET f == Current
         i == Min(run.wanted)
         rest == [run EXCEPT !.wanted = @ \ {i}]
     IN \/ /\ run.st.resume /\ i \in ChunkAt(f, Entries)
           /\ run' = rest
           /\ UNCHANGED <<lost, files, errors>>
        \/ /\ ~(run.st.resume /\ i \in ChunkAt(f, Entries)) /\ run.st.remaining > 0
           /\ Supplies(run.source, Entries[i])
           /\ part' = [part EXCEPT ![f].pos[i] = Entries[i]]
           /\ dest' = IF f \in linked THEN [dest EXCEPT ![f] = part'[f]] ELSE dest
           /\ run' = [rest EXCEPT !.st.remaining = @ - 1]
           /\ UNCHANGED <<lost, linked, synced, soft, meta, errors>>
        \/ /\ ~(run.st.resume /\ i \in ChunkAt(f, Entries))
           /\ \/ run.st.remaining = 0 /\ UNCHANGED errors
              \/ ~Supplies(run.source, Entries[i]) /\ UNCHANGED errors
              \/ errors < MaxErrors /\ errors' = errors + 1
           /\ run' = Fails(run)
           /\ UNCHANGED files
  /\ UNCHANGED <<lost, store, done, stops, foreign>>

WriteEnds ==
  /\ run.at = "write" /\ run.wanted = {}
  /\ run' = IF run.st.remaining = 0 THEN [run EXCEPT !.at = "seal"]
            ELSE NextFile(run, [run.st EXCEPT !.pending = TRUE])
  /\ UNCHANGED <<lost, files, store, done, stops, errors, foreign>>

\* The slip that links a part file when its count is zero, and does not flush it.
SealByCount ==
  /\ run.at = "seal"
  /\ run' = [run EXCEPT !.at = IF run.overwrite /\ dest[Current].there THEN "unlink" ELSE "link"]
  /\ UNCHANGED <<lost, files, store, done, stops, errors, foreign>>

\* The size and each chunk, read again from the part file.
Matches(f, entries) == part[f].pos = entries

\* sealPart: the whole part file is read again and flushed.
SealPart ==
  /\ run.at = "seal"
  /\ IF Matches(Current, Entries)
     THEN /\ run' = [run EXCEPT !.at = IF run.overwrite /\ dest[Current].there
                                       THEN "unlink" ELSE "link"]
          /\ synced' = synced \cup {Current}
     ELSE /\ run' = Fails(run)
          /\ UNCHANGED synced
  /\ UNCHANGED <<lost, dest, part, linked, soft, meta, store, done, stops, errors, foreign>>

UnlinkExisting ==
  /\ run.at = "unlink"
  /\ dest' = [dest EXCEPT ![Current] = Nowhere]
  /\ linked' = linked \ {Current}
  /\ run' = [run EXCEPT !.at = "link"]
  /\ UNCHANGED <<lost, part, synced, soft, meta, store, done, stops, errors, foreign>>

\* The slip that renames the part file over what is there.
LinkPartOver ==
  /\ run.at = "link"
  /\ dest' = [dest EXCEPT ![Current] = part[Current]]
  /\ linked' = linked \cup {Current}
  /\ soft' = soft \cup {Current}
  /\ meta' = meta \ {Current}
  /\ run' = [run EXCEPT !.at = "remove"]
  /\ UNCHANGED <<lost, part, synced, store, done, stops, errors, foreign>>

\* os.Link fails when the final name exists; the fallback looks with Lstat.
LinkFails == dest[Current].there

\* The part file goes when the name exists.  Without hard links this step only
\* looks, and the rename is a step of its own.
LinkPart ==
  /\ run.at = "link"
  /\ \/ /\ LinkFails
        /\ part' = [part EXCEPT ![Current] = Nowhere]
        /\ linked' = linked \ {Current}
        /\ run' = [NextFile(run, NoState) EXCEPT !.skipped = @ \cup {Current}]
        /\ UNCHANGED <<dest, soft, meta>>
     \/ /\ ~LinkFails /\ Current \in NoLinks
        /\ run' = [run EXCEPT !.at = "rename"]
        /\ UNCHANGED <<dest, part, linked, soft, meta>>
     \/ /\ ~LinkFails /\ Current \notin NoLinks
        /\ dest' = [dest EXCEPT ![Current] = part[Current]]
        /\ linked' = linked \cup {Current}
        /\ soft' = soft \cup {Current}
        /\ meta' = meta \ {Current}
        /\ run' = [run EXCEPT !.at = "remove"]
        /\ UNCHANGED part
  /\ UNCHANGED <<lost, synced, store, done, stops, errors, foreign>>

\* os.Rename replaces what is at the final name by now; removePart then finds
\* no part file.
RenamePart ==
  /\ run.at = "rename"
  /\ dest' = [dest EXCEPT ![Current] = part[Current]]
  /\ part' = [part EXCEPT ![Current] = Nowhere]
  /\ soft' = soft \cup {Current}
  /\ meta' = meta \ {Current}
  /\ run' = [run EXCEPT !.at = "metadata"]
  /\ UNCHANGED <<lost, linked, synced, store, done, stops, errors, foreign>>

\* A path that --overwrite cannot unlink, or another error of the link or the
\* rename: the file is reported and the part file goes.
NameFails ==
  /\ run.at \in {"unlink", "link", "rename"}
  /\ errors < MaxErrors /\ errors' = errors + 1
  /\ part' = [part EXCEPT ![Current] = Nowhere]
  /\ linked' = linked \ {Current}
  /\ run' = Fails(run)
  /\ UNCHANGED <<lost, dest, synced, soft, meta, store, done, stops, foreign>>

RemovePart ==
  /\ run.at = "remove"
  /\ part' = [part EXCEPT ![Current] = Nowhere]
  /\ linked' = linked \ {Current}
  /\ run' = [run EXCEPT !.at = "metadata"]
  /\ UNCHANGED <<lost, dest, synced, soft, meta, store, done, stops, errors, foreign>>

ApplyMetadata ==
  /\ run.at = "metadata"
  /\ meta' = meta \cup {Current}
  /\ run' = NextFile(run, NoState)
  /\ UNCHANGED <<lost, dest, part, linked, synced, soft, store, done, stops, errors, foreign>>

\* The slip that flushes no directory.
EndWalkUnflushed ==
  /\ run.at = "file" /\ run.no \notin Walk
  /\ run' = [run EXCEPT !.at = "pick", !.first = FALSE]
  /\ UNCHANGED <<lost, files, store, done, stops, errors, foreign>>

\* flushLinkedDir, at the end of each walk.
EndWalk ==
  /\ run.at = "file" /\ run.no \notin Walk
  /\ soft' = {}
  /\ run' = [run EXCEPT !.at = "pick", !.first = FALSE]
  /\ UNCHANGED <<lost, dest, part, linked, synced, meta, store, done, stops, errors, foreign>>

\* The last walk names the files that no source completed.
Finish ==
  /\ run.at = "pick" /\ run.todo = {}
  /\ LET incomplete == {Selected[i] : i \in {j \in Walk : run.states[j].pending}}
     IN /\ run' = [NoRun EXCEPT !.content = run.content, !.failed = run.failed \cup incomplete,
                                !.skipped = run.skipped, !.overwrite = run.overwrite]
        /\ done' = (run.failed \cup incomplete \cup run.skipped = {})
  /\ UNCHANGED <<lost, files, store, stops, errors, foreign>>

RunStep ==
  \/ PickSource \/ DecideExisting \/ VisitFile \/ WriteChunk \/ WriteEnds
  \/ SealPart \/ UnlinkExisting \/ LinkPart \/ RenamePart \/ NameFails \/ RemovePart \/ ApplyMetadata
  \/ EndWalk \/ Finish

--------------------------------------------------------------------------------
(* Outside *)

\* A kill, or a disc that nobody inserts: only the names below the destination
\* stay.
Stop ==
  /\ run.at # "none" /\ stops < MaxStops
  /\ run' = NoRun
  /\ stops' = stops + 1
  /\ UNCHANGED <<lost, files, store, done, errors, foreign>>

\* What a power loss leaves of the names of f: unflushed bytes are lost, and an
\* unflushed final name can be gone, or have its part file still beside it.  A
\* rename is whole or not at all, and what it replaced can be back.
Survivors(f) ==
  LET flushed(p) == IF f \in synced THEN {p}
                 ELSE {Holding([i \in DOMAIN p.pos |-> IF i \in S THEN Hole ELSE p.pos[i]]) :
                         S \in SUBSET DOMAIN p.pos}
      beside(d) == IF f \notin NoLinks THEN {<<d, d, TRUE>>}
                   ELSE IF foreign > 0 THEN {<<Holding(<<Foreign>>), d, FALSE>>} ELSE {}
  IN IF f \notin soft
     THEN {<<dest[f], p, f \in linked>> :
             p \in IF part[f].there /\ f \notin linked THEN flushed(part[f]) ELSE {part[f]}}
     ELSE UNION {{<<d, Nowhere, FALSE>>, <<Nowhere, d, FALSE>>} \cup beside(d) : d \in flushed(dest[f])}

PowerLoss ==
  /\ PowerLosses /\ stops < MaxStops
  /\ \E after \in [File -> UNION {Survivors(f) : f \in File}], kept \in SUBSET (meta \cap soft) :
       /\ \A f \in File : after[f] \in Survivors(f)
       /\ dest' = [f \in File |-> after[f][1]]
       /\ part' = [f \in File |-> after[f][2]]
       /\ linked' = {f \in File : after[f][3]}
       /\ meta' = (meta \ soft) \cup kept
  /\ synced' = File
  /\ soft' = {}
  /\ run' = IF run.at = "none" THEN run ELSE NoRun
  /\ stops' = stops + 1
  /\ UNCHANGED <<lost, store, done, errors, foreign>>

\* The operator, or another program, makes a file at a destination.
PutForeign ==
  \E f \in File :
    /\ foreign < MaxForeign /\ ~dest[f].there
    /\ dest' = [dest EXCEPT ![f] = Holding(<<Foreign>>)]
    /\ foreign' = foreign + 1
    /\ UNCHANGED <<lost, part, linked, synced, soft, meta, store, run, done, stops, errors>>

\* gc runs beside the restore and removes chunk files that a disc holds.
GcRemoves ==
  \E c \in store :
    /\ \E d \in Disc \ lost : c \in On[d]
    /\ store' = store \ {c}
    /\ UNCHANGED <<lost, files, run, done, stops, errors, foreign>>

--------------------------------------------------------------------------------

Init ==
  /\ dest = [f \in File |-> Nowhere]
  /\ part = [f \in File |-> Nowhere]
  /\ linked = {} /\ synced = File /\ soft = {} /\ meta = {}
  /\ lost \in Losses
  /\ store = Store
  /\ run = NoRun
  /\ done = FALSE
  /\ stops = 0 /\ errors = 0 /\ foreign = 0

Next == Begin \/ RunStep \/ Stop \/ PowerLoss \/ PutForeign \/ GcRemoves

Spec == Init /\ [][Next]_vars

\* The operator runs the same restore until its exit code is 0, and each run
\* goes on until it ends or stops.
FairSpec == Spec /\ WF_vars(Begin) /\ WF_vars(RunStep)

--------------------------------------------------------------------------------
(* Properties *)

\* A final name never has a part of a file: it holds one whole content of a
\* snapshot, or what the operator put there, also after a kill or a power loss
\* ("a power loss cannot leave the final name with no data", finishPart).
NamedFileWhole ==
  \A f \in File : dest[f].there =>
    dest[f].pos = <<Foreign>> \/ \E s \in Snapshots : dest[f].pos = s[f]

\* The count that decides when a file is complete is the number of positions
\* that its part file does not hold, across walks and runs, so no file ends
\* early, no position is written twice and none is asked for in vain.
CountIsOwed ==
  \A i \in Walk :
    LET st == IF run.at = "write" /\ i = run.no THEN run.st ELSE run.states[i]
        entries == run.content[Selected[i]]
    IN /\ run.at # "none"
       /\ st.pending \/ (run.at = "write" /\ i = run.no)
       /\ run.at \in {"seal", "unlink", "link", "rename", "remove", "metadata"} => i # run.no
       => st.remaining = Cardinality(DOMAIN entries \ ChunkAt(Selected[i], entries))

\* When a run ends, each file of the selection has its content under its final
\* name or is named as failed or as skipped; a later power loss does not take
\* that away.
EveryFileAccounted ==
  run.at = "none" /\ run.content # << >> =>
    \A f \in Range(Selected) :
      Restored(f, run.content[f]) \/ f \in run.failed \cup run.skipped

\* A file that is named as not restored is not there with its content, unless an
\* earlier run put it there and --overwrite could not write it again.
FailedIsNotRestored ==
  run.at = "none" /\ ~run.overwrite /\ run.content # << >> =>
    \A f \in run.failed : ~Restored(f, run.content[f])

\* A run without --overwrite changes no file that is at a destination, even when
\* it appears while the run works.  Only where the file system has no hard links
\* the rename may replace the file that it makes, when another program put one
\* there after the run had found none: the race that linkPart names.
NothingOverwritten ==
  [][\A f \in File : dest[f].there /\ ~run.overwrite /\ stops' = stops =>
       dest'[f] = dest[f] \/ (f \in NoLinks /\ run.at = "rename" /\ f = Current)]_vars

\* Restored files have the metadata of the snapshot.
RestoredHasMetadata == done => Range(Selected) \subseteq meta

\* When no disc is lost and nobody else makes a file at a destination, an operator
\* who runs restore again after each stop, bad read and chunk file that gc removed
\* ends with exit code 0.
EventuallyRestored == <>(done \/ lost # {} \/ foreign > 0)

================================================================================
