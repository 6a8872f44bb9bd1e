--------------------------------- MODULE Commit ---------------------------------
(* commit: cmd/noahsark/cmd_commit.go, internal/object/writer.go and          *)
(* internal/object/durable.go.  A live source is read while it changes; the   *)
(* object files go through temporary files and groups that a background flush *)
(* syncs and renames; records, completeness and ref follow.                   *)
EXTENDS Integers, SequencesExt, FiniteSetsExt, Functions

CONSTANTS
  Path, Chunk,
  Walked,        \* the regular files of the source, in walk order
  Version,       \* the contents of each file by version: [Path -> Seq(Seq(Chunk))]
  Known,         \* the item records of chunks at the start
  Damaged,       \* chunks whose chunk file has a wrong size at the start
  BatchMax,      \* files of one group
  RetryUnstable, \* reads after the first one
  MaxSnapshots,  \* bound: commits
  MaxStops,      \* bound: kills
  MaxPower,      \* bound: power losses
  PowerFirst,    \* bound: no power loss after a kill or a failure
  MaxErrors      \* bound: reads, syncs and renames that fail

ASSUME CommitAssumption ==
  /\ Walked \in Seq(Path)
  /\ Version \in [Path -> Seq(Seq(Chunk))] /\ \A p \in Path : Version[p] # << >>
  /\ BatchMax \in Nat \ {0} /\ RetryUnstable \in Nat
  /\ Known \in [DOMAIN Known -> {"Staged", "Packed", "OnDisc", "Lost"}]

VARIABLES
  source,    \* the version of each file, and whether it is gone
  named,     \* objects with a file under its final name
  damaged,   \* those whose file has the wrong bytes
  synced,    \* objects whose bytes were synced before the rename
  soft,      \* names whose directory was not synced after them
  log,       \* the item records
  complete,  \* the snapshots that the completeness file marks complete
  refs,      \* the snapshots that the ref named
  run,       \* the running commit
  group,     \* the temporary files of the current group
  flush,     \* the background flush
  commits, stops, power, errors   \* counters of the bounds

objects == <<named, damaged, synced, soft>>
repo == <<log, complete, refs>>
bounds == <<commits, stops, power, errors>>
vars == <<source, objects, repo, run, group, flush, bounds>>

\* An object is its kind with what gives its content id.
Blob(chunks) == [kind |-> "blob", of |-> chunks]
Tree(entries) == [kind |-> "tree", of |-> entries]
RootTree(tree) == [kind |-> "root", of |-> tree]
Snapshot(root, no) == [kind |-> "snapshot", of |-> <<root, no>>]
ChunkObject(c) == [kind |-> "chunk", of |-> c]

State(o) == IF o \in DOMAIN log THEN log[o] ELSE "none"

\* Every object that a snapshot reaches, by its content.
Reach(s) ==
  LET root == s.of[1]
      tree == root.of
      blobs == {Blob(e.chunks) : e \in Range(tree.of)}
  IN {s, root, tree} \cup blobs \cup {ChunkObject(c) : c \in UNION {Range(b.of) : b \in blobs}}

NoFlush == [files |-> << >>, phase |-> "none"]
NoRun == [at |-> "idle", no |-> 0, before |-> 0, attempt |-> 0, pos |-> << >>, new |-> {},
          reachable |-> {}, dropped |-> {}, dirty |-> {}, entries |-> << >>, tree |-> << >>,
          there |-> {}, ended |-> "no"]

Current == Walked[run.no]
Content(p) == Version[p][source[p].version]

--------------------------------------------------------------------------------
(* The source *)

\* A program changes a file in place; each change gives another mtime.
Change ==
  \E p \in Path :
    /\ ~source[p].gone /\ source[p].version < Len(Version[p])
    /\ source' = [source EXCEPT ![p].version = @ + 1]
    /\ UNCHANGED <<objects, repo, run, group, flush, bounds>>

Vanish ==
  \E p \in Path :
    /\ run.at # "idle" /\ ~source[p].gone
    /\ source' = [source EXCEPT ![p].gone = TRUE]
    /\ UNCHANGED <<objects, repo, run, group, flush, bounds>>

--------------------------------------------------------------------------------
(* Object files *)

InBatch(o) == o \in Range(group) \cup Range(flush.files)

OnDisc(c) == State(ChunkObject(c)) \in {"Packed", "OnDisc"}

\* The slip that keeps every file under the right name.
NeedsFileByName(o) == ~InBatch(o) /\ o \notin named

\* A file of the batch and a file under its name count, unless its bytes are
\* wrong: the size of a chunk file, all bytes of a metadata object.
NeedsFile(o) == ~InBatch(o) /\ (o \notin named \/ o \in damaged)

\* The writer waits in start while its group is full.
Works == run.at # "idle" /\ Len(group) < BatchMax

\* A write of one object gives a temporary file to the group.
Grouped(o) == IF NeedsFile(o) THEN Append(group, o) ELSE group
Dirty(r, o) == IF NeedsFile(o) THEN [r EXCEPT !.dirty = @ \cup {o}] ELSE r

Failed == [NoRun EXCEPT !.ended = "failed"]

StartFlush ==
  /\ Len(group) >= BatchMax \/ (run.at = "flush" /\ group # << >>)
  /\ flush.phase = "none"
  /\ flush' = [files |-> group, phase |-> "sync"]
  /\ group' = << >>
  /\ UNCHANGED <<source, objects, repo, run, bounds>>

FlushSync ==
  /\ flush.phase = "sync"
  /\ synced' = synced \cup Range(flush.files)
  /\ flush' = [flush EXCEPT !.phase = "rename"]
  /\ UNCHANGED <<source, named, damaged, soft, repo, run, group, bounds>>

FlushRename ==
  /\ flush.phase = "rename" /\ flush.files # << >>
  /\ LET o == Head(flush.files) IN
     /\ named' = named \cup {o}
     /\ damaged' = damaged \ {o}
     /\ soft' = soft \cup {o}
  /\ flush' = [flush EXCEPT !.files = Tail(@)]
  /\ UNCHANGED <<source, synced, repo, run, group, bounds>>

\* A sync or a rename fails: the rest of the group goes away.
FlushFails ==
  /\ flush.phase \in {"sync", "rename"} /\ flush.files # << >> /\ errors < MaxErrors
  /\ flush' = [files |-> << >>, phase |-> "failed"]
  /\ errors' = errors + 1
  /\ UNCHANGED <<source, objects, repo, run, group, commits, stops, power>>

\* wait: the end of the background flush, or its error, which ends the commit.
FlushDone ==
  /\ flush.files = << >> /\ flush.phase \in {"rename", "failed"}
  /\ Len(group) >= BatchMax \/ run.at = "flush"
  /\ flush' = NoFlush
  /\ IF flush.phase = "failed"
     THEN run' = Failed /\ group' = << >>
     ELSE UNCHANGED <<run, group>>
  /\ UNCHANGED <<source, objects, repo, bounds>>

--------------------------------------------------------------------------------
(* The walk *)

Begin ==
  /\ run.at = "idle" /\ commits < MaxSnapshots
  /\ run' = [NoRun EXCEPT !.at = "stat", !.no = 1, !.there = named]
  /\ commits' = commits + 1
  /\ UNCHANGED <<source, objects, repo, group, flush, stops, power, errors>>

NextPath(r) == [r EXCEPT !.at = "stat", !.no = @ + 1, !.attempt = 0, !.pos = << >>, !.new = {}]

\* The stat of commitEntry, and the open of the file.
StatBefore ==
  /\ Works /\ run.at = "stat" /\ run.no <= Len(Walked)
  /\ run' = IF source[Current].gone THEN NextPath(run)
            ELSE [run EXCEPT !.at = "read", !.before = source[Current].version]
  /\ UNCHANGED <<source, objects, repo, group, flush, bounds>>

\* The slip of a dropped read that forgets the chunk files that it wrote.
DropNothing(r) == r

\* drop: the chunk files that a read wrote wait for removeDropped.
Drop(r) == [r EXCEPT !.dropped = @ \cup r.new]

\* One chunk, cut from the bytes that the file has now.
ReadChunk ==
  /\ Works /\ run.at = "read" /\ Len(run.pos) < Len(Content(Current))
  /\ LET c == Content(Current)[Len(run.pos) + 1]
         o == ChunkObject(c)
         r == [run EXCEPT !.pos = Append(@, c)]
     IN IF OnDisc(c) \/ ~NeedsFile(o)
        THEN run' = r /\ UNCHANGED group
        ELSE run' = Dirty([r EXCEPT !.new = @ \cup {o}], o) /\ group' = Grouped(o)
  /\ UNCHANGED <<source, objects, repo, flush, bounds>>

\* An open or a read error part way: the path is skipped.
ReadFails ==
  /\ Works /\ run.at = "read"
  /\ \/ errors < MaxErrors /\ errors' = errors + 1
     \/ source[Current].gone /\ run.pos = << >> /\ UNCHANGED errors
  /\ run' = NextPath(Drop(run))
  /\ UNCHANGED <<source, objects, repo, group, flush, commits, stops, power>>

\* keep: a chunk file that a dropped read wrote stays when a kept read has it.
Keep(r) ==
  LET chunks == {ChunkObject(c) : c \in Range(r.pos)}
  IN [r EXCEPT !.reachable = @ \cup chunks \cup {Blob(r.pos)}, !.dropped = @ \ chunks]

Differs == source[Current].gone \/ source[Current].version # run.before

\* The slip that takes the last read for a stable one.
StatAfterTrusting ==
  /\ Works /\ run.at = "read" /\ Len(run.pos) >= Len(Content(Current))
  /\ LET entry == [path |-> Current, chunks |-> run.pos, unstable |-> FALSE]
     IN run' = Dirty(NextPath([Keep(run) EXCEPT !.entries = Append(@, entry)]), Blob(run.pos))
  /\ group' = Grouped(Blob(run.pos))
  /\ UNCHANGED <<source, objects, repo, flush, bounds>>

\* The stat after the read: keep it, or drop it and read the file again.
StatAfter ==
  /\ Works /\ run.at = "read" /\ Len(run.pos) >= Len(Content(Current))
  /\ IF ~Differs \/ run.attempt >= RetryUnstable
     THEN LET entry == [path |-> Current, chunks |-> run.pos, unstable |-> Differs]
          IN /\ run' = Dirty(NextPath([Keep(run) EXCEPT !.entries = Append(@, entry)]), Blob(run.pos))
             /\ group' = Grouped(Blob(run.pos))
     ELSE /\ run' = IF source[Current].gone THEN NextPath(Drop(run))
                    ELSE [Drop(run) EXCEPT !.attempt = @ + 1, !.pos = << >>, !.new = {},
                                           !.before = source[Current].version]
          /\ UNCHANGED group
  /\ UNCHANGED <<source, objects, repo, flush, bounds>>

WriteTree ==
  /\ Works /\ run.at = "stat" /\ run.no > Len(Walked)
  /\ LET o == Tree(run.entries) IN
     /\ run' = Dirty([run EXCEPT !.at = "root", !.tree = o, !.reachable = @ \cup {o}], o)
     /\ group' = Grouped(o)
  /\ UNCHANGED <<source, objects, repo, flush, bounds>>

WriteRootTree ==
  /\ Works /\ run.at = "root"
  /\ LET o == RootTree(run.tree) IN
     /\ run' = Dirty([run EXCEPT !.at = "snapshot", !.tree = o, !.reachable = @ \cup {o}], o)
     /\ group' = Grouped(o)
  /\ UNCHANGED <<source, objects, repo, flush, bounds>>

\* The snapshot object; its time makes it another one in each commit.
WriteSnapshot ==
  /\ Works /\ run.at = "snapshot"
  /\ LET o == Snapshot(run.tree, commits) IN
     /\ run' = Dirty([run EXCEPT !.at = "flush", !.tree = o], o)
     /\ group' = Grouped(o)
  /\ UNCHANGED <<source, objects, repo, flush, bounds>>

--------------------------------------------------------------------------------
(* After the walk *)

FlushEnds ==
  /\ run.at = "flush" /\ group = << >> /\ flush.phase = "none"
  /\ run' = [run EXCEPT !.at = "remove"]
  /\ UNCHANGED <<source, objects, repo, group, flush, bounds>>

\* The slip that removes what the snapshot does not reach, recorded or not.
RemovableUnreached(o) == o \in run.dropped \ run.reachable

Removable(o) == o \in run.dropped \ run.reachable /\ State(o) = "none"

RemoveDropped ==
  /\ run.at = "remove"
  /\ IF \E o \in run.dropped \cap named : Removable(o)
     THEN /\ \E o \in run.dropped \cap named : Removable(o) /\ named' = named \ {o}
          /\ damaged' = damaged \cap named'
          /\ soft' = soft \cap named'
          /\ UNCHANGED run
     ELSE /\ run' = [run EXCEPT !.at = "sync"]
          /\ UNCHANGED <<named, damaged, soft>>
  /\ UNCHANGED <<source, synced, repo, group, flush, bounds>>

\* An error of a removal ends the commit: what it removed before stays removed.
RemoveFails ==
  /\ run.at = "remove" /\ errors < MaxErrors
  /\ \E o \in run.dropped \cap named : Removable(o)
  /\ run' = Failed
  /\ errors' = errors + 1
  /\ UNCHANGED <<source, objects, repo, group, flush, commits, stops, power>>

\* syncDirtyDirs: the directories that got a name in this commit.
SyncDirs ==
  /\ run.at = "sync"
  /\ \/ /\ soft' = soft \ run.dirty
        /\ run' = [run EXCEPT !.at = "record"]
        /\ UNCHANGED errors
     \/ /\ errors < MaxErrors /\ errors' = errors + 1
        /\ run' = Failed
        /\ UNCHANGED soft
  /\ UNCHANGED <<source, named, damaged, synced, repo, group, flush, commits, stops, power>>

\* markStaged: the snapshot and what its root tree reaches, in one batch.
MarkStaged ==
  /\ run.at = "record"
  /\ LET new == {o \in run.reachable \cup {run.tree} : State(o) \in {"none", "Lost"}}
     IN log' = [o \in DOMAIN log \cup new |-> IF o \in new THEN "Staged" ELSE log[o]]
  /\ run' = [run EXCEPT !.at = "complete"]
  /\ UNCHANGED <<source, objects, complete, refs, group, flush, bounds>>

MarkComplete ==
  /\ run.at = "complete"
  /\ complete' = complete \cup {run.tree}
  /\ run' = [run EXCEPT !.at = "ref"]
  /\ UNCHANGED <<source, objects, log, refs, group, flush, bounds>>

UpdateRef ==
  /\ run.at = "ref"
  /\ refs' = refs \cup {run.tree}
  /\ run' = [NoRun EXCEPT !.there = run.there, !.ended = "ok"]
  /\ UNCHANGED <<source, objects, log, complete, group, flush, bounds>>

--------------------------------------------------------------------------------
(* Faults *)

Kill ==
  /\ run.at # "idle" /\ stops < MaxStops
  /\ run' = NoRun /\ group' = << >> /\ flush' = NoFlush
  /\ stops' = stops + 1
  /\ UNCHANGED <<source, objects, repo, commits, power, errors>>

\* A name of a directory that was not synced can go, and with it the object;
\* bytes that were not synced before the rename can be lost under the name.
PowerLoss ==
  /\ power < MaxPower /\ (PowerFirst => stops = 0 /\ errors = 0)
  /\ \E lost \in SUBSET soft :
       /\ named' = named \ lost
       /\ damaged' = (damaged \cup (named \ synced)) \ lost
  /\ soft' = {}
  /\ run' = NoRun /\ group' = << >> /\ flush' = NoFlush
  /\ power' = power + 1
  /\ UNCHANGED <<source, synced, repo, commits, stops, errors>>

--------------------------------------------------------------------------------

Init ==
  /\ source = [p \in Path |-> [version |-> 1, gone |-> FALSE]]
  /\ log = [o \in {ChunkObject(c) : c \in DOMAIN Known} |-> Known[o.of]]
  /\ named = {ChunkObject(c) : c \in Damaged}
  /\ damaged = named /\ synced = named /\ soft = {}
  /\ complete = {} /\ refs = {}
  /\ run = NoRun /\ group = << >> /\ flush = NoFlush
  /\ commits = 0 /\ stops = 0 /\ power = 0 /\ errors = 0

Next ==
  \/ Change \/ Vanish
  \/ StartFlush \/ FlushSync \/ FlushRename \/ FlushFails \/ FlushDone
  \/ Begin \/ StatBefore \/ ReadChunk \/ ReadFails \/ StatAfter
  \/ WriteTree \/ WriteRootTree \/ WriteSnapshot
  \/ FlushEnds \/ RemoveDropped \/ RemoveFails \/ SyncDirs \/ MarkStaged \/ MarkComplete \/ UpdateRef
  \/ Kill \/ PowerLoss

Spec == Init /\ [][Next]_vars

--------------------------------------------------------------------------------
(* Properties *)

\* Each object that the snapshot of a ref reaches has a record, and a file with
\* its bytes when the record says that no disc has it: also after a kill, a
\* failed sync, and reads that were dropped and whose chunk files are removed.
CommittedIsWhole ==
  \A s \in refs : \A o \in Reach(s) :
    \/ State(o) \in {"Packed", "OnDisc"}
    \/ State(o) = "Staged" /\ o \in named \ damaged

\* An entry without the UNSTABLE flag holds one version of its file, although
\* the chunks are read one by one while a program changes the file.
EntryIsOneVersion ==
  \A s \in refs : \A e \in Range(s.of[1].of.of) :
    e.unstable \/ \E v \in DOMAIN Version[e.path] : e.chunks = Version[e.path][v]

\* A commit that ends leaves no chunk file of a dropped read that neither its
\* snapshot nor a record names.
DroppedAreGone ==
  run.ended = "ok" /\ power = 0 =>
    \A o \in named \ run.there : State(o) # "none"

\* No step but a power loss removes a file that a record or a ref needs.
NeededFilesStay ==
  [][\A o \in named \ named' : power' # power \/ (State(o) = "none" /\ \A s \in refs : o \notin Reach(s))]_vars

================================================================================
