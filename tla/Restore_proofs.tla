---------------------------- MODULE Restore_proofs ----------------------------
(***************************************************************************)
(* Proofs about the restore, for every selection, set of snapshots and     *)
(* discs, and every number of stops, power losses, bad reads and foreign   *)
(* files.                                                                  *)
(*                                                                         *)
(* None of the properties is inductive.  A final name is whole because the *)
(* part file that is linked was read again after the last write, and       *)
(* because no walk writes into a file that a stop left with two names:     *)
(* linked, soft and synced need that history.  What a run that ends has    *)
(* told of each file rests on what it knew of it at each step of each      *)
(* walk, and the count of a part file on which sources the walks before    *)
(* have already asked.                                                     *)
(***************************************************************************)
EXTENDS Restore, FiniteSetTheorems, TLAPS

--------------------------------------------------------------------------------
(* The inductive invariant *)

\* A run with --overwrite starts before the first stop: what a stop leaves of two
\* names that are one file is then decided by a run that writes no such file.
NoLateOverwrite == TRUE \in Overwrite => OverwriteStops = 0

Building == run.at \in {"write", "seal", "unlink", "link", "rename"}
Linking == run.at \in {"remove", "metadata"}
Working == run.at # "none"

\* The walk has still to come to the end of its file i.
AheadOf(i) == IF run.at = "pick" THEN run.first ELSE run.no <= i

InHand(i) == i = run.no /\ (Building \/ Linking)

Names == {Nowhere} \cup {Holding(p) : p \in Seq(Chunk \cup {Hole, Foreign})}
FileState == [pending : BOOLEAN, remaining : Int, resume : BOOLEAN]

FilesOK ==
  /\ dest \in [File -> Names] /\ part \in [File -> Names]
  /\ linked \subseteq File /\ synced \subseteq File /\ soft \subseteq File /\ meta \subseteq File
  /\ stops \in Nat

RunOK ==
  /\ DOMAIN run = {"at", "content", "overwrite", "owner", "todo", "source", "first", "no",
                   "states", "st", "wanted", "failed", "skipped"}
  /\ run.at \in {"none", "pick", "file", "write", "seal", "unlink", "link", "rename", "remove",
                "metadata"}
  /\ run.content \in Snapshots \cup {<< >>} /\ (Working => run.content \in Snapshots)
  /\ run.overwrite \in BOOLEAN /\ run.first \in BOOLEAN
  /\ run.no \in Nat /\ (run.at = "file" => run.no > 0) /\ (Building \/ Linking => run.no \in Walk)
  /\ run.states \in [Walk -> FileState] /\ run.st \in FileState
  /\ Building => run.wanted \subseteq DOMAIN Entries
  /\ run.failed \subseteq Range(Selected) /\ run.skipped \subseteq Range(Selected)

\* Two names that are one file are equal, and no walk writes into such a file.
LinkedAreOne == \A f \in linked : dest[f].there /\ dest[f] = part[f]

LinkedAreLeft ==
  Working => \A i \in Walk : Selected[i] \in linked =>
    \/ i = run.no /\ run.at = "remove"
    \/ ~run.overwrite /\ ~run.states[i].pending /\ ~(i = run.no /\ Building)

LinkedByStop ==
  stops = 0 => \A f \in linked : run.at = "remove" /\ f = Current

\* A final name that is not flushed belongs to flushed bytes, and the walk is
\* over with it or will not touch it.
SoftAreSynced == \A f \in soft : dest[f].there /\ f \in synced

SoftAreLeft ==
  Working => \A i \in Walk : Selected[i] \in soft /\ AheadOf(i) =>
    \/ i = run.no /\ Linking
    \/ run.first /\ ~run.overwrite /\ ~(i = run.no /\ Building)

SoftByStop ==
  /\ run.at = "none" /\ soft # {} => stops > 0 /\ run.content = << >>
  /\ run.at = "pick" /\ ~run.first => soft = {}

\* The part file of the file in hand, step by step.
PartIsReady ==
  /\ Building => part[Current].there /\ Len(part[Current].pos) = Len(Entries)
  /\ run.at \in {"unlink", "link", "rename"} => part[Current].pos = Entries /\ Current \in synced
  /\ run.at = "unlink" => run.overwrite
  /\ run.at = "rename" => Current \in NoLinks

WholeInv ==
  /\ LinkedAreOne /\ LinkedAreLeft /\ LinkedByStop
  /\ SoftAreSynced /\ SoftAreLeft /\ SoftByStop
  /\ PartIsReady /\ NamedFileWhole

\* What the run knows of each file that the walk has passed.
Accounted ==
  Working => \A i \in Walk : (run.first => ~AheadOf(i)) =>
    \/ run.states[i].pending
    \/ Restored(Selected[i], run.content[Selected[i]])
    \/ Selected[i] \in run.failed \cup run.skipped

LinkedIsRestored == Linking => Restored(Current, Entries)

FirstWalkIsDue == run.at = "pick" /\ run.first => run.todo # {}

InHandIsPending == (Building \/ Linking) /\ ~run.first => run.states[run.no].pending

AccountInv ==
  Accounted /\ LinkedIsRestored /\ FirstWalkIsDue /\ InHandIsPending /\ EveryFileAccounted

\* A file that failed is over, and it is not there.
FailedIsOver ==
  Working => \A i \in Walk : Selected[i] \in run.failed =>
    ~run.states[i].pending /\ ~InHand(i) /\ ~(run.first /\ AheadOf(i))

OpenIsNotRestored ==
  Working /\ ~run.overwrite => \A i \in Walk :
    \/ Selected[i] \in run.failed
    \/ run.states[i].pending /\ ~(i = run.no /\ Linking)
    \/ i = run.no /\ Building
    => ~Restored(Selected[i], run.content[Selected[i]])

FailedInv == FailedIsOver /\ OpenIsNotRestored /\ FailedIsNotRestored

\* The state of a file that is not complete, in hand or not.
StateOf(i) == IF run.at = "write" /\ i = run.no THEN run.st ELSE run.states[i]

Owing(i) ==
  \/ run.at = "write" /\ i = run.no
  \/ run.states[i].pending /\ ~InHand(i)

\* A part file that this run began holds chunks of sources that it has walked.
HeldOfWalked ==
  Working => \A i \in Walk : Owing(i) /\ ~StateOf(i).resume =>
    \A k \in ChunkAt(Selected[i], run.content[Selected[i]]) :
      LET c == run.content[Selected[i]][k]
      IN /\ \A s \in run.todo : ~Owns(s, c)
         /\ Owns(run.source, c) /\ run.at # "pick" =>
              IF run.at = "write" /\ i = run.no THEN k \notin run.wanted ELSE ~AheadOf(i)

WantedIsOwned == run.at = "write" => \A k \in run.wanted : Owns(run.source, Entries[k])

FirstHasNone == Working /\ run.first => \A i \in Walk : AheadOf(i) => ~run.states[i].pending

SourceIsTaken == run.at \notin {"none", "pick"} => run.source \notin run.todo

CountInv == HeldOfWalked /\ WantedIsOwned /\ CountIsOwed /\ FirstHasNone /\ SourceIsTaken
--------------------------------------------------------------------------------
(* Lemmas about the operators *)

LEMMA MinIsMember ==
  ASSUME NEW S \in SUBSET Nat, S # {}
  PROVE  Min(S) \in S
<1> DEFINE Below == {0 .. n : n \in S}
<1>1. Below \subseteq FiniteSubsetsOf(Nat) /\ Below # {}
  <2>1. ASSUME NEW n \in S PROVE 0 .. n \in FiniteSubsetsOf(Nat)
    <3>1. IsFiniteSet(0 .. n)
      BY FS_Interval
    <3>2. 0 .. n \in SUBSET Nat
      OBVIOUS
    <3>3. QED BY <3>1, <3>2 DEF FiniteSubsetsOf
  <2>2. QED BY <2>1
<1>2. PICK b \in Below : \A c \in Below : ~(<<c, b>> \in StrictSubsetOrdering(Nat))
  <2> HIDE DEF Below
  <2> QED BY <1>1, FS_StrictSubsetOrderingWellFounded, WFMin
<1>3. PICK x \in S : b = 0 .. x
  OBVIOUS
<1>4. ASSUME NEW y \in S PROVE x <= y
  <2>1. 0 .. y \in Below
    OBVIOUS
  <2>2. SUFFICES ASSUME y < x PROVE FALSE
    OBVIOUS
  <2>3. 0 .. y \subseteq 0 .. x /\ x \in 0 .. x /\ x \notin 0 .. y /\ 0 .. x \subseteq Nat
    BY <2>2
  <2>4. 0 .. y # 0 .. x /\ 0 .. y \in SUBSET Nat /\ 0 .. x \in SUBSET Nat
    BY <2>3
  <2>5. <<0 .. y, 0 .. x>> \in StrictSubsetOrdering(Nat)
    BY <2>3, <2>4 DEF StrictSubsetOrdering
  <2>6. QED BY <2>1, <2>5, <1>2, <1>3
<1>5. QED
  BY <1>4 DEF Min

LEMMA WalkIsNat == Walk = 1 .. Len(Selected) /\ Walk \subseteq Nat \ {0}
BY SelectionAssumption DEF Walk

LEMMA SelectedType == \A i \in Walk : Selected[i] \in File /\ Selected[i] \in Range(Selected)
BY SelectionAssumption DEF Walk, Range

LEMMA EntriesType ==
  ASSUME RunOK, Working, NEW i \in Walk
  PROVE  run.content[Selected[i]] \in Seq(Chunk)
BY SelectedType, SelectionAssumption DEF RunOK

LEMMA ChunkAtType ==
  ASSUME NEW f, NEW entries \in Seq(Chunk)
  PROVE  /\ IsFiniteSet(ChunkAt(f, entries)) /\ Cardinality(ChunkAt(f, entries)) \in Nat
         /\ ChunkAt(f, entries) \subseteq DOMAIN entries /\ IsFiniteSet(DOMAIN entries)
         /\ DOMAIN entries = 1 .. Len(entries) /\ Cardinality(DOMAIN entries) = Len(entries)
<1>1. DOMAIN entries = 1 .. Len(entries) /\ Len(entries) \in Nat
  OBVIOUS
<1>2. IsFiniteSet(1 .. Len(entries)) /\ Cardinality(1 .. Len(entries)) = Len(entries)
  BY <1>1, FS_Interval
<1>3. ChunkAt(f, entries) \subseteq DOMAIN entries
  BY DEF ChunkAt
<1>4. QED
  BY <1>1, <1>2, <1>3, FS_Subset, FS_CardinalityType

LEMMA NamesFields ==
  ASSUME NEW x \in Names
  PROVE  /\ x.there \in BOOLEAN /\ x.pos \in Seq(Chunk \cup {Hole, Foreign})
         /\ x.there => x = Holding(x.pos)
         /\ ~x.there => x = Nowhere
<1>1. CASE x = Nowhere
  BY <1>1 DEF Nowhere
<1>2. CASE x # Nowhere
  <2>1. PICK p \in Seq(Chunk \cup {Hole, Foreign}) : x = Holding(p)
    BY <1>2 DEF Names
  <2>2. QED BY <2>1 DEF Holding
<1>3. QED
  BY <1>1, <1>2

LEMMA RegisterType ==
  ASSUME FilesOK, NEW f \in File, NEW entries \in Seq(Chunk)
  PROVE  Register(f, entries) \in FileState
<1>1. part[f].there \in BOOLEAN
  BY NamesFields DEF FilesOK
<1>2. Len(entries) \in Int /\ Cardinality(ChunkAt(f, entries)) \in Int
  BY ChunkAtType
<1>3. QED
  BY <1>1, <1>2 DEF Register, FileState

LEMMA SizedType ==
  ASSUME NEW B, NEW p \in Seq(B), NEW n \in Nat, Hole \in B
  PROVE  Sized(p, n) \in Seq(B) /\ Len(Sized(p, n)) = n
<1>1. Sized(p, n) \in [1 .. n -> B]
  BY DEF Sized
<1>2. QED
  BY <1>1

--------------------------------------------------------------------------------
(* What each step does to the run *)

SamePlan == run'.content = run.content /\ run'.overwrite = run.overwrite /\ run'.owner = run.owner
SameWalk ==
  /\ DOMAIN run' = DOMAIN run
  /\ SamePlan /\ run'.todo = run.todo /\ run'.source = run.source /\ run'.first = run.first

\* The walk goes on with the next file.
Passes(st) ==
  /\ SameWalk /\ run'.at = "file" /\ run'.no = run.no + 1
  /\ run'.states = [run.states EXCEPT ![run.no] = st]
  /\ run'.st = NoState /\ run'.wanted = {}

\* The file stays in hand.
Stays(at) ==
  /\ SameWalk /\ run'.at = at /\ run'.no = run.no /\ run'.states = run.states
  /\ run'.failed = run.failed /\ run'.skipped = run.skipped

\* The step for the file in hand is done.
Moves(at) == Stays(at) /\ run'.st = run.st /\ run'.wanted = run.wanted

LEMMA NextFileFields ==
  ASSUME RunOK, NEW st, NEW r, r = NextFile(run, st)
  PROVE  /\ DOMAIN r = DOMAIN run
         /\ r.content = run.content /\ r.overwrite = run.overwrite /\ r.owner = run.owner
         /\ r.todo = run.todo /\ r.source = run.source /\ r.first = run.first
         /\ r.at = "file" /\ r.no = run.no + 1
         /\ r.states = [run.states EXCEPT ![run.no] = st]
         /\ r.st = NoState /\ r.wanted = {}
         /\ r.failed = run.failed /\ r.skipped = run.skipped
BY DEF NextFile, RunOK

LEMMA PassesFields ==
  ASSUME RunOK, NEW st, run' = NextFile(run, st)
  PROVE  Passes(st) /\ run'.failed = run.failed /\ run'.skipped = run.skipped
BY NextFileFields DEF Passes, SameWalk, SamePlan

LEMMA SkipsFields ==
  ASSUME RunOK, NEW st, run' = [NextFile(run, st) EXCEPT !.skipped = @ \cup {Current}]
  PROVE  Passes(st) /\ run'.failed = run.failed /\ run'.skipped = run.skipped \cup {Current}
<1> PICK r : r = NextFile(run, st)
  OBVIOUS
<1>1. run' = [r EXCEPT !.skipped = @ \cup {Current}]
  OBVIOUS
<1>2. QED
  BY <1>1, NextFileFields DEF Passes, SameWalk, SamePlan, RunOK

LEMMA FailsFields ==
  ASSUME RunOK, run' = Fails(run)
  PROVE  Passes(NoState) /\ run'.failed = run.failed \cup {Current} /\ run'.skipped = run.skipped
<1> PICK r : r = NextFile(run, NoState)
  OBVIOUS
<1>1. run' = [r EXCEPT !.failed = @ \cup {Current}]
  BY DEF Fails
<1>2. QED
  BY <1>1, NextFileFields DEF Passes, SameWalk, SamePlan, RunOK

LEMMA DecideRun ==
  ASSUME RunOK, DecideExisting
  PROVE  /\ Passes(NoState) /\ run'.failed = run.failed
         /\ run'.skipped = IF Restored(Current, Entries) THEN run.skipped
                           ELSE run.skipped \cup {Current}
<1>1. CASE Restored(Current, Entries)
  BY <1>1, PassesFields DEF DecideExisting
<1>2. CASE ~Restored(Current, Entries)
  BY <1>2, SkipsFields DEF DecideExisting
<1>3. QED
  BY <1>1, <1>2

\* The state of the file that a walk comes to, and the positions it takes here.
VisitState == IF run.first THEN Register(Current, Entries) ELSE run.states[run.no]
Wants == {i \in DOMAIN Entries : Owns(run.source, Entries[i])}

LEMMA VisitRun ==
  ASSUME RunOK, VisitFile
  PROVE  \/ /\ ~run.first /\ ~VisitState.pending
            /\ Passes(NoState) /\ run'.failed = run.failed /\ run'.skipped = run.skipped
            /\ UNCHANGED files
         \/ /\ run.first \/ VisitState.pending
            /\ Wants = {} /\ VisitState.remaining > 0
            /\ Passes([VisitState EXCEPT !.pending = TRUE])
            /\ run'.failed = run.failed /\ run'.skipped = run.skipped
            /\ UNCHANGED files
         \/ /\ run.first \/ VisitState.pending
            /\ Wants # {} \/ ~(VisitState.remaining > 0)
            /\ Stays("write") /\ run'.st = VisitState /\ run'.wanted = Wants
            /\ part' = [part EXCEPT ![Current] = Holding(Sized(part[Current].pos, Len(Entries)))]
            /\ dest' = IF Current \in linked THEN [dest EXCEPT ![Current] = part'[Current]] ELSE dest
            /\ synced' = synced \ {Current}
            /\ UNCHANGED <<linked, soft, meta>>
<1>1. CASE ~run.first /\ ~VisitState.pending
  <2>1. run' = NextFile(run, NoState) /\ UNCHANGED files
    BY <1>1 DEF VisitFile, VisitState
  <2>2. QED BY <1>1, <2>1, PassesFields
<1>2. CASE ~(~run.first /\ ~VisitState.pending) /\ Wants = {} /\ VisitState.remaining > 0
  <2>1. run' = NextFile(run, [VisitState EXCEPT !.pending = TRUE]) /\ UNCHANGED files
    BY <1>2 DEF VisitFile, VisitState, Wants
  <2>2. QED BY <1>2, <2>1, PassesFields
<1>3. CASE ~(~run.first /\ ~VisitState.pending) /\ ~(Wants = {} /\ VisitState.remaining > 0)
  <2>1. /\ run' = [run EXCEPT !.at = "write", !.st = VisitState, !.wanted = Wants]
        /\ part' = [part EXCEPT ![Current] = Holding(Sized(@.pos, Len(Entries)))]
        /\ dest' = IF Current \in linked THEN [dest EXCEPT ![Current] = part'[Current]] ELSE dest
        /\ synced' = synced \ {Current}
        /\ UNCHANGED <<linked, soft, meta>>
    BY <1>3 DEF VisitFile, VisitState, Wants
  <2>2. Stays("write") /\ run'.st = VisitState /\ run'.wanted = Wants
    BY <2>1 DEF Stays, SameWalk, SamePlan, RunOK
  <2>3. QED BY <1>3, <2>1, <2>2
<1>4. QED
  BY <1>1, <1>2, <1>3

LEMMA WriteRun ==
  ASSUME RunOK, WriteChunk, NEW i, i = Min(run.wanted)
  PROVE  \/ /\ run.st.resume /\ i \in ChunkAt(Current, Entries)
            /\ Stays("write") /\ run'.st = run.st /\ run'.wanted = run.wanted \ {i}
            /\ UNCHANGED files
         \/ /\ ~(run.st.resume /\ i \in ChunkAt(Current, Entries)) /\ run.st.remaining > 0
            /\ Stays("write") /\ run'.wanted = run.wanted \ {i}
            /\ run'.st = [run.st EXCEPT !.remaining = @ - 1]
            /\ part' = [part EXCEPT ![Current].pos[i] = Entries[i]]
            /\ dest' = IF Current \in linked THEN [dest EXCEPT ![Current] = part'[Current]] ELSE dest
            /\ UNCHANGED <<linked, synced, soft, meta>>
         \/ /\ Passes(NoState) /\ UNCHANGED files
            /\ run'.failed = run.failed \cup {Current} /\ run'.skipped = run.skipped
<1>1. CASE /\ run.st.resume /\ i \in ChunkAt(Current, Entries)
           /\ run' = [run EXCEPT !.wanted = @ \ {i}] /\ UNCHANGED files
  BY <1>1 DEF Stays, SameWalk, SamePlan, RunOK, WriteChunk
<1>2. CASE /\ ~(run.st.resume /\ i \in ChunkAt(Current, Entries)) /\ run.st.remaining > 0
           /\ run' = [[run EXCEPT !.wanted = @ \ {i}] EXCEPT !.st.remaining = @ - 1]
           /\ part' = [part EXCEPT ![Current].pos[i] = Entries[i]]
           /\ dest' = IF Current \in linked THEN [dest EXCEPT ![Current] = part'[Current]] ELSE dest
           /\ UNCHANGED <<linked, synced, soft, meta>>
  <2> PICK r : r = [run EXCEPT !.wanted = @ \ {i}]
    OBVIOUS
  <2>1. /\ DOMAIN r = DOMAIN run /\ r.at = run.at /\ r.no = run.no /\ r.states = run.states
        /\ r.failed = run.failed /\ r.skipped = run.skipped /\ r.content = run.content
        /\ r.overwrite = run.overwrite /\ r.owner = run.owner /\ r.todo = run.todo
        /\ r.source = run.source /\ r.first = run.first /\ r.st = run.st
        /\ r.wanted = run.wanted \ {i}
    BY DEF RunOK
  <2>2. run' = [r EXCEPT !.st.remaining = @ - 1]
    BY <1>2
  <2>3. Stays("write") /\ run'.wanted = run.wanted \ {i} /\ run'.st = [run.st EXCEPT !.remaining = @ - 1]
    <3>1. run.at = "write"
      BY DEF WriteChunk
    <3>2. run'.st = [run.st EXCEPT !.remaining = @ - 1]
      BY <2>1, <2>2 DEF RunOK
    <3>3. QED BY <2>1, <2>2, <3>1, <3>2 DEF Stays, SameWalk, SamePlan, RunOK
  <2>4. QED BY <1>2, <2>3
<1>3. CASE run' = Fails(run) /\ UNCHANGED files
  BY <1>3, FailsFields
<1>4. QED
  BY <1>1, <1>2, <1>3 DEF WriteChunk

LEMMA WriteEndsRun ==
  ASSUME RunOK, WriteEnds
  PROVE  /\ UNCHANGED files
         /\ \/ run.st.remaining = 0 /\ Moves("seal")
            \/ /\ run.st.remaining # 0 /\ Passes([run.st EXCEPT !.pending = TRUE])
               /\ run'.failed = run.failed /\ run'.skipped = run.skipped
<1>1. CASE run.st.remaining = 0
  BY <1>1 DEF WriteEnds, Moves, Stays, SameWalk, SamePlan, RunOK
<1>2. CASE run.st.remaining # 0
  BY <1>2, PassesFields DEF WriteEnds
<1>3. QED
  BY <1>1, <1>2

LEMMA SealRun ==
  ASSUME RunOK, SealPart
  PROVE  \/ /\ part[Current].pos = Entries
            /\ \/ run.overwrite /\ Moves("unlink")
               \/ Moves("link")
            /\ synced' = synced \cup {Current}
         \/ /\ part[Current].pos # Entries /\ Passes(NoState) /\ UNCHANGED synced
            /\ run'.failed = run.failed \cup {Current} /\ run'.skipped = run.skipped
<1>1. CASE Matches(Current, Entries)
  BY <1>1 DEF SealPart, Matches, Moves, Stays, SameWalk, SamePlan, RunOK
<1>2. CASE ~Matches(Current, Entries)
  BY <1>2, FailsFields DEF SealPart, Matches
<1>3. QED
  BY <1>1, <1>2

LEMMA UnlinkRun == RunOK /\ UnlinkExisting => Moves("link")
BY DEF UnlinkExisting, Moves, Stays, SameWalk, SamePlan, RunOK

LEMMA LinkRun ==
  ASSUME RunOK, LinkPart
  PROVE  \/ /\ dest[Current].there /\ Passes(NoState)
            /\ run'.failed = run.failed /\ run'.skipped = run.skipped \cup {Current}
            /\ part' = [part EXCEPT ![Current] = Nowhere] /\ linked' = linked \ {Current}
            /\ UNCHANGED <<dest, soft, meta>>
         \/ /\ ~dest[Current].there /\ Current \in NoLinks /\ Moves("rename")
            /\ UNCHANGED <<dest, part, linked, soft, meta>>
         \/ /\ ~dest[Current].there /\ Current \notin NoLinks /\ Moves("remove")
            /\ dest' = [dest EXCEPT ![Current] = part[Current]]
            /\ linked' = linked \cup {Current} /\ soft' = soft \cup {Current}
            /\ meta' = meta \ {Current} /\ UNCHANGED part
<1>1. CASE LinkFails
  BY <1>1, SkipsFields DEF LinkPart, LinkFails
<1>2. CASE ~LinkFails
  BY <1>2 DEF LinkPart, LinkFails, Moves, Stays, SameWalk, SamePlan, RunOK
<1>3. QED
  BY <1>1, <1>2

LEMMA RenameRun == RunOK /\ RenamePart => Moves("metadata")
BY DEF RenamePart, Moves, Stays, SameWalk, SamePlan, RunOK

LEMMA NameFailsRun ==
  RunOK /\ NameFails =>
    Passes(NoState) /\ run'.failed = run.failed \cup {Current} /\ run'.skipped = run.skipped
BY FailsFields DEF NameFails

LEMMA RemoveRun == RunOK /\ RemovePart => Moves("metadata")
BY DEF RemovePart, Moves, Stays, SameWalk, SamePlan, RunOK

LEMMA MetadataRun ==
  RunOK /\ ApplyMetadata =>
    Passes(NoState) /\ run'.failed = run.failed /\ run'.skipped = run.skipped
BY PassesFields DEF ApplyMetadata

LEMMA EndWalkRun ==
  ASSUME RunOK, EndWalk
  PROVE  /\ DOMAIN run' = DOMAIN run /\ SamePlan /\ run'.todo = run.todo /\ run'.at = "pick"
         /\ run'.first = FALSE /\ run'.states = run.states /\ run'.failed = run.failed
         /\ run'.skipped = run.skipped /\ run'.no = run.no /\ run'.st = run.st
         /\ run'.source = run.source /\ run'.wanted = run.wanted
BY DEF EndWalk, SamePlan, RunOK

LEMMA PickRun ==
  ASSUME RunOK, PickSource
  PROVE  /\ DOMAIN run' = DOMAIN run /\ SamePlan /\ run'.first = run.first /\ run'.st = run.st
         /\ run'.states = run.states /\ run'.failed = run.failed /\ run'.skipped = run.skipped
         /\ run'.no = 1 /\ run'.source \in run.todo /\ run'.todo = run.todo \ {run'.source}
         /\ run'.at \in {"file", "pick"} /\ (run.first => run'.at = "file")
         /\ run'.wanted = run.wanted
<1>1. PICK s \in run.todo, walks \in BOOLEAN :
        /\ run.first => walks
        /\ run' = [run EXCEPT !.todo = @ \ {s}, !.source = s, !.no = 1,
                              !.at = IF walks THEN "file" ELSE "pick"]
  BY DEF PickSource, RunOK
<1>2. QED
  BY <1>1 DEF SamePlan, RunOK

\* What a stop or a power loss leaves of the run.
Reset == run' = NoRun

LEMMA ResetTypes == Reset => RunOK'
BY SelectionAssumption DEF Reset, RunOK, NoRun, FileState, NoState, Building, Linking, Working

--------------------------------------------------------------------------------
(* Types *)

LEMMA PassesTypes ==
  ASSUME RunOK, Working, run.no \in Walk, NEW st \in FileState, Passes(st),
         run'.failed \subseteq run.failed \cup {Current},
         run'.skipped \subseteq run.skipped \cup {Current}
  PROVE  RunOK'
<1>1. run'.states \in [Walk -> FileState]
  BY DEF Passes, RunOK
<1>2. run'.failed \subseteq Range(Selected) /\ run'.skipped \subseteq Range(Selected)
  BY SelectedType DEF RunOK, Current
<1>3. run'.st \in FileState /\ run'.at = "file" /\ run'.no \in Nat \ {0}
  BY WalkIsNat DEF Passes, NoState, FileState
<1>4. QED
  BY <1>1, <1>2, <1>3 DEF Passes, RunOK, SameWalk, SamePlan, Working, Building, Linking

LEMMA StaysTypes ==
  ASSUME RunOK, Working, run.no \in Walk,
         NEW at \in {"write", "seal", "unlink", "link", "rename", "remove", "metadata"}, Stays(at),
         run'.st \in FileState, run'.wanted \subseteq DOMAIN Entries
  PROVE  RunOK' /\ Current' = Current /\ Entries' = Entries
<1>1. Current' = Current /\ Entries' = Entries
  BY DEF Stays, SameWalk, SamePlan, Current, Entries
<1>2. QED
  BY <1>1 DEF Stays, RunOK, SameWalk, SamePlan, Working, Building, Linking

LEMMA MovesTypes ==
  ASSUME RunOK, Building \/ Linking, NEW at \in {"seal", "unlink", "link", "rename", "remove", "metadata"},
         Moves(at),
         at # "remove" /\ at # "metadata" => Building
  PROVE  RunOK' /\ Current' = Current /\ Entries' = Entries
<1>1. run.no \in Walk /\ Working
  BY DEF RunOK, Building, Linking, Working
<1>2. Current' = Current /\ Entries' = Entries
  BY DEF Moves, Stays, SameWalk, SamePlan, Current, Entries
<1>3. QED
  BY <1>1, <1>2 DEF Moves, Stays, RunOK, SameWalk, SamePlan, Working, Building, Linking

LEMMA SameRunTypes == RunOK /\ run' = run => RunOK'
BY DEF RunOK, Working, Building, Linking, Entries, Current

LEMMA WrittenType ==
  ASSUME NEW x \in Names, NEW i, NEW c \in Chunk \cup {Hole, Foreign}
  PROVE  /\ [x EXCEPT !.pos[i] = c] \in Names
         /\ [x EXCEPT !.pos[i] = c].there = x.there
         /\ [x EXCEPT !.pos[i] = c].pos = [x.pos EXCEPT ![i] = c]
<1>1. CASE x = Nowhere
  BY <1>1 DEF Nowhere, Names
<1>2. CASE x # Nowhere
  <2>1. PICK p \in Seq(Chunk \cup {Hole, Foreign}) : x = Holding(p)
    BY <1>2 DEF Names
  <2>2. [p EXCEPT ![i] = c] \in Seq(Chunk \cup {Hole, Foreign})
    <3>1. p \in [1 .. Len(p) -> Chunk \cup {Hole, Foreign}] /\ Len(p) \in Nat
      OBVIOUS
    <3>2. [p EXCEPT ![i] = c] \in [1 .. Len(p) -> Chunk \cup {Hole, Foreign}]
      BY <3>1
    <3>3. QED BY <3>1, <3>2
  <2>3. x = [there |-> TRUE, pos |-> p]
    BY <2>1 DEF Holding
  <2>4. PICK q : q = [p EXCEPT ![i] = c]
    OBVIOUS
  <2>5. [x EXCEPT !.pos[i] = c] = [x EXCEPT !.pos = q]
    BY <2>3, <2>4
  <2> DEFINE R == [there : BOOLEAN, pos : Seq(Chunk \cup {Hole, Foreign})]
  <2>6. x \in R /\ q \in Seq(Chunk \cup {Hole, Foreign})
    BY <2>2, <2>3, <2>4
  <2>7. PICK y : y = [x EXCEPT !.pos = q]
    OBVIOUS
  <2>8. y \in R /\ y.there = TRUE /\ y.pos = q
    BY <2>3, <2>6, <2>7
  <2>9. Holding(q) \in R /\ Holding(q).there = TRUE /\ Holding(q).pos = q
    BY <2>6 DEF Holding
  <2>10. y = Holding(q)
    BY <2>8, <2>9
  <2>11. x.there = TRUE /\ x.pos = p
    BY <2>3
  <2>12. y \in Names
    BY <2>6, <2>10 DEF Names
  <2>13. [x EXCEPT !.pos[i] = c] = y
    BY <2>5, <2>7
  <2>14. [x EXCEPT !.pos[i] = c] \in Names
    BY <2>12, <2>13
  <2>15. [x EXCEPT !.pos[i] = c].there = x.there
    BY <2>8, <2>11, <2>13
  <2>16. [x EXCEPT !.pos[i] = c].pos = [x.pos EXCEPT ![i] = c]
    BY <2>4, <2>8, <2>11, <2>13
  <2>17. QED BY <2>14, <2>15, <2>16
<1>3. QED
  BY <1>1, <1>2

\* What a power loss can leave beside the final name, or in its place, where the
\* name is not flushed.
Beside(f, d) ==
  IF f \notin NoLinks THEN {<<d, d, TRUE>>}
  ELSE IF foreign > 0 THEN {<<Holding(<<Foreign>>), d, FALSE>>} ELSE {}

\* What the lost bytes leave of a name.
LEMMA SurvivorsType ==
  ASSUME FilesOK, NEW f \in File, NEW x \in Survivors(f)
  PROVE  x[1] \in Names /\ x[2] \in Names
<1> DEFINE Bytes == Chunk \cup {Hole, Foreign}
           Torn(p) == {Holding([i \in DOMAIN p.pos |-> IF i \in S THEN Hole ELSE p.pos[i]]) :
                         S \in SUBSET DOMAIN p.pos}
           Flushed(p) == IF f \in synced THEN {p} ELSE Torn(p)
<1>1. dest[f] \in Names /\ part[f] \in Names /\ Nowhere \in Names
  BY DEF FilesOK, Names
<1>2. ASSUME NEW p \in Names PROVE Flushed(p) \subseteq Names
  <2>1. p.pos \in Seq(Bytes)
    BY NamesFields
  <2>2. PICK q \in Seq(Bytes) : q = p.pos
    BY <2>1
  <2>3. ASSUME NEW S \in SUBSET DOMAIN q
        PROVE  [i \in DOMAIN q |-> IF i \in S THEN Hole ELSE q[i]] \in Seq(Bytes)
    <3>1. [i \in DOMAIN q |-> IF i \in S THEN Hole ELSE q[i]] \in [1 .. Len(q) -> Bytes]
      OBVIOUS
    <3>2. QED BY <3>1
  <2>4. \A y \in Torn(p) : y \in Names
    BY <2>2, <2>3 DEF Names
  <2>5. QED BY <2>4
<1>3. CASE f \notin soft
  <2>1. x \in {<<dest[f], p, f \in linked>> :
                 p \in IF part[f].there /\ f \notin linked THEN Flushed(part[f]) ELSE {part[f]}}
    BY <1>3 DEF Survivors
  <2> HIDE DEF Flushed
  <2>2. PICK p \in Names : x = <<dest[f], p, f \in linked>>
    BY <2>1, <1>1, <1>2
  <2>3. PICK one : one = (f \in linked)
    OBVIOUS
  <2>4. x = <<dest[f], p, one>>
    BY <2>2, <2>3
  <2>5. QED BY <2>4, <1>1
<1>4. CASE f \in soft
  <2>1. \E d \in Flushed(dest[f]) : x \in {<<d, Nowhere, FALSE>>, <<Nowhere, d, FALSE>>} \cup Beside(f, d)
    BY <1>4 DEF Survivors, Beside
  <2> HIDE DEF Flushed
  <2>2. PICK d \in Names : x \in {<<d, Nowhere, FALSE>>, <<Nowhere, d, FALSE>>} \cup Beside(f, d)
    BY <2>1, <1>1, <1>2
  <2>3. \E y, z \in {d, Nowhere, Holding(<<Foreign>>)}, b \in BOOLEAN : x = <<y, z, b>>
    BY <2>2 DEF Beside
  <2>4. Holding(<<Foreign>>) \in Names
    <3>1. <<Foreign>> \in Seq(Bytes)
      OBVIOUS
    <3>2. QED BY <3>1 DEF Names
  <2>5. QED BY <2>3, <2>4, <1>1
<1>5. QED
  BY <1>3, <1>4

LEMMA HandType ==
  ASSUME RunOK, Building \/ Linking
  PROVE  run.no \in Walk /\ Working /\ Current \in File /\ Entries \in Seq(Chunk)
<1>1. run.no \in Walk /\ Working
  BY DEF RunOK, Building, Linking, Working
<1>2. QED
  BY <1>1, SelectedType, EntriesType DEF Current, Entries

LEMMA VisitType ==
  ASSUME FilesOK, RunOK, run.at = "file", run.no \in Walk
  PROVE  /\ Working /\ Current \in File /\ Entries \in Seq(Chunk) /\ VisitState \in FileState
         /\ Wants \subseteq DOMAIN Entries
         /\ [VisitState EXCEPT !.pending = TRUE] \in FileState
<1>1. Working /\ Current \in File /\ Entries \in Seq(Chunk)
  BY SelectedType, EntriesType DEF Current, Entries, Working
<1>2. VisitState \in FileState
  BY <1>1, RegisterType DEF VisitState, RunOK
<1>3. [VisitState EXCEPT !.pending = TRUE] \in FileState
  BY <1>2 DEF FileState
<1>4. QED
  BY <1>1, <1>2, <1>3 DEF Wants

LEMMA MinOfWanted ==
  ASSUME RunOK, run.at = "write", run.wanted # {}
  PROVE  Min(run.wanted) \in run.wanted /\ Min(run.wanted) \in DOMAIN Entries
<1>1. run.wanted \subseteq DOMAIN Entries /\ Entries \in Seq(Chunk)
  BY HandType DEF RunOK, Building
<1>2. QED
  BY <1>1, MinIsMember

LEMMA RunTypes == FilesOK /\ RunOK /\ [Next]_vars => RunOK'
<1> SUFFICES ASSUME FilesOK, RunOK, [Next]_vars PROVE RunOK'
  OBVIOUS
<1> USE SelectionAssumption
<1>1. CASE Begin
  <2>1. PICK content \in Snapshots, ov \in Overwrite : \E owner, todo :
          run' = [NoRun EXCEPT !.at = "pick", !.content = content, !.overwrite = ov, !.owner = owner,
                               !.todo = todo, !.first = TRUE]
    BY <1>1 DEF Begin
  <2>2. QED BY <2>1 DEF RunOK, NoRun, FileState, NoState, Building, Linking, Working
<1>2. CASE PickSource
  <2>1. run.at = "pick"
    BY <1>2 DEF PickSource
  <2>2. QED BY <1>2, <2>1, PickRun DEF RunOK, SamePlan, Building, Linking, Working
<1>3. CASE DecideExisting
  <2>1. run.at = "file" /\ run.no \in Walk
    BY <1>3 DEF DecideExisting
  <2>2. NoState \in FileState
    BY DEF NoState, FileState
  <2>3. QED BY <1>3, <2>1, <2>2, DecideRun, PassesTypes DEF Working
<1>4. CASE VisitFile
  <2>1. run.at = "file" /\ run.no \in Walk
    BY <1>4 DEF VisitFile
  <2>2. NoState \in FileState
    BY DEF NoState, FileState
  <2>3. PICK st : st = [VisitState EXCEPT !.pending = TRUE]
    OBVIOUS
  <2>4. st \in FileState /\ VisitState \in FileState /\ Working /\ Wants \subseteq DOMAIN Entries
    BY <2>1, <2>3, VisitType
  <2>5. CASE Passes(NoState) /\ run'.failed = run.failed /\ run'.skipped = run.skipped
    BY <2>1, <2>2, <2>4, <2>5, PassesTypes
  <2>6. CASE Passes(st) /\ run'.failed = run.failed /\ run'.skipped = run.skipped
    BY <2>1, <2>4, <2>6, PassesTypes
  <2>7. CASE Stays("write") /\ run'.st = VisitState /\ run'.wanted = Wants
    BY <2>1, <2>4, <2>7, StaysTypes
  <2>8. QED BY <1>4, <2>3, <2>5, <2>6, <2>7, VisitRun
<1>5. CASE WriteChunk
  <2>1. run.at = "write" /\ run.no \in Walk /\ Working /\ run.wanted \subseteq DOMAIN Entries
    BY <1>5 DEF WriteChunk, RunOK, Building, Working
  <2>2. NoState \in FileState /\ run.st \in FileState
    BY DEF NoState, FileState, RunOK
  <2>3. PICK st : st = [run.st EXCEPT !.remaining = @ - 1]
    OBVIOUS
  <2>4. st \in FileState
    BY <2>2, <2>3 DEF FileState
  <2>5. CASE Stays("write") /\ run'.wanted \subseteq run.wanted /\ run'.st \in FileState
    BY <2>1, <2>5, StaysTypes
  <2>6. CASE Passes(NoState) /\ run'.failed = run.failed \cup {Current} /\ run'.skipped = run.skipped
    BY <2>1, <2>2, <2>6, PassesTypes
  <2>7. QED BY <1>5, <2>2, <2>3, <2>4, <2>5, <2>6, WriteRun
<1>6. CASE WriteEnds
  <2>1. run.at = "write" /\ run.no \in Walk /\ Working
    BY <1>6 DEF WriteEnds, RunOK, Building, Working
  <2>2. PICK st : st = [run.st EXCEPT !.pending = TRUE]
    OBVIOUS
  <2>3. st \in FileState
    BY <2>2 DEF FileState, RunOK
  <2>4. CASE Passes(st) /\ run'.failed = run.failed /\ run'.skipped = run.skipped
    BY <2>1, <2>3, <2>4, PassesTypes
  <2>5. QED BY <1>6, <2>1, <2>2, <2>4, WriteEndsRun, MovesTypes DEF Building
<1>7. CASE SealPart
  <2>1. run.at = "seal" /\ run.no \in Walk /\ Working /\ NoState \in FileState
    BY <1>7 DEF SealPart, RunOK, Building, Working, NoState, FileState
  <2>2. CASE Passes(NoState) /\ run'.failed = run.failed \cup {Current} /\ run'.skipped = run.skipped
    BY <2>1, <2>2, PassesTypes
  <2>3. QED BY <1>7, <2>1, <2>2, SealRun, MovesTypes DEF Building
<1>8. CASE UnlinkExisting
  BY <1>8, UnlinkRun, MovesTypes DEF UnlinkExisting, Building
<1>9. CASE LinkPart
  <2>1. run.at = "link" /\ run.no \in Walk /\ Working /\ NoState \in FileState
    BY <1>9 DEF LinkPart, RunOK, Building, Working, NoState, FileState
  <2>2. CASE Passes(NoState) /\ run'.failed = run.failed /\ run'.skipped = run.skipped \cup {Current}
    BY <2>1, <2>2, PassesTypes
  <2>3. QED BY <1>9, <2>1, <2>2, LinkRun, MovesTypes DEF Building
<1>17. CASE RenamePart
  BY <1>17, RenameRun, MovesTypes DEF RenamePart, Building
<1>18. CASE NameFails
  <2>1. run.no \in Walk /\ Working /\ NoState \in FileState
    BY <1>18 DEF NameFails, RunOK, Building, Working, NoState, FileState
  <2>2. QED BY <1>18, <2>1, NameFailsRun, PassesTypes
<1>10. CASE RemovePart
  BY <1>10, RemoveRun, MovesTypes DEF RemovePart, Linking
<1>11. CASE ApplyMetadata
  <2>1. run.at = "metadata" /\ run.no \in Walk /\ Working /\ NoState \in FileState
    BY <1>11 DEF ApplyMetadata, RunOK, Linking, Working, NoState, FileState
  <2>2. QED BY <1>11, <2>1, MetadataRun, PassesTypes
<1>12. CASE EndWalk
  <2>1. run.at = "file"
    BY <1>12 DEF EndWalk
  <2>2. QED BY <1>12, <2>1, EndWalkRun DEF RunOK, SamePlan, Building, Linking, Working
<1>13. CASE Finish
  <2>1. run.at = "pick" /\ run' = [NoRun EXCEPT !.content = run.content,
            !.failed = run.failed \cup {Selected[i] : i \in {j \in Walk : run.states[j].pending}},
            !.skipped = run.skipped, !.overwrite = run.overwrite]
    BY <1>13 DEF Finish
  <2>2. {Selected[i] : i \in {j \in Walk : run.states[j].pending}} \subseteq Range(Selected)
    BY SelectedType
  <2>3. QED BY <2>1, <2>2 DEF RunOK, NoRun, FileState, NoState, Building, Linking, Working
<1>14. CASE Stop \/ PowerLoss
  <2>1. run' = NoRun \/ run' = run
    BY <1>14 DEF Stop, PowerLoss
  <2>2. QED BY <2>1, ResetTypes, SameRunTypes DEF Reset
<1>15. CASE PutForeign \/ GcRemoves \/ UNCHANGED vars
  <2>1. run' = run
    BY <1>15 DEF PutForeign, GcRemoves, vars
  <2>2. QED BY <2>1, SameRunTypes
<1>16. QED
  BY <1>1, <1>2, <1>3, <1>4, <1>5, <1>6, <1>7, <1>8, <1>9, <1>10, <1>11, <1>12, <1>13, <1>14, <1>15,
     <1>17, <1>18
     DEF Next, RunStep

LEMMA FilesTypes == FilesOK /\ RunOK /\ [Next]_vars => FilesOK'
<1> SUFFICES ASSUME FilesOK, RunOK, [Next]_vars PROVE FilesOK'
  OBVIOUS
<1> DEFINE Bytes == Chunk \cup {Hole, Foreign}
<1>a. Nowhere \in Names /\ \A p \in Seq(Bytes) : Holding(p) \in Names
  BY DEF Names
<1>b. CASE UNCHANGED <<files, stops>>
  BY <1>b DEF files, FilesOK
<1>1. CASE Begin \/ PickSource \/ WriteEnds \/ Finish \/ GcRemoves \/ UNCHANGED vars
  BY <1>1, <1>b DEF Begin, PickSource, WriteEnds, Finish, GcRemoves, vars
<1>2. CASE DecideExisting
  BY <1>2, <1>a DEF DecideExisting, FilesOK
<1>3. CASE VisitFile
  <2>1. Current \in File /\ Entries \in Seq(Chunk)
    BY <1>3, VisitType DEF VisitFile
  <2>2. stops' = stops
    BY <1>3 DEF VisitFile
  <2>3. CASE UNCHANGED files
    BY <2>2, <2>3, <1>b
  <2>4. CASE /\ part' = [part EXCEPT ![Current] = Holding(Sized(part[Current].pos, Len(Entries)))]
             /\ dest' = IF Current \in linked THEN [dest EXCEPT ![Current] = part'[Current]] ELSE dest
             /\ synced' = synced \ {Current}
             /\ UNCHANGED <<linked, soft, meta>>
    <3>1. part[Current].pos \in Seq(Bytes)
      BY <2>1, NamesFields DEF FilesOK
    <3>2. Len(Entries) \in Nat
      BY <2>1
    <3>3. Sized(part[Current].pos, Len(Entries)) \in Seq(Bytes)
      BY <3>1, <3>2, SizedType
    <3>4. PICK name : name = Holding(Sized(part[Current].pos, Len(Entries)))
      OBVIOUS
    <3>5. name \in Names
      BY <3>3, <3>4, <1>a
    <3>6. part' = [part EXCEPT ![Current] = name]
      BY <2>4, <3>4
    <3>7. part' \in [File -> Names] /\ part'[Current] = name
      BY <3>5, <3>6, <2>1 DEF FilesOK
    <3>8. dest' \in [File -> Names]
      BY <2>4, <3>5, <3>7, <2>1 DEF FilesOK
    <3>9. QED BY <2>4, <3>7, <3>8, <2>2 DEF FilesOK
  <2>5. QED BY <1>3, <2>3, <2>4, VisitRun
<1>4. CASE WriteChunk
  <2>1. Current \in File /\ Entries \in Seq(Chunk)
    BY <1>4, HandType DEF WriteChunk, Building
  <2>2. stops' = stops
    BY <1>4 DEF WriteChunk
  <2>3. PICK i : i = Min(run.wanted)
    OBVIOUS
  <2>4. CASE UNCHANGED files
    BY <2>2, <2>4, <1>b
  <2>5. CASE /\ part' = [part EXCEPT ![Current].pos[i] = Entries[i]]
             /\ dest' = IF Current \in linked THEN [dest EXCEPT ![Current] = part'[Current]] ELSE dest
             /\ UNCHANGED <<linked, synced, soft, meta>>
    <3>1. i \in DOMAIN Entries
      BY <1>4, <2>3, MinOfWanted DEF WriteChunk
    <3>2. PICK c : c = Entries[i]
      OBVIOUS
    <3>3. c \in Bytes
      BY <2>1, <3>1, <3>2
    <3>4. part[Current] \in Names
      BY <2>1 DEF FilesOK
    <3>5. PICK name : name = [part[Current] EXCEPT !.pos[i] = c]
      OBVIOUS
    <3>6. name \in Names
      BY <3>3, <3>4, <3>5, WrittenType
    <3>7. part' = [part EXCEPT ![Current] = name]
      BY <2>5, <3>2, <3>5
    <3>8. part' \in [File -> Names] /\ part'[Current] = name
      BY <3>6, <3>7, <2>1 DEF FilesOK
    <3>9. dest' \in [File -> Names]
      BY <2>5, <3>6, <3>8, <2>1 DEF FilesOK
    <3>10. QED BY <2>5, <3>8, <3>9, <2>2 DEF FilesOK
  <2>6. QED BY <1>4, <2>3, <2>4, <2>5, WriteRun
<1>5. CASE SealPart
  <2>1. Current \in File
    BY <1>5, HandType DEF SealPart, Building
  <2>2. QED BY <1>5, <2>1 DEF SealPart, FilesOK
<1>6. CASE UnlinkExisting
  BY <1>6, <1>a DEF UnlinkExisting, FilesOK
<1>7. CASE LinkPart
  <2>1. Current \in File
    BY <1>7, HandType DEF LinkPart, Building
  <2>2. part[Current] \in Names
    BY <2>1 DEF FilesOK
  <2>3. QED BY <1>7, <2>1, <2>2, <1>a DEF LinkPart, FilesOK
<1>15. CASE RenamePart
  <2>1. Current \in File
    BY <1>15, HandType DEF RenamePart, Building
  <2>2. part[Current] \in Names
    BY <2>1 DEF FilesOK
  <2>3. QED BY <1>15, <2>1, <2>2, <1>a DEF RenamePart, FilesOK
<1>16. CASE NameFails
  BY <1>16, <1>a DEF NameFails, FilesOK
<1>8. CASE RemovePart
  BY <1>8, <1>a DEF RemovePart, FilesOK
<1>9. CASE ApplyMetadata
  <2>1. Current \in File
    BY <1>9, HandType DEF ApplyMetadata, Linking
  <2>2. QED BY <1>9, <2>1 DEF ApplyMetadata, FilesOK
<1>10. CASE EndWalk
  BY <1>10 DEF EndWalk, FilesOK
<1>11. CASE Stop
  BY <1>11 DEF Stop, files, FilesOK
<1>12. CASE PowerLoss
  <2>1. PICK after \in [File -> UNION {Survivors(f) : f \in File}], kept \in SUBSET (meta \cap soft) :
          /\ \A f \in File : after[f] \in Survivors(f)
          /\ dest' = [f \in File |-> after[f][1]]
          /\ part' = [f \in File |-> after[f][2]]
          /\ linked' = {f \in File : after[f][3]}
          /\ meta' = (meta \ soft) \cup kept
    BY <1>12 DEF PowerLoss
  <2>2. ASSUME NEW f \in File PROVE after[f][1] \in Names /\ after[f][2] \in Names
    BY <2>1, SurvivorsType
  <2>3. dest' \in [File -> Names] /\ part' \in [File -> Names]
    BY <2>1, <2>2
  <2>4. QED BY <1>12, <2>1, <2>3 DEF PowerLoss, FilesOK
<1>13. CASE PutForeign
  <2>1. <<Foreign>> \in Seq(Bytes)
    OBVIOUS
  <2>2. QED BY <1>13, <2>1, <1>a DEF PutForeign, FilesOK
<1>14. QED
  BY <1>1, <1>2, <1>3, <1>4, <1>5, <1>6, <1>7, <1>8, <1>9, <1>10, <1>11, <1>12, <1>13,
     <1>15, <1>16
     DEF Next, RunStep

--------------------------------------------------------------------------------
(* Final names are whole *)

LEMMA InitWhole == Init => WholeInv
BY DEF Init, WholeInv, LinkedAreOne, LinkedAreLeft, LinkedByStop, SoftAreSynced, SoftAreLeft,
       SoftByStop, PartIsReady, NamedFileWhole, Nowhere, NoRun, Working, Building, Linking

\* The file that a walk takes in hand has one name, and no final name that is not flushed.
LEMMA VisitedIsFree ==
  ASSUME RunOK, WholeInv, VisitFile, run.first \/ VisitState.pending
  PROVE  Current \notin linked /\ Current \notin soft
<1>1. run.at = "file" /\ run.no \in Walk /\ Working /\ AheadOf(run.no)
  BY WalkIsNat DEF VisitFile, Working, AheadOf
<1>2. CASE ~run.first
  <2>1. run.states[run.no].pending
    BY <1>2 DEF VisitState
  <2>2. QED BY <1>1, <1>2, <2>1 DEF WholeInv, LinkedAreLeft, SoftAreLeft, Current, Linking
<1>3. CASE run.first /\ run.overwrite
  BY <1>1, <1>3 DEF WholeInv, LinkedAreLeft, SoftAreLeft, Current, Linking
<1>4. CASE run.first /\ ~run.overwrite
  <2>1. ~dest[Current].there
    BY <1>4 DEF VisitFile
  <2>2. QED BY <2>1 DEF WholeInv, LinkedAreOne, SoftAreSynced
<1>5. QED
  BY <1>2, <1>3, <1>4 DEF RunOK

LEMMA BuildingIsFree ==
  ASSUME RunOK, WholeInv, Building
  PROVE  Current \notin linked /\ Current \notin soft /\ part[Current].there
<1>1. run.no \in Walk /\ Working /\ AheadOf(run.no) /\ run.at # "remove" /\ ~Linking
  BY WalkIsNat DEF RunOK, Building, Linking, Working, AheadOf
<1>2. QED
  BY <1>1 DEF WholeInv, LinkedAreLeft, SoftAreLeft, PartIsReady, Current

\* What a step to the next file needs to keep what is known of the walk.
LEMMA PassKeeps ==
  ASSUME RunOK, WholeInv, Working, run.no \in Walk, run.at \notin {"pick", "remove"},
         NEW st \in FileState, Passes(st), st.pending => Current \notin linked,
         linked' \subseteq linked, soft' = soft, stops' = stops
  PROVE  LinkedAreLeft' /\ LinkedByStop' /\ SoftAreLeft' /\ SoftByStop' /\ PartIsReady'
<1>1. LinkedAreLeft'
  <2>1. SUFFICES ASSUME NEW i \in Walk, Selected[i] \in linked'
                 PROVE  ~run.overwrite /\ ~run'.states[i].pending
    BY DEF LinkedAreLeft, Passes, SameWalk, SamePlan, Building, Working
  <2>2. ~run.overwrite /\ ~run.states[i].pending
    BY <2>1 DEF WholeInv, LinkedAreLeft
  <2>3. run'.states[i] = IF i = run.no THEN st ELSE run.states[i]
    BY DEF Passes, RunOK
  <2>4. i = run.no => Selected[i] = Current
    BY DEF Current
  <2>5. QED BY <2>1, <2>2, <2>3, <2>4
<1>2. LinkedByStop'
  BY DEF LinkedByStop, WholeInv
<1>3. SoftAreLeft'
  <2>1. SUFFICES ASSUME NEW i \in Walk, Selected[i] \in soft, run.no + 1 <= i
                 PROVE  run.first /\ ~run.overwrite
    BY DEF SoftAreLeft, Passes, SameWalk, SamePlan, Building, Working, AheadOf
  <2>2. AheadOf(i) /\ i # run.no
    BY <2>1, WalkIsNat DEF AheadOf
  <2>3. QED BY <2>1, <2>2 DEF WholeInv, SoftAreLeft
<1>4. SoftByStop' /\ PartIsReady'
  BY DEF SoftByStop, PartIsReady, Passes, Building
<1>5. QED
  BY <1>1, <1>2, <1>3, <1>4

\* What a step that keeps its file in hand needs.
LEMMA StayKeeps ==
  ASSUME RunOK, WholeInv, Working, run.no \in Walk, run.at \notin {"pick", "remove", "metadata"},
         NEW at \in {"write", "seal", "unlink", "link", "rename"}, Stays(at),
         Current \notin linked, Current \notin soft,
         linked' \subseteq linked, soft' = soft, stops' = stops
  PROVE  LinkedAreLeft' /\ LinkedByStop' /\ SoftAreLeft' /\ SoftByStop'
<1>1. LinkedAreLeft'
  <2>1. SUFFICES ASSUME NEW i \in Walk, Selected[i] \in linked'
                 PROVE  ~run.overwrite /\ ~run.states[i].pending /\ i # run.no
    BY DEF LinkedAreLeft, Stays, SameWalk, SamePlan, Building, Working
  <2>2. QED BY <2>1 DEF WholeInv, LinkedAreLeft, Current
<1>2. LinkedByStop'
  BY DEF LinkedByStop, WholeInv
<1>3. SoftAreLeft'
  <2>1. SUFFICES ASSUME NEW i \in Walk, Selected[i] \in soft, run.no <= i
                 PROVE  run.first /\ ~run.overwrite /\ i # run.no
    BY DEF SoftAreLeft, Stays, SameWalk, SamePlan, Building, Working, AheadOf
  <2>2. AheadOf(i) /\ i # run.no
    BY <2>1, WalkIsNat DEF AheadOf, Current
  <2>3. QED BY <2>1, <2>2 DEF WholeInv, SoftAreLeft
<1>4. SoftByStop'
  BY DEF SoftByStop, Stays
<1>5. QED
  BY <1>1, <1>2, <1>3, <1>4

LEMMA WholeDecide == FilesOK /\ RunOK /\ WholeInv /\ DecideExisting => WholeInv'
<1> SUFFICES ASSUME FilesOK, RunOK, WholeInv, DecideExisting PROVE WholeInv'
  OBVIOUS
<1>1. run.at = "file" /\ run.no \in Walk /\ Working /\ NoState \in FileState /\ ~NoState.pending
  BY DEF DecideExisting, Working, NoState, FileState
<1>2. linked' \subseteq linked /\ soft' = soft /\ stops' = stops /\ dest' = dest /\ synced' = synced
  BY DEF DecideExisting
<1>3. LinkedAreLeft' /\ LinkedByStop' /\ SoftAreLeft' /\ SoftByStop' /\ PartIsReady'
  BY <1>1, <1>2, DecideRun, PassKeeps
<1>4. LinkedAreOne'
  <2>1. ASSUME NEW f \in linked' PROVE f \in linked /\ part'[f] = part[f]
    BY DEF DecideExisting, FilesOK
  <2>2. QED BY <1>2, <2>1 DEF WholeInv, LinkedAreOne
<1>5. SoftAreSynced' /\ NamedFileWhole'
  BY <1>2 DEF WholeInv, SoftAreSynced, NamedFileWhole
<1>6. QED
  BY <1>3, <1>4, <1>5 DEF WholeInv

LEMMA ReadyAfterVisit ==
  ASSUME FilesOK, RunOK, Stays("write"), Current \in File, Entries \in Seq(Chunk),
         part' = [part EXCEPT ![Current] = Holding(Sized(part[Current].pos, Len(Entries)))]
  PROVE  PartIsReady'
<1>1. PICK B : B = Chunk \cup {Hole, Foreign}
  OBVIOUS
<1>2. Len(Sized(part[Current].pos, Len(Entries))) = Len(Entries)
  <2>1. part[Current].pos \in Seq(B) /\ Len(Entries) \in Nat /\ Hole \in B
    BY <1>1, NamesFields DEF FilesOK
  <2>2. QED BY <2>1, SizedType
<1>3. part'[Current].there /\ Len(part'[Current].pos) = Len(Entries)
  BY <1>2 DEF FilesOK, Holding
<1>4. Current' = Current /\ Entries' = Entries /\ run'.at = "write"
  BY DEF Stays, SameWalk, SamePlan, Current, Entries
<1>5. QED
  BY <1>3, <1>4 DEF PartIsReady

LEMMA WholeVisit == FilesOK /\ RunOK /\ WholeInv /\ VisitFile => WholeInv'
<1> SUFFICES ASSUME FilesOK, RunOK, WholeInv, VisitFile PROVE WholeInv'
  OBVIOUS
<1>1. /\ run.at = "file" /\ run.no \in Walk /\ Working /\ stops' = stops
      /\ NoState \in FileState /\ ~NoState.pending
  BY DEF VisitFile, Working, NoState, FileState
<1>2. /\ Current \in File /\ Entries \in Seq(Chunk) /\ VisitState \in FileState
      /\ [VisitState EXCEPT !.pending = TRUE] \in FileState
  BY <1>1, VisitType
<1>3. CASE /\ UNCHANGED files
           /\ \/ Passes(NoState)
              \/ /\ Passes([VisitState EXCEPT !.pending = TRUE])
                 /\ run.first \/ VisitState.pending
  <2>1. LinkedAreOne' /\ SoftAreSynced' /\ NamedFileWhole'
    BY <1>3 DEF files, WholeInv, LinkedAreOne, SoftAreSynced, NamedFileWhole
  <2>2. CASE Passes(NoState)
    BY <1>1, <1>3, <2>1, <2>2, PassKeeps DEF files, WholeInv
  <2>3. CASE Passes([VisitState EXCEPT !.pending = TRUE]) /\ (run.first \/ VisitState.pending)
    <3>1. Current \notin linked
      BY <2>3, VisitedIsFree
    <3>2. PICK st \in FileState : st = [VisitState EXCEPT !.pending = TRUE]
      BY <1>2
    <3>3. Passes(st)
      BY <2>3, <3>2
    <3>4. QED BY <1>1, <1>3, <2>1, <3>1, <3>2, <3>3, PassKeeps DEF files, WholeInv
  <2>4. QED BY <1>3, <2>2, <2>3
<1>4. CASE /\ run.first \/ VisitState.pending
           /\ Stays("write")
           /\ part' = [part EXCEPT ![Current] = Holding(Sized(part[Current].pos, Len(Entries)))]
           /\ dest' = IF Current \in linked THEN [dest EXCEPT ![Current] = part'[Current]] ELSE dest
           /\ synced' = synced \ {Current}
           /\ UNCHANGED <<linked, soft, meta>>
  <2>1. Current \notin linked /\ Current \notin soft
    BY <1>4, VisitedIsFree
  <2>2. dest' = dest
    BY <1>4, <2>1
  <2>3. LinkedAreOne'
    BY <1>4, <2>1, <2>2 DEF WholeInv, LinkedAreOne, FilesOK
  <2>4. SoftAreSynced' /\ NamedFileWhole'
    BY <1>4, <2>1, <2>2 DEF WholeInv, SoftAreSynced, NamedFileWhole
  <2>5. PartIsReady'
    BY <1>2, <1>4, ReadyAfterVisit
  <2>6. QED BY <1>1, <1>4, <2>1, <2>3, <2>4, <2>5, StayKeeps DEF WholeInv
<1>5. QED
  BY <1>3, <1>4, VisitRun

LEMMA WrittenPart ==
  ASSUME FilesOK, RunOK, WholeInv, WriteChunk, NEW i, i = Min(run.wanted),
         part' = [part EXCEPT ![Current].pos[i] = Entries[i]]
  PROVE  /\ part'[Current].there /\ Len(part'[Current].pos) = Len(Entries)
         /\ i \in DOMAIN Entries
         /\ part'[Current].pos = [part[Current].pos EXCEPT ![i] = Entries[i]]
<1>1. Building /\ run.at = "write" /\ run.wanted # {}
  BY DEF WriteChunk, Building
<1>2. Current \in File /\ Entries \in Seq(Chunk) /\ i \in DOMAIN Entries
  BY <1>1, HandType, MinOfWanted
<1>3. part[Current].there /\ Len(part[Current].pos) = Len(Entries)
  BY <1>1 DEF WholeInv, PartIsReady
<1>4. PICK c : c = Entries[i]
  OBVIOUS
<1>5. PICK name : name = [part[Current] EXCEPT !.pos[i] = c]
  OBVIOUS
<1>6. part[Current] \in Names /\ c \in Chunk \cup {Hole, Foreign}
  BY <1>2, <1>4 DEF FilesOK
<1>7. name.there /\ name.pos = [part[Current].pos EXCEPT ![i] = c]
  BY <1>3, <1>5, <1>6, WrittenType
<1>8. part'[Current] = name
  BY <1>2, <1>4, <1>5 DEF FilesOK
<1>9. Len([part[Current].pos EXCEPT ![i] = c]) = Len(part[Current].pos)
  <2>1. PICK p : p = part[Current].pos
    OBVIOUS
  <2>2. p \in Seq(Chunk \cup {Hole, Foreign})
    BY <1>6, <2>1, NamesFields
  <2>3. QED BY <2>1, <2>2
<1>10. QED
  BY <1>2, <1>3, <1>4, <1>7, <1>8, <1>9

LEMMA WholeWrite == FilesOK /\ RunOK /\ WholeInv /\ WriteChunk => WholeInv'
<1> SUFFICES ASSUME FilesOK, RunOK, WholeInv, WriteChunk PROVE WholeInv'
  OBVIOUS
<1>1. run.at = "write" /\ Building /\ stops' = stops /\ NoState \in FileState /\ ~NoState.pending
  BY DEF WriteChunk, Building, NoState, FileState
<1>2. run.no \in Walk /\ Working /\ Current \in File /\ Entries \in Seq(Chunk)
  BY <1>1, HandType
<1>3. Current \notin linked /\ Current \notin soft /\ part[Current].there
  BY <1>1, BuildingIsFree
<1>4. PICK i : i = Min(run.wanted)
  OBVIOUS
<1>5. CASE UNCHANGED files /\ Passes(NoState)
  <2>1. LinkedAreOne' /\ SoftAreSynced' /\ NamedFileWhole'
    BY <1>5 DEF files, WholeInv, LinkedAreOne, SoftAreSynced, NamedFileWhole
  <2>2. QED BY <1>1, <1>2, <1>5, <2>1, PassKeeps DEF files, WholeInv
<1>6. CASE UNCHANGED files /\ Stays("write")
  <2>1. LinkedAreOne' /\ SoftAreSynced' /\ NamedFileWhole'
    BY <1>6 DEF files, WholeInv, LinkedAreOne, SoftAreSynced, NamedFileWhole
  <2>2. PartIsReady'
    <3>1. Current' = Current /\ Entries' = Entries /\ run'.at = "write"
      BY <1>6 DEF Stays, SameWalk, SamePlan, Current, Entries
    <3>2. QED BY <1>1, <1>6, <3>1 DEF files, WholeInv, PartIsReady
  <2>3. QED BY <1>1, <1>2, <1>3, <1>6, <2>1, <2>2, StayKeeps DEF files, WholeInv
<1>7. CASE /\ Stays("write")
           /\ part' = [part EXCEPT ![Current].pos[i] = Entries[i]]
           /\ dest' = IF Current \in linked THEN [dest EXCEPT ![Current] = part'[Current]] ELSE dest
           /\ UNCHANGED <<linked, synced, soft, meta>>
  <2>1. dest' = dest
    BY <1>3, <1>7
  <2>2. \A f \in File : f # Current => part'[f] = part[f]
    BY <1>7 DEF FilesOK
  <2>3. LinkedAreOne'
    BY <1>3, <1>7, <2>1, <2>2 DEF WholeInv, LinkedAreOne, FilesOK
  <2>4. SoftAreSynced' /\ NamedFileWhole'
    BY <1>7, <2>1 DEF WholeInv, SoftAreSynced, NamedFileWhole
  <2>5. part'[Current].there /\ Len(part'[Current].pos) = Len(Entries)
    BY <1>1, <1>2, <1>4, <1>7, WrittenPart
  <2>6. PartIsReady'
    <3>1. Current' = Current /\ Entries' = Entries /\ run'.at = "write"
      BY <1>7 DEF Stays, SameWalk, SamePlan, Current, Entries
    <3>2. QED BY <2>5, <3>1 DEF PartIsReady
  <2>7. QED BY <1>1, <1>2, <1>3, <1>7, <2>3, <2>4, <2>6, StayKeeps DEF WholeInv
<1>8. QED
  BY <1>4, <1>5, <1>6, <1>7, WriteRun

LEMMA WholeWriteEnds == FilesOK /\ RunOK /\ WholeInv /\ WriteEnds => WholeInv'
<1> SUFFICES ASSUME FilesOK, RunOK, WholeInv, WriteEnds PROVE WholeInv'
  OBVIOUS
<1>1. run.at = "write" /\ Building /\ stops' = stops /\ UNCHANGED files
  BY DEF WriteEnds, Building
<1>2. run.no \in Walk /\ Working
  BY <1>1, HandType
<1>3. Current \notin linked /\ Current \notin soft
  BY <1>1, BuildingIsFree
<1>4. LinkedAreOne' /\ SoftAreSynced' /\ NamedFileWhole'
  BY <1>1 DEF files, WholeInv, LinkedAreOne, SoftAreSynced, NamedFileWhole
<1>5. CASE Stays("seal")
  <2>1. PartIsReady'
    <3>1. Current' = Current /\ Entries' = Entries /\ run'.at = "seal"
      BY <1>5 DEF Stays, SameWalk, SamePlan, Current, Entries
    <3>2. QED BY <1>1, <3>1 DEF files, WholeInv, PartIsReady, Building
  <2>2. QED BY <1>1, <1>2, <1>3, <1>4, <1>5, <2>1, StayKeeps DEF files, WholeInv
<1>6. CASE Passes([run.st EXCEPT !.pending = TRUE])
  <2>1. PICK st : st = [run.st EXCEPT !.pending = TRUE]
    OBVIOUS
  <2>2. st \in FileState
    BY <2>1 DEF FileState, RunOK
  <2>3. QED BY <1>1, <1>2, <1>3, <1>4, <1>6, <2>1, <2>2, PassKeeps DEF files, WholeInv
<1>7. QED
  BY <1>5, <1>6, WriteEndsRun DEF Moves

LEMMA WholeSeal == FilesOK /\ RunOK /\ WholeInv /\ SealPart => WholeInv'
<1> SUFFICES ASSUME FilesOK, RunOK, WholeInv, SealPart PROVE WholeInv'
  OBVIOUS
<1>1. /\ run.at = "seal" /\ Building /\ NoState \in FileState /\ ~NoState.pending
      /\ stops' = stops /\ UNCHANGED <<dest, part, linked, soft>>
  BY DEF SealPart, Building, NoState, FileState
<1>2. run.no \in Walk /\ Working /\ Current \in File
  BY <1>1, HandType
<1>3. Current \notin linked /\ Current \notin soft
  BY <1>1, BuildingIsFree
<1>4. synced \subseteq synced'
  BY SealRun
<1>5. LinkedAreOne' /\ SoftAreSynced' /\ NamedFileWhole'
  BY <1>1, <1>4 DEF WholeInv, LinkedAreOne, SoftAreSynced, NamedFileWhole
<1>6. CASE Passes(NoState)
  BY <1>1, <1>2, <1>5, <1>6, PassKeeps DEF WholeInv
<1>7. ASSUME NEW at \in {"unlink", "link"}, Stays(at), at = "unlink" => run.overwrite,
             part[Current].pos = Entries, synced' = synced \cup {Current}
      PROVE  WholeInv'
  <2>1. PartIsReady'
    <3>1. Current' = Current /\ Entries' = Entries /\ run'.at = at /\ run'.overwrite = run.overwrite
      BY <1>7 DEF Stays, SameWalk, SamePlan, Current, Entries
    <3>2. QED BY <1>1, <1>7, <3>1 DEF WholeInv, PartIsReady, Building
  <2>2. QED BY <1>1, <1>2, <1>3, <1>5, <1>7, <2>1, StayKeeps DEF WholeInv
<1>8. QED
  BY <1>6, <1>7, SealRun DEF Moves

LEMMA WholeUnlink == FilesOK /\ RunOK /\ WholeInv /\ UnlinkExisting => WholeInv'
<1> SUFFICES ASSUME FilesOK, RunOK, WholeInv, UnlinkExisting PROVE WholeInv'
  OBVIOUS
<1>1. /\ run.at = "unlink" /\ Building /\ stops' = stops /\ UNCHANGED <<part, synced, soft>>
      /\ dest' = [dest EXCEPT ![Current] = Nowhere] /\ linked' = linked \ {Current}
  BY DEF UnlinkExisting, Building
<1>2. run.no \in Walk /\ Working /\ Current \in File
  BY <1>1, HandType
<1>3. Current \notin linked /\ Current \notin soft
  BY <1>1, BuildingIsFree
<1>4. \A f \in File : dest'[f] = IF f = Current THEN Nowhere ELSE dest[f]
  BY <1>1 DEF FilesOK
<1>5. LinkedAreOne' /\ SoftAreSynced'
  BY <1>1, <1>3, <1>4 DEF FilesOK, WholeInv, LinkedAreOne, SoftAreSynced
<1>6. NamedFileWhole'
  BY <1>4 DEF WholeInv, NamedFileWhole, Nowhere
<1>7. Stays("link")
  BY UnlinkRun DEF Moves
<1>8. PartIsReady'
  <2>1. Current' = Current /\ Entries' = Entries /\ run'.at = "link"
    BY <1>7 DEF Stays, SameWalk, SamePlan, Current, Entries
  <2>2. QED BY <1>1, <2>1 DEF WholeInv, PartIsReady, Building
<1>9. QED
  BY <1>1, <1>2, <1>3, <1>5, <1>6, <1>7, <1>8, StayKeeps DEF WholeInv

LEMMA WholeLink == FilesOK /\ RunOK /\ WholeInv /\ LinkPart => WholeInv'
<1> SUFFICES ASSUME FilesOK, RunOK, WholeInv, LinkPart PROVE WholeInv'
  OBVIOUS
<1>1. /\ run.at = "link" /\ Building /\ NoState \in FileState /\ ~NoState.pending
      /\ stops' = stops /\ synced' = synced
  BY DEF LinkPart, Building, NoState, FileState
<1>2. run.no \in Walk /\ Working /\ Current \in File /\ run.content \in Snapshots
  BY <1>1, HandType DEF RunOK
<1>3. Current \notin linked /\ Current \notin soft /\ part[Current].there
  BY <1>1, BuildingIsFree
<1>4. part[Current].pos = Entries /\ Current \in synced
  BY <1>1 DEF WholeInv, PartIsReady
<1>5. CASE /\ dest[Current].there /\ Passes(NoState)
           /\ part' = [part EXCEPT ![Current] = Nowhere] /\ linked' = linked \ {Current}
           /\ UNCHANGED <<dest, soft, meta>>
  <2>1. LinkedAreOne' /\ SoftAreSynced' /\ NamedFileWhole'
    BY <1>1, <1>3, <1>5 DEF FilesOK, WholeInv, LinkedAreOne, SoftAreSynced, NamedFileWhole
  <2>2. QED BY <1>1, <1>2, <1>5, <2>1, PassKeeps DEF WholeInv
<1>6. CASE /\ ~dest[Current].there /\ Stays("remove")
           /\ dest' = [dest EXCEPT ![Current] = part[Current]]
           /\ linked' = linked \cup {Current} /\ soft' = soft \cup {Current}
           /\ UNCHANGED part
  <2>1. \A f \in File : dest'[f] = IF f = Current THEN part[Current] ELSE dest[f]
    BY <1>6 DEF FilesOK
  <2>2. LinkedAreOne' /\ SoftAreSynced'
    BY <1>1, <1>2, <1>3, <1>4, <1>6, <2>1 DEF FilesOK, WholeInv, LinkedAreOne, SoftAreSynced
  <2>3. NamedFileWhole'
    BY <1>2, <1>4, <2>1 DEF WholeInv, NamedFileWhole, Entries
  <2>4. /\ Current' = Current /\ run'.at = "remove" /\ run'.no = run.no
        /\ run'.overwrite = run.overwrite /\ run'.states = run.states /\ run'.first = run.first
    BY <1>6 DEF Stays, SameWalk, SamePlan, Current
  <2>5. LinkedAreLeft'
    <3>1. SUFFICES ASSUME NEW i \in Walk, Selected[i] \in linked', i # run.no
                   PROVE  ~run.overwrite /\ ~run.states[i].pending
      BY <2>4 DEF LinkedAreLeft
    <3>2. Selected[i] \in linked
      BY <1>2, <1>6, <3>1, SelectionAssumption DEF Current, Walk
    <3>3. QED BY <1>2, <3>1, <3>2 DEF WholeInv, LinkedAreLeft
  <2>6. LinkedByStop'
    BY <1>1, <1>6, <2>4 DEF WholeInv, LinkedByStop
  <2>7. SoftAreLeft'
    <3>1. SUFFICES ASSUME NEW i \in Walk, Selected[i] \in soft', run.no <= i, i # run.no
                   PROVE  run.first /\ ~run.overwrite
      BY <2>4 DEF SoftAreLeft, AheadOf, Linking
    <3>2. Selected[i] \in soft /\ AheadOf(i)
      BY <1>1, <1>2, <1>6, <3>1, SelectionAssumption DEF Current, Walk, AheadOf
    <3>3. QED BY <1>2, <3>1, <3>2 DEF WholeInv, SoftAreLeft
  <2>8. SoftByStop' /\ PartIsReady'
    BY <2>4 DEF SoftByStop, PartIsReady, Building
  <2>9. QED BY <2>2, <2>3, <2>5, <2>6, <2>7, <2>8 DEF WholeInv
<1>7. CASE Current \in NoLinks /\ Stays("rename") /\ UNCHANGED <<dest, part, linked, soft, meta>>
  <2>1. LinkedAreOne' /\ SoftAreSynced' /\ NamedFileWhole'
    BY <1>1, <1>7 DEF WholeInv, LinkedAreOne, SoftAreSynced, NamedFileWhole
  <2>2. PartIsReady'
    <3>1. Current' = Current /\ Entries' = Entries /\ run'.at = "rename"
      BY <1>7 DEF Stays, SameWalk, SamePlan, Current, Entries
    <3>2. QED BY <1>1, <1>7, <3>1 DEF WholeInv, PartIsReady, Building
  <2>3. QED BY <1>1, <1>2, <1>3, <1>7, <2>1, <2>2, StayKeeps DEF WholeInv
<1>8. QED
  BY <1>5, <1>6, <1>7, LinkRun DEF Moves

LEMMA WholeRename == FilesOK /\ RunOK /\ WholeInv /\ RenamePart => WholeInv'
<1> SUFFICES ASSUME FilesOK, RunOK, WholeInv, RenamePart PROVE WholeInv'
  OBVIOUS
<1>1. /\ run.at = "rename" /\ Building /\ UNCHANGED <<linked, synced, stops>>
      /\ dest' = [dest EXCEPT ![Current] = part[Current]]
      /\ part' = [part EXCEPT ![Current] = Nowhere] /\ soft' = soft \cup {Current}
  BY DEF RenamePart, Building
<1>2. run.no \in Walk /\ Working /\ Current \in File /\ run.content \in Snapshots
  BY <1>1, HandType DEF RunOK
<1>3. Current \notin linked /\ Current \notin soft /\ part[Current].there
  BY <1>1, BuildingIsFree
<1>4. part[Current].pos = Entries /\ Current \in synced
  BY <1>1 DEF WholeInv, PartIsReady
<1>5. \A f \in File : dest'[f] = IF f = Current THEN part[Current] ELSE dest[f]
  BY <1>1 DEF FilesOK
<1>6. LinkedAreOne' /\ SoftAreSynced'
  BY <1>1, <1>2, <1>3, <1>4, <1>5 DEF FilesOK, WholeInv, LinkedAreOne, SoftAreSynced
<1>7. NamedFileWhole'
  BY <1>2, <1>4, <1>5 DEF WholeInv, NamedFileWhole, Entries
<1>8. /\ Current' = Current /\ run'.at = "metadata" /\ run'.no = run.no
      /\ run'.overwrite = run.overwrite /\ run'.states = run.states /\ run'.first = run.first
  BY RenameRun DEF Moves, Stays, SameWalk, SamePlan, Current
<1>9. LinkedAreLeft' /\ LinkedByStop'
  BY <1>1, <1>2, <1>3, <1>8 DEF WholeInv, LinkedAreLeft, LinkedByStop, Building, Current, Working
<1>10. SoftAreLeft'
  <2>1. SUFFICES ASSUME NEW i \in Walk, Selected[i] \in soft', run.no <= i, i # run.no
                 PROVE  run.first /\ ~run.overwrite
    BY <1>8 DEF SoftAreLeft, AheadOf, Linking
  <2>2. Selected[i] \in soft /\ AheadOf(i)
    BY <1>1, <1>2, <2>1, SelectionAssumption DEF Current, Walk, AheadOf
  <2>3. QED BY <1>2, <2>1, <2>2 DEF WholeInv, SoftAreLeft
<1>11. SoftByStop' /\ PartIsReady'
  BY <1>8 DEF SoftByStop, PartIsReady, Building
<1>12. QED
  BY <1>6, <1>7, <1>9, <1>10, <1>11 DEF WholeInv

LEMMA WholeNameFails == FilesOK /\ RunOK /\ WholeInv /\ NameFails => WholeInv'
<1> SUFFICES ASSUME FilesOK, RunOK, WholeInv, NameFails PROVE WholeInv'
  OBVIOUS
<1>1. /\ Building /\ run.at \notin {"pick", "remove"} /\ NoState \in FileState /\ ~NoState.pending
      /\ UNCHANGED <<dest, synced, soft, stops>>
      /\ part' = [part EXCEPT ![Current] = Nowhere] /\ linked' = linked \ {Current}
  BY DEF NameFails, Building, NoState, FileState
<1>2. run.no \in Walk /\ Working
  BY <1>1, HandType
<1>3. LinkedAreOne' /\ SoftAreSynced' /\ NamedFileWhole'
  BY <1>1 DEF FilesOK, WholeInv, LinkedAreOne, SoftAreSynced, NamedFileWhole
<1>4. QED
  BY <1>1, <1>2, <1>3, NameFailsRun, PassKeeps DEF WholeInv

LEMMA WholeRemove == FilesOK /\ RunOK /\ WholeInv /\ RemovePart => WholeInv'
<1> SUFFICES ASSUME FilesOK, RunOK, WholeInv, RemovePart PROVE WholeInv'
  OBVIOUS
<1>1. /\ run.at = "remove" /\ Linking /\ stops' = stops /\ UNCHANGED <<dest, synced, soft>>
      /\ part' = [part EXCEPT ![Current] = Nowhere] /\ linked' = linked \ {Current}
  BY DEF RemovePart, Linking
<1>2. run.no \in Walk /\ Working /\ Current \in File
  BY <1>1, HandType
<1>3. LinkedAreOne' /\ SoftAreSynced' /\ NamedFileWhole'
  BY <1>1 DEF FilesOK, WholeInv, LinkedAreOne, SoftAreSynced, NamedFileWhole
<1>4. /\ Current' = Current /\ run'.at = "metadata" /\ run'.no = run.no
      /\ run'.overwrite = run.overwrite /\ run'.states = run.states /\ run'.first = run.first
  BY RemoveRun DEF Moves, Stays, SameWalk, SamePlan, Current
<1>5. LinkedAreLeft'
  <2>1. SUFFICES ASSUME NEW i \in Walk, Selected[i] \in linked'
                 PROVE  ~run.overwrite /\ ~run.states[i].pending
    BY <1>4 DEF LinkedAreLeft, Building
  <2>2. Selected[i] \in linked /\ i # run.no
    BY <1>1, <2>1 DEF Current
  <2>3. QED BY <1>2, <2>1, <2>2 DEF WholeInv, LinkedAreLeft
<1>6. LinkedByStop'
  BY <1>1 DEF WholeInv, LinkedByStop
<1>7. SoftAreLeft'
  <2>1. SUFFICES ASSUME NEW i \in Walk, Selected[i] \in soft, run.no <= i, i # run.no
                 PROVE  run.first /\ ~run.overwrite
    BY <1>1, <1>4 DEF SoftAreLeft, AheadOf, Linking, Building
  <2>2. AheadOf(i)
    BY <1>1, <2>1 DEF AheadOf
  <2>3. QED BY <1>2, <2>1, <2>2 DEF WholeInv, SoftAreLeft
<1>8. SoftByStop' /\ PartIsReady'
  BY <1>4 DEF SoftByStop, PartIsReady, Building
<1>9. QED
  BY <1>3, <1>5, <1>6, <1>7, <1>8 DEF WholeInv

LEMMA WholeMetadata == FilesOK /\ RunOK /\ WholeInv /\ ApplyMetadata => WholeInv'
<1> SUFFICES ASSUME FilesOK, RunOK, WholeInv, ApplyMetadata PROVE WholeInv'
  OBVIOUS
<1>1. /\ run.at = "metadata" /\ Linking /\ stops' = stops /\ UNCHANGED <<dest, part, linked, synced, soft>>
      /\ NoState \in FileState /\ ~NoState.pending
  BY DEF ApplyMetadata, Linking, NoState, FileState
<1>2. run.no \in Walk /\ Working
  BY <1>1, HandType
<1>3. LinkedAreOne' /\ SoftAreSynced' /\ NamedFileWhole'
  BY <1>1 DEF WholeInv, LinkedAreOne, SoftAreSynced, NamedFileWhole
<1>4. QED
  BY <1>1, <1>2, <1>3, MetadataRun, PassKeeps DEF WholeInv

LEMMA SameFilesWhole ==
  ASSUME WholeInv, UNCHANGED files
  PROVE  LinkedAreOne' /\ SoftAreSynced' /\ NamedFileWhole'
BY DEF files, WholeInv, LinkedAreOne, SoftAreSynced, NamedFileWhole

LEMMA WholeBegin == NoLateOverwrite /\ FilesOK /\ RunOK /\ WholeInv /\ Begin => WholeInv'
<1> SUFFICES ASSUME NoLateOverwrite, FilesOK, RunOK, WholeInv, Begin PROVE WholeInv'
  OBVIOUS
<1>1. PICK content \in Snapshots, ov \in Overwrite : \E owner, todo :
        /\ run.at = "none" /\ (ov => stops <= OverwriteStops)
        /\ run' = [NoRun EXCEPT !.at = "pick", !.content = content, !.overwrite = ov, !.owner = owner,
                                !.todo = todo, !.first = TRUE]
        /\ UNCHANGED <<lost, files, store, done, stops, errors, foreign>>
  BY DEF Begin
<1>2. run'.at = "pick" /\ run'.first /\ run'.overwrite = ov /\ run'.states = [i \in Walk |-> NoState]
  BY <1>1 DEF NoRun
<1>3. ov \in BOOLEAN /\ (ov => stops = 0)
  <2>1. ov \in BOOLEAN
    BY SelectionAssumption
  <2>2. CASE ov = TRUE
    <3>1. OverwriteStops = 0 /\ stops <= OverwriteStops /\ stops \in Nat
      BY <1>1, <2>2 DEF NoLateOverwrite, FilesOK
    <3>2. QED BY <2>2, <3>1
  <2>3. QED BY <2>1, <2>2
<1>4. LinkedByStop' /\ (ov => linked = {})
  BY <1>1, <1>3 DEF WholeInv, LinkedByStop, files
<1>5. LinkedAreLeft'
  BY <1>1, <1>2, <1>3, <1>4 DEF LinkedAreLeft, NoState, Building, files
<1>6. ov => soft = {}
  BY <1>1, <1>3 DEF WholeInv, SoftByStop
<1>7. SoftAreLeft'
  BY <1>1, <1>2, <1>3, <1>6 DEF SoftAreLeft, Building, files
<1>8. SoftByStop' /\ PartIsReady'
  BY <1>2 DEF SoftByStop, PartIsReady, Building
<1>9. UNCHANGED files
  BY <1>1 DEF files
<1>10. QED
  BY <1>4, <1>5, <1>7, <1>8, <1>9, SameFilesWhole DEF WholeInv

LEMMA WholePick == RunOK /\ WholeInv /\ PickSource => WholeInv'
<1> SUFFICES ASSUME RunOK, WholeInv, PickSource PROVE WholeInv'
  OBVIOUS
<1>1. run.at = "pick" /\ UNCHANGED <<files, stops>> /\ Working
  BY DEF PickSource, Working
<1>2. /\ run'.overwrite = run.overwrite /\ run'.first = run.first /\ run'.states = run.states
      /\ run'.no = 1 /\ run'.at \in {"file", "pick"} /\ (run.first => run'.at = "file")
  BY PickRun DEF SamePlan
<1>3. LinkedAreLeft'
  BY <1>1, <1>2 DEF WholeInv, LinkedAreLeft, Building, files
<1>4. LinkedByStop'
  BY <1>1, <1>2 DEF WholeInv, LinkedByStop, files
<1>5. SoftAreLeft'
  BY <1>1, <1>2 DEF WholeInv, SoftAreLeft, SoftByStop, AheadOf, Building, Linking, files
<1>6. SoftByStop' /\ PartIsReady'
  BY <1>1, <1>2 DEF WholeInv, SoftByStop, PartIsReady, Building, files
<1>7. QED
  BY <1>1, <1>3, <1>4, <1>5, <1>6, SameFilesWhole DEF WholeInv

LEMMA WholeEndWalk == RunOK /\ WholeInv /\ EndWalk => WholeInv'
<1> SUFFICES ASSUME RunOK, WholeInv, EndWalk PROVE WholeInv'
  OBVIOUS
<1>1. run.at = "file" /\ UNCHANGED <<dest, part, linked, synced, stops>> /\ Working /\ soft' = {}
  BY DEF EndWalk, Working
<1>2. run'.overwrite = run.overwrite /\ run'.at = "pick" /\ run'.states = run.states
  BY EndWalkRun DEF SamePlan
<1>3. LinkedAreOne' /\ SoftAreSynced' /\ NamedFileWhole'
  BY <1>1 DEF WholeInv, LinkedAreOne, SoftAreSynced, NamedFileWhole
<1>4. LinkedAreLeft' /\ LinkedByStop'
  BY <1>1, <1>2 DEF WholeInv, LinkedAreLeft, LinkedByStop, Building
<1>5. SoftAreLeft' /\ SoftByStop' /\ PartIsReady'
  BY <1>1, <1>2 DEF SoftAreLeft, SoftByStop, PartIsReady, Building
<1>6. QED
  BY <1>3, <1>4, <1>5 DEF WholeInv

LEMMA WholeFinish == RunOK /\ WholeInv /\ AccountInv /\ Finish => WholeInv'
<1> SUFFICES ASSUME RunOK, WholeInv, AccountInv, Finish PROVE WholeInv'
  OBVIOUS
<1>1. run.at = "pick" /\ run.todo = {} /\ UNCHANGED <<files, stops>> /\ run'.at = "none"
  BY DEF Finish, NoRun
<1>2. ~run.first /\ soft = {}
  BY <1>1 DEF AccountInv, FirstWalkIsDue, WholeInv, SoftByStop
<1>3. LinkedAreLeft' /\ LinkedByStop' /\ SoftAreLeft' /\ SoftByStop' /\ PartIsReady'
  BY <1>1, <1>2 DEF WholeInv, LinkedAreLeft, LinkedByStop, SoftAreLeft, SoftByStop, PartIsReady,
                    Building, Working, files
<1>4. QED
  BY <1>1, <1>3, SameFilesWhole DEF WholeInv

LEMMA WholeStop == FilesOK /\ WholeInv /\ Stop => WholeInv'
<1> SUFFICES ASSUME FilesOK, WholeInv, Stop PROVE WholeInv'
  OBVIOUS
<1>1. run'.at = "none" /\ run'.content = << >> /\ stops' = stops + 1 /\ stops \in Nat /\ UNCHANGED files
  BY DEF Stop, NoRun, FilesOK
<1>2. LinkedAreLeft' /\ LinkedByStop' /\ SoftAreLeft' /\ SoftByStop' /\ PartIsReady'
  BY <1>1 DEF LinkedAreLeft, LinkedByStop, SoftAreLeft, SoftByStop, PartIsReady, Building, Working
<1>3. QED
  BY <1>1, <1>2, SameFilesWhole DEF WholeInv

\* A power loss leaves each final name as it is, takes it away, or gives back the
\* file that a rename replaced, and where two names are one file they are equal.
LEMMA SurvivorsWhole ==
  ASSUME FilesOK, WholeInv, NEW f \in File, NEW x \in Survivors(f)
  PROVE  /\ x[1].there => x[1] = Holding(<<Foreign>>) \/ (dest[f].there /\ x[1] = dest[f])
         /\ x[3] => x[1].there /\ x[1] = x[2]
         /\ soft = {} => x[1] = dest[f]
<1>1. CASE f \notin soft
  <2>1. PICK p : x = <<dest[f], p, f \in linked>> /\ (f \in linked => p = part[f])
    <3> DEFINE Torn == {Holding([i \in DOMAIN part[f].pos |-> IF i \in S THEN Hole ELSE part[f].pos[i]]) :
                          S \in SUBSET DOMAIN part[f].pos}
    <3>1. x \in {<<dest[f], p, f \in linked>> :
                   p \in IF part[f].there /\ f \notin linked
                         THEN IF f \in synced THEN {part[f]} ELSE Torn ELSE {part[f]}}
      BY <1>1 DEF Survivors
    <3> HIDE DEF Torn
    <3>2. QED BY <3>1
  <2>2. PICK one : one = (f \in linked)
    OBVIOUS
  <2>3. x[1] = dest[f] /\ x[2] = p /\ x[3] = one
    BY <2>1, <2>2
  <2>4. QED BY <2>1, <2>2, <2>3 DEF WholeInv, LinkedAreOne
<1>2. CASE f \in soft
  <2>1. f \in synced /\ dest[f].there
    BY <1>2 DEF WholeInv, SoftAreSynced
  <2>2. x \in {<<dest[f], Nowhere, FALSE>>, <<Nowhere, dest[f], FALSE>>} \cup Beside(f, dest[f])
    BY <1>2, <2>1 DEF Survivors, Beside
  <2>3. \E y, z \in {dest[f], Nowhere, Holding(<<Foreign>>)}, b \in BOOLEAN :
          x = <<y, z, b>> /\ (b => y = dest[f] /\ z = dest[f])
    BY <2>2 DEF Beside
  <2>4. PICK y, z \in {dest[f], Nowhere, Holding(<<Foreign>>)}, b \in BOOLEAN :
          x = <<y, z, b>> /\ (b => y = dest[f] /\ z = dest[f])
    BY <2>3
  <2>5. x[1] = y /\ x[2] = z /\ x[3] = b /\ ~Nowhere.there
    BY <2>4 DEF Nowhere
  <2>6. QED BY <1>2, <2>1, <2>4, <2>5
<1>3. QED
  BY <1>1, <1>2

LEMMA PowerFiles ==
  ASSUME FilesOK, WholeInv, PowerLoss
  PROVE  /\ \A f \in File : dest'[f].there =>
              dest'[f] = Holding(<<Foreign>>) \/ (dest[f].there /\ dest'[f] = dest[f])
         /\ LinkedAreOne' /\ linked' \subseteq File
         /\ soft = {} => dest' = dest
         /\ soft' = {} /\ stops' = stops + 1
         /\ \/ run' = run /\ run.at = "none"
            \/ run' = NoRun
<1>1. PICK after \in [File -> UNION {Survivors(f) : f \in File}] :
        /\ \A f \in File : after[f] \in Survivors(f)
        /\ dest' = [f \in File |-> after[f][1]]
        /\ part' = [f \in File |-> after[f][2]]
        /\ linked' = {f \in File : after[f][3]}
  BY DEF PowerLoss
<1>2. \A f \in File : dest'[f] = after[f][1] /\ part'[f] = after[f][2]
  BY <1>1
<1>3. \A f \in File : dest'[f].there =>
        dest'[f] = Holding(<<Foreign>>) \/ (dest[f].there /\ dest'[f] = dest[f])
  BY <1>1, <1>2, SurvivorsWhole
<1>4. LinkedAreOne'
  <2>1. SUFFICES ASSUME NEW f \in File, after[f][3] PROVE dest'[f].there /\ dest'[f] = part'[f]
    BY <1>1 DEF LinkedAreOne
  <2>2. PICK x \in Survivors(f) : x = after[f]
    BY <1>1
  <2>3. QED BY <1>2, <2>1, <2>2, SurvivorsWhole
<1>5. soft = {} => dest' = dest
  <2>1. SUFFICES ASSUME soft = {} PROVE dest' = dest
    OBVIOUS
  <2>2. \A f \in File : dest'[f] = dest[f]
    BY <1>1, <1>2, <2>1, SurvivorsWhole
  <2>3. dest' = [f \in File |-> dest[f]]
    BY <1>1, <1>2, <2>2
  <2>4. QED BY <2>3 DEF FilesOK
<1>6. QED
  BY <1>1, <1>3, <1>4, <1>5 DEF PowerLoss

LEMMA WholePower == FilesOK /\ RunOK /\ WholeInv /\ PowerLoss => WholeInv'
<1> SUFFICES ASSUME FilesOK, RunOK, WholeInv, PowerLoss PROVE WholeInv'
  OBVIOUS
<1>1. run'.at = "none" /\ stops' = stops + 1 /\ stops \in Nat /\ soft' = {}
  BY PowerFiles DEF NoRun, FilesOK
<1>2. NamedFileWhole'
  BY PowerFiles DEF WholeInv, NamedFileWhole, Holding
<1>3. LinkedAreLeft' /\ LinkedByStop' /\ SoftAreSynced' /\ SoftAreLeft' /\ SoftByStop' /\ PartIsReady'
  BY <1>1 DEF LinkedAreLeft, LinkedByStop, SoftAreSynced, SoftAreLeft, SoftByStop, PartIsReady,
              Building, Working
<1>4. QED
  BY <1>2, <1>3, PowerFiles DEF WholeInv

LEMMA WholeSameRun ==
  ASSUME WholeInv, run' = run, UNCHANGED <<part, linked, synced, soft, stops>>
  PROVE  LinkedAreLeft' /\ LinkedByStop' /\ SoftAreLeft' /\ SoftByStop' /\ PartIsReady'
BY DEF WholeInv, LinkedAreLeft, LinkedByStop, SoftAreLeft, SoftByStop, PartIsReady, Building,
       Linking, Working, AheadOf, Current, Entries

LEMMA WholeForeign == FilesOK /\ WholeInv /\ PutForeign => WholeInv'
<1> SUFFICES ASSUME FilesOK, WholeInv, PutForeign PROVE WholeInv'
  OBVIOUS
<1>1. PICK g \in File : ~dest[g].there /\ dest' = [dest EXCEPT ![g] = Holding(<<Foreign>>)]
  BY DEF PutForeign
<1>2. run' = run /\ UNCHANGED <<part, linked, synced, soft, stops>>
  BY DEF PutForeign
<1>3. \A f \in File : dest'[f] = IF f = g THEN Holding(<<Foreign>>) ELSE dest[f]
  BY <1>1 DEF FilesOK
<1>4. LinkedAreOne' /\ SoftAreSynced' /\ NamedFileWhole'
  BY <1>1, <1>2, <1>3 DEF FilesOK, WholeInv, LinkedAreOne, SoftAreSynced, NamedFileWhole, Holding
<1>5. QED
  BY <1>2, <1>4, WholeSameRun DEF WholeInv

LEMMA WholeNext ==
  NoLateOverwrite /\ FilesOK /\ RunOK /\ WholeInv /\ AccountInv /\ [Next]_vars => WholeInv'
<1> SUFFICES ASSUME NoLateOverwrite, FilesOK, RunOK, WholeInv, AccountInv, [Next]_vars
             PROVE  WholeInv'
  OBVIOUS
<1>1. CASE GcRemoves \/ UNCHANGED vars
  <2>1. run' = run /\ UNCHANGED <<files, stops>>
    BY <1>1 DEF GcRemoves, vars
  <2>2. QED BY <2>1, SameFilesWhole, WholeSameRun DEF WholeInv, files
<1>2. QED
  BY <1>1, WholeBegin, WholePick, WholeDecide, WholeVisit, WholeWrite, WholeWriteEnds, WholeSeal,
     WholeUnlink, WholeLink, WholeRename, WholeNameFails, WholeRemove, WholeMetadata, WholeEndWalk, WholeFinish, WholeStop,
     WholePower, WholeForeign DEF Next, RunStep

--------------------------------------------------------------------------------
(* Each file is restored or named, and never both *)

LEMMA InitAccount == Init => AccountInv /\ FailedInv
BY DEF Init, AccountInv, Accounted, LinkedIsRestored, FirstWalkIsDue, InHandIsPending,
       EveryFileAccounted, FailedInv, FailedIsOver, OpenIsNotRestored, FailedIsNotRestored,
       NoRun, Working, Building, Linking

OthersStay == \A f \in File : f # Current => dest'[f] = dest[f]

LEMMA OtherFile ==
  ASSUME RunOK, run.no \in Walk, NEW i \in Walk, i # run.no
  PROVE  Selected[i] # Current /\ Selected[i] \in File
BY SelectionAssumption, SelectedType DEF Current, Walk

\* The file in hand, when the walk passes it.
LEMMA PassAccounts ==
  ASSUME RunOK, AccountInv, Working, run.no \in Walk, run.at # "pick",
         NEW st \in FileState, Passes(st), OthersStay,
         run.failed \subseteq run'.failed, run.skipped \subseteq run'.skipped,
         \/ st.pending
         \/ dest'[Current].there /\ dest'[Current].pos = Entries
         \/ Current \in run'.failed \cup run'.skipped
  PROVE  AccountInv'
<1>1. Accounted'
  <2>1. SUFFICES ASSUME NEW i \in Walk, run.first => ~(run.no + 1 <= i)
                 PROVE  \/ run'.states[i].pending
                        \/ /\ dest'[Selected[i]].there
                           /\ dest'[Selected[i]].pos = run.content[Selected[i]]
                        \/ Selected[i] \in run'.failed \cup run'.skipped
    BY DEF Accounted, Passes, SameWalk, SamePlan, AheadOf, Restored
  <2>2. run'.states[i] = IF i = run.no THEN st ELSE run.states[i]
    BY DEF Passes, RunOK
  <2>3. CASE i = run.no
    BY <2>2, <2>3 DEF Current, Entries
  <2>4. CASE i # run.no
    <3>1. run.first => ~AheadOf(i)
      BY <2>1, <2>4, WalkIsNat DEF AheadOf
    <3>2. \/ run.states[i].pending
          \/ dest[Selected[i]].there /\ dest[Selected[i]].pos = run.content[Selected[i]]
          \/ Selected[i] \in run.failed \cup run.skipped
      BY <3>1 DEF AccountInv, Accounted, Restored
    <3>3. dest'[Selected[i]] = dest[Selected[i]]
      BY <2>4, OtherFile DEF OthersStay
    <3>4. QED BY <2>2, <2>4, <3>2, <3>3
  <2>5. QED BY <2>3, <2>4
<1>2. QED
  BY <1>1 DEF AccountInv, LinkedIsRestored, FirstWalkIsDue, InHandIsPending, EveryFileAccounted,
              Passes, Building, Linking

LEMMA StayAccounts ==
  ASSUME RunOK, AccountInv, Working, run.no \in Walk, run.at # "pick",
         ~run.first => run.states[run.no].pending,
         NEW at \in {"write", "seal", "unlink", "link", "rename", "remove", "metadata"}, Stays(at), OthersStay,
         at \in {"remove", "metadata"} => dest'[Current].there /\ dest'[Current].pos = Entries
  PROVE  AccountInv'
<1>1. Accounted'
  <2>1. SUFFICES ASSUME NEW i \in Walk, run.first => ~(run.no <= i), ~run.states[i].pending
                 PROVE  \/ /\ dest'[Selected[i]].there
                           /\ dest'[Selected[i]].pos = run.content[Selected[i]]
                        \/ Selected[i] \in run.failed \cup run.skipped
    BY DEF Accounted, Stays, SameWalk, SamePlan, AheadOf, Restored
  <2>2. i # run.no /\ (run.first => ~AheadOf(i))
    BY <2>1, WalkIsNat DEF AheadOf
  <2>3. \/ dest[Selected[i]].there /\ dest[Selected[i]].pos = run.content[Selected[i]]
        \/ Selected[i] \in run.failed \cup run.skipped
    BY <2>1, <2>2 DEF AccountInv, Accounted, Restored
  <2>4. dest'[Selected[i]] = dest[Selected[i]]
    BY <2>2, OtherFile DEF OthersStay
  <2>5. QED BY <2>3, <2>4
<1>2. Current' = Current /\ Entries' = Entries /\ run'.no = run.no /\ run'.first = run.first
      /\ run'.states = run.states /\ run'.at = at
  BY DEF Stays, SameWalk, SamePlan, Current, Entries
<1>3. LinkedIsRestored' /\ InHandIsPending'
  BY <1>2 DEF LinkedIsRestored, InHandIsPending, Linking, Building, Restored
<1>4. QED
  BY <1>1, <1>2, <1>3 DEF AccountInv, FirstWalkIsDue, EveryFileAccounted

LEMMA PassFails ==
  ASSUME RunOK, FailedInv, Working, run.no \in Walk, run.at # "pick",
         NEW st \in FileState, Passes(st), OthersStay,
         run.failed \subseteq run'.failed, run'.failed \subseteq run.failed \cup {Current},
         st.pending => Current \notin run'.failed,
         ~run.overwrite /\ (st.pending \/ Current \in run'.failed)
           => ~(dest'[Current].there /\ dest'[Current].pos = Entries)
  PROVE  FailedInv'
<1>1. \A i \in Walk : run'.states[i] = IF i = run.no THEN st ELSE run.states[i]
  BY DEF Passes, RunOK
<1>2. FailedIsOver'
  <2>1. SUFFICES ASSUME NEW i \in Walk, Selected[i] \in run'.failed
                 PROVE  ~run'.states[i].pending /\ ~(run.first /\ run.no + 1 <= i)
    BY DEF FailedIsOver, Passes, SameWalk, InHand, Building, Linking, AheadOf
  <2>2. CASE i = run.no
    BY <1>1, <2>1, <2>2, WalkIsNat DEF Current
  <2>3. CASE i # run.no
    <3>1. Selected[i] \in run.failed
      BY <2>1, <2>3, OtherFile
    <3>2. ~run.states[i].pending /\ ~(run.first /\ run.no <= i)
      BY <3>1 DEF FailedInv, FailedIsOver, AheadOf
    <3>3. QED BY <1>1, <2>3, <3>2, WalkIsNat
  <2>4. QED BY <2>2, <2>3
<1>3. OpenIsNotRestored'
  <2>1. SUFFICES ASSUME ~run.overwrite, NEW i \in Walk,
                        Selected[i] \in run'.failed \/ run'.states[i].pending
                 PROVE  ~(/\ dest'[Selected[i]].there
                          /\ dest'[Selected[i]].pos = run.content[Selected[i]])
    BY DEF OpenIsNotRestored, Passes, SameWalk, SamePlan, Building, Restored
  <2>2. CASE i = run.no
    BY <1>1, <2>1, <2>2 DEF Current, Entries
  <2>3. CASE i # run.no
    <3>1. Selected[i] \in run.failed \/ run.states[i].pending
      BY <1>1, <2>1, <2>3, OtherFile
    <3>2. ~(dest[Selected[i]].there /\ dest[Selected[i]].pos = run.content[Selected[i]])
      BY <2>1, <2>3, <3>1 DEF FailedInv, OpenIsNotRestored, Restored
    <3>3. dest'[Selected[i]] = dest[Selected[i]]
      BY <2>3, OtherFile DEF OthersStay
    <3>4. QED BY <3>2, <3>3
  <2>4. QED BY <2>2, <2>3
<1>4. QED
  BY <1>2, <1>3 DEF FailedInv, FailedIsNotRestored, Passes

LEMMA StayFails ==
  ASSUME RunOK, FailedInv, Working, run.no \in Walk, run.at # "pick", Current \notin run.failed,
         NEW at \in {"write", "seal", "unlink", "link", "rename", "remove", "metadata"}, Stays(at), OthersStay,
         ~run.overwrite /\ at \notin {"remove", "metadata"}
           => ~(dest'[Current].there /\ dest'[Current].pos = Entries)
  PROVE  FailedInv'
<1>1. FailedIsOver'
  <2>1. SUFFICES ASSUME NEW i \in Walk, Selected[i] \in run.failed
                 PROVE  ~run.states[i].pending /\ i # run.no /\ ~(run.first /\ run.no <= i)
    BY DEF FailedIsOver, Stays, SameWalk, InHand, AheadOf
  <2>2. QED BY <2>1 DEF FailedInv, FailedIsOver, AheadOf, Current
<1>2. OpenIsNotRestored'
  <2>1. SUFFICES ASSUME ~run.overwrite, NEW i \in Walk,
                        \/ Selected[i] \in run.failed
                        \/ run.states[i].pending /\ ~(i = run.no /\ at \in {"remove", "metadata"})
                        \/ i = run.no /\ at \notin {"remove", "metadata"}
                 PROVE  ~(/\ dest'[Selected[i]].there
                          /\ dest'[Selected[i]].pos = run.content[Selected[i]])
    BY DEF OpenIsNotRestored, Stays, SameWalk, SamePlan, Building, Linking, Restored
  <2>2. CASE i = run.no
    BY <2>1, <2>2 DEF Current, Entries
  <2>3. CASE i # run.no
    <3>1. ~(dest[Selected[i]].there /\ dest[Selected[i]].pos = run.content[Selected[i]])
      BY <2>1, <2>3 DEF FailedInv, OpenIsNotRestored, Restored
    <3>2. dest'[Selected[i]] = dest[Selected[i]]
      BY <2>3, OtherFile DEF OthersStay
    <3>3. QED BY <3>1, <3>2
  <2>4. QED BY <2>2, <2>3
<1>3. QED
  BY <1>1, <1>2 DEF FailedInv, FailedIsNotRestored, Stays

LEMMA HandFacts ==
  ASSUME RunOK, WholeInv, AccountInv, FailedInv, Building \/ Linking
  PROVE  /\ run.no \in Walk /\ Working /\ run.at # "pick" /\ Current \in File
         /\ Current \notin run.failed /\ (~run.first => run.states[run.no].pending)
         /\ Building /\ ~run.overwrite => ~(dest[Current].there /\ dest[Current].pos = Entries)
         /\ Linking => dest[Current].there /\ dest[Current].pos = Entries
<1>1. run.no \in Walk /\ Working /\ run.at # "pick" /\ Current \in File
  BY HandType DEF Building, Linking
<1>2. Current \notin run.failed
  BY <1>1 DEF FailedInv, FailedIsOver, InHand, Current
<1>3. Building /\ ~run.overwrite => ~(dest[Current].there /\ dest[Current].pos = Entries)
  BY <1>1 DEF FailedInv, OpenIsNotRestored, Restored, Current, Entries
<1>4. QED
  BY <1>1, <1>2, <1>3 DEF AccountInv, LinkedIsRestored, InHandIsPending, Restored

LEMMA AccountDecide ==
  FilesOK /\ RunOK /\ WholeInv /\ AccountInv /\ FailedInv /\ DecideExisting => AccountInv' /\ FailedInv'
<1> SUFFICES ASSUME FilesOK, RunOK, WholeInv, AccountInv, FailedInv, DecideExisting
             PROVE  AccountInv' /\ FailedInv'
  OBVIOUS
<1>1. /\ run.at = "file" /\ run.no \in Walk /\ run.first /\ Working /\ dest' = dest
      /\ NoState \in FileState /\ ~NoState.pending /\ OthersStay
  BY DEF DecideExisting, Working, NoState, FileState, OthersStay
<1>2. Current \notin run.failed
  BY <1>1, WalkIsNat DEF FailedInv, FailedIsOver, AheadOf, Current
<1>3. AccountInv'
  BY <1>1, DecideRun, PassAccounts DEF Restored
<1>4. FailedInv'
  BY <1>1, <1>2, DecideRun, PassFails
<1>5. QED
  BY <1>3, <1>4

LEMMA AccountVisit ==
  FilesOK /\ RunOK /\ WholeInv /\ AccountInv /\ FailedInv /\ VisitFile => AccountInv' /\ FailedInv'
<1> SUFFICES ASSUME FilesOK, RunOK, WholeInv, AccountInv, FailedInv, VisitFile
             PROVE  AccountInv' /\ FailedInv'
  OBVIOUS
<1>1. /\ run.at = "file" /\ run.no \in Walk /\ Working
      /\ ~(run.first /\ ~run.overwrite /\ dest[Current].there)
      /\ NoState \in FileState /\ ~NoState.pending
  BY DEF VisitFile, Working, NoState, FileState
<1>2. CASE /\ ~run.first /\ ~VisitState.pending /\ UNCHANGED files /\ Passes(NoState)
           /\ run'.failed = run.failed /\ run'.skipped = run.skipped
  <2>1. OthersStay /\ dest' = dest
    BY <1>2 DEF OthersStay, files
  <2>2. \/ dest[Current].there /\ dest[Current].pos = Entries
        \/ Current \in run.failed \cup run.skipped
    BY <1>1, <1>2 DEF AccountInv, Accounted, VisitState, Restored, Current, Entries
  <2>3. ~run.overwrite /\ Current \in run.failed => ~(dest[Current].there /\ dest[Current].pos = Entries)
    BY <1>1 DEF FailedInv, OpenIsNotRestored, Restored, Current, Entries
  <2>4. AccountInv'
    BY <1>1, <1>2, <2>1, <2>2, PassAccounts
  <2>5. FailedInv'
    BY <1>1, <1>2, <2>1, <2>3, PassFails
  <2>6. QED BY <2>4, <2>5
<1>3. CASE run.first \/ VisitState.pending
  <2>1. Current \notin run.failed
    BY <1>1, <1>3, WalkIsNat DEF FailedInv, FailedIsOver, AheadOf, Current, VisitState
  <2>2. ~run.overwrite => ~(dest[Current].there /\ dest[Current].pos = Entries)
    BY <1>1, <1>3 DEF FailedInv, OpenIsNotRestored, Restored, Current, Entries, VisitState, Linking
  <2>3. Current \notin linked
    BY <1>3, VisitedIsFree
  <2>4. CASE /\ Passes([VisitState EXCEPT !.pending = TRUE])
             /\ run'.failed = run.failed /\ run'.skipped = run.skipped /\ UNCHANGED files
    <3>1. PICK st : st = [VisitState EXCEPT !.pending = TRUE]
      OBVIOUS
    <3>2. st \in FileState /\ st.pending
      BY <1>1, <3>1, VisitType DEF FileState
    <3>3. OthersStay /\ dest' = dest
      BY <2>4 DEF OthersStay, files
    <3>4. AccountInv'
      BY <1>1, <2>4, <3>1, <3>2, <3>3, PassAccounts
    <3>5. FailedInv'
      BY <1>1, <2>1, <2>2, <2>4, <3>1, <3>2, <3>3, PassFails
    <3>6. QED BY <3>4, <3>5
  <2>5. CASE /\ Stays("write")
             /\ dest' = IF Current \in linked THEN [dest EXCEPT ![Current] = part'[Current]] ELSE dest
    <3>1. dest' = dest /\ OthersStay
      BY <2>3, <2>5 DEF OthersStay
    <3>2. ~run.first => run.states[run.no].pending
      BY <1>3 DEF VisitState
    <3>3. AccountInv'
      BY <1>1, <2>5, <3>1, <3>2, StayAccounts
    <3>4. FailedInv'
      BY <1>1, <2>1, <2>2, <2>5, <3>1, StayFails
    <3>5. QED BY <3>3, <3>4
  <2>6. QED BY <1>3, <2>4, <2>5, VisitRun
<1>4. QED
  BY <1>2, <1>3, VisitRun

\* While a part file is built, no step but the unlink changes a final name: the
\* steps that give the file its name are not of these.
LEMMA BuildStays ==
  ASSUME RunOK, WholeInv, AccountInv, FailedInv, Building,
         dest' = dest \/ run.overwrite, OthersStay,
         NEW at \in {"write", "seal", "unlink", "link", "rename"}, Stays(at)
  PROVE  AccountInv' /\ FailedInv'
<1>1. /\ run.no \in Walk /\ Working /\ run.at # "pick"
      /\ Current \notin run.failed /\ (~run.first => run.states[run.no].pending)
      /\ ~run.overwrite => ~(dest[Current].there /\ dest[Current].pos = Entries)
  BY HandFacts
<1>2. AccountInv'
  BY <1>1, StayAccounts
<1>3. FailedInv'
  BY <1>1, StayFails
<1>4. QED
  BY <1>2, <1>3

LEMMA BuildPasses ==
  ASSUME RunOK, WholeInv, AccountInv, FailedInv, Building, dest' = dest,
         NEW st \in FileState, Passes(st), run'.skipped = run.skipped,
         run'.failed = IF st.pending THEN run.failed ELSE run.failed \cup {Current}
  PROVE  AccountInv' /\ FailedInv'
<1>1. /\ run.no \in Walk /\ Working /\ run.at # "pick" /\ Current \notin run.failed
      /\ ~run.overwrite => ~(dest[Current].there /\ dest[Current].pos = Entries)
  BY HandFacts
<1>2. OthersStay
  BY DEF OthersStay
<1>3. AccountInv'
  BY <1>1, <1>2, PassAccounts
<1>4. FailedInv'
  BY <1>1, <1>2, PassFails
<1>5. QED
  BY <1>3, <1>4

LEMMA AccountBuild ==
  FilesOK /\ RunOK /\ WholeInv /\ AccountInv /\ FailedInv
    /\ (WriteChunk \/ WriteEnds \/ SealPart \/ UnlinkExisting \/ NameFails)
  => AccountInv' /\ FailedInv'
<1> SUFFICES ASSUME FilesOK, RunOK, WholeInv, AccountInv, FailedInv,
                    WriteChunk \/ WriteEnds \/ SealPart \/ UnlinkExisting \/ NameFails
             PROVE  AccountInv' /\ FailedInv'
  OBVIOUS
<1>1. Building
  BY DEF WriteChunk, WriteEnds, SealPart, UnlinkExisting, NameFails, Building
<1>2. /\ Current \notin linked /\ Current \in File /\ NoState \in FileState /\ ~NoState.pending
      /\ dest' = dest => OthersStay
  BY <1>1, BuildingIsFree, HandType DEF NoState, FileState, OthersStay
<1>3. CASE WriteChunk
  <2>1. PICK i : i = Min(run.wanted)
    OBVIOUS
  <2>2. dest' = dest
    BY <1>2, <1>3, <2>1, WriteRun DEF files
  <2>3. CASE Stays("write")
    BY <1>1, <1>2, <2>2, <2>3, BuildStays
  <2>4. CASE Passes(NoState) /\ run'.failed = run.failed \cup {Current} /\ run'.skipped = run.skipped
    BY <1>1, <1>2, <2>2, <2>4, BuildPasses
  <2>5. QED BY <1>3, <2>1, <2>3, <2>4, WriteRun
<1>4. CASE WriteEnds
  <2>1. PICK st : st = [run.st EXCEPT !.pending = TRUE]
    OBVIOUS
  <2>2. st \in FileState /\ st.pending
    BY <2>1 DEF RunOK, FileState
  <2>3. dest' = dest
    BY <1>4 DEF WriteEnds, files
  <2>4. CASE Stays("seal")
    BY <1>1, <1>2, <2>3, <2>4, BuildStays
  <2>5. CASE Passes(st) /\ run'.failed = run.failed /\ run'.skipped = run.skipped
    BY <1>1, <2>2, <2>3, <2>5, BuildPasses
  <2>6. QED BY <1>4, <2>1, <2>4, <2>5, WriteEndsRun DEF Moves
<1>5. CASE SealPart
  <2>1. dest' = dest
    BY <1>5 DEF SealPart
  <2>2. CASE Stays("unlink") \/ Stays("link")
    BY <1>1, <1>2, <2>1, <2>2, BuildStays
  <2>3. CASE Passes(NoState) /\ run'.failed = run.failed \cup {Current} /\ run'.skipped = run.skipped
    BY <1>1, <1>2, <2>1, <2>3, BuildPasses
  <2>4. QED BY <1>5, <2>2, <2>3, SealRun DEF Moves
<1>6. CASE UnlinkExisting
  <2>1. run.overwrite
    BY <1>6 DEF UnlinkExisting, WholeInv, PartIsReady
  <2>2. OthersStay
    BY <1>6 DEF UnlinkExisting, OthersStay, FilesOK
  <2>3. Stays("link")
    BY <1>6, UnlinkRun DEF Moves
  <2>4. QED BY <1>1, <2>1, <2>2, <2>3, BuildStays
<1>7. CASE NameFails
  <2>1. dest' = dest
    BY <1>7 DEF NameFails
  <2>2. QED BY <1>1, <1>2, <1>7, <2>1, NameFailsRun, BuildPasses
<1>8. QED
  BY <1>3, <1>4, <1>5, <1>6, <1>7

LEMMA AccountLink ==
  FilesOK /\ RunOK /\ WholeInv /\ AccountInv /\ FailedInv
    /\ (LinkPart \/ RenamePart \/ RemovePart \/ ApplyMetadata) => AccountInv' /\ FailedInv'
<1> SUFFICES ASSUME FilesOK, RunOK, WholeInv, AccountInv, FailedInv,
                    LinkPart \/ RenamePart \/ RemovePart \/ ApplyMetadata
             PROVE  AccountInv' /\ FailedInv'
  OBVIOUS
<1>1. /\ LinkPart => run.at = "link" /\ Building
      /\ RenamePart => run.at = "rename" /\ Building
      /\ RemovePart \/ ApplyMetadata => Linking
  BY DEF LinkPart, RenamePart, RemovePart, ApplyMetadata, Building, Linking
<1>2. /\ run.no \in Walk /\ Working /\ run.at # "pick" /\ Current \in File
      /\ Current \notin run.failed /\ (~run.first => run.states[run.no].pending)
      /\ NoState \in FileState /\ ~NoState.pending
      /\ Building /\ ~run.overwrite => ~(dest[Current].there /\ dest[Current].pos = Entries)
      /\ Linking => dest[Current].there /\ dest[Current].pos = Entries
  BY <1>1, HandFacts DEF NoState, FileState
<1>3. CASE LinkPart /\ dest[Current].there /\ Passes(NoState)
             /\ run'.failed = run.failed /\ run'.skipped = run.skipped \cup {Current} /\ UNCHANGED dest
  <2>1. OthersStay
    BY <1>3 DEF OthersStay
  <2>2. AccountInv'
    BY <1>2, <1>3, <2>1, PassAccounts
  <2>3. FailedInv'
    BY <1>2, <1>3, <2>1, PassFails
  <2>4. QED BY <2>2, <2>3
<1>4. CASE /\ (LinkPart /\ Stays("remove")) \/ (RenamePart /\ Stays("metadata"))
           /\ dest' = [dest EXCEPT ![Current] = part[Current]]
  <2>1. OthersStay
    BY <1>4 DEF OthersStay, FilesOK
  <2>2. dest'[Current].there /\ dest'[Current].pos = Entries
    BY <1>1, <1>2, <1>4 DEF FilesOK, WholeInv, PartIsReady
  <2>3. AccountInv'
    BY <1>2, <1>4, <2>1, <2>2, StayAccounts
  <2>4. FailedInv'
    BY <1>2, <1>4, <2>1, StayFails
  <2>5. QED BY <2>3, <2>4
<1>5. CASE RemovePart
  <2>1. dest' = dest /\ OthersStay /\ Stays("metadata")
    BY <1>5, RemoveRun DEF RemovePart, OthersStay, Moves
  <2>2. AccountInv'
    BY <1>1, <1>2, <1>5, <2>1, StayAccounts
  <2>3. FailedInv'
    BY <1>2, <2>1, StayFails
  <2>4. QED BY <2>2, <2>3
<1>6. CASE ApplyMetadata
  <2>1. /\ dest' = dest /\ OthersStay /\ Passes(NoState)
        /\ run'.failed = run.failed /\ run'.skipped = run.skipped
    BY <1>6, MetadataRun DEF ApplyMetadata, OthersStay
  <2>2. AccountInv'
    BY <1>1, <1>2, <1>6, <2>1, PassAccounts
  <2>3. FailedInv'
    BY <1>2, <2>1, PassFails
  <2>4. QED BY <2>2, <2>3
<1>7. CASE LinkPart /\ Stays("rename") /\ UNCHANGED dest
  <2>1. OthersStay
    BY <1>7 DEF OthersStay
  <2>2. QED BY <1>1, <1>7, <2>1, BuildStays
<1>8. CASE RenamePart
  <2>1. Stays("metadata") /\ dest' = [dest EXCEPT ![Current] = part[Current]]
    BY <1>8, RenameRun DEF RenamePart, Moves
  <2>2. QED BY <1>4, <1>8, <2>1
<1>9. CASE LinkPart
  <2>1. \/ /\ dest[Current].there /\ Passes(NoState) /\ UNCHANGED dest
           /\ run'.failed = run.failed /\ run'.skipped = run.skipped \cup {Current}
        \/ Stays("rename") /\ UNCHANGED dest
        \/ Stays("remove") /\ dest' = [dest EXCEPT ![Current] = part[Current]]
    BY <1>9, LinkRun DEF Moves
  <2>2. CASE Stays("remove") /\ dest' = [dest EXCEPT ![Current] = part[Current]]
    BY <1>4, <1>9, <2>2
  <2>3. QED BY <1>3, <1>7, <1>9, <2>1, <2>2
<1>10. QED
  BY <1>5, <1>6, <1>8, <1>9

LEMMA AccountBegin == Begin => AccountInv' /\ FailedInv'
<1> SUFFICES ASSUME Begin PROVE AccountInv' /\ FailedInv'
  OBVIOUS
<1>1. PICK content \in Snapshots, ov \in Overwrite : \E owner, todo :
        /\ run' = [NoRun EXCEPT !.at = "pick", !.content = content, !.overwrite = ov, !.owner = owner,
                                !.todo = todo, !.first = TRUE]
        /\ todo # {}
  <2>1. PICK content \in Snapshots, ov \in Overwrite :
          LET owner == [c \in Needed(content, ov) |-> Owner(c)]
              sources == Sources(owner)
          IN run' = [NoRun EXCEPT !.at = "pick", !.content = content, !.overwrite = ov, !.owner = owner,
                                  !.todo = IF sources = {} THEN {NoDisc} ELSE sources, !.first = TRUE]
    BY DEF Begin
  <2> PICK owner : owner = [c \in Needed(content, ov) |-> Owner(c)]
    OBVIOUS
  <2> PICK sources : sources = Sources(owner)
    OBVIOUS
  <2>2. PICK todo : todo = IF sources = {} THEN {NoDisc} ELSE sources
    OBVIOUS
  <2>3. todo # {}
    BY <2>2
  <2>4. QED BY <2>1, <2>2, <2>3
<1>2. /\ run'.at = "pick" /\ run'.first /\ run'.todo # {} /\ run'.failed = {}
      /\ run'.states = [i \in Walk |-> NoState]
  BY <1>1 DEF NoRun
<1>3. AccountInv'
  BY <1>2 DEF AccountInv, Accounted, LinkedIsRestored, FirstWalkIsDue, InHandIsPending,
              EveryFileAccounted, Building, Linking, AheadOf
<1>4. FailedInv'
  BY <1>2 DEF FailedInv, FailedIsOver, OpenIsNotRestored, FailedIsNotRestored, NoState, Building
<1>5. QED
  BY <1>3, <1>4

LEMMA AccountPick == RunOK /\ AccountInv /\ FailedInv /\ PickSource => AccountInv' /\ FailedInv'
<1> SUFFICES ASSUME RunOK, AccountInv, FailedInv, PickSource PROVE AccountInv' /\ FailedInv'
  OBVIOUS
<1>1. run.at = "pick" /\ dest' = dest /\ Working
  BY DEF PickSource, Working, files
<1>2. /\ run'.content = run.content /\ run'.overwrite = run.overwrite /\ run'.first = run.first
      /\ run'.states = run.states /\ run'.failed = run.failed /\ run'.skipped = run.skipped
      /\ run'.no = 1 /\ run'.at \in {"file", "pick"} /\ (run.first => run'.at = "file")
  BY PickRun DEF SamePlan
<1>3. \A i \in Walk : 1 <= i
  BY WalkIsNat
<1>4. AccountInv'
  <2>1. Accounted'
    BY <1>1, <1>2, <1>3 DEF AccountInv, Accounted, Restored, AheadOf
  <2>2. QED BY <1>2, <2>1 DEF AccountInv, LinkedIsRestored, FirstWalkIsDue, InHandIsPending,
              EveryFileAccounted, Building, Linking
<1>5. FailedInv'
  <2>1. FailedIsOver'
    BY <1>1, <1>2 DEF FailedInv, FailedIsOver, AheadOf, InHand, Building, Linking
  <2>2. OpenIsNotRestored'
    BY <1>1, <1>2 DEF FailedInv, OpenIsNotRestored, Restored, Building, Linking
  <2>3. QED BY <1>2, <2>1, <2>2 DEF FailedInv, FailedIsNotRestored
<1>6. QED
  BY <1>4, <1>5

LEMMA AccountEndWalk == RunOK /\ AccountInv /\ FailedInv /\ EndWalk => AccountInv' /\ FailedInv'
<1> SUFFICES ASSUME RunOK, AccountInv, FailedInv, EndWalk PROVE AccountInv' /\ FailedInv'
  OBVIOUS
<1>1. run.at = "file" /\ run.no \notin Walk /\ dest' = dest /\ Working
  BY DEF EndWalk, Working
<1>2. /\ run'.content = run.content /\ run'.overwrite = run.overwrite /\ run'.first = FALSE
      /\ run'.states = run.states /\ run'.failed = run.failed /\ run'.skipped = run.skipped
      /\ run'.at = "pick"
  BY EndWalkRun DEF SamePlan
<1>3. \A i \in Walk : ~AheadOf(i)
  <2>1. run.no \in Nat /\ run.no > 0 /\ Len(Selected) \in Nat
    BY <1>1, SelectionAssumption DEF RunOK
  <2>2. QED BY <1>1, <2>1, WalkIsNat DEF AheadOf
<1>4. AccountInv'
  <2>1. Accounted'
    BY <1>1, <1>2, <1>3 DEF AccountInv, Accounted, Restored
  <2>2. QED BY <1>2, <2>1 DEF AccountInv, LinkedIsRestored, FirstWalkIsDue, InHandIsPending,
              EveryFileAccounted, Building, Linking
<1>5. FailedInv'
  <2>1. FailedIsOver'
    BY <1>1, <1>2 DEF FailedInv, FailedIsOver, InHand, Building, Linking
  <2>2. OpenIsNotRestored'
    BY <1>1, <1>2 DEF FailedInv, OpenIsNotRestored, Restored, Building, Linking
  <2>3. QED BY <1>2, <2>1, <2>2 DEF FailedInv, FailedIsNotRestored
<1>6. QED
  BY <1>4, <1>5

LEMMA AccountFinish == RunOK /\ AccountInv /\ FailedInv /\ Finish => AccountInv' /\ FailedInv'
<1> SUFFICES ASSUME RunOK, AccountInv, FailedInv, Finish PROVE AccountInv' /\ FailedInv'
  OBVIOUS
<1> DEFINE incomplete == {Selected[i] : i \in {j \in Walk : run.states[j].pending}}
<1>1. /\ run.at = "pick" /\ run.todo = {} /\ dest' = dest /\ Working
      /\ run' = [NoRun EXCEPT !.content = run.content, !.failed = run.failed \cup incomplete,
                              !.skipped = run.skipped, !.overwrite = run.overwrite]
  BY DEF Finish, Working, files
<1>2. /\ run'.at = "none" /\ run'.content = run.content /\ run'.failed = run.failed \cup incomplete
      /\ run'.skipped = run.skipped /\ run'.overwrite = run.overwrite
  BY <1>1 DEF NoRun
<1>3. ~run.first
  BY <1>1 DEF AccountInv, FirstWalkIsDue
<1>4. EveryFileAccounted'
  <2>1. SUFFICES ASSUME NEW f \in Range(Selected)
                 PROVE  \/ dest[f].there /\ dest[f].pos = run.content[f]
                        \/ f \in run.failed \cup incomplete \cup run.skipped
    BY <1>1, <1>2 DEF EveryFileAccounted, Restored
  <2>2. PICK i \in Walk : f = Selected[i]
    BY SelectionAssumption DEF Range, Walk
  <2>3. QED BY <1>1, <1>3, <2>2 DEF AccountInv, Accounted, Restored
<1>5. FailedIsNotRestored'
  <2>1. SUFFICES ASSUME ~run.overwrite, NEW f \in run.failed \cup incomplete
                 PROVE  ~(dest[f].there /\ dest[f].pos = run.content[f])
    BY <1>1, <1>2 DEF FailedIsNotRestored, Restored
  <2>2. PICK i \in Walk : f = Selected[i] /\ (f \in run.failed \/ run.states[i].pending)
    BY SelectionAssumption DEF Range, Walk, RunOK
  <2>3. QED BY <1>1, <2>1, <2>2 DEF FailedInv, OpenIsNotRestored, Restored, Linking
<1>6. QED
  BY <1>2, <1>4, <1>5 DEF AccountInv, FailedInv, Accounted, LinkedIsRestored, FirstWalkIsDue,
     InHandIsPending, FailedIsOver, OpenIsNotRestored, Working, Building, Linking

LEMMA AccountReset ==
  ASSUME run' = NoRun
  PROVE  AccountInv' /\ FailedInv'
BY DEF NoRun, AccountInv, FailedInv, Accounted, LinkedIsRestored, FirstWalkIsDue, InHandIsPending,
       EveryFileAccounted, FailedIsNotRestored, FailedIsOver, OpenIsNotRestored, Working, Building, Linking

LEMMA AccountSame ==
  ASSUME AccountInv, FailedInv, run' = run, dest' = dest
  PROVE  AccountInv' /\ FailedInv'
BY DEF AccountInv, FailedInv, Accounted, LinkedIsRestored, FirstWalkIsDue, InHandIsPending,
       EveryFileAccounted, FailedIsNotRestored, FailedIsOver, OpenIsNotRestored, Working, Building,
       Linking, AheadOf, InHand, Restored, Current, Entries

LEMMA AccountPower ==
  FilesOK /\ WholeInv /\ AccountInv /\ FailedInv /\ PowerLoss => AccountInv' /\ FailedInv'
<1> SUFFICES ASSUME FilesOK, WholeInv, AccountInv, FailedInv, PowerLoss
             PROVE  AccountInv' /\ FailedInv'
  OBVIOUS
<1>1. CASE run' = NoRun
  BY <1>1, AccountReset
<1>2. CASE run' = run /\ run.at = "none" /\ run.content # << >>
  BY <1>2, PowerFiles, AccountSame DEF WholeInv, SoftByStop
<1>3. CASE run' = run /\ run.at = "none" /\ run.content = << >>
  BY <1>3 DEF AccountInv, FailedInv, Accounted, LinkedIsRestored, FirstWalkIsDue, InHandIsPending,
              EveryFileAccounted, FailedIsNotRestored, FailedIsOver, OpenIsNotRestored, Working,
              Building, Linking
<1>4. QED
  BY <1>1, <1>2, <1>3, PowerFiles

LEMMA AccountForeign ==
  FilesOK /\ RunOK /\ AccountInv /\ FailedInv /\ PutForeign => AccountInv' /\ FailedInv'
<1> SUFFICES ASSUME FilesOK, RunOK, AccountInv, FailedInv, PutForeign
             PROVE  AccountInv' /\ FailedInv'
  OBVIOUS
<1>1. PICK g \in File : ~dest[g].there /\ dest' = [dest EXCEPT ![g] = Holding(<<Foreign>>)]
  BY DEF PutForeign
<1>2. run' = run
  BY DEF PutForeign
<1>3. \A f \in File : dest'[f] = IF f = g THEN [there |-> TRUE, pos |-> <<Foreign>>] ELSE dest[f]
  BY <1>1 DEF FilesOK, Holding
<1>4. \A entries \in Seq(Chunk) : <<Foreign>> # entries
  <2>1. SUFFICES ASSUME <<Foreign>> \in Seq(Chunk) PROVE FALSE
    OBVIOUS
  <2>2. <<Foreign>>[1] \in Chunk
    BY <2>1
  <2>3. QED BY <2>2, SelectionAssumption
<1>5. ASSUME NEW f \in File, NEW entries \in Seq(Chunk)
      PROVE  /\ Restored(f, entries) => dest'[f].there /\ dest'[f].pos = entries
             /\ ~Restored(f, entries) => ~(dest'[f].there /\ dest'[f].pos = entries)
  BY <1>1, <1>3, <1>4 DEF Restored
<1>6. \A f \in Range(Selected) : f \in File
  BY SelectionAssumption DEF Range
<1>7. \A f \in File : run.content # << >> => run.content[f] \in Seq(Chunk)
  BY SelectionAssumption DEF RunOK
<1>8. \A i \in Walk : Selected[i] \in File /\ (Working => run.content[Selected[i]] \in Seq(Chunk))
  BY EntriesType, SelectedType
<1>9. AccountInv'
  <2>1. Accounted'
    <3>1. SUFFICES ASSUME Working, NEW i \in Walk, run.first => ~AheadOf(i)
                   PROVE  \/ run.states[i].pending
                          \/ /\ dest'[Selected[i]].there
                             /\ dest'[Selected[i]].pos = run.content[Selected[i]]
                          \/ Selected[i] \in run.failed \cup run.skipped
      BY <1>2 DEF Accounted, Working, AheadOf, Restored
    <3>2. QED BY <1>5, <1>8, <3>1 DEF AccountInv, Accounted
  <2>2. LinkedIsRestored'
    <3>1. SUFFICES ASSUME Linking PROVE dest'[Current].there /\ dest'[Current].pos = Entries
      BY <1>2 DEF LinkedIsRestored, Restored, Current, Entries, Linking
    <3>2. Current \in File /\ Entries \in Seq(Chunk)
      BY <3>1, HandType
    <3>3. QED BY <1>5, <3>1, <3>2 DEF AccountInv, LinkedIsRestored
  <2>3. EveryFileAccounted'
    <3>1. SUFFICES ASSUME run.at = "none", run.content # << >>, NEW f \in Range(Selected)
                   PROVE  \/ dest'[f].there /\ dest'[f].pos = run.content[f]
                          \/ f \in run.failed \cup run.skipped
      BY <1>2 DEF EveryFileAccounted, Restored
    <3>2. QED BY <1>5, <1>6, <1>7, <3>1 DEF AccountInv, EveryFileAccounted
  <2>4. QED BY <1>2, <2>1, <2>2, <2>3 DEF AccountInv, FirstWalkIsDue, InHandIsPending, Building, Linking
<1>10. FailedInv'
  <2>1. FailedIsOver'
    BY <1>2 DEF FailedInv, FailedIsOver, Working, InHand, AheadOf, Building, Linking
  <2>2. OpenIsNotRestored'
    <3>1. SUFFICES ASSUME Working, ~run.overwrite, NEW i \in Walk,
                          \/ Selected[i] \in run.failed
                          \/ run.states[i].pending /\ ~(i = run.no /\ Linking)
                          \/ i = run.no /\ Building
                   PROVE  ~(/\ dest'[Selected[i]].there
                            /\ dest'[Selected[i]].pos = run.content[Selected[i]])
      BY <1>2 DEF OpenIsNotRestored, Working, Building, Linking, Restored
    <3>2. QED BY <1>5, <1>8, <3>1 DEF FailedInv, OpenIsNotRestored
  <2>3. FailedIsNotRestored'
    <3>1. SUFFICES ASSUME run.at = "none", ~run.overwrite, run.content # << >>, NEW f \in run.failed
                   PROVE  ~(dest'[f].there /\ dest'[f].pos = run.content[f])
      BY <1>2 DEF FailedIsNotRestored, Restored
    <3>2. f \in File
      BY <1>6 DEF RunOK
    <3>3. QED BY <1>5, <1>7, <3>1, <3>2 DEF FailedInv, FailedIsNotRestored
  <2>4. QED BY <2>1, <2>2, <2>3 DEF FailedInv
<1>11. QED
  BY <1>9, <1>10

LEMMA AccountNext ==
  FilesOK /\ RunOK /\ WholeInv /\ AccountInv /\ FailedInv /\ [Next]_vars => AccountInv' /\ FailedInv'
<1> SUFFICES ASSUME FilesOK, RunOK, WholeInv, AccountInv, FailedInv, [Next]_vars
             PROVE  AccountInv' /\ FailedInv'
  OBVIOUS
<1>1. CASE GcRemoves \/ UNCHANGED vars
  BY <1>1, AccountSame DEF GcRemoves, vars, files
<1>2. CASE Stop
  BY <1>2, AccountReset DEF Stop
<1>3. QED
  BY <1>1, <1>2, AccountBegin, AccountPick, AccountDecide, AccountVisit, AccountBuild, AccountLink,
     AccountEndWalk, AccountFinish, AccountPower, AccountForeign DEF Next, RunStep

--------------------------------------------------------------------------------
(* The count is what the part file owes *)

Counted(i) ==
  StateOf(i).remaining =
    Cardinality(DOMAIN run.content[Selected[i]] \ ChunkAt(Selected[i], run.content[Selected[i]]))

LEMMA CountIsOfOwing == CountIsOwed <=> (Working => \A i \in Walk : Owing(i) => Counted(i))
BY DEF CountIsOwed, Working, Owing, Counted, StateOf, InHand, Building, Linking

PartsStay == \A f \in File : f # Current => part'[f] = part[f]

\* The positions that are held after a step, and those that the walk may still write.
HeldNext == {k \in DOMAIN Entries : k <= Len(part'[Current].pos) /\ part'[Current].pos[k] = Entries[k]}

NotToDo(K) == \A k \in K : \A s \in run.todo : ~Owns(s, Entries[k])

\* What the other files keep in a step of the file in hand.
LEMMA OthersCount ==
  ASSUME RunOK, CountInv, Working, run.no \in Walk, run.at # "pick", PartsStay, SameWalk,
         NEW i \in Walk, i # run.no, run'.states[i] = run.states[i], run.states[i].pending,
         run'.at \notin {"pick", "none"},
         \/ run'.no = run.no
         \/ run'.no = run.no + 1 /\ run'.at = "file",
         Owing(i)', ~(run'.at = "write" /\ i = run'.no)
  PROVE  /\ Counted(i)'
         /\ ~StateOf(i)'.resume =>
              \A k \in ChunkAt(Selected[i], run.content[Selected[i]])' :
                LET c == run.content[Selected[i]][k]
                IN /\ \A s \in run.todo : ~Owns(s, c)
                   /\ Owns(run.source, c) => ~AheadOf(i)'
<1>1. Owing(i) /\ StateOf(i) = run.states[i] /\ StateOf(i)' = run.states[i]
  BY DEF Owing, StateOf, InHand
<1>2. part'[Selected[i]] = part[Selected[i]] /\ run'.content = run.content
  BY OtherFile DEF PartsStay, SameWalk, SamePlan
<1>3. ChunkAt(Selected[i], run.content[Selected[i]])' = ChunkAt(Selected[i], run.content[Selected[i]])
  BY <1>2 DEF ChunkAt
<1>4. Counted(i)
  BY <1>1, CountIsOfOwing DEF CountInv
<1>5. Counted(i)'
  BY <1>1, <1>2, <1>3, <1>4 DEF Counted
<1>6. AheadOf(i)' = AheadOf(i)
  BY WalkIsNat DEF AheadOf, Working
<1>7. ASSUME ~StateOf(i).resume, NEW k \in ChunkAt(Selected[i], run.content[Selected[i]])
      PROVE  LET c == run.content[Selected[i]][k]
             IN /\ \A s \in run.todo : ~Owns(s, c)
                /\ Owns(run.source, c) => ~AheadOf(i)
  BY <1>1, <1>7 DEF CountInv, HeldOfWalked
<1>8. QED
  BY <1>1, <1>3, <1>5, <1>6, <1>7

LEMMA PassCounts ==
  ASSUME RunOK, CountInv, Working, run.no \in Walk, run.at # "pick",
         NEW st \in FileState, Passes(st), PartsStay,
         st.pending => /\ part' = part
                       /\ st.remaining = Cardinality(DOMAIN Entries \ ChunkAt(Current, Entries))
                       /\ ~st.resume => NotToDo(ChunkAt(Current, Entries))
  PROVE  CountInv'
<1>1. \A i \in Walk : run'.states[i] = IF i = run.no THEN st ELSE run.states[i]
  BY DEF Passes, RunOK
<1>2. /\ run'.at = "file" /\ run'.no = run.no + 1 /\ SameWalk /\ run'.content = run.content
      /\ run'.todo = run.todo /\ run'.source = run.source /\ run'.owner = run.owner
      /\ run'.first = run.first
  BY DEF Passes, SameWalk, SamePlan
<1>3. \A s, c : Owns(s, c)' = Owns(s, c)
  BY <1>2 DEF Owns
<1>4. ASSUME NEW i \in Walk, Owing(i)'
      PROVE  /\ Counted(i)'
             /\ ~StateOf(i)'.resume =>
                  \A k \in ChunkAt(Selected[i], run.content[Selected[i]])' :
                    LET c == run.content[Selected[i]][k]
                    IN /\ \A s \in run.todo : ~Owns(s, c)
                       /\ Owns(run.source, c) => ~AheadOf(i)'
  <2>1. run'.states[i].pending
    BY <1>2, <1>4 DEF Owing
  <2>2. CASE i # run.no
    <3>1. run'.states[i] = run.states[i] /\ run.states[i].pending
      BY <1>1, <2>1, <2>2
    <3>2. QED BY <1>2, <1>4, <2>2, <3>1, OthersCount
  <2>3. CASE i = run.no
    <3>1. st.pending /\ StateOf(i)' = st /\ Selected[i] = Current /\ run.content[Selected[i]] = Entries
      BY <1>1, <1>2, <2>1, <2>3 DEF StateOf, Current, Entries
    <3>2. ChunkAt(Selected[i], run.content[Selected[i]])' = ChunkAt(Current, Entries)
      BY <1>2, <3>1 DEF ChunkAt
    <3>3. Counted(i)'
      BY <1>2, <3>1, <3>2 DEF Counted
    <3>4. ~AheadOf(i)'
      BY <1>2, <2>3, WalkIsNat DEF AheadOf
    <3>5. QED BY <3>1, <3>2, <3>3, <3>4 DEF NotToDo
  <2>4. QED BY <2>2, <2>3
<1>5. HeldOfWalked'
  <2>1. SUFFICES ASSUME NEW i \in Walk, Owing(i)', ~StateOf(i)'.resume,
                        NEW k \in ChunkAt(Selected[i], run.content[Selected[i]])',
                        NEW c, c = run.content[Selected[i]][k]
                 PROVE  (\A s \in run.todo : ~Owns(s, c)) /\ (Owns(run.source, c) => ~AheadOf(i)')
    BY <1>2, <1>3 DEF HeldOfWalked
  <2>2. QED BY <1>4, <2>1
<1>6. CountIsOwed'
  <2>1. CountIsOwed' <=> (Working => \A i \in Walk : Owing(i) => Counted(i))'
    BY CountIsOfOwing, PTL
  <2>2. QED BY <1>4, <2>1
<1>7. FirstHasNone'
  <2>1. SUFFICES ASSUME run.first, NEW i \in Walk, run.no + 1 <= i PROVE ~run'.states[i].pending
    BY <1>2 DEF FirstHasNone, AheadOf
  <2>2. i # run.no /\ AheadOf(i)
    BY <2>1, WalkIsNat DEF AheadOf
  <2>3. QED BY <1>1, <2>1, <2>2 DEF CountInv, FirstHasNone
<1>8. SourceIsTaken' /\ WantedIsOwned'
  BY <1>2 DEF CountInv, SourceIsTaken, WantedIsOwned, Working
<1>9. QED
  BY <1>5, <1>6, <1>7, <1>8 DEF CountInv

LEMMA StayCounts ==
  ASSUME RunOK, CountInv, Working, run.no \in Walk, run.at # "pick",
         NEW at \in {"write", "seal", "unlink", "link", "rename", "remove", "metadata"}, Stays(at), PartsStay,
         NEW held, held = HeldNext,
         at = "write" => /\ run'.st.remaining = Cardinality(DOMAIN Entries \ held)
                         /\ ~run'.st.resume => /\ NotToDo(held)
                                               /\ \A k \in held : Owns(run.source, Entries[k]) => k \notin run'.wanted
                         /\ \A k \in run'.wanted : Owns(run.source, Entries[k])
  PROVE  CountInv'
<1>1. /\ run'.at = at /\ run'.no = run.no /\ SameWalk /\ run'.content = run.content
      /\ run'.todo = run.todo /\ run'.source = run.source /\ run'.owner = run.owner
      /\ run'.first = run.first /\ run'.states = run.states
      /\ Current' = Current /\ Entries' = Entries
  BY DEF Stays, SameWalk, SamePlan, Current, Entries
<1>2. \A s, c : Owns(s, c)' = Owns(s, c)
  BY <1>1 DEF Owns
<1>3. ASSUME NEW i \in Walk, Owing(i)', i # run.no
      PROVE  /\ Counted(i)'
             /\ ~StateOf(i)'.resume =>
                  \A k \in ChunkAt(Selected[i], run.content[Selected[i]])' :
                    LET c == run.content[Selected[i]][k]
                    IN /\ \A s \in run.todo : ~Owns(s, c)
                       /\ Owns(run.source, c) => ~AheadOf(i)'
  <2>1. run.states[i].pending
    BY <1>1, <1>3 DEF Owing
  <2>2. QED BY <1>1, <1>3, <2>1, OthersCount
<1>4. ASSUME NEW i \in Walk, i = run.no, Owing(i)'
      PROVE  /\ at = "write" /\ Counted(i)'
             /\ ChunkAt(Selected[i], run.content[Selected[i]])' = held
             /\ StateOf(i)' = run'.st
  <2>1. at = "write"
    BY <1>1, <1>4 DEF Owing, InHand, Building, Linking
  <2>2. StateOf(i)' = run'.st
    BY <1>1, <1>4, <2>1 DEF StateOf
  <2>3. ChunkAt(Selected[i], run.content[Selected[i]])' = held
    BY <1>1, <1>4 DEF ChunkAt, HeldNext, Current, Entries
  <2>4. QED BY <1>1, <1>4, <2>1, <2>2, <2>3 DEF Counted, Current, Entries
<1>5. HeldOfWalked'
  <2>1. SUFFICES ASSUME NEW i \in Walk, Owing(i)', ~StateOf(i)'.resume,
                        NEW k \in ChunkAt(Selected[i], run.content[Selected[i]])',
                        NEW c, c = run.content[Selected[i]][k]
                 PROVE  /\ \A s \in run.todo : ~Owns(s, c)
                        /\ Owns(run.source, c) =>
                             IF at = "write" /\ i = run.no THEN k \notin run'.wanted ELSE ~AheadOf(i)'
    BY <1>1, <1>2 DEF HeldOfWalked
  <2>2. CASE i # run.no
    BY <1>3, <2>1, <2>2
  <2>3. CASE i = run.no
    <3>1. at = "write" /\ k \in held /\ c = Entries[k] /\ ~run'.st.resume
      BY <1>4, <2>1, <2>3 DEF Current, Entries
    <3>2. QED BY <2>1, <2>3, <3>1 DEF NotToDo
  <2>4. QED BY <2>2, <2>3
<1>6. CountIsOwed'
  <2>1. \A i \in Walk : Owing(i)' => Counted(i)'
    BY <1>1, <1>3, <1>4
  <2>2. CountIsOwed' <=> (Working => \A i \in Walk : Owing(i) => Counted(i))'
    BY CountIsOfOwing, PTL
  <2>3. QED BY <2>1, <2>2
<1>7. FirstHasNone'
  BY <1>1 DEF CountInv, FirstHasNone, AheadOf
<1>8. SourceIsTaken' /\ WantedIsOwned'
  BY <1>1, <1>2 DEF CountInv, SourceIsTaken, WantedIsOwned, Working
<1>9. QED
  BY <1>5, <1>6, <1>7, <1>8 DEF CountInv

LEMMA InitCount == Init => CountInv
BY DEF Init, CountInv, HeldOfWalked, WantedIsOwned, CountIsOwed, FirstHasNone, SourceIsTaken, NoRun, Working

\* What the count of a file in hand or of a file to come says.
LEMMA OwingFacts ==
  ASSUME RunOK, CountInv, run.no \in Walk, NEW st,
         \/ run.at = "write" /\ st = run.st
         \/ run.at = "file" /\ st = run.states[run.no] /\ st.pending
  PROVE  /\ st.remaining = Cardinality(DOMAIN Entries \ ChunkAt(Current, Entries))
         /\ ~st.resume => NotToDo(ChunkAt(Current, Entries))
         /\ ~st.resume => \A k \in ChunkAt(Current, Entries) :
              Owns(run.source, Entries[k]) => run.at = "write" /\ k \notin run.wanted
<1>1. Working /\ run.at # "pick"
  BY DEF Working
<1>2. PICK i \in Walk : i = run.no
  OBVIOUS
<1>3. Owing(i) /\ StateOf(i) = st /\ AheadOf(i) /\ (run.at = "file" => ~(run.at = "write"))
  BY <1>1, <1>2, WalkIsNat DEF Owing, StateOf, InHand, Building, Linking, AheadOf
<1>4. Counted(i)
  BY <1>1, <1>3, CountIsOfOwing DEF CountInv
<1>5. Selected[i] = Current /\ run.content[Selected[i]] = Entries
  BY <1>2 DEF Current, Entries
<1>6. ASSUME ~st.resume, NEW k \in ChunkAt(Current, Entries)
      PROVE  /\ \A s \in run.todo : ~Owns(s, Entries[k])
             /\ Owns(run.source, Entries[k]) => run.at = "write" /\ k \notin run.wanted
  BY <1>1, <1>2, <1>3, <1>5, <1>6 DEF CountInv, HeldOfWalked
<1>7. QED
  BY <1>3, <1>4, <1>5, <1>6 DEF Counted, NotToDo

\* The count that register takes of a part file of an earlier run.
LEMMA RegisterCounts ==
  ASSUME FilesOK, NEW f \in File, NEW entries \in Seq(Chunk), NEW st, st = Register(f, entries)
  PROVE  /\ st.remaining = Cardinality(DOMAIN entries \ ChunkAt(f, entries))
         /\ ~st.resume => ChunkAt(f, entries) = {}
<1>1. part[f] \in Names /\ part[f].there \in BOOLEAN
  BY NamesFields DEF FilesOK
<1>2. ~part[f].there => ChunkAt(f, entries) = {}
  <2>1. SUFFICES ASSUME ~part[f].there, NEW k \in ChunkAt(f, entries) PROVE FALSE
    OBVIOUS
  <2>2. part[f].pos = << >>
    BY <1>1, <2>1, NamesFields DEF Nowhere
  <2>3. k \in 1 .. Len(entries) /\ k <= Len(<< >>)
    BY <2>1, <2>2, ChunkAtType DEF ChunkAt
  <2>4. QED BY <2>3
<1>3. Cardinality(DOMAIN entries \ ChunkAt(f, entries)) = Len(entries) - Cardinality(ChunkAt(f, entries))
  <2>1. DOMAIN entries \cap ChunkAt(f, entries) = ChunkAt(f, entries)
    BY ChunkAtType
  <2>2. IsFiniteSet(DOMAIN entries) /\ Cardinality(DOMAIN entries) = Len(entries)
    BY ChunkAtType
  <2>3. QED BY <2>1, <2>2, FS_Difference
<1>4. ~part[f].there => Cardinality(DOMAIN entries \ ChunkAt(f, entries)) = Len(entries)
  BY <1>2, ChunkAtType
<1>5. CASE part[f].there
  BY <1>3, <1>5 DEF Register
<1>6. CASE ~part[f].there
  <2>1. Len(entries) \in Int
    OBVIOUS
  <2>2. QED BY <1>2, <1>4, <1>6, <2>1 DEF Register
<1>7. QED
  BY <1>1, <1>5, <1>6

LEMMA CountDecide == FilesOK /\ RunOK /\ CountInv /\ DecideExisting => CountInv'
<1> SUFFICES ASSUME FilesOK, RunOK, CountInv, DecideExisting PROVE CountInv'
  OBVIOUS
<1>1. run.at = "file" /\ run.no \in Walk /\ Working /\ NoState \in FileState /\ ~NoState.pending
  BY DEF DecideExisting, Working, NoState, FileState
<1>2. PartsStay
  BY DEF DecideExisting, PartsStay, FilesOK
<1>3. QED
  BY <1>1, <1>2, DecideRun, PassCounts

LEMMA CountVisit == FilesOK /\ RunOK /\ CountInv /\ VisitFile => CountInv'
<1> SUFFICES ASSUME FilesOK, RunOK, CountInv, VisitFile PROVE CountInv'
  OBVIOUS
<1>1. /\ run.at = "file" /\ run.no \in Walk /\ Working /\ run.at # "pick"
      /\ NoState \in FileState /\ ~NoState.pending
  BY DEF VisitFile, Working, NoState, FileState
<1>2. /\ Current \in File /\ Entries \in Seq(Chunk) /\ VisitState \in FileState
      /\ [VisitState EXCEPT !.pending = TRUE] \in FileState
  BY <1>1, VisitType
<1>3. CASE UNCHANGED files /\ Passes(NoState)
  <2>1. PartsStay
    BY <1>3 DEF PartsStay, files
  <2>2. QED BY <1>1, <1>3, <2>1, PassCounts
<1>4. CASE run.first \/ VisitState.pending
  <2> PICK held : held = ChunkAt(Current, Entries)
    OBVIOUS
  <2>1. /\ VisitState.remaining = Cardinality(DOMAIN Entries \ held)
        /\ ~VisitState.resume => NotToDo(held) /\ \A k \in held : ~Owns(run.source, Entries[k])
    <3>1. CASE run.first
      BY <1>2, <3>1, RegisterCounts DEF VisitState, NotToDo
    <3>2. CASE ~run.first
      <4>1. PICK st : st = run.states[run.no]
        OBVIOUS
      <4>2. st = VisitState /\ st.pending
        BY <1>4, <3>2, <4>1 DEF VisitState
      <4>3. QED BY <1>1, <4>1, <4>2, OwingFacts
    <3>3. QED BY <3>1, <3>2
  <2>2. CASE UNCHANGED files /\ Passes([VisitState EXCEPT !.pending = TRUE])
    <3>1. PICK st : st = [VisitState EXCEPT !.pending = TRUE]
      OBVIOUS
    <3>2. st \in FileState /\ st.remaining = VisitState.remaining /\ st.resume = VisitState.resume
      BY <1>2, <3>1 DEF FileState
    <3>3. PartsStay /\ part' = part
      BY <2>2 DEF PartsStay, files
    <3>4. QED BY <1>1, <2>1, <2>2, <3>1, <3>2, <3>3, PassCounts
  <2>3. CASE /\ Stays("write") /\ run'.st = VisitState /\ run'.wanted = Wants
             /\ part' = [part EXCEPT ![Current] = Holding(Sized(part[Current].pos, Len(Entries)))]
    <3>1. PartsStay
      BY <2>3 DEF PartsStay, FilesOK
    <3>2. HeldNext = held
      <4>1. PICK n : n = Len(Entries)
        OBVIOUS
      <4>2. PICK p : p = part[Current].pos
        OBVIOUS
      <4>3. PICK B : B = Chunk \cup {Hole, Foreign}
        OBVIOUS
      <4>4. p \in Seq(B) /\ n \in Nat /\ Hole \in B /\ DOMAIN Entries = 1 .. n
        BY <1>2, <4>1, <4>2, <4>3, NamesFields DEF FilesOK
      <4>5. PICK q : q = Sized(p, n)
        OBVIOUS
      <4>6. part'[Current].pos = q
        BY <1>2, <2>3, <4>1, <4>2, <4>5 DEF FilesOK, Holding
      <4>7. Len(q) = n
        BY <4>4, <4>5, SizedType
      <4>8. \A k \in 1 .. n : q[k] = IF k <= Len(p) THEN p[k] ELSE Hole
        BY <4>4, <4>5 DEF Sized
      <4>9. \A k \in 1 .. n : Entries[k] \in Chunk /\ Entries[k] # Hole
        BY <1>2, <4>1, SelectionAssumption
      <4>10. \A k \in 1 .. n : (k <= Len(q) /\ q[k] = Entries[k]) <=> (k <= Len(p) /\ p[k] = Entries[k])
        BY <4>7, <4>8, <4>9
      <4>11. QED BY <4>2, <4>4, <4>6, <4>10 DEF HeldNext, ChunkAt
    <3>3. \A k \in Wants : Owns(run.source, Entries[k])
      BY DEF Wants
    <3>4. \A k \in held : ~VisitState.resume /\ Owns(run.source, Entries[k]) => k \notin Wants
      BY <2>1
    <3>5. QED BY <1>1, <2>1, <2>3, <3>1, <3>2, <3>3, <3>4, StayCounts
  <2>4. QED BY <1>3, <1>4, <2>2, <2>3, VisitRun
<1>5. QED
  BY <1>3, <1>4, VisitRun

LEMMA CountWrite == FilesOK /\ RunOK /\ WholeInv /\ CountInv /\ WriteChunk => CountInv'
<1> SUFFICES ASSUME FilesOK, RunOK, WholeInv, CountInv, WriteChunk PROVE CountInv'
  OBVIOUS
<1>1. /\ run.at = "write" /\ Building /\ run.at # "pick" /\ run.wanted # {}
      /\ NoState \in FileState /\ ~NoState.pending
  BY DEF WriteChunk, Building, NoState, FileState
<1>2. run.no \in Walk /\ Working /\ Current \in File /\ Entries \in Seq(Chunk)
  BY <1>1, HandType
<1>3. PICK i : i = Min(run.wanted)
  OBVIOUS
<1> PICK held : held = ChunkAt(Current, Entries)
  OBVIOUS
<1>4. i \in run.wanted /\ i \in DOMAIN Entries
  BY <1>1, <1>3, MinOfWanted
<1>5. /\ run.st.remaining = Cardinality(DOMAIN Entries \ held)
      /\ ~run.st.resume => NotToDo(held)
      /\ ~run.st.resume => \A k \in held : Owns(run.source, Entries[k]) => k \notin run.wanted
  <2>1. PICK st : st = run.st
    OBVIOUS
  <2>2. /\ st.remaining = Cardinality(DOMAIN Entries \ ChunkAt(Current, Entries))
        /\ ~st.resume => NotToDo(ChunkAt(Current, Entries))
        /\ ~st.resume => \A k \in ChunkAt(Current, Entries) :
              Owns(run.source, Entries[k]) => run.at = "write" /\ k \notin run.wanted
    BY <1>1, <1>2, <2>1, OwingFacts
  <2>3. QED BY <2>1, <2>2
<1>6. \A k \in run.wanted : Owns(run.source, Entries[k])
  BY <1>1 DEF CountInv, WantedIsOwned
<1>7. CASE UNCHANGED files /\ Passes(NoState)
  <2>1. PartsStay
    BY <1>7 DEF PartsStay, files
  <2>2. QED BY <1>1, <1>2, <1>7, <2>1, PassCounts
<1>8. CASE /\ Stays("write") /\ run'.st = run.st /\ run'.wanted = run.wanted \ {i} /\ UNCHANGED files
  <2>1. PartsStay /\ part' = part
    BY <1>8 DEF PartsStay, files
  <2>2. HeldNext = held
    BY <2>1 DEF HeldNext, ChunkAt
  <2>3. QED BY <1>1, <1>2, <1>5, <1>6, <1>8, <2>1, <2>2, StayCounts
<1>9. CASE /\ ~(run.st.resume /\ i \in held)
           /\ Stays("write") /\ run'.wanted = run.wanted \ {i}
           /\ run'.st = [run.st EXCEPT !.remaining = @ - 1]
           /\ part' = [part EXCEPT ![Current].pos[i] = Entries[i]]
  <2>1. PartsStay
    BY <1>9 DEF PartsStay, FilesOK
  <2>2. /\ part'[Current].pos = [part[Current].pos EXCEPT ![i] = Entries[i]]
        /\ Len(part'[Current].pos) = Len(Entries)
    BY <1>3, <1>9, WrittenPart
  <2>3. Len(part[Current].pos) = Len(Entries) /\ part[Current].pos \in Seq(Chunk \cup {Hole, Foreign})
    BY <1>1, <1>2, NamesFields DEF WholeInv, PartIsReady, FilesOK
  <2>4. i \notin held
    BY <1>4, <1>5, <1>6, <1>9
  <2>5. HeldNext = held \cup {i}
    <3>1. PICK p : p = part[Current].pos
      OBVIOUS
    <3>2. PICK n : n = Len(Entries)
      OBVIOUS
    <3>3. p \in Seq(Chunk \cup {Hole, Foreign}) /\ Len(p) = n /\ n \in Nat /\ DOMAIN Entries = 1 .. n
      BY <1>2, <2>3, <3>1, <3>2
    <3>4. PICK q : q = [p EXCEPT ![i] = Entries[i]]
      OBVIOUS
    <3>5. \A k \in 1 .. n : q[k] = IF k = i THEN Entries[i] ELSE p[k]
      BY <3>3, <3>4
    <3>6. Len(q) = n /\ part'[Current].pos = q
      BY <2>2, <3>1, <3>2, <3>4
    <3>7. HeldNext = {k \in 1 .. n : k <= Len(q) /\ q[k] = Entries[k]}
      BY <3>3, <3>6 DEF HeldNext
    <3>8. held = {k \in 1 .. n : k <= Len(p) /\ p[k] = Entries[k]}
      BY <3>1, <3>3 DEF ChunkAt
    <3>9. i \in 1 .. n
      BY <1>4, <3>3
    <3>10. QED BY <3>3, <3>5, <3>6, <3>7, <3>8, <3>9
  <2>6. PICK st : st = [run.st EXCEPT !.remaining = @ - 1]
    OBVIOUS
  <2>7. st.remaining = run.st.remaining - 1 /\ st.resume = run.st.resume
    BY <2>6 DEF RunOK, FileState
  <2>8. Cardinality(DOMAIN Entries \ (held \cup {i})) = Cardinality(DOMAIN Entries \ held) - 1
    <3>1. IsFiniteSet(DOMAIN Entries)
      BY <1>2, ChunkAtType
    <3>2. IsFiniteSet(DOMAIN Entries \ held)
      BY <3>1, FS_Subset
    <3>3. DOMAIN Entries \ (held \cup {i}) = (DOMAIN Entries \ held) \ {i}
      OBVIOUS
    <3>4. i \in DOMAIN Entries \ held
      BY <1>4, <2>4
    <3>5. QED BY <3>2, <3>3, <3>4, FS_RemoveElement
  <2>9. NotToDo({i})
    <3>1. Owns(run.source, Entries[i]) /\ run.source \notin run.todo
      BY <1>1, <1>4, <1>6 DEF CountInv, SourceIsTaken
    <3>2. QED BY <3>1 DEF NotToDo, Owns
  <2>10. ~st.resume => NotToDo(held \cup {i})
    BY <1>5, <2>7, <2>9 DEF NotToDo
  <2>11. ~st.resume => \A k \in held \cup {i} : Owns(run.source, Entries[k]) => k \notin run'.wanted
    BY <1>5, <1>9, <2>7
  <2>12. \A k \in run'.wanted : Owns(run.source, Entries[k])
    BY <1>6, <1>9
  <2>13. run'.st.remaining = Cardinality(DOMAIN Entries \ (held \cup {i})) /\ run'.st = st
    BY <1>5, <1>9, <2>6, <2>7, <2>8
  <2>14. QED BY <1>1, <1>2, <1>9, <2>1, <2>5, <2>10, <2>11, <2>12, <2>13, StayCounts
<1>10. QED
  BY <1>3, <1>7, <1>8, <1>9, WriteRun

LEMMA CountWriteEnds == FilesOK /\ RunOK /\ CountInv /\ WriteEnds => CountInv'
<1> SUFFICES ASSUME FilesOK, RunOK, CountInv, WriteEnds PROVE CountInv'
  OBVIOUS
<1>1. run.at = "write" /\ Building /\ run.at # "pick" /\ part' = part /\ PartsStay
  BY DEF WriteEnds, Building, files, PartsStay
<1>2. run.no \in Walk /\ Working /\ Current \in File /\ Entries \in Seq(Chunk)
  BY <1>1, HandType
<1>3. CASE Stays("seal")
  BY <1>1, <1>2, <1>3, StayCounts
<1>4. CASE Passes([run.st EXCEPT !.pending = TRUE])
  <2>1. PICK st : st = [run.st EXCEPT !.pending = TRUE]
    OBVIOUS
  <2>2. st \in FileState /\ st.remaining = run.st.remaining /\ st.resume = run.st.resume
    BY <2>1 DEF RunOK, FileState
  <2>3. PICK old : old = run.st
    OBVIOUS
  <2>4. /\ old.remaining = Cardinality(DOMAIN Entries \ ChunkAt(Current, Entries))
        /\ ~old.resume => NotToDo(ChunkAt(Current, Entries))
    BY <1>1, <1>2, <2>3, OwingFacts
  <2>5. QED BY <1>1, <1>2, <1>4, <2>1, <2>2, <2>3, <2>4, PassCounts
<1>5. QED
  BY <1>3, <1>4, WriteEndsRun DEF Moves

LEMMA CountFinishes ==
  FilesOK /\ RunOK /\ CountInv
    /\ (SealPart \/ UnlinkExisting \/ LinkPart \/ RenamePart \/ NameFails \/ RemovePart \/ ApplyMetadata)
  => CountInv'
<1> SUFFICES ASSUME FilesOK, RunOK, CountInv,
                    \/ SealPart \/ UnlinkExisting \/ LinkPart \/ RenamePart \/ NameFails
                    \/ RemovePart \/ ApplyMetadata
             PROVE  CountInv'
  OBVIOUS
<1>1. Building \/ Linking
  BY DEF SealPart, UnlinkExisting, LinkPart, RenamePart, NameFails, RemovePart, ApplyMetadata,
         Building, Linking
<1>2. /\ run.no \in Walk /\ Working /\ Current \in File /\ run.at # "pick"
      /\ NoState \in FileState /\ ~NoState.pending
  BY <1>1, HandType DEF Building, Linking, NoState, FileState
<1>3. PartsStay
  BY DEF SealPart, UnlinkExisting, LinkPart, RenamePart, NameFails, RemovePart, ApplyMetadata,
         PartsStay, FilesOK
<1>4. CASE Passes(NoState)
  BY <1>2, <1>3, <1>4, PassCounts
<1>5. ASSUME NEW at \in {"unlink", "link", "rename", "remove", "metadata"}, Stays(at) PROVE CountInv'
  BY <1>2, <1>3, <1>5, StayCounts
<1>6. QED
  BY <1>4, <1>5, SealRun, UnlinkRun, LinkRun, RenameRun, NameFailsRun, RemoveRun, MetadataRun
     DEF Moves

LEMMA CountPick == RunOK /\ CountInv /\ PickSource => CountInv'
<1> SUFFICES ASSUME RunOK, CountInv, PickSource PROVE CountInv'
  OBVIOUS
<1>1. run.at = "pick" /\ part' = part /\ Working
  BY DEF PickSource, Working, files
<1>2. /\ run'.content = run.content /\ run'.owner = run.owner /\ run'.first = run.first
      /\ run'.states = run.states /\ run'.source \in run.todo /\ run'.todo = run.todo \ {run'.source}
      /\ run'.at \in {"file", "pick"}
  BY PickRun DEF SamePlan
<1>3. \A i \in Walk : (Owing(i)' <=> Owing(i)) /\ StateOf(i)' = StateOf(i)
  BY <1>1, <1>2 DEF Owing, StateOf, InHand, Building, Linking
<1>4. \A i \in Walk : ChunkAt(Selected[i], run.content[Selected[i]])' = ChunkAt(Selected[i], run.content[Selected[i]])
  BY <1>1, <1>2 DEF ChunkAt
<1>5. HeldOfWalked'
  <2>1. SUFFICES ASSUME NEW i \in Walk, Owing(i), ~StateOf(i).resume,
                        NEW k \in ChunkAt(Selected[i], run.content[Selected[i]]),
                        NEW c, c = run.content[Selected[i]][k]
                 PROVE  \A s \in run.todo : ~Owns(s, c)
    BY <1>2, <1>3, <1>4 DEF HeldOfWalked, Owns
  <2>2. QED BY <1>1, <2>1 DEF CountInv, HeldOfWalked
<1>6. CountIsOwed'
  <2>1. \A i \in Walk : Owing(i)' => Counted(i)'
    <3>1. \A i \in Walk : Owing(i) => Counted(i)
      BY <1>1, CountIsOfOwing DEF CountInv
    <3>2. QED BY <1>2, <1>3, <1>4, <3>1 DEF Counted
  <2>2. CountIsOwed' <=> (Working => \A i \in Walk : Owing(i) => Counted(i))'
    BY CountIsOfOwing, PTL
  <2>3. QED BY <2>1, <2>2
<1>7. FirstHasNone' /\ SourceIsTaken' /\ WantedIsOwned'
  BY <1>1, <1>2 DEF CountInv, FirstHasNone, SourceIsTaken, WantedIsOwned, AheadOf
<1>8. QED
  BY <1>5, <1>6, <1>7 DEF CountInv

LEMMA CountEndWalk == RunOK /\ CountInv /\ EndWalk => CountInv'
<1> SUFFICES ASSUME RunOK, CountInv, EndWalk PROVE CountInv'
  OBVIOUS
<1>1. run.at = "file" /\ part' = part /\ Working
  BY DEF EndWalk, Working
<1>2. /\ run'.content = run.content /\ run'.owner = run.owner /\ run'.first = FALSE
      /\ run'.states = run.states /\ run'.todo = run.todo /\ run'.at = "pick"
  BY EndWalkRun DEF SamePlan
<1>3. \A i \in Walk : (Owing(i)' <=> Owing(i)) /\ StateOf(i)' = StateOf(i)
  BY <1>1, <1>2 DEF Owing, StateOf, InHand, Building, Linking
<1>4. \A i \in Walk : ChunkAt(Selected[i], run.content[Selected[i]])' = ChunkAt(Selected[i], run.content[Selected[i]])
  BY <1>1, <1>2 DEF ChunkAt
<1>5. HeldOfWalked'
  <2>1. SUFFICES ASSUME NEW i \in Walk, Owing(i), ~StateOf(i).resume,
                        NEW k \in ChunkAt(Selected[i], run.content[Selected[i]]),
                        NEW c, c = run.content[Selected[i]][k]
                 PROVE  \A s \in run.todo : ~Owns(s, c)
    BY <1>2, <1>3, <1>4 DEF HeldOfWalked, Owns
  <2>2. QED BY <1>1, <2>1 DEF CountInv, HeldOfWalked
<1>6. CountIsOwed'
  <2>1. \A i \in Walk : Owing(i)' => Counted(i)'
    <3>1. \A i \in Walk : Owing(i) => Counted(i)
      BY <1>1, CountIsOfOwing DEF CountInv
    <3>2. QED BY <1>2, <1>3, <1>4, <3>1 DEF Counted
  <2>2. CountIsOwed' <=> (Working => \A i \in Walk : Owing(i) => Counted(i))'
    BY CountIsOfOwing, PTL
  <2>3. QED BY <2>1, <2>2
<1>7. FirstHasNone' /\ SourceIsTaken' /\ WantedIsOwned'
  BY <1>2 DEF FirstHasNone, SourceIsTaken, WantedIsOwned
<1>8. QED
  BY <1>5, <1>6, <1>7 DEF CountInv

LEMMA CountBegin == Begin => CountInv'
<1> SUFFICES ASSUME Begin PROVE CountInv'
  OBVIOUS
<1>1. PICK content \in Snapshots, ov \in Overwrite : \E owner, todo :
        run' = [NoRun EXCEPT !.at = "pick", !.content = content, !.overwrite = ov, !.owner = owner,
                             !.todo = todo, !.first = TRUE]
  BY DEF Begin
<1>2. run'.at = "pick" /\ run'.states = [i \in Walk |-> NoState]
  BY <1>1 DEF NoRun
<1>3. \A i \in Walk : ~Owing(i)'
  BY <1>2 DEF Owing, NoState
<1>4. CountIsOwed' <=> (Working => \A i \in Walk : Owing(i) => Counted(i))'
  BY CountIsOfOwing, PTL
<1>5. QED
  BY <1>2, <1>3, <1>4 DEF CountInv, HeldOfWalked, WantedIsOwned, FirstHasNone, SourceIsTaken, NoState

LEMMA CountIdle == run'.at = "none" => CountInv'
BY DEF CountInv, HeldOfWalked, WantedIsOwned, CountIsOwed, FirstHasNone, SourceIsTaken, Working

LEMMA CountSame ==
  ASSUME CountInv, run' = run, part' = part
  PROVE  CountInv'
<1>1. CountIsOwed'
  BY DEF CountInv, CountIsOwed, ChunkAt
<1>2. HeldOfWalked'
  <2>1. \A i : (Owing(i)' <=> Owing(i)) /\ StateOf(i)' = StateOf(i) /\ AheadOf(i)' = AheadOf(i)
    BY DEF Owing, StateOf, InHand, Building, Linking, AheadOf
  <2>2. QED BY <2>1 DEF CountInv, HeldOfWalked, Working, ChunkAt, Owns
<1>3. QED
  BY <1>1, <1>2 DEF CountInv, WantedIsOwned, FirstHasNone, SourceIsTaken, Working, AheadOf, Owns,
                    Entries, Current

LEMMA CountNext == FilesOK /\ RunOK /\ WholeInv /\ CountInv /\ [Next]_vars => CountInv'
<1> SUFFICES ASSUME FilesOK, RunOK, WholeInv, CountInv, [Next]_vars PROVE CountInv'
  OBVIOUS
<1>1. CASE GcRemoves \/ PutForeign \/ UNCHANGED vars
  BY <1>1, CountSame DEF GcRemoves, PutForeign, vars, files
<1>2. CASE Stop \/ Finish \/ PowerLoss
  <2>1. run'.at = "none"
    <3>1. NoRun.at = "none"
      BY DEF NoRun
    <3>2. CASE Stop \/ PowerLoss
      BY <3>1, <3>2 DEF Stop, PowerLoss
    <3>3. CASE Finish
      BY <3>3 DEF Finish, NoRun
    <3>4. QED BY <1>2, <3>2, <3>3
  <2>2. QED BY <2>1, CountIdle
<1>3. QED
  BY <1>1, <1>2, CountBegin, CountPick, CountDecide, CountVisit, CountWrite, CountWriteEnds,
     CountFinishes, CountEndWalk DEF Next, RunStep

--------------------------------------------------------------------------------
(* The theorems *)

LEMMA InitTypes == Init => FilesOK /\ RunOK
BY SelectionAssumption DEF Init, FilesOK, RunOK, NoRun, Names, Nowhere, FileState, NoState, Building,
                           Linking, Working

\* The files and the run keep their types through every step, stop and power loss.
THEOREM RestoreTypes == Spec => [](FilesOK /\ RunOK)
<1>1. Init => FilesOK /\ RunOK
  BY InitTypes
<1>2. FilesOK /\ RunOK /\ [Next]_vars => (FilesOK /\ RunOK)'
  BY RunTypes, FilesTypes
<1>3. QED
  BY <1>1, <1>2, PTL DEF Spec

RestoreInv == FilesOK /\ RunOK /\ WholeInv /\ AccountInv /\ FailedInv /\ CountInv

LEMMA InvHolds == Spec => [](NoLateOverwrite => RestoreInv)
<1>1. Init => (NoLateOverwrite => RestoreInv)
  BY InitTypes, InitWhole, InitAccount, InitCount DEF RestoreInv
<1>2. (NoLateOverwrite => RestoreInv) /\ [Next]_vars => (NoLateOverwrite => RestoreInv)'
  BY RunTypes, FilesTypes, WholeNext, AccountNext, CountNext DEF RestoreInv, NoLateOverwrite
<1>3. QED
  BY <1>1, <1>2, PTL DEF Spec

\* NamedFileWhole of finishPart: no final name has a part of a file, whatever is
\* lost, stopped or put there, when no run with --overwrite comes after a stop.
THEOREM FinalNamesAreWhole == Spec => [](NoLateOverwrite => NamedFileWhole)
<1>1. (NoLateOverwrite => RestoreInv) => (NoLateOverwrite => NamedFileWhole)
  BY DEF RestoreInv, WholeInv
<1>2. QED
  BY <1>1, InvHolds, PTL

\* EveryFileAccounted of the restore loop: a run that ends has restored each file
\* of the selection or named it as failed or as skipped.
THEOREM FilesAreAccounted == Spec => [](NoLateOverwrite => EveryFileAccounted)
<1>1. (NoLateOverwrite => RestoreInv) => (NoLateOverwrite => EveryFileAccounted)
  BY DEF RestoreInv, AccountInv
<1>2. QED
  BY <1>1, InvHolds, PTL

\* FailedIsNotRestored of the restore loop: a file that is named as failed is not
\* there with its content.
THEOREM FailedFilesAreNotThere == Spec => [](NoLateOverwrite => FailedIsNotRestored)
<1>1. (NoLateOverwrite => RestoreInv) => (NoLateOverwrite => FailedIsNotRestored)
  BY DEF RestoreInv, FailedInv
<1>2. QED
  BY <1>1, InvHolds, PTL

\* CountIsOwed of register and writeChunk: the count of a file that is not complete
\* is the number of positions that its part file does not hold.
THEOREM CountsAreOwed == Spec => [](NoLateOverwrite => CountIsOwed)
<1>1. (NoLateOverwrite => RestoreInv) => (NoLateOverwrite => CountIsOwed)
  BY DEF RestoreInv, CountInv
<1>2. QED
  BY <1>1, InvHolds, PTL

\* Where the file system has no hard links, the rename of the file in hand.
Renames(f) == f \in NoLinks /\ run.at = "rename" /\ f = Current

KeepsFiles ==
  \A f \in File : dest[f].there /\ ~run.overwrite /\ stops' = stops =>
    dest'[f] = dest[f] \/ Renames(f)

LEMMA StepsKeepFiles == RestoreInv /\ [Next]_vars => KeepsFiles
<1> SUFFICES ASSUME RestoreInv, [Next]_vars, ~run.overwrite, stops' = stops,
                    NEW f \in File, dest[f].there, ~Renames(f)
             PROVE  dest'[f] = dest[f]
  BY DEF KeepsFiles
<1> USE DEF RestoreInv
<1>1. CASE \/ Begin \/ PickSource \/ DecideExisting \/ WriteEnds \/ SealPart \/ RemovePart
           \/ NameFails \/ ApplyMetadata \/ EndWalk \/ Finish \/ GcRemoves \/ UNCHANGED vars
  BY <1>1 DEF Begin, PickSource, DecideExisting, WriteEnds, SealPart, RemovePart, NameFails,
              ApplyMetadata, EndWalk, Finish, GcRemoves, vars, files
<1>2. CASE VisitFile
  BY <1>2, VisitRun, VisitedIsFree DEF files
<1>3. CASE WriteChunk
  <2>1. Current \notin linked
    BY <1>3, BuildingIsFree DEF WriteChunk, Building
  <2>2. QED BY <1>3, <2>1 DEF WriteChunk, files
<1>4. CASE UnlinkExisting
  BY <1>4 DEF UnlinkExisting, WholeInv, PartIsReady
<1>5. CASE LinkPart
  BY <1>5 DEF LinkPart, LinkFails, FilesOK
<1>8. CASE RenamePart
  <2>1. Current \in NoLinks
    BY <1>8 DEF RenamePart, WholeInv, PartIsReady
  <2>2. QED BY <1>8, <2>1 DEF RenamePart, Renames, FilesOK
<1>6. CASE Stop \/ PowerLoss
  BY <1>6 DEF Stop, PowerLoss, FilesOK
<1>7. CASE PutForeign
  BY <1>7 DEF PutForeign, FilesOK
<1>9. QED
  BY <1>1, <1>2, <1>3, <1>4, <1>5, <1>6, <1>7, <1>8 DEF Next, RunStep

\* NothingOverwritten of linkPart and restoreFile: no step of a run without
\* --overwrite changes a file that is at a destination, but for the rename of a
\* file system without hard links, which replaces what another program put there
\* after the run had looked.
THEOREM NoFileIsOverwritten == Spec => (NoLateOverwrite => NothingOverwritten)
<1>1. (NoLateOverwrite => RestoreInv) /\ [Next]_vars => [NoLateOverwrite => KeepsFiles]_vars
  BY StepsKeepFiles
<1>2. CASE NoLateOverwrite
  <2>1. [NoLateOverwrite => KeepsFiles]_vars => [KeepsFiles]_vars
    BY <1>2
  <2>2. QED BY <1>1, <2>1, InvHolds, PTL DEF Spec, NothingOverwritten, KeepsFiles, Renames
<1>3. CASE ~NoLateOverwrite
  BY <1>3
<1>4. QED
  BY <1>2, <1>3

================================================================================
