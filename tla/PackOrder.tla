------------------------------- MODULE PackOrder -------------------------------
(***************************************************************************)
(* The pack order (internal/image/snaporder.go) and the runs that pack and *)
(* its dry run choose from it (internal/image/pack.go): a walk of the      *)
(* snapshots from the oldest, each in post-order, over the item log, the   *)
(* catalog and the staging store as commit, disc lost, gc and bad files    *)
(* leave them.                                                             *)
(*                                                                         *)
(* An item is a number, which stands for the bytes of its content id.      *)
(***************************************************************************)
EXTENDS ItemLog, Capacity, Functions

CONSTANTS
  Chunk, Blob, Tree, Snapshot,  \* the items of each kind
  Entries,      \* the children of each item, in their order
  Time,         \* the time of each snapshot
  Size,         \* the bytes of the file of each item
  FixedSectors, \* the sectors of DISC, README, FORMAT and REFS
  Capacities,   \* the capacities that the operator gives, in sectors
  Starts,       \* repositories to begin with: new, or recovered from discs
  MaxTorn,      \* bound on commits that stop in their records
  MaxFaults     \* bound on files that go bad or away

Meta == Blob \cup Tree \cup Snapshot
Item == Chunk \cup Meta

ASSUME OrderAssumption ==
  /\ Item \subseteq Nat /\ IsFiniteSet(Item) /\ IsFiniteSet(Disc) /\ Disc = 1 .. Cardinality(Disc)
  /\ Chunk \cap Meta = {} /\ Snapshot \cap (Blob \cup Tree) = {}
  /\ Time \in [Snapshot -> Nat \ {0}] /\ Size \in [Item -> Nat]
  /\ FixedSectors \in Nat \ {0} /\ Capacities \subseteq Nat /\ MaxTorn \in Nat /\ MaxFaults \in Nat

\* An object names the ones below it by the hash of their content: a chunk
\* names none, no object names a snapshot, and some object of each set names
\* none of the set.
ASSUME EntriesAssumption ==
  /\ Entries \in [Item -> Seq(Item)]
  /\ \A i \in Item : Range(Entries[i]) \cap Snapshot = {}
  /\ \A i \in Chunk : Entries[i] = << >>
  /\ \A S \in (SUBSET Meta) \ {{}} : \E i \in S : Range(Entries[i]) \cap S = {}

ASSUME StartsAssumption ==
  \A start \in Starts :
    /\ start.log \in [Item -> Record \cup {NoRecord}]
    /\ start.file \in [Item -> {"good", "bad", "missing"}]
    /\ start.disc \in [Disc -> {"unused", "packed", "freed", "lost"}]

VARIABLES
  log,    \* the record of each item
  file,   \* its file in the catalog or the staging store
  disc,   \* the state of each disc
  torn,   \* bounds
  faults

vars == <<log, file, disc, torn, faults>>

Reach[i \in Item] == {i} \cup UNION {Reach[j] : j \in Range(Entries[i])}

OnDisc(i) == Taken(log[i])
Rows == Cardinality({d \in Disc : disc[d] # "unused"})
StagedItems == {i \in Item : log[i].state = "Staged"}

\* The snapshots of the catalog that the item log knows, in pack order: one
\* that cannot be read has no time and goes first.
Snaps == {s \in Snapshot : file[s] # "missing" /\ log[s].state # "none"}
When(s) == IF file[s] = "good" THEN Time[s] ELSE 0

\* The slip that sorts by the id.
EarlierById(a, b) == a < b

\* readSnapshots: the pack order.
Earlier(a, b) == When(a) < When(b) \/ (When(a) = When(b) /\ a < b)
Latest(S) == CHOOSE s \in S : \A x \in S \ {s} : Earlier(x, s)

--------------------------------------------------------------------------------
(* planWalk: w.bad gives the cause of each Staged item that the walk cannot   *)
(* take, w.want the Staged items that it looks for below items of a disc.     *)
(* `staged' are the Staged items of the log as pack has completed it, and     *)
(* `damaged' the chunks that it knows to be missing or bad.                   *)

NoCause == -1
Cause == Item \cup {NoCause}
Unit == [id : Item, size : Nat, children : SUBSET Item]

Walk ==
  [seen : SUBSET Item, bad : [Item -> Cause], units : Seq(Unit), staged : SUBSET Item,
   want : SUBSET Item, damaged : SUBSET Item, underDisc : BOOLEAN]

NewWalk(staged, want, damaged) ==
  [seen |-> {}, bad |-> [i \in Item |-> NoCause], units |-> << >>, staged |-> staged,
   want |-> want, damaged |-> damaged, underDisc |-> FALSE]

\* The items that the walk is done with.
Met(w) == w.seen \cup {i \in Item : w.bad[i] # NoCause}

Role(w, i) ==
  CASE OnDisc(i) -> "disc"
    [] ~OnDisc(i) /\ (i \in w.staged \/ ~w.underDisc) -> "take"
    [] OTHER -> "unknown"

Unreadable(w, i) == IF i \in Chunk THEN i \in w.damaged ELSE file[i] # "good"

Passed(w, i) == [w |-> [w EXCEPT !.seen = @ \cup {i}], cause |-> NoCause]
MarkBad(w, i, cause) ==
  [w |-> [w EXCEPT !.want = @ \ {i}, !.bad[i] = cause], cause |-> cause]

\* The slip that names no child of a disc.
TakeAlone(w, i) ==
  Passed([w EXCEPT !.want = @ \ {i},
                   !.units = Append(@, [id |-> i, size |-> Size[i], children |-> {}])], i)

Take(w, i) ==
  Passed([w EXCEPT !.want = @ \ {i},
                   !.units = Append(@, [id |-> i, size |-> Size[i],
                                        children |-> {j \in Range(Entries[i]) : OnDisc(j)}])], i)

\* tree, blob and chunk, and snapshot with its root tree: below is what the
\* visit of the children gives.
Visited(w, i, role, below) ==
  CASE w.bad[i] # NoCause -> [w |-> w, cause |-> w.bad[i]]
    [] w.bad[i] = NoCause /\ (i \in w.seen \/ role = "unknown") -> [w |-> w, cause |-> NoCause]
    [] OTHER ->
         IF role = "disc"
         THEN IF i \in Chunk \/ w.want = {} \/ Unreadable(w, i) THEN Passed(w, i)
              ELSE [Passed(below.w, i) EXCEPT !.cause = below.cause]
         ELSE IF Unreadable(w, i) THEN MarkBad(w, i, i)
         ELSE IF below.cause # NoCause THEN MarkBad(below.w, i, below.cause)
         ELSE Take(below.w, i)

\* The visit of j after those with the outcome a: the first cause stays.
Then(a, j, visit) ==
  [visit[j][a.w] EXCEPT !.cause = IF a.cause = NoCause THEN @ ELSE a.cause]

\* The visits of the entries in their order, and the first cause among them.
Below(w, entries, visit) ==
  LET below[k \in 0 .. Len(entries)] ==
        IF k = 0 THEN [w |-> w, cause |-> NoCause] ELSE Then(below[k - 1], entries[k], visit)
  IN below[Len(entries)]

Visit[i \in Item] ==
  [w \in Walk |-> Visited(w, i, Role(w, i), Below(w, Entries[i], Visit))]

WalkSnapshot(w, s) == Visit[s][[w EXCEPT !.underDisc = OnDisc(s)]].w

\* The walk of the snapshots, the oldest first.
Walked(staged, want, damaged) ==
  LET walk[S \in SUBSET Snaps] ==
        IF S = {} THEN NewWalk(staged, want, damaged)
        ELSE WalkSnapshot(walk[S \ {Latest(S)}], Latest(S))
  IN walk[Snaps]

\* orphans: the wanted items that no snapshot reaches, by their id; an item
\* without a file has no kind.
Orphan(w, i) ==
  IF i \in Met(w) THEN w
  ELSE IF file[i] = "missing" THEN MarkBad(w, i, i).w ELSE Visit[i][w].w

Orphans(w) ==
  LET rest[S \in SUBSET w.want] ==
        IF S = {} THEN [w EXCEPT !.want = {}, !.underDisc = FALSE]
        ELSE Orphan(rest[S \ {Max(S)}], Max(S))
  IN rest[w.want]

\* The slip that walks one time.
BuildPackPlanOnce(staged, damaged) == Walked(staged, {}, damaged).units

\* The second walk goes down into items of a disc, for the Staged items that
\* the first one misses.
SecondWalk(one, staged, damaged) ==
  LET missed == staged \ Met(one)
  IN IF missed = {} THEN one ELSE Walked(staged, missed, damaged)

Finished(w) == IF w.want = {} THEN w ELSE Orphans(w)

\* buildPackPlan: the candidates.
BuildPackPlan(staged, damaged) ==
  Finished(SecondWalk(Walked(staged, {}, damaged), staged, damaged)).units

--------------------------------------------------------------------------------
(* The runs of pack and of its dry run.                                       *)

Ids(units) == {units[i].id : i \in DOMAIN units}

\* PackOptions.plan: a chunk without a file counts as damaged.
Replan(units, damaged, plan) ==
  LET missing == {i \in Ids(units) \cap Chunk : file[i] = "missing"} \ damaged
  IN IF missing = {} THEN units ELSE plan[damaged \cup missing]

Plan(staged, damaged) ==
  LET plan[D \in SUBSET Chunk] == Replan(BuildPackPlan(staged, D), D, plan) IN plan[damaged]

\* A snapshot of a disc that the catalog cannot give stops the pack.
Refused == \E s \in Snaps : OnDisc(s) /\ file[s] # "good"

\* carriedSnapshots: the run has each snapshot that a disc holds.
Carried == {s \in Snaps : OnDisc(s)}
Fixed ==
  FixedSectors + SectorCount(56 + 176 * (Rows + 1)) + FoldSet(LAMBDA s, n : n + SectorCount(Size[s]), 0, Carried)
Files == 7 + Cardinality(Carried)

\* packRun: the run of the candidates at the capacity t.
RunOf(units, staged, t) ==
  LET k == SelectRun(units, Fixed, Files, t)
  IN [placed |-> SubSeq(units, 1, k), staged |-> staged,
      fits |-> CheckCapacity(LaidOut(units, k, Cardinality(Carried), Fixed, Files), Files + k + 1, t)]

\* Pack: a candidate with no record gets a Staged one.  The copy of a chunk
\* finds that it is bad, and the run is built again without it.
CopyRun(run, damaged, pack) ==
  LET bad == {i \in Ids(run.placed) \cap Chunk : file[i] = "bad"} \ damaged
  IN IF ~run.fits \/ bad = {} THEN run ELSE pack[damaged \cup {Min(bad)}][run.staged]

Planned(units, staged, t) == RunOf(units, staged \cup Ids(units), t)

PackRun(t) ==
  LET pack[D \in SUBSET Chunk] ==
        [staged \in SUBSET Item |-> CopyRun(Planned(Plan(staged, D), staged, t), D, pack)]
  IN pack[{}][StagedItems]

--------------------------------------------------------------------------------
(* The commands and what happens between them.                                *)

Init ==
  /\ \E start \in Starts : log = start.log /\ file = start.file /\ disc = start.disc
  /\ torn = 0 /\ faults = 0

\* commit writes the objects that it needs, and trusts a chunk file by its
\* size; a stop in its records leaves none, or that of the snapshot and any part
\* of the others, which have the order of a map.
Commit(s) ==
  /\ log[s].state = "none" /\ file[s] = "missing"
  /\ file' = [i \in Item |-> IF \/ i \notin Reach[s]
                                \/ i \in Chunk /\ (OnADisc(log[i]) \/ file[i] = "bad")
                             THEN file[i] ELSE "good"]
  /\ LET needed == {i \in Reach[s] : NotKnown(log[i])} IN
     \E part \in SUBSET needed :
       /\ part = {} \/ s \in part
       /\ torn' = IF part = needed THEN torn ELSE torn + 1
       /\ log' = [i \in Item |-> IF i \in part THEN Staged ELSE log[i]]
  /\ torn' <= MaxTorn
  /\ UNCHANGED <<disc, faults>>

\* pack: a run that does not fit after all, and an empty one, is not recorded.
Pack(t) ==
  /\ ~Refused
  /\ LET run == PackRun(t)
         placed == IF run.fits THEN Ids(run.placed) ELSE {}
         recorded == [i \in Item |-> IF i \in run.staged \ StagedItems THEN Staged ELSE log[i]]
         d == Rows + 1
     IN IF placed = {} THEN log' = recorded /\ disc' = disc
        ELSE /\ d \in Disc
             /\ log' = [i \in Item |-> IF i \in placed THEN PackedOn(d) ELSE recorded[i]]
             /\ disc' = [disc EXCEPT ![d] = "packed"]
  /\ UNCHANGED <<file, torn, faults>>

\* A disc is verified and gc frees its chunk files.
Gc(d) ==
  /\ disc[d] = "packed"
  /\ disc' = [disc EXCEPT ![d] = "freed"]
  /\ log' = [i \in Item |-> IF log[i] = PackedOn(d) THEN OnDiscOf(d) ELSE log[i]]
  /\ file' = [i \in Item |-> IF i \in Chunk /\ log'[i] = OnDiscOf(d) THEN "missing" ELSE file[i]]
  /\ UNCHANGED <<torn, faults>>

DiscLost(d) ==
  /\ disc[d] \in {"packed", "freed"}
  /\ disc' = [disc EXCEPT ![d] = "lost"]
  /\ log' = [i \in Item |-> IF log[i].disc = d THEN Follow("lost", log[i], i \in Meta /\ file[i] = "good")
                            ELSE log[i]]
  /\ UNCHANGED <<file, torn, faults>>

\* A file goes bad or away.
Fault(i) ==
  /\ faults < MaxFaults /\ file[i] = "good"
  /\ \E f \in {"bad", "missing"} : file' = [file EXCEPT ![i] = f]
  /\ faults' = faults + 1
  /\ UNCHANGED <<log, disc, torn>>

Next ==
  \/ \E s \in Snapshot : Commit(s)
  \/ \E t \in Capacities : Pack(t)
  \/ \E d \in Disc : Gc(d) \/ DiscLost(d)
  \/ \E i \in Item : Fault(i)

Spec == Init /\ [][Next]_vars

--------------------------------------------------------------------------------
(* Properties.                                                                *)

\* Type correctness.
TypeOK ==
  /\ log \in [Item -> Record \cup {NoRecord}]
  /\ file \in [Item -> {"good", "bad", "missing"}]
  /\ disc \in [Disc -> {"unused", "packed", "freed", "lost"}]
  /\ torn \in 0 .. MaxTorn /\ faults \in 0 .. MaxFaults

\* The run that pack takes at the capacity t.
Placed(t) == PackRun(t).placed

\* The items without a record that are below a Staged item and, like the items
\* of a disc that is missing, below a snapshot that a disc holds.
Undecided ==
  {i \in Item : log[i].state = "none" /\ (\E j \in StagedItems : i \in Reach[j]) /\ \E s \in Carried : i \in Reach[s]}

\* Pack takes each Staged item once, wherever it hides below items of a disc,
\* when each item below it that no disc holds has a good file.
TakesEverySound ==
  Undecided = {} => LET units == Plan(StagedItems, {i \in Chunk : file[i] = "bad"})
  IN /\ Cardinality(Ids(units)) = Len(units)
     /\ {i \in StagedItems : \A j \in Reach[i] : OnDisc(j) \/ file[j] = "good"} \subseteq Ids(units)

\* A run is closed: each child of an item that it takes comes earlier in the
\* run, or a disc holds it and the run names it as a prerequisite.  Only an item
\* with no record that a snapshot of a disc reaches may be left out.
PlacedIsClosed ==
  ~Refused => \A t \in Capacities : LET p == Placed(t) IN
    \A k \in DOMAIN p : \A j \in Range(Entries[p[k].id]) :
      \/ j \in Ids(SubSeq(p, 1, k - 1))
      \/ OnDisc(j) /\ j \in Prereqs(p, Len(p))
      \/ log[j].state = "none" /\ \E s \in Carried : j \in Reach[s]

\* What the walk finds below i without an item of a disc on the way.
Left[i \in Item] == IF OnDisc(i) THEN {} ELSE {i} \cup UNION {Left[j] : j \in Range(Entries[i])}

\* Before pack takes a snapshot object, it takes all that is left of it and of
\* each older snapshot that it can read.
OlderFirst ==
  ~Refused /\ Undecided = {} => \A t \in Capacities : LET p == Placed(t) IN
    \A k \in DOMAIN p : \A s \in Snaps :
      /\ p[k].id \in Snapshot /\ (Time[s] < Time[p[k].id] \/ s = p[k].id)
      /\ \A j \in Reach[s] : OnDisc(j) \/ file[j] = "good"
      => Left[s] \subseteq Ids(SubSeq(p, 1, k))

\* The run that pack selects passes its own capacity check, whatever sectors
\* are left, while no snapshot is carried; a run of no item is not checked.
FitsWithoutCarried ==
  Carried = {} => \A t \in Capacities : LET run == Planned(Plan(StagedItems, {}), StagedItems, t)
                                      IN run.placed # << >> => run.fits

\* The same for every run ("selected run does not fit after all").
SelectedFits ==
  \A t \in Capacities : LET run == Planned(Plan(StagedItems, {}), StagedItems, t)
                         IN run.placed # << >> => run.fits

\* Before pack takes a snapshot object, it takes all that is left of it ("an
\* item with no record counts as Staged in a snapshot whose snapshot object is
\* Staged").
SnapshotsAreWhole ==
  ~Refused => \A t \in Capacities : LET p == Placed(t) IN
    \A k \in DOMAIN p : p[k].id \in Snapshot => Left[p[k].id] \subseteq Ids(SubSeq(p, 1, k))

\* No item above a Staged item that pack cannot take goes on a disc.
NoneAboveUnreadable ==
  ~Refused => \A t \in Capacities : \A i \in Ids(Placed(t)) :
    \A j \in Reach[i] : log[j].state = "Staged" => file[j] = "good"

================================================================================
