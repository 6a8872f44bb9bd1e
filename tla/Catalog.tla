-------------------------------- MODULE Catalog --------------------------------
(* The catalog and the refs: internal/catalog, cmd/noahsark/refs.go and the   *)
(* parts of commit, pack, pack --undo, verify and recover that write them.    *)
(* The repository was lost; the operator gives the discs in any order, some   *)
(* copies are damaged, and new commits and packs go on in between.            *)
EXTENDS Integers, SequencesExt, FiniteSetsExt, Functions

CONSTANTS
  Name,          \* ref names
  Tree, Blob,    \* tree and blob objects
  Meta,          \* the trees and blobs that each snapshot reaches
  OldMedia,      \* the discs of the lost repository: a sequence of disc records
  Copies,        \* for each of them, the copies: their damaged objects and tables
  OldTaken,      \* the time of each snapshot of these discs
  NewSnapshots,  \* the snapshots that commit makes, in this order
  MaxPacks,      \* bound: packs
  MaxStops,      \* bound: kills
  MaxRot,        \* bound: catalog files that go bad
  Rotting,       \* the objects whose file may do so
  Rots           \* the ways in which it does: "head", "payload"

Old == DOMAIN OldMedia
Snapshot == DOMAIN Meta
Object == Snapshot \cup Tree \cup Blob

ASSUME CatalogAssumption ==
  /\ Meta \in [Snapshot -> SUBSET (Tree \cup Blob)]
  /\ OldTaken \in [DOMAIN OldTaken -> Nat]
  /\ DOMAIN OldTaken \subseteq Snapshot /\ IsFiniteSet(DOMAIN OldTaken)
  /\ NewSnapshots \in Seq(Snapshot \ DOMAIN OldTaken) /\ IsInjective(NewSnapshots)
  /\ OldMedia \in Seq([objects : SUBSET Object, names : SUBSET Old,
                       refs : SUBSET [name : Name, snap : DOMAIN OldTaken, time : Nat]])
  /\ \A d \in Old : IsFiniteSet(OldMedia[d].refs)
  /\ \A d \in Old : Copies[d] \subseteq [bad : SUBSET OldMedia[d].objects, tables : BOOLEAN]

VARIABLES
  media,    \* the discs and packed trees: their objects, ref records and the discs they name
  files,    \* the object files of the catalog: "whole", or what is wrong with one
  tables,   \* the table files of each disc in the catalog, 1 INDEX, 2 REFS, 3 DISCS
  marks,    \* the completeness file
  ledger,   \* the ref ledger
  lines,    \* refs.txt
  items,    \* the item log: "Staged", or "Stored" on a disc
  known,    \* the disc state log, as far as it decides here
  taken,    \* the time of each snapshot
  moved,    \* the last snapshot that a finished commit gave each name
  run,      \* the running command
  clock, stops, rot   \* time and counters of the bounds

catalog == <<files, tables, marks>>
refs == <<ledger, lines>>
bounds == <<stops, rot>>
vars == <<media, catalog, refs, items, known, taken, moved, run, clock, bounds>>

NoRun == [cmd |-> "none", at |-> "idle", disc |-> 0, table |-> 0, todo |-> {}, walk |-> {},
          bad |-> {}, refs |-> {}, tablesIntact |-> TRUE, snap |-> << >>, name |-> << >>]

\* What f says, and what g says where f is silent.
Over(f, g) == [x \in DOMAIN f \cup DOMAIN g |-> IF x \in DOMAIN f THEN f[x] ELSE g[x]]
Put(f, x, v) == [y \in {x} \cup DOMAIN f |-> IF y = x THEN v ELSE f[y]]

Idle == run.at = "idle"
Missing == {d \in DOMAIN known : known[d] = "missing"}
Held == DOMAIN files \cap Snapshot
Whole(o) == o \in DOMAIN files /\ files[o] = "whole"
GoodHead(o) == o \in DOMAIN files /\ files[o] \in {"whole", "payload"}

--------------------------------------------------------------------------------
(* Refs *)

\* The byte order of two ids breaks a tie of times, and no tie occurs here.
NewerRef(a, b) == a.time > b.time

Newest(records) == CHOOSE r \in records : \A q \in records \ {r} : ~NewerRef(q, r)

\* A line has the time of its snapshot, or no time when the catalog cannot read it.
LocalRecord(n, s) == [name |-> n, snap |-> s, time |-> IF Whole(s) THEN taken[s] ELSE 0]

\* The refs of the catalog tables of some discs, and the lines of refs.txt over them.
Records(n, discs) ==
  {r \in UNION {media[d].refs : d \in {c \in DOMAIN tables \cap discs : tables[c] >= 2}} : r.name = n}
    \cup {LocalRecord(m, lines[m]) : m \in {n} \cap DOMAIN lines}

Resolves(n, discs) == Records(n, discs) # {}
Resolve(n, discs) == Newest(Records(n, discs)).snap

Of(records, n) == {r \in records : r.name = n}
Names(records) == {r.name : r \in records}

\* The slip that takes the records of the disc for every name.
MergedLinesOver(records) ==
  Over([n \in Names(records) |-> Newest(Of(records, n)).snap], lines)

\* recoverRefs: the newest record of each name of the disc, unless its line is newer.
MergedLines(records) ==
  LET NewestOf(n) == Newest(Of(records, n))
      Stays(n) == n \in DOMAIN lines /\ ~NewerRef(NewestOf(n), LocalRecord(n, lines[n]))
  IN Over([n \in {m \in Names(records) : ~Stays(m)} |-> NewestOf(n).snap], lines)

\* The names whose line the ledger does not carry as its last record.
Pending == {n \in DOMAIN lines :
              n \notin Names(ledger) \/ Newest(Of(ledger, n)).snap # lines[n]}

--------------------------------------------------------------------------------
(* Completeness *)

\* The slip that walks the trees and no blob.
WalksTrees(s) == Whole(s) /\ \A o \in Meta[s] \ Blob : Whole(o)

\* The walk checks each snapshot and tree, and only the headers of a blob.
Walks(s) ==
  /\ Whole(s)
  /\ \A o \in Meta[s] : IF o \in Blob THEN GoodHead(o) ELSE Whole(o)

--------------------------------------------------------------------------------
(* recover and a counted verify *)

Perfect == [bad |-> {}, tables |-> TRUE]

CopiesOf(d) == {Perfect} \cup (IF d \in Old THEN Copies[d] ELSE {})

\* The slip that copies no object of a disc that is already known.
ReadDiscNew(cmd, d, copy) ==
  /\ run' = [NoRun EXCEPT !.cmd = cmd, !.at = "copy", !.disc = d, !.bad = copy.bad,
               !.todo = IF d \in DOMAIN known THEN {} ELSE media[d].objects \ copy.bad,
               !.tablesIntact = copy.tables,
               !.refs = IF copy.tables THEN media[d].refs ELSE {}]
  /\ UNCHANGED <<media, catalog, refs, items, known, taken, moved, clock, bounds>>

ReadDisc(cmd, d, copy) ==
  /\ run' = [NoRun EXCEPT !.cmd = cmd, !.at = "copy", !.disc = d, !.bad = copy.bad,
               !.todo = (media[d].objects \ copy.bad), !.tablesIntact = copy.tables,
               !.refs = IF copy.tables THEN media[d].refs ELSE {}]
  /\ UNCHANGED <<media, catalog, refs, items, known, taken, moved, clock, bounds>>

\* An old disc, or one that this repository packed; a packed tree that never
\* got its ledger row is on no disc.
Recover(d, copy) ==
  /\ Idle /\ d \in Old \cup DOMAIN known
  /\ ~(d \in DOMAIN known /\ known[d] = "undone")
  /\ ReadDisc("recover", d, copy)

\* A check of a damaged copy stops before the catalog.
Verify(d) ==
  /\ Idle /\ d \in DOMAIN known /\ known[d] \in {"recovered", "packed"}
  /\ ReadDisc("verify", d, Perfect)

\* A good copy replaces a file of other bytes.
CopyObject ==
  /\ run.at = "copy" /\ run.cmd # "pack"
  /\ \E o \in run.todo :
       /\ files' = Put(files, o, "whole")
       /\ run' = [run EXCEPT !.todo = @ \ {o}]
  /\ UNCHANGED <<media, tables, marks, refs, items, known, taken, moved, clock, bounds>>

\* The slip that walks only what the disc names.
ToWalkNamed == (media[run.disc].objects \cap Snapshot) \cup {r.snap : r \in run.refs}

\* The snapshots that the disc names, and for recover each one of the catalog.
ToWalk ==
  (media[run.disc].objects \cap Snapshot) \cup {r.snap : r \in run.refs}
    \cup (IF run.cmd = "recover" THEN Held ELSE {})

\* WriteDisc replaces one file after the other.
CopyTable ==
  /\ run.at = "copy" /\ run.tablesIntact /\ run.table < 3
  /\ run.todo = {} \/ run.cmd = "pack"
  /\ LET d == run.disc
         had == IF d \in DOMAIN tables THEN tables[d] ELSE 0
     IN tables' = Put(tables, d, Max({had, run.table + 1}))
  /\ run' = [run EXCEPT !.table = @ + 1]
  /\ UNCHANGED <<media, files, marks, refs, items, known, taken, moved, clock, bounds>>

WalkBegin ==
  /\ run.at = "copy" /\ run.todo = {} /\ (run.tablesIntact => run.table = 3)
  /\ run.cmd # "pack"
  /\ run' = [run EXCEPT !.at = "walk", !.walk = ToWalk]
  /\ UNCHANGED <<media, catalog, refs, items, known, taken, moved, clock, bounds>>

\* The completeness file is saved after each snapshot.
Walk ==
  /\ run.at = "walk"
  /\ \E s \in run.walk :
       /\ marks' = Put(marks, s, Walks(s))
       /\ run' = [run EXCEPT !.walk = @ \ {s}]
  /\ UNCHANGED <<media, files, tables, refs, items, known, taken, moved, clock, bounds>>

IsNew(d) == d \notin DOMAIN known \/ known[d] = "missing"

\* The slip that writes the event before the ledgers.
WalkEndEvent ==
  /\ run.at = "walk" /\ run.walk = {}
  /\ run' = IF run.cmd = "recover" /\ IsNew(run.disc) THEN [run EXCEPT !.at = "ledger"] ELSE NoRun
  /\ known' = IF run.cmd = "recover" /\ IsNew(run.disc) THEN Put(known, run.disc, "recovered") ELSE known
  /\ UNCHANGED <<media, catalog, refs, items, taken, moved, clock, bounds>>

\* verify logs its check and recover of a known disc ends here.  known keeps no
\* checks, thus recordGoodCopy, by which a recover repairs a failed check of a
\* known disc, is left to the steps RecheckItems and RecheckEvent of Repository.
WalkEnd ==
  /\ run.at = "walk" /\ run.walk = {}
  /\ run' = IF run.cmd = "recover" /\ IsNew(run.disc) THEN [run EXCEPT !.at = "ledger"] ELSE NoRun
  /\ UNCHANGED <<media, catalog, refs, items, known, taken, moved, clock, bounds>>

RecoverLedger ==
  /\ run.at = "ledger" /\ run.cmd = "recover"
  /\ ledger' = ledger \cup run.refs
  /\ run' = [run EXCEPT !.at = "lines"]
  /\ UNCHANGED <<media, catalog, lines, items, known, taken, moved, clock, bounds>>

RecoverLines ==
  /\ run.at = "lines" /\ run.cmd = "recover"
  /\ lines' = MergedLines(run.refs)
  /\ run' = [run EXCEPT !.at = "items"]
  /\ UNCHANGED <<media, catalog, ledger, items, known, taken, moved, clock, bounds>>

\* EnsureOnDisc: each intact item of the disc.
RecoverItems ==
  /\ run.at = "items"
  /\ items' = Over([o \in media[run.disc].objects \ run.bad |-> "Stored"], items)
  /\ run' = [run EXCEPT !.at = "event"]
  /\ UNCHANGED <<media, catalog, refs, known, taken, moved, clock, bounds>>

\* Recovered, and NamedMissing for the unknown discs that the DISCS table names:
\* damaged tables name none.
RecoverEvent ==
  /\ run.at = "event" /\ run.cmd = "recover"
  /\ LET named == IF run.tablesIntact THEN media[run.disc].names ELSE {}
     IN known' = Put(Over(known, [d \in named |-> "missing"]), run.disc, "recovered")
  /\ run' = NoRun
  /\ UNCHANGED <<media, catalog, refs, items, taken, moved, clock, bounds>>

--------------------------------------------------------------------------------
(* commit *)

NextSnapshot == NewSnapshots[Cardinality(DOMAIN taken \ DOMAIN OldTaken) + 1]

\* Each object of the snapshot has a whole file at the end of the walk of the
\* source, a file of other bytes is written again, and the items are recorded.
Commit(n) ==
  /\ Idle /\ Missing = {}
  /\ Cardinality(DOMAIN taken) < Cardinality(DOMAIN OldTaken) + Len(NewSnapshots)
  /\ LET s == NextSnapshot IN
     /\ taken' = Put(taken, s, clock)
     /\ files' = Over([o \in {s} \cup Meta[s] |-> "whole"], files)
     /\ items' = Over(items, [o \in {s} \cup Meta[s] |-> "Staged"])
     /\ run' = [NoRun EXCEPT !.cmd = "commit", !.at = "mark", !.snap = s, !.name = n]
  /\ clock' = clock + 1
  /\ UNCHANGED <<media, tables, marks, refs, known, moved, bounds>>

CommitMark ==
  /\ run.cmd = "commit" /\ run.at = "mark"
  /\ marks' = Put(marks, run.snap, TRUE)
  /\ run' = [run EXCEPT !.at = "line"]
  /\ UNCHANGED <<media, files, tables, refs, items, known, taken, moved, clock, bounds>>

CommitRef ==
  /\ run.cmd = "commit" /\ run.at = "line"
  /\ lines' = Put(lines, run.name, run.snap)
  /\ moved' = Put(moved, run.name, run.snap)
  /\ run' = NoRun
  /\ UNCHANGED <<media, catalog, ledger, items, known, taken, clock, bounds>>

--------------------------------------------------------------------------------
(* pack and pack --undo *)

Packs == Cardinality(DOMAIN media) - Cardinality(Old)
\* The snapshots that pack sees, and the objects that it can take.
Logged == Held \cap DOMAIN items
Takes == {o \in Logged \cup UNION {Meta[s] : s \in Logged} :
            Whole(o) /\ ~(o \in DOMAIN items /\ items[o] = "Stored")}

\* The newest ref of all, by the time of its snapshot, for a pack with none pending.
NewestName ==
  IF DOMAIN lines = {} THEN {}
  ELSE {CHOOSE n \in DOMAIN lines : \A m \in DOMAIN lines :
          LocalRecord(m, lines[m]).time <= LocalRecord(n, lines[n]).time}

\* The slip that leaves the ledger out.
PackRefsFresh(named) == {[name |-> n, snap |-> lines[n], time |-> clock] : n \in named}

PackRefs(named) == ledger \cup {[name |-> n, snap |-> lines[n], time |-> clock] : n \in named}

\* pack first removes the tables of the undone discs.  Each disc carries every
\* snapshot object, thus one that cannot be read refuses the pack.
Pack ==
  /\ Idle /\ Missing = {} /\ Packs < MaxPacks
  /\ (\A s \in Logged : Whole(s)) /\ Takes # {}
  /\ LET d == Cardinality(DOMAIN media) + 1
         named == IF Pending # {} THEN Pending ELSE NewestName
     IN /\ media' = Put(media, d, [objects |-> Logged \cup Takes, refs |-> PackRefs(named),
                           names |-> {q \in DOMAIN known : known[q] # "undone"}])
        /\ run' = [NoRun EXCEPT !.cmd = "pack", !.at = "copy", !.disc = d,
                      !.refs = PackRefs(named), !.todo = Takes]
  /\ tables' = Restrict(tables, {d \in DOMAIN tables :
                                   ~(d \in DOMAIN known /\ known[d] = "undone")})
  /\ clock' = clock + 1
  /\ UNCHANGED <<files, marks, refs, items, known, taken, moved, bounds>>

\* The disc ledger row: from here on the disc is one of the repository, and the
\* next pack completes its item records.
PackRow ==
  /\ run.cmd = "pack" /\ run.at = "copy" /\ run.table = 3
  /\ known' = Put(known, run.disc, "packed")
  /\ items' = Over([o \in run.todo |-> "Stored"], items)
  /\ run' = [run EXCEPT !.at = "ledger"]
  /\ UNCHANGED <<media, catalog, refs, taken, moved, clock, bounds>>

PackLedger ==
  /\ run.cmd = "pack" /\ run.at = "ledger"
  /\ ledger' = run.refs
  /\ run' = NoRun
  /\ UNCHANGED <<media, catalog, lines, items, known, taken, moved, clock, bounds>>

Undo(d) ==
  /\ Idle /\ d \in DOMAIN known /\ known[d] = "packed" /\ d = Max(DOMAIN known)
  /\ known' = [known EXCEPT ![d] = "undone"]
  /\ items' = LET earlier == UNION {media[q].objects : q \in {q \in DOMAIN known \ {d} : known[q] # "undone"}}
              IN [o \in DOMAIN items |-> IF o \in media[d].objects \ earlier THEN "Staged" ELSE items[o]]
  /\ run' = [NoRun EXCEPT !.cmd = "undo", !.at = "tables", !.disc = d]
  /\ UNCHANGED <<media, catalog, refs, taken, moved, clock, bounds>>

UndoTables ==
  /\ run.cmd = "undo"
  /\ tables' = Restrict(tables, DOMAIN tables \ {run.disc})
  /\ run' = NoRun
  /\ UNCHANGED <<media, files, marks, refs, items, known, taken, moved, clock, bounds>>

--------------------------------------------------------------------------------
(* The world *)

Stop ==
  /\ ~Idle /\ stops < MaxStops
  /\ stops' = stops + 1
  /\ run' = NoRun
  /\ UNCHANGED <<media, catalog, refs, items, known, taken, moved, clock, rot>>

Rot ==
  /\ rot < MaxRot
  /\ \E o \in {o \in DOMAIN files \cap Rotting : files[o] = "whole"} : \E how \in Rots :
       files' = [files EXCEPT ![o] = how]
  /\ rot' = rot + 1
  /\ UNCHANGED <<media, tables, marks, refs, items, known, taken, moved, run, clock, stops>>

Init ==
  /\ media = OldMedia
  /\ files = << >> /\ tables = << >> /\ marks = << >>
  /\ ledger = {} /\ lines = << >> /\ items = << >> /\ known = << >>
  /\ taken = OldTaken /\ moved = << >>
  /\ run = NoRun
  /\ clock = 1 + Max({0} \cup Range(OldTaken) \cup UNION {{r.time : r \in OldMedia[d].refs} : d \in Old})
  /\ stops = 0 /\ rot = 0

RunStep ==
  \/ CopyObject \/ CopyTable \/ WalkBegin \/ Walk \/ WalkEnd
  \/ RecoverLedger \/ RecoverLines \/ RecoverItems \/ RecoverEvent
  \/ CommitMark \/ CommitRef \/ PackRow \/ PackLedger \/ UndoTables

Next ==
  \/ \E d \in DOMAIN media : \E copy \in CopiesOf(d) : Recover(d, copy)
  \/ \E d \in DOMAIN media : Verify(d)
  \/ \E n \in Name : Commit(n)
  \/ Pack
  \/ \E d \in DOMAIN media : Undo(d)
  \/ RunStep
  \/ Stop \/ Rot

Spec == Init /\ [][Next]_vars

\* A command that was not killed goes on, and the operator keeps on giving a
\* good copy of each disc to recover.
FairSpec ==
  /\ Spec
  /\ WF_vars(RunStep)
  /\ \A d \in Old : SF_vars(Recover(d, Perfect))

--------------------------------------------------------------------------------
(* Properties *)

\* A snapshot that the completeness file marks complete has every object that
\* it reaches in the catalog, after any order of discs, damage and stops:
\* restore and ls trust the mark and walk no more.
CompleteIsHeld ==
  \A s \in DOMAIN marks : marks[s] => {s} \cup Meta[s] \subseteq DOMAIN files

\* When recover has walked, the completeness file tells the truth of every
\* snapshot that the catalog holds, also of one that the disc does not name
\* and that its objects complete.
MarksFollowTheDiscs ==
  run.cmd = "recover" /\ run.at \in {"ledger", "lines", "items", "event"} =>
    \A s \in Held : s \in DOMAIN marks /\ (Walks(s) => marks[s])

\* A name that a recovered disc carries is never on an older snapshot
\* in refs.txt than the disc gives it, in whatever order the discs were read
\* and wherever a recover stopped.
NameNeverGoesBack ==
  \A d \in DOMAIN known : known[d] = "recovered" =>
    \A r \in media[d].refs :
      r.name \in DOMAIN lines /\ taken[lines[r.name]] >= taken[r.snap]

\* The snapshot of a finished commit stays what its name resolves to, or a
\* newer one: no disc that is read later, no pack and no undo hides it.
CommitStaysResolved ==
  \A n \in DOMAIN moved : Resolves(n, DOMAIN media) /\ taken[Resolve(n, DOMAIN media)] >= taken[moved[n]]

\* The disc that pack writes has, alone, a ref record of each name that the
\* repository resolves, and the newest one of a name in refs.txt is of its line:
\* after a second loss the newest disc gives all refs, also when an earlier
\* pack stopped before the ref ledger or a recover before refs.txt.
NewestDiscNamesEveryRef ==
  run.cmd = "pack" =>
    \A n \in Name :
      LET own == Of(media[run.disc].refs, n)
      IN /\ Resolves(n, DOMAIN known) => own # {}
         /\ n \in DOMAIN lines => Newest(own).snap = lines[n]

\* A disc that the state log calls recovered is in the ledger and the catalog:
\* a recover that stopped before its last record leaves a disc that the next
\* one reads again.
RecoveredIsRecorded ==
  \A d \in DOMAIN known : known[d] = "recovered" =>
    /\ \A o \in media[d].objects : o \in DOMAIN files \/ \E c \in CopiesOf(d) : o \in c.bad
    /\ (\A c \in CopiesOf(d) : c.tables) => d \in DOMAIN tables /\ tables[d] = 3 /\ media[d].refs \subseteq ledger

\* The completeness file says for each snapshot that it lists whether the
\* catalog holds every object of it, when no command runs.
PartialIsMissing ==
  Idle => \A s \in DOMAIN marks : ~marks[s] => ~Walks(s)

\* A name whose snapshot object in the catalog does not verify never resolves
\* to an older snapshot: the read of a damaged object is an error.
DamagedIsAnError ==
  \A n \in DOMAIN lines : lines[n] \in DOMAIN files /\ ~Whole(lines[n]) =>
    taken[Resolve(n, DOMAIN media)] >= taken[lines[n]]

\* The operator who gives each disc, whatever copies were read before and
\* wherever recover stopped, ends with every old snapshot complete.
EventuallyComplete == <>[](\A s \in DOMAIN OldTaken : s \in DOMAIN marks /\ marks[s])

================================================================================
