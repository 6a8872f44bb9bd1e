---------------------------- MODULE Catalog_proofs ----------------------------
(* Proofs about the catalog: what recover marks complete, which records    *)
(* and lines it leaves, and what the disc that pack writes says, for any   *)
(* discs, snapshots and times, and any number of commands and stops.       *)
(*                                                                         *)
(* The conditions on the lost repository under which a property holds are  *)
(* named: SoundLoss (no copy has a damaged snapshot or damaged tables) and *)
(* SoundTables.  What must hold of the catalog files all along, and only   *)
(* of those that a line of refs.txt names, is CommitsVerify or LinesVerify. *)
EXTENDS Catalog, FiniteSetTheorems, WellFoundedInduction, TLAPS

--------------------------------------------------------------------------------
(* Types *)

Fields == {"cmd", "at", "disc", "table", "todo", "walk", "bad", "refs", "tablesIntact", "snap", "name"}

\* The steps of recover after the walk: the disc is one of the lost repository.
Recording == {"ledger", "lines", "items", "event"}

RunOK ==
  /\ DOMAIN run = Fields
  /\ run.cmd \in {"none", "recover", "verify", "commit", "pack", "undo"}
  /\ run.cmd = "none" <=> run.at = "idle"
  /\ run.cmd = "recover" => run.at \in {"copy", "walk"} \cup Recording
  /\ run.cmd = "verify" => run.at \in {"copy", "walk"}
  /\ run.cmd = "commit" => run.at \in {"mark", "line"}
  /\ run.cmd = "pack" => run.at \in {"copy", "ledger"}
  /\ run.cmd = "undo" => run.at = "tables"
  /\ run.table \in 0 .. 3

DiscOK ==
  /\ run.cmd \in {"recover", "verify"} => run.disc \in DOMAIN media
  /\ run.cmd = "recover" => run.disc \in Old \cup DOMAIN known
  /\ run.cmd = "recover" /\ run.at \in Recording => run.disc \in Old
  /\ run.cmd = "pack" => run.disc \in DOMAIN media \ Old
  /\ run.cmd = "undo" => run.disc \in DOMAIN known /\ known[run.disc] = "undone"

MediaOK ==
  /\ \E n \in Nat : DOMAIN media = 1 .. n
  /\ \A d \in Old : d \in DOMAIN media /\ media[d] = OldMedia[d]

TablesOK == \A d \in DOMAIN tables : tables[d] \in 1 .. 3

KnownOK ==
  /\ DOMAIN known \subseteq DOMAIN media
  /\ \A d \in DOMAIN known : known[d] \in {"missing", "recovered", "packed", "undone"}
  /\ \A d \in DOMAIN known : known[d] \in {"missing", "recovered"} => d \in Old

TypeOK == RunOK /\ DiscOK /\ MediaOK /\ TablesOK /\ KnownOK

--------------------------------------------------------------------------------
(* Lemmas about the operators *)

\* What g does not say of x, f says.
LEMMA OverFields ==
  ASSUME NEW f, NEW g, NEW h, h = Over(f, g)
  PROVE  /\ DOMAIN h = DOMAIN f \cup DOMAIN g
         /\ \A x \in DOMAIN f : h[x] = f[x]
         /\ \A x \in DOMAIN g \ DOMAIN f : h[x] = g[x]
BY DEF Over

LEMMA OneOver ==
  ASSUME NEW x, NEW v, NEW g, NEW h, h = Put(g, x, v)
  PROVE  /\ DOMAIN h = {x} \cup DOMAIN g /\ h[x] = v
         /\ \A y \in DOMAIN g : y # x => h[y] = g[y]
BY DEF Put

LEMMA RestrictFields ==
  ASSUME NEW f, NEW S
  PROVE  DOMAIN Restrict(f, S) = S /\ \A x \in S : Restrict(f, S)[x] = f[x]
BY DEF Restrict

LEMMA OldIs ==
  /\ Old = 1 .. Len(OldMedia) /\ Len(OldMedia) \in Nat
  /\ \A d \in Old : OldMedia[d] \in [objects : SUBSET Object, names : SUBSET Old,
                                    refs : SUBSET [name : Name, snap : DOMAIN OldTaken, time : Nat]]
<1>1. PICK S : S = [objects : SUBSET Object, names : SUBSET Old,
                    refs : SUBSET [name : Name, snap : DOMAIN OldTaken, time : Nat]]
  OBVIOUS
<1>2. OldMedia \in Seq(S)
  BY <1>1, CatalogAssumption
<1>3. Len(OldMedia) \in Nat /\ DOMAIN OldMedia = 1 .. Len(OldMedia) /\ \A d \in DOMAIN OldMedia : OldMedia[d] \in S
  BY <1>2
<1>4. Old = DOMAIN OldMedia
  BY DEF Old
<1>5. QED
  BY <1>1, <1>3, <1>4

LEMMA CopyOf ==
  ASSUME NEW d, NEW c \in CopiesOf(d)
  PROVE  c.tables \in BOOLEAN /\ c.bad \subseteq OldMedia[d].objects
<1>1. CASE c = Perfect
  BY <1>1 DEF Perfect
<1>2. CASE d \in Old /\ c \in Copies[d]
  BY <1>2, CatalogAssumption
<1>3. QED
  BY <1>1, <1>2 DEF CopiesOf

\* The two tables that the catalog has and gets.
LEMMA MaxOfTwo ==
  ASSUME NEW a \in Nat, NEW b \in Nat
  PROVE  Max({a, b}) \in {a, b} /\ Max({a, b}) >= a /\ Max({a, b}) >= b
<1>1. \E x \in {a, b} : \A y \in {a, b} : x >= y
  OBVIOUS
<1>2. QED
  BY <1>1 DEF Max

--------------------------------------------------------------------------------
(* What each step does to the run *)

\* The run goes to another step.
Moves(at) ==
  /\ DOMAIN run' = Fields /\ run'.at = at /\ run'.cmd = run.cmd /\ run'.disc = run.disc
  /\ run'.table = run.table /\ run'.todo = run.todo /\ run'.bad = run.bad /\ run'.refs = run.refs
  /\ run'.tablesIntact = run.tablesIntact /\ run'.snap = run.snap /\ run'.name = run.name

LEMMA MovesRun ==
  ASSUME RunOK, NEW at, NEW w, run' \in {[run EXCEPT !.at = at], [run EXCEPT !.at = at, !.walk = w]}
  PROVE  Moves(at)
BY DEF RunOK, Fields, Moves

LEMMA WalkBeginRun ==
  ASSUME RunOK, WalkBegin
  PROVE  /\ run.at = "copy" /\ run.cmd # "pack" /\ Moves("walk") /\ run'.walk = ToWalk
         /\ run.todo = {} /\ (run.tablesIntact => run.table = 3)
<1>1. run' = [run EXCEPT !.at = "walk", !.walk = ToWalk]
  BY DEF WalkBegin
<1>2. QED
  BY <1>1 DEF WalkBegin, RunOK, Fields, Moves

LEMMA WalkRun ==
  ASSUME RunOK, Walk
  PROVE  /\ run.at = "walk" /\ Moves("walk")
         /\ \E s \in run.walk : marks' = Put(marks, s, Walks(s)) /\ run'.walk = run.walk \ {s}
<1>1. PICK s \in run.walk : marks' = Put(marks, s, Walks(s)) /\ run' = [run EXCEPT !.walk = @ \ {s}]
  BY DEF Walk
<1>2. run.at = "walk"
  BY DEF Walk
<1>3. QED
  BY <1>1, <1>2 DEF RunOK, Fields, Moves

LEMMA CopyObjectRun ==
  ASSUME RunOK, CopyObject
  PROVE  /\ DOMAIN run' = Fields /\ run.at = "copy" /\ run'.at = "copy" /\ run.cmd # "pack"
         /\ run'.cmd = run.cmd /\ run'.disc = run.disc /\ run'.table = run.table /\ run'.walk = run.walk
         /\ run'.bad = run.bad /\ run'.refs = run.refs
         /\ run'.tablesIntact = run.tablesIntact /\ run'.snap = run.snap /\ run'.name = run.name
         /\ \E o \in run.todo : files' = Put(files, o, "whole") /\ run'.todo = run.todo \ {o}
<1>1. PICK o \in run.todo : files' = Put(files, o, "whole") /\ run' = [run EXCEPT !.todo = @ \ {o}]
  BY DEF CopyObject
<1>2. run.at = "copy" /\ run.cmd # "pack"
  BY DEF CopyObject
<1>3. QED
  BY <1>1, <1>2 DEF RunOK, Fields

LEMMA CopyTableRun ==
  ASSUME RunOK, TablesOK, CopyTable
  PROVE  /\ DOMAIN run' = Fields /\ run.at = "copy" /\ run'.at = "copy" /\ run.tablesIntact
         /\ run'.cmd = run.cmd /\ run'.disc = run.disc /\ run'.table = run.table + 1 /\ run'.walk = run.walk
         /\ run'.todo = run.todo /\ run'.bad = run.bad /\ run'.refs = run.refs
         /\ run'.tablesIntact = run.tablesIntact /\ run'.snap = run.snap /\ run'.name = run.name
         /\ run.table \in 0 .. 2
         /\ DOMAIN tables' = {run.disc} \cup DOMAIN tables
         /\ tables'[run.disc] \in 1 .. 3 /\ tables'[run.disc] > run.table
         /\ run.disc \in DOMAIN tables => tables'[run.disc] >= tables[run.disc]
         /\ \A d \in DOMAIN tables : d # run.disc => tables'[d] = tables[d]
<1>1. run' = [run EXCEPT !.table = @ + 1] /\ run.at = "copy" /\ run.tablesIntact /\ run.table < 3
  BY DEF CopyTable
<1>2. /\ DOMAIN run' = Fields /\ run'.at = "copy"
      /\ run'.cmd = run.cmd /\ run'.disc = run.disc /\ run'.table = run.table + 1 /\ run'.walk = run.walk
      /\ run'.todo = run.todo /\ run'.bad = run.bad /\ run'.refs = run.refs
      /\ run'.tablesIntact = run.tablesIntact /\ run'.snap = run.snap /\ run'.name = run.name
  BY <1>1 DEF RunOK, Fields
<1>3. PICK t : t = run.table + 1
  OBVIOUS
<1>4. t \in 1 .. 3 /\ run.table \in 0 .. 2
  BY <1>1, <1>3 DEF RunOK
<1>5. PICK had : had = IF run.disc \in DOMAIN tables THEN tables[run.disc] ELSE 0
  OBVIOUS
<1>6. had \in 0 .. 3
  BY <1>5 DEF TablesOK
<1>7. PICK m : m = Max({had, t})
  OBVIOUS
<1>8. m \in 1 .. 3 /\ m >= t /\ m >= had
  BY <1>4, <1>6, <1>7, MaxOfTwo
<1>9. tables' = Put(tables, run.disc, m)
  BY <1>3, <1>5, <1>7 DEF CopyTable
<1>10. /\ DOMAIN tables' = {run.disc} \cup DOMAIN tables /\ tables'[run.disc] = m
       /\ \A d \in DOMAIN tables : d # run.disc => tables'[d] = tables[d]
  BY <1>9 DEF Put
<1>11. m > run.table
  BY <1>3, <1>4, <1>8
<1>12. run.disc \in DOMAIN tables => tables'[run.disc] >= tables[run.disc]
  BY <1>5, <1>8, <1>10
<1>13. QED
  BY <1>1, <1>2, <1>4, <1>8, <1>10, <1>11, <1>12

LEMMA NoRunFields ==
  ASSUME NEW r, r = NoRun
  PROVE  /\ DOMAIN r = Fields /\ r.cmd = "none" /\ r.at = "idle" /\ r.table = 0 /\ r.todo = {}
         /\ r.walk = {} /\ r.bad = {} /\ r.refs = {}
BY DEF NoRun, Fields

LEMMA ReadDiscRun ==
  ASSUME NEW cmd, NEW d, NEW copy, ReadDisc(cmd, d, copy)
  PROVE  /\ DOMAIN run' = Fields /\ run'.cmd = cmd /\ run'.at = "copy" /\ run'.disc = d /\ run'.table = 0
         /\ run'.bad = copy.bad /\ run'.todo = (media[d].objects \ copy.bad)
         /\ run'.tablesIntact = copy.tables /\ run'.refs = IF copy.tables THEN media[d].refs ELSE {}
<1>1. PICK r : r = NoRun
  OBVIOUS
<1>2. run' = [r EXCEPT !.cmd = cmd, !.at = "copy", !.disc = d, !.bad = copy.bad,
               !.todo = (media[d].objects \ copy.bad), !.tablesIntact = copy.tables,
               !.refs = IF copy.tables THEN media[d].refs ELSE {}]
  BY <1>1 DEF ReadDisc
<1>3. QED
  BY <1>1, <1>2, NoRunFields DEF Fields

LEMMA CommitRun ==
  ASSUME NEW n, Commit(n)
  PROVE  /\ DOMAIN run' = Fields /\ run'.cmd = "commit" /\ run'.at = "mark" /\ run'.table = 0
         /\ run'.snap = NextSnapshot /\ run'.name = n /\ run'.refs = {}
<1>1. PICK r : r = NoRun
  OBVIOUS
<1>2. run' = [r EXCEPT !.cmd = "commit", !.at = "mark", !.snap = NextSnapshot, !.name = n]
  BY <1>1 DEF Commit
<1>3. QED
  BY <1>1, <1>2, NoRunFields DEF Fields

\* The refs that a pack writes.
Named == IF Pending # {} THEN Pending ELSE NewestName

LEMMA PackRun ==
  ASSUME Pack, NEW d, d = Cardinality(DOMAIN media) + 1
  PROVE  /\ DOMAIN run' = Fields /\ run'.cmd = "pack" /\ run'.at = "copy" /\ run'.table = 0
         /\ run'.disc = d /\ run'.refs = PackRefs(Named)
         /\ media' = Put(media, d, [objects |-> Logged \cup Takes, refs |-> PackRefs(Named),
                                   names |-> {q \in DOMAIN known : known[q] # "undone"}])
<1>1. PICK r : r = NoRun
  OBVIOUS
<1>2. run' = [r EXCEPT !.cmd = "pack", !.at = "copy", !.disc = d, !.refs = PackRefs(Named), !.todo = Takes]
  BY <1>1 DEF Pack, Named
<1>3. media' = Put(media, d, [objects |-> Logged \cup Takes, refs |-> PackRefs(Named),
                                   names |-> {q \in DOMAIN known : known[q] # "undone"}])
  BY DEF Pack, Named
<1>4. QED
  BY <1>1, <1>2, <1>3, NoRunFields DEF Fields

LEMMA UndoRun ==
  ASSUME NEW d, Undo(d)
  PROVE  /\ DOMAIN run' = Fields /\ run'.cmd = "undo" /\ run'.at = "tables" /\ run'.disc = d /\ run'.table = 0
         /\ run'.refs = {}
<1>1. PICK r : r = NoRun
  OBVIOUS
<1>2. run' = [r EXCEPT !.cmd = "undo", !.at = "tables", !.disc = d]
  BY <1>1 DEF Undo
<1>3. QED
  BY <1>1, <1>2, NoRunFields DEF Fields

LEMMA Ends ==
  ASSUME run' = NoRun
  PROVE  /\ DOMAIN run' = Fields /\ run'.cmd = "none" /\ run'.at = "idle" /\ run'.table = 0 /\ run'.todo = {}
         /\ run'.walk = {} /\ run'.bad = {} /\ run'.refs = {}
BY NoRunFields

\* A step that only moves on the run that is at one place.
LEMMA MoveSteps ==
  ASSUME RunOK
  PROVE  /\ RecoverLedger => run.cmd = "recover" /\ run.at = "ledger" /\ Moves("lines")
         /\ RecoverLines => run.cmd = "recover" /\ run.at = "lines" /\ Moves("items")
         /\ RecoverItems => run.cmd = "recover" /\ run.at = "items" /\ Moves("event")
         /\ CommitMark => run.cmd = "commit" /\ run.at = "mark" /\ Moves("line")
         /\ PackRow => run.cmd = "pack" /\ run.at = "copy" /\ run.table = 3 /\ Moves("ledger")
<1>1. RecoverLedger => run.cmd = "recover" /\ run.at = "ledger" /\ Moves("lines")
  BY MovesRun DEF RecoverLedger
<1>2. RecoverLines => run.cmd = "recover" /\ run.at = "lines" /\ Moves("items")
  BY MovesRun DEF RecoverLines
<1>3. RecoverItems => run.cmd = "recover" /\ run.at = "items" /\ Moves("event")
  BY MovesRun DEF RecoverItems, RunOK
<1>4. CommitMark => run.cmd = "commit" /\ run.at = "mark" /\ Moves("line")
  BY MovesRun DEF CommitMark
<1>5. PackRow => run.cmd = "pack" /\ run.at = "copy" /\ run.table = 3 /\ Moves("ledger")
  BY MovesRun DEF PackRow
<1>6. QED
  BY <1>1, <1>2, <1>3, <1>4, <1>5

LEMMA WalkEndRun ==
  ASSUME RunOK, WalkEnd
  PROVE  /\ run.at = "walk" /\ run.walk = {}
         /\ \/ run.cmd = "recover" /\ IsNew(run.disc) /\ Moves("ledger")
            \/ run' = NoRun
<1>1. CASE run.cmd = "recover" /\ IsNew(run.disc)
  <2>1. run' = [run EXCEPT !.at = "ledger"]
    BY <1>1 DEF WalkEnd
  <2>2. QED
    BY <1>1, <2>1, MovesRun DEF WalkEnd
<1>2. CASE ~(run.cmd = "recover" /\ IsNew(run.disc))
  BY <1>2 DEF WalkEnd
<1>3. QED
  BY <1>1, <1>2

\* The steps that end a command.
Ending == RecoverEvent \/ CommitRef \/ PackLedger \/ UndoTables \/ Stop

LEMMA LastRun ==
  ASSUME Ending
  PROVE  run' = NoRun
BY DEF Ending, RecoverEvent, CommitRef, PackLedger, UndoTables, Stop

--------------------------------------------------------------------------------
(* Type correctness *)

LEMMA RunStays ==
  ASSUME RunOK, TablesOK, [Next]_vars
  PROVE  RunOK'
<1>1. ASSUME NEW cmd \in {"recover", "verify"}, NEW d, NEW copy, ReadDisc(cmd, d, copy)
      PROVE  RunOK'
  BY <1>1, ReadDiscRun DEF RunOK, Recording
<1>2. ASSUME NEW n, Commit(n)
      PROVE  RunOK'
  BY <1>2, CommitRun DEF RunOK, Recording
<1>3. CASE Pack
  <2>1. PICK d : d = Cardinality(DOMAIN media) + 1
    OBVIOUS
  <2>2. DOMAIN run' = Fields /\ run'.cmd = "pack" /\ run'.at = "copy" /\ run'.table = 0
    BY <1>3, <2>1, PackRun
  <2>3. QED
    BY <2>2 DEF RunOK, Recording
<1>4. ASSUME NEW d, Undo(d)
      PROVE  RunOK'
  BY <1>4, UndoRun DEF RunOK, Recording
<1>5. CASE CopyObject
  BY <1>5, CopyObjectRun DEF RunOK, Recording
<1>6. CASE CopyTable
  BY <1>6, CopyTableRun DEF RunOK, Recording
<1>7. CASE WalkBegin
  BY <1>7, WalkBeginRun DEF RunOK, Recording, Moves
<1>8. CASE Walk
  BY <1>8, WalkRun DEF RunOK, Recording, Moves
<1>9. ASSUME run' = NoRun
      PROVE  RunOK'
  BY <1>9, Ends DEF RunOK, Recording
<1>10. CASE WalkEnd
  BY <1>9, <1>10, WalkEndRun DEF RunOK, Recording, Moves
<1>11. CASE RecoverLedger \/ RecoverLines \/ RecoverItems
  BY <1>11, MoveSteps DEF RunOK, Recording, Moves
<1>12. CASE CommitMark \/ PackRow
  BY <1>12, MoveSteps DEF RunOK, Recording, Moves
<1>13. CASE Ending
  BY <1>9, <1>13, LastRun
<1>14. CASE Rot \/ UNCHANGED vars
  BY <1>14 DEF RunOK, Rot, vars
<1>15. QED
  BY <1>1, <1>2, <1>3, <1>4, <1>5, <1>6, <1>7, <1>8, <1>10, <1>11, <1>12, <1>13, <1>14
     DEF Next, RunStep, Ending, Recover, Verify

\* A pack makes the disc with the next number.
LEMMA PackMedia ==
  ASSUME MediaOK, Pack
  PROVE  \E d \in Nat :
           /\ d = Cardinality(DOMAIN media) + 1 /\ d \notin DOMAIN media /\ d \notin Old
           /\ DOMAIN media' = {d} \cup DOMAIN media
           /\ \A q \in DOMAIN media : media'[q] = media[q]
           /\ media'[d] = [objects |-> Logged \cup Takes, refs |-> PackRefs(Named),
                           names |-> {q \in DOMAIN known : known[q] # "undone"}]
           /\ \E n \in Nat : DOMAIN media' = 1 .. n
<1>1. PICK n \in Nat : DOMAIN media = 1 .. n
  BY DEF MediaOK
<1>2. Cardinality(DOMAIN media) = n
  BY <1>1, FS_Interval
<1>3. PICK d : d = Cardinality(DOMAIN media) + 1
  OBVIOUS
<1>4. d = n + 1 /\ d \in Nat /\ d \notin DOMAIN media
  BY <1>1, <1>2, <1>3
<1>5. d \notin Old
  BY <1>4 DEF MediaOK
<1>6. PICK m : m = [objects |-> Logged \cup Takes, refs |-> PackRefs(Named),
                    names |-> {q \in DOMAIN known : known[q] # "undone"}]
  OBVIOUS
<1>7. media' = Put(media, d, m)
  BY <1>3, <1>6, PackRun
<1>8. /\ DOMAIN media' = {d} \cup DOMAIN media /\ media'[d] = m
      /\ \A q \in DOMAIN media : media'[q] = media[q]
  BY <1>7, <1>4 DEF Put
<1>9. DOMAIN media' = 1 .. (n + 1)
  BY <1>1, <1>4, <1>8
<1>10. n + 1 \in Nat
  OBVIOUS
<1>11. QED
  BY <1>3, <1>4, <1>5, <1>6, <1>8, <1>9, <1>10

\* The media are written by pack alone.
LEMMA MediaFrame ==
  ASSUME [Next]_vars, ~Pack
  PROVE  media' = media
BY DEF Next, RunStep, vars, Recover, Verify, ReadDisc, Commit, Undo, Stop, Rot, CopyObject, CopyTable,
       WalkBegin, Walk, WalkEnd, RecoverLedger, RecoverLines, RecoverItems, RecoverEvent, CommitMark,
       CommitRef, PackRow, PackLedger, UndoTables

LEMMA MediaStays ==
  ASSUME MediaOK, [Next]_vars
  PROVE  /\ MediaOK' /\ DOMAIN media \subseteq DOMAIN media'
         /\ \A d \in DOMAIN media : media'[d] = media[d]
<1>1. CASE ~Pack
  <2>1. media' = media
    BY <1>1, MediaFrame
  <2>2. QED
    BY <2>1 DEF MediaOK
<1>2. CASE Pack
  BY <1>2, PackMedia DEF MediaOK
<1>3. QED
  BY <1>1, <1>2

LEMMA TablesFrame ==
  ASSUME [Next]_vars, ~Pack, ~CopyTable, ~UndoTables
  PROVE  tables' = tables
BY DEF Next, RunStep, vars, catalog, Recover, Verify, ReadDisc, Commit, Undo, Stop, Rot, CopyObject,
       WalkBegin, Walk, WalkEnd, RecoverLedger, RecoverLines, RecoverItems, RecoverEvent, CommitMark,
       CommitRef, PackRow, PackLedger

\* The tables of an undone disc go, and those of no other one.
LEMMA PackTables ==
  ASSUME Pack
  PROVE  /\ DOMAIN tables' \subseteq DOMAIN tables
         /\ \A d \in DOMAIN tables' : tables'[d] = tables[d]
         /\ \A d \in DOMAIN tables : d \in DOMAIN tables' \/ (d \in DOMAIN known /\ known[d] = "undone")
<1>1. PICK S : S = {d \in DOMAIN tables : ~(d \in DOMAIN known /\ known[d] = "undone")}
  OBVIOUS
<1>2. tables' = Restrict(tables, S)
  BY <1>1 DEF Pack
<1>3. DOMAIN tables' = S /\ \A d \in S : tables'[d] = tables[d]
  BY <1>2, RestrictFields
<1>4. \A d : d \in S <=> d \in DOMAIN tables /\ ~(d \in DOMAIN known /\ known[d] = "undone")
  BY <1>1
<1>5. QED
  BY <1>3, <1>4

LEMMA UndoneTables ==
  ASSUME UndoTables
  PROVE  /\ DOMAIN tables' = DOMAIN tables \ {run.disc} /\ run.cmd = "undo"
         /\ \A d \in DOMAIN tables' : tables'[d] = tables[d]
<1>1. PICK S : S = DOMAIN tables \ {run.disc}
  OBVIOUS
<1>2. tables' = Restrict(tables, S) /\ run.cmd = "undo"
  BY <1>1 DEF UndoTables
<1>3. QED
  BY <1>1, <1>2, RestrictFields

LEMMA TablesStay ==
  ASSUME RunOK, TablesOK, [Next]_vars
  PROVE  TablesOK'
<1>1. CASE Pack
  BY <1>1, PackTables DEF TablesOK
<1>2. CASE UndoTables
  BY <1>2, UndoneTables DEF TablesOK
<1>3. CASE CopyTable
  BY <1>3, CopyTableRun DEF TablesOK
<1>4. CASE ~Pack /\ ~CopyTable /\ ~UndoTables
  BY <1>4, TablesFrame DEF TablesOK
<1>5. QED
  BY <1>1, <1>2, <1>3, <1>4

LEMMA KnownFrame ==
  ASSUME [Next]_vars, ~PackRow, ~RecoverEvent, ~(\E d \in DOMAIN media : Undo(d))
  PROVE  known' = known
BY DEF Next, RunStep, vars, Recover, Verify, ReadDisc, Commit, Stop, Rot, CopyObject, Pack, CopyTable, UndoTables,
       WalkBegin, Walk, WalkEnd, RecoverLedger, RecoverLines, RecoverItems, CommitMark,
       CommitRef, PackLedger

\* The discs that recover makes known are discs of the lost repository.
LEMMA RecoverEventKnown ==
  ASSUME RunOK, DiscOK, MediaOK, RecoverEvent
  PROVE  /\ run.disc \in Old /\ run.disc \in DOMAIN media
         /\ \E more \in SUBSET Old : DOMAIN known' = {run.disc} \cup more \cup DOMAIN known
         /\ known'[run.disc] = "recovered"
         /\ \A d \in DOMAIN known : d # run.disc => known'[d] = known[d]
         /\ \A d \in DOMAIN known' \ DOMAIN known : d # run.disc => known'[d] = "missing" /\ d \in Old
<1>1. run.cmd = "recover" /\ run.at = "event"
  BY DEF RecoverEvent
<1>2. run.disc \in Old /\ run.disc \in DOMAIN media /\ media[run.disc] = OldMedia[run.disc]
  BY <1>1 DEF DiscOK, MediaOK, Recording
<1>3. PICK more : more = IF run.tablesIntact THEN media[run.disc].names ELSE {}
  OBVIOUS
<1>4. more \subseteq Old
  BY <1>2, <1>3, OldIs
<1>5. PICK g : g = [d \in more |-> "missing"]
  OBVIOUS
<1>6. PICK h : h = Over(known, g)
  OBVIOUS
<1>7. known' = Put(h, run.disc, "recovered")
  BY <1>3, <1>5, <1>6 DEF RecoverEvent
<1>8. /\ DOMAIN h = DOMAIN known \cup more /\ \A x \in DOMAIN known : h[x] = known[x]
      /\ \A x \in more \ DOMAIN known : h[x] = "missing"
  BY <1>5, <1>6 DEF Over
<1>9. /\ DOMAIN known' = {run.disc} \cup DOMAIN h /\ known'[run.disc] = "recovered"
      /\ \A y \in DOMAIN h : y # run.disc => known'[y] = h[y]
  BY <1>7 DEF Put
<1>10. DOMAIN known' = {run.disc} \cup more \cup DOMAIN known
  BY <1>8, <1>9
<1>11. \A d \in DOMAIN known : d # run.disc => known'[d] = known[d]
  BY <1>8, <1>9
<1>12. \A d \in DOMAIN known' \ DOMAIN known : d # run.disc => known'[d] = "missing" /\ d \in Old
  BY <1>4, <1>8, <1>9
<1>13. QED
  BY <1>2, <1>4, <1>9, <1>10, <1>11, <1>12

LEMMA PackRowKnown ==
  ASSUME RunOK, PackRow
  PROVE  /\ DOMAIN known' = {run.disc} \cup DOMAIN known /\ known'[run.disc] = "packed"
         /\ \A d \in DOMAIN known : d # run.disc => known'[d] = known[d]
<1>1. known' = Put(known, run.disc, "packed")
  BY DEF PackRow
<1>2. QED
  BY <1>1 DEF Put

LEMMA UndoKnown ==
  ASSUME NEW d, Undo(d)
  PROVE  /\ DOMAIN known' = DOMAIN known /\ d \in DOMAIN known /\ known[d] = "packed" /\ known'[d] = "undone"
         /\ \A q \in DOMAIN known : q # d => known'[q] = known[q]
BY DEF Undo

LEMMA KnownStays ==
  ASSUME TypeOK, [Next]_vars
  PROVE  KnownOK' /\ DOMAIN known \subseteq DOMAIN known'
<1> USE DEF TypeOK
<1>0. DOMAIN media \subseteq DOMAIN media'
  BY MediaStays
<1>1. CASE RecoverEvent
  <2>1. DOMAIN known' \subseteq DOMAIN media
    BY <1>1, RecoverEventKnown DEF KnownOK, MediaOK
  <2>2. \A d \in DOMAIN known' : known'[d] \in {"missing", "recovered"} => d \in Old
    BY <1>1, RecoverEventKnown DEF KnownOK
  <2>3. QED
    BY <1>0, <1>1, <2>1, <2>2, RecoverEventKnown DEF KnownOK
<1>2. CASE PackRow
  BY <1>0, <1>2, PackRowKnown, MoveSteps DEF KnownOK, DiscOK
<1>3. ASSUME NEW d \in DOMAIN media, Undo(d)
      PROVE  KnownOK' /\ DOMAIN known \subseteq DOMAIN known'
  BY <1>0, <1>3, UndoKnown DEF KnownOK
<1>4. CASE ~PackRow /\ ~RecoverEvent /\ ~(\E d \in DOMAIN media : Undo(d))
  BY <1>0, <1>4, KnownFrame DEF KnownOK
<1>5. QED
  BY <1>1, <1>2, <1>3, <1>4

LEMMA DiscStays ==
  ASSUME TypeOK, [Next]_vars
  PROVE  DiscOK'
<1> USE DEF TypeOK
<1>0. /\ DOMAIN media \subseteq DOMAIN media' /\ DOMAIN known \subseteq DOMAIN known'
  BY MediaStays, KnownStays
<1>1. ASSUME NEW d \in DOMAIN media, NEW copy \in CopiesOf(d), Recover(d, copy)
      PROVE  DiscOK'
  <2>1. ReadDisc("recover", d, copy) /\ d \in Old \cup DOMAIN known
    BY <1>1 DEF Recover
  <2>2. run'.cmd = "recover" /\ run'.at = "copy" /\ run'.disc = d
    BY <2>1, ReadDiscRun
  <2>3. QED
    BY <1>0, <2>1, <2>2 DEF DiscOK, Recording
<1>2. ASSUME NEW d \in DOMAIN media, Verify(d)
      PROVE  DiscOK'
  <2>1. ReadDisc("verify", d, Perfect)
    BY <1>2 DEF Verify
  <2>2. run'.cmd = "verify" /\ run'.at = "copy" /\ run'.disc = d
    BY <2>1, ReadDiscRun
  <2>3. QED
    BY <1>0, <2>2 DEF DiscOK, Recording
<1>3. ASSUME NEW n \in Name, Commit(n)
      PROVE  DiscOK'
  BY <1>3, CommitRun DEF DiscOK, Recording
<1>4. CASE Pack
  <2>1. PICK d \in Nat : /\ d = Cardinality(DOMAIN media) + 1 /\ d \notin Old
                         /\ DOMAIN media' = {d} \cup DOMAIN media
    BY <1>4, PackMedia
  <2>2. run'.cmd = "pack" /\ run'.disc = d
    BY <1>4, <2>1, PackRun
  <2>3. QED
    BY <2>1, <2>2 DEF DiscOK
<1>5. ASSUME NEW d \in DOMAIN media, Undo(d)
      PROVE  DiscOK'
  BY <1>5, UndoRun, UndoKnown DEF DiscOK
<1>6. CASE run' = NoRun
  BY <1>6, Ends DEF DiscOK
<1>7. ASSUME run'.cmd = run.cmd, run'.disc = run.disc, known' = known,
             run'.at \in Recording => run.at \in Recording \/ IsNew(run.disc)
      PROVE  DiscOK'
  <2>1. run.cmd = "recover" /\ IsNew(run.disc) => run.disc \in Old
    BY DEF DiscOK, IsNew, KnownOK
  <2>2. QED
    BY <1>0, <1>7, <2>1 DEF DiscOK
<1>8. CASE CopyObject \/ CopyTable
  <2>1. run'.cmd = run.cmd /\ run'.disc = run.disc /\ run'.at = "copy"
    BY <1>8, CopyObjectRun, CopyTableRun
  <2>2. known' = known
    BY <1>8 DEF CopyObject, CopyTable
  <2>3. QED
    BY <1>7, <2>1, <2>2 DEF Recording
<1>9. CASE WalkBegin \/ Walk
  <2>1. run'.cmd = run.cmd /\ run'.disc = run.disc /\ run'.at = "walk"
    BY <1>9, WalkBeginRun, WalkRun DEF Moves
  <2>2. known' = known
    BY <1>9 DEF WalkBegin, Walk
  <2>3. QED
    BY <1>7, <2>1, <2>2 DEF Recording
<1>10. CASE WalkEnd
  <2>1. known' = known
    BY <1>10 DEF WalkEnd
  <2>2. QED
    BY <1>6, <1>7, <1>10, <2>1, WalkEndRun DEF Moves
<1>11. CASE RecoverLedger \/ RecoverLines \/ RecoverItems \/ CommitMark
  <2>1. known' = known
    BY <1>11 DEF RecoverLedger, RecoverLines, RecoverItems, CommitMark
  <2>2. run'.cmd = run.cmd /\ run'.disc = run.disc /\ (run'.at \in Recording => run.at \in Recording)
    BY <1>11, MoveSteps DEF Recording, Moves
  <2>3. QED
    BY <1>7, <2>1, <2>2
<1>12. CASE PackRow
  <2>1. run'.cmd = "pack" /\ run.cmd = "pack" /\ run'.disc = run.disc
    BY <1>12, MoveSteps DEF Moves
  <2>2. QED
    BY <1>0, <2>1 DEF DiscOK, MediaOK
<1>13. CASE Ending
  BY <1>6, <1>13, LastRun
<1>14. CASE Rot \/ UNCHANGED vars
  <2>1. run' = run /\ known' = known
    BY <1>14 DEF Rot, vars
  <2>2. QED
    BY <1>7, <2>1
<1>15. QED
  BY <1>1, <1>2, <1>3, <1>4, <1>5, <1>8, <1>9, <1>10, <1>11, <1>12, <1>13, <1>14
     DEF Next, RunStep, Ending

LEMMA TypeStep ==
  ASSUME TypeOK, [Next]_vars
  PROVE  TypeOK'
<1>1. RunOK'
  BY RunStays DEF TypeOK
<1>2. DiscOK'
  BY DiscStays
<1>3. MediaOK'
  BY MediaStays DEF TypeOK
<1>4. TablesOK'
  BY TablesStay DEF TypeOK
<1>5. KnownOK'
  BY KnownStays
<1>6. QED
  BY <1>1, <1>2, <1>3, <1>4, <1>5 DEF TypeOK

LEMMA TypeInit ==
  ASSUME Init
  PROVE  TypeOK
<1>1. DOMAIN known = {} /\ DOMAIN tables = {} /\ DOMAIN files = {} /\ DOMAIN marks = {} /\ DOMAIN lines = {}
      /\ DOMAIN items = {} /\ DOMAIN moved = {}
  BY DEF Init
<1>2. RunOK
  BY NoRunFields DEF Init, RunOK, Recording
<1>3. DiscOK
  BY NoRunFields DEF Init, DiscOK
<1>4. MediaOK
  BY OldIs DEF Init, MediaOK, Old
<1>5. TablesOK /\ KnownOK
  BY <1>1 DEF TablesOK, KnownOK
<1>6. QED
  BY <1>2, <1>3, <1>4, <1>5 DEF TypeOK

\* The run of a command is at one of its steps on a disc that it may read or
\* write, the discs keep the numbers and the contents that they got, and only
\* discs of the lost repository are recovered or missing.
THEOREM CatalogTypes == Spec => []TypeOK
<1>1. Init => TypeOK
  BY TypeInit
<1>2. TypeOK /\ [Next]_vars => TypeOK'
  BY TypeStep
<1>3. QED
  BY <1>1, <1>2, PTL DEF Spec

--------------------------------------------------------------------------------
(* The marks of the completeness file *)

LEMMA FilesFrame ==
  ASSUME [Next]_vars, ~CopyObject, ~Rot, ~(\E n \in Name : Commit(n))
  PROVE  files' = files
BY DEF Next, RunStep, vars, catalog, Recover, Verify, ReadDisc, Pack, PackRow, PackLedger, Undo, UndoTables,
       Stop, CopyTable, WalkBegin, Walk, WalkEnd, RecoverLedger, RecoverLines, RecoverItems, RecoverEvent,
       CommitMark, CommitRef

LEMMA MarksFrame ==
  ASSUME [Next]_vars, ~Walk, ~CommitMark
  PROVE  marks' = marks
BY DEF Next, RunStep, vars, catalog, Recover, Verify, ReadDisc, Pack, PackRow, PackLedger, Undo, UndoTables,
       Stop, Rot, Commit, CopyObject, CopyTable, WalkBegin, WalkEnd, RecoverLedger, RecoverLines, RecoverItems,
       RecoverEvent, CommitRef

\* A file that goes bad is still there, and no other file becomes good.
LEMMA RotFiles ==
  ASSUME Rot
  PROVE  /\ DOMAIN files' = DOMAIN files
         /\ \A o : Whole(o)' => Whole(o)
         /\ \A o : GoodHead(o)' => GoodHead(o)
         /\ \A o \in DOMAIN files \ Rotting : files'[o] = files[o]
<1>1. PICK o \in DOMAIN files \cap Rotting, how \in Rots : files[o] = "whole" /\ files' = [files EXCEPT ![o] = how]
  BY DEF Rot
<1>2. DOMAIN files' = DOMAIN files /\ \A x \in DOMAIN files : x # o => files'[x] = files[x]
  BY <1>1
<1>3. QED
  BY <1>1, <1>2 DEF Whole, GoodHead

\* What commit writes is whole, and the rest stays.
LEMMA CommitFiles ==
  ASSUME NEW n, Commit(n)
  PROVE  /\ DOMAIN files' = ({NextSnapshot} \cup Meta[NextSnapshot]) \cup DOMAIN files
         /\ \A o \in {NextSnapshot} \cup Meta[NextSnapshot] : files'[o] = "whole"
         /\ \A o \in DOMAIN files : files[o] = "whole" => files'[o] = "whole"
<1>1. PICK s : s = NextSnapshot
  OBVIOUS
<1>2. PICK new : new = {s} \cup Meta[s]
  OBVIOUS
<1>3. PICK g : g = [o \in new |-> "whole"]
  OBVIOUS
<1>4. files' = Over(g, files)
  BY <1>1, <1>2, <1>3 DEF Commit
<1>5. /\ DOMAIN files' = new \cup DOMAIN files /\ \A o \in new : files'[o] = "whole"
      /\ \A o \in DOMAIN files \ new : files'[o] = files[o]
  BY <1>3, <1>4 DEF Over
<1>6. QED
  BY <1>1, <1>2, <1>5

LEMMA CopiedFiles ==
  ASSUME RunOK, CopyObject
  PROVE  \E o \in run.todo : /\ run'.todo = run.todo \ {o}
                             /\ DOMAIN files' = {o} \cup DOMAIN files /\ files'[o] = "whole"
                             /\ \A x \in DOMAIN files : x # o => files'[x] = files[x]
<1>1. PICK o \in run.todo : files' = Put(files, o, "whole") /\ run'.todo = run.todo \ {o}
  BY CopyObjectRun
<1>2. DOMAIN files' = {o} \cup DOMAIN files /\ files'[o] = "whole"
      /\ \A x \in DOMAIN files : x # o => files'[x] = files[x]
  BY <1>1 DEF Put
<1>3. QED
  BY <1>1, <1>2

LEMMA FilesGrow ==
  ASSUME RunOK, [Next]_vars
  PROVE  DOMAIN files \subseteq DOMAIN files'
<1>1. CASE CopyObject
  BY <1>1, CopiedFiles
<1>2. CASE Rot
  BY <1>2, RotFiles
<1>3. ASSUME NEW n \in Name, Commit(n)
      PROVE  DOMAIN files \subseteq DOMAIN files'
  BY <1>3, CommitFiles
<1>4. CASE ~CopyObject /\ ~Rot /\ ~(\E n \in Name : Commit(n))
  BY <1>4, FilesFrame
<1>5. QED
  BY <1>1, <1>2, <1>3, <1>4

LEMMA WalkMarks ==
  ASSUME RunOK, Walk
  PROVE  \E s \in run.walk :
           /\ run'.walk = run.walk \ {s} /\ DOMAIN marks' = {s} \cup DOMAIN marks /\ marks'[s] = Walks(s)
           /\ \A x \in DOMAIN marks : x # s => marks'[x] = marks[x]
<1>1. PICK s \in run.walk : marks' = Put(marks, s, Walks(s)) /\ run'.walk = run.walk \ {s}
  BY WalkRun
<1>2. PICK w : w = Walks(s)
  OBVIOUS
<1>3. marks' = Put(marks, s, w)
  BY <1>1, <1>2
<1>4. DOMAIN marks' = {s} \cup DOMAIN marks /\ marks'[s] = w /\ \A x \in DOMAIN marks : x # s => marks'[x] = marks[x]
  BY <1>3 DEF Put
<1>5. QED
  BY <1>1, <1>2, <1>4

LEMMA WalkedIsHeld ==
  ASSUME NEW s, Walks(s)
  PROVE  {s} \cup Meta[s] \subseteq DOMAIN files
BY DEF Walks, Whole, GoodHead

\* The snapshot of a commit that goes to mark it is there with all it reaches.
MarkIsOwed ==
  run.cmd = "commit" /\ run.at = "mark" => {run.snap} \cup Meta[run.snap] \subseteq DOMAIN files

LEMMA CompleteStep ==
  ASSUME TypeOK, CompleteIsHeld, MarkIsOwed, [Next]_vars
  PROVE  CompleteIsHeld'
<1> USE DEF TypeOK
<1>0. DOMAIN files \subseteq DOMAIN files'
  BY FilesGrow
<1>1. CASE Walk
  <2>1. PICK s \in run.walk : /\ DOMAIN marks' = {s} \cup DOMAIN marks /\ marks'[s] = Walks(s)
                              /\ \A x \in DOMAIN marks : x # s => marks'[x] = marks[x]
    BY <1>1, WalkMarks
  <2>2. QED
    BY <1>0, <2>1, WalkedIsHeld DEF CompleteIsHeld
<1>2. CASE CommitMark
  <2>1. marks' = Put(marks, run.snap, TRUE) /\ run.cmd = "commit" /\ run.at = "mark"
    BY <1>2 DEF CommitMark
  <2>2. /\ DOMAIN marks' = {run.snap} \cup DOMAIN marks
        /\ \A x \in DOMAIN marks : x # run.snap => marks'[x] = marks[x]
    BY <2>1 DEF Put
  <2>3. QED
    BY <1>0, <2>1, <2>2 DEF CompleteIsHeld, MarkIsOwed
<1>3. CASE ~Walk /\ ~CommitMark
  BY <1>0, <1>3, MarksFrame DEF CompleteIsHeld
<1>4. QED
  BY <1>1, <1>2, <1>3

LEMMA OwedStep ==
  ASSUME TypeOK, MarkIsOwed, [Next]_vars
  PROVE  MarkIsOwed'
<1> USE DEF TypeOK
<1>0. DOMAIN files \subseteq DOMAIN files'
  BY FilesGrow
<1>1. ASSUME NEW n \in Name, Commit(n)
      PROVE  MarkIsOwed'
  <2>1. run'.snap = NextSnapshot
    BY <1>1, CommitRun
  <2>2. {NextSnapshot} \cup Meta[NextSnapshot] \subseteq DOMAIN files'
    BY <1>1, CommitFiles
  <2>3. QED
    BY <2>1, <2>2 DEF MarkIsOwed
<1>2. CASE run' = run
  BY <1>0, <1>2 DEF MarkIsOwed
<1>3. CASE ~(run'.cmd = "commit" /\ run'.at = "mark")
  BY <1>3 DEF MarkIsOwed
<1>4. ASSUME NEW d, NEW copy, NEW cmd, ReadDisc(cmd, d, copy)
      PROVE  run'.at = "copy"
  BY <1>4, ReadDiscRun
<1>5. CASE Pack
  BY <1>3, <1>5, PackRun
<1>6. ASSUME NEW d \in DOMAIN media, Undo(d)
      PROVE  run'.cmd = "undo"
  BY <1>6, UndoRun
<1>7. CASE RunStep \/ Stop \/ Rot \/ UNCHANGED vars
  <2>1. CASE Ending
    BY <1>3, <2>1, LastRun, Ends
  <2>2. CASE CopyObject \/ CopyTable
    BY <1>3, <2>2, CopyObjectRun, CopyTableRun
  <2>3. CASE WalkBegin \/ Walk
    BY <1>3, <2>3, WalkBeginRun, WalkRun DEF Moves
  <2>4. CASE WalkEnd
    BY <1>3, <2>4, WalkEndRun, Ends DEF Moves
  <2>5. CASE RecoverLedger \/ RecoverLines \/ RecoverItems \/ CommitMark \/ PackRow
    BY <1>3, <2>5, MoveSteps DEF Moves
  <2>6. CASE Rot \/ UNCHANGED vars
    BY <1>2, <2>6 DEF Rot, vars
  <2>7. QED
    BY <1>7, <2>1, <2>2, <2>3, <2>4, <2>5, <2>6 DEF RunStep, Ending
<1>8. QED
  BY <1>1, <1>3, <1>4, <1>5, <1>6, <1>7 DEF Next, Recover, Verify

\* A snapshot that the completeness file marks complete has every object that
\* it reaches in the catalog: the walk marks what it has found, commit marks
\* what it has written, and no step takes a file out of the catalog.
THEOREM MarkedIsHeld == Spec => []CompleteIsHeld
<1>1. Init => TypeOK /\ CompleteIsHeld /\ MarkIsOwed
  <2>1. Init => DOMAIN marks = {} /\ run.cmd = "none"
    BY NoRunFields DEF Init
  <2>2. QED
    BY <2>1, TypeInit DEF CompleteIsHeld, MarkIsOwed
<1>2. TypeOK /\ CompleteIsHeld /\ MarkIsOwed /\ [Next]_vars => (TypeOK /\ CompleteIsHeld /\ MarkIsOwed)'
  BY TypeStep, CompleteStep, OwedStep
<1>3. QED
  BY <1>1, <1>2, PTL DEF Spec

--------------------------------------------------------------------------------
(* The walk of a recover *)

Known(s) == s \in DOMAIN marks /\ (Walks(s) => marks[s])

\* What a recover has walked is told by the completeness file.
WalkedIsKnown ==
  run.cmd = "recover" =>
    /\ run.at = "walk" => \A s \in Held \ run.walk : Known(s)
    /\ run.at \in Recording => \A s \in Held : Known(s)

LEMMA KnownAfter ==
  ASSUME NEW s, Known(s), marks' = marks, Walks(s)' => Walks(s)
  PROVE  Known(s)'
BY DEF Known

LEMMA WalkedStep ==
  ASSUME TypeOK, WalkedIsKnown, [Next]_vars
  PROVE  WalkedIsKnown'
<1> USE DEF TypeOK
<1>1. CASE ~(run'.cmd = "recover" /\ run'.at \in {"walk"} \cup Recording)
  BY <1>1 DEF WalkedIsKnown
<1>2. ASSUME run' = run, marks' = marks, Held' = Held, \A s : Walks(s)' => Walks(s)
      PROVE  WalkedIsKnown'
  BY <1>2 DEF WalkedIsKnown, Known
<1>3. ASSUME files' = files
      PROVE  Held' = Held /\ \A s : Walks(s)' <=> Walks(s)
  BY <1>3 DEF Held, Walks, Whole, GoodHead
<1>4. ASSUME NEW d, NEW copy, NEW cmd, ReadDisc(cmd, d, copy)
      PROVE  run'.at = "copy"
  BY <1>4, ReadDiscRun
<1>5. ASSUME NEW n \in Name, Commit(n)
      PROVE  run'.cmd = "commit"
  BY <1>5, CommitRun
<1>6. CASE Pack
  BY <1>1, <1>6, PackRun
<1>7. ASSUME NEW d \in DOMAIN media, Undo(d)
      PROVE  run'.cmd = "undo"
  BY <1>7, UndoRun
<1>8. CASE CopyObject \/ CopyTable
  BY <1>1, <1>8, CopyObjectRun, CopyTableRun DEF Recording
<1>9. CASE WalkBegin
  <2>1. run'.cmd = run.cmd /\ run'.at = "walk" /\ run'.walk = ToWalk
    BY <1>9, WalkBeginRun DEF Moves
  <2>2. CASE run.cmd = "recover"
    <3>1. Held \subseteq ToWalk
      BY <2>2 DEF ToWalk
    <3>2. Held' = Held
      BY <1>3, <1>9 DEF WalkBegin, catalog
    <3>3. QED
      BY <2>1, <3>1, <3>2 DEF WalkedIsKnown, Recording
  <2>3. QED
    BY <1>1, <2>1, <2>2
<1>10. CASE Walk
  <2>1. PICK s \in run.walk :
           /\ run'.walk = run.walk \ {s} /\ DOMAIN marks' = {s} \cup DOMAIN marks /\ marks'[s] = Walks(s)
           /\ \A x \in DOMAIN marks : x # s => marks'[x] = marks[x]
    BY <1>10, WalkMarks
  <2>2. run.at = "walk" /\ run'.at = "walk" /\ run'.cmd = run.cmd
    BY <1>10, WalkRun DEF Moves
  <2>3. Held' = Held /\ \A x : Walks(x)' <=> Walks(x)
    BY <1>3, <1>10 DEF Walk
  <2>4. ASSUME run.cmd = "recover", NEW x \in Held \ run'.walk
        PROVE  Known(x)'
    <3>1. CASE x = s
      BY <2>1, <2>3, <3>1 DEF Known
    <3>2. CASE x # s
      <4>1. Known(x)
        BY <2>1, <2>2, <2>4, <3>2 DEF WalkedIsKnown
      <4>2. QED
        BY <2>1, <2>3, <3>2, <4>1 DEF Known
    <3>3. QED
      BY <3>1, <3>2
  <2>5. QED
    BY <2>2, <2>3, <2>4 DEF WalkedIsKnown, Recording
<1>11. CASE WalkEnd
  <2>1. CASE run' = NoRun
    BY <1>1, <2>1, Ends
  <2>2. CASE run.cmd = "recover" /\ Moves("ledger")
    <3>1. run.at = "walk" /\ run.walk = {}
      BY <1>11, WalkEndRun
    <3>2. Held' = Held /\ (\A x : Walks(x)' <=> Walks(x)) /\ marks' = marks
      BY <1>3, <1>11 DEF WalkEnd, catalog
    <3>3. \A x \in Held' : Known(x)'
      BY <2>2, <3>1, <3>2 DEF WalkedIsKnown, Known
    <3>4. QED
      BY <2>2, <3>3 DEF WalkedIsKnown, Moves
  <2>3. QED
    BY <1>11, <2>1, <2>2, WalkEndRun
<1>12. CASE RecoverLedger \/ RecoverLines \/ RecoverItems
  <2>1. files' = files /\ marks' = marks
    BY <1>12 DEF RecoverLedger, RecoverLines, RecoverItems, catalog
  <2>2. run.cmd = "recover" /\ run.at \in Recording /\ run'.at \in Recording
    BY <1>12, MoveSteps DEF Moves, Recording
  <2>3. \A x \in Held' : Known(x)'
    BY <1>3, <2>1, <2>2 DEF WalkedIsKnown, Known
  <2>4. QED
    BY <2>2, <2>3 DEF WalkedIsKnown, Recording
<1>13. CASE CommitMark \/ PackRow
  BY <1>1, <1>13, MoveSteps DEF Moves
<1>14. CASE Ending
  BY <1>1, <1>14, LastRun, Ends
<1>15. CASE Rot
  <2>1. run' = run /\ marks' = marks
    BY <1>15 DEF Rot
  <2>2. Held' = Held
    BY <1>15, RotFiles DEF Held
  <2>3. \A s : Walks(s)' => Walks(s)
    BY <1>15, RotFiles DEF Walks
  <2>4. QED
    BY <1>2, <2>1, <2>2, <2>3
<1>16. CASE UNCHANGED vars
  BY <1>2, <1>3, <1>16 DEF vars, catalog
<1>17. QED
  BY <1>1, <1>4, <1>5, <1>6, <1>7, <1>8, <1>9, <1>10, <1>11, <1>12, <1>13, <1>14, <1>15, <1>16
     DEF Next, Recover, Verify, RunStep, Ending, Recording

\* When recover has walked, the completeness file tells the truth of every
\* snapshot that the catalog holds, also of one that the disc does not name
\* and that its objects complete; a file that goes bad meanwhile makes no
\* snapshot better.
THEOREM RecoverTellsTheMarks == Spec => []MarksFollowTheDiscs
<1>1. Init => TypeOK /\ WalkedIsKnown
  <2>1. Init => run.cmd = "none"
    BY NoRunFields DEF Init
  <2>2. QED
    BY <2>1, TypeInit DEF WalkedIsKnown
<1>2. TypeOK /\ WalkedIsKnown /\ [Next]_vars => (TypeOK /\ WalkedIsKnown)'
  BY TypeStep, WalkedStep
<1>3. WalkedIsKnown => MarksFollowTheDiscs
  BY DEF WalkedIsKnown, MarksFollowTheDiscs, Known, Recording
<1>4. QED
  BY <1>1, <1>2, <1>3, PTL DEF Spec

--------------------------------------------------------------------------------
(* What a recovered disc has left *)

\* The refs of a pack carry the ledger.
PackCarries == run.cmd = "pack" => ledger \subseteq run.refs

\* What the read of a disc has left so far.
ReadOK ==
  run.cmd = "recover" =>
    /\ \E c \in CopiesOf(run.disc) : /\ run.bad = c.bad /\ run.tablesIntact = c.tables
                                     /\ c.tables => run.refs = media[run.disc].refs
    /\ run.refs \subseteq media[run.disc].refs
    /\ \A o \in media[run.disc].objects : o \in run.bad \/ o \in run.todo \/ o \in DOMAIN files
    /\ run.at # "copy" => run.todo = {} /\ (run.tablesIntact => run.table = 3)
    /\ run.table > 0 => run.disc \in DOMAIN tables /\ tables[run.disc] >= run.table
    /\ run.at \in {"lines", "items", "event"} => run.refs \subseteq ledger

Recorded(d) ==
  /\ \A o \in media[d].objects : o \in DOMAIN files \/ \E c \in CopiesOf(d) : o \in c.bad
  /\ (\A c \in CopiesOf(d) : c.tables) => d \in DOMAIN tables /\ tables[d] = 3 /\ media[d].refs \subseteq ledger

LEMMA LedgerFrame ==
  ASSUME [Next]_vars, ~RecoverLedger, ~PackLedger
  PROVE  ledger' = ledger
BY DEF Next, RunStep, vars, refs, Recover, Verify, ReadDisc, Pack, PackRow, Undo, UndoTables, RecoverLines,
       Stop, Rot, Commit, CopyObject, CopyTable, Walk, WalkBegin, WalkEnd, RecoverItems, RecoverEvent,
       CommitMark, CommitRef

LEMMA LedgerGrows ==
  ASSUME PackCarries, [Next]_vars
  PROVE  ledger \subseteq ledger'
<1>1. CASE RecoverLedger
  BY <1>1 DEF RecoverLedger
<1>2. CASE PackLedger
  BY <1>2 DEF PackLedger, PackCarries
<1>3. CASE ~RecoverLedger /\ ~PackLedger
  BY <1>3, LedgerFrame
<1>4. QED
  BY <1>1, <1>2, <1>3

LEMMA CarriesStep ==
  ASSUME TypeOK, PackCarries, [Next]_vars
  PROVE  PackCarries'
<1> USE DEF TypeOK
<1>1. CASE ~(run'.cmd = "pack")
  BY <1>1 DEF PackCarries
<1>2. ASSUME run'.cmd = run.cmd, run'.refs = run.refs, ledger' = ledger
      PROVE  PackCarries'
  BY <1>2 DEF PackCarries
<1>3. ASSUME NEW d, NEW copy, NEW cmd \in {"recover", "verify"}, ReadDisc(cmd, d, copy)
      PROVE  run'.cmd # "pack"
  BY <1>3, ReadDiscRun
<1>4. ASSUME NEW n \in Name, Commit(n)
      PROVE  run'.cmd = "commit"
  BY <1>4, CommitRun
<1>5. ASSUME NEW d \in DOMAIN media, Undo(d)
      PROVE  run'.cmd = "undo"
  BY <1>5, UndoRun
<1>6. CASE Pack
  <2>1. run'.refs = PackRefs(Named)
    BY <1>6, PackRun
  <2>2. ledger' = ledger
    BY <1>6 DEF Pack, refs
  <2>3. QED
    BY <2>1, <2>2 DEF PackCarries, PackRefs
<1>7. CASE CopyObject \/ CopyTable
  <2>1. ledger' = ledger
    BY <1>7 DEF CopyObject, CopyTable, refs
  <2>2. QED
    BY <1>2, <1>7, <2>1, CopyObjectRun, CopyTableRun
<1>8. CASE WalkBegin \/ Walk
  <2>1. ledger' = ledger
    BY <1>8 DEF WalkBegin, Walk, refs
  <2>2. QED
    BY <1>2, <1>8, <2>1, WalkBeginRun, WalkRun DEF Moves
<1>9. CASE WalkEnd
  BY <1>1, <1>9, WalkEndRun, Ends DEF Moves
<1>10. CASE RecoverLedger \/ RecoverLines \/ RecoverItems \/ CommitMark
  BY <1>1, <1>10, MoveSteps DEF Moves
<1>11. CASE PackRow
  <2>1. ledger' = ledger
    BY <1>11 DEF PackRow, refs
  <2>2. QED
    BY <1>2, <1>11, <2>1, MoveSteps DEF Moves
<1>12. CASE Ending
  BY <1>1, <1>12, LastRun, Ends
<1>13. CASE Rot \/ UNCHANGED vars
  <2>1. run' = run /\ ledger' = ledger
    BY <1>13 DEF Rot, vars, refs
  <2>2. QED
    BY <1>2, <2>1
<1>14. QED
  BY <1>1, <1>3, <1>4, <1>5, <1>6, <1>7, <1>8, <1>9, <1>10, <1>11, <1>12, <1>13
     DEF Next, Recover, Verify, RunStep, Ending

\* The tables of a disc that is not undone stay, and each is written once.
LEMMA TablesGrow ==
  ASSUME TypeOK, [Next]_vars, NEW d \in DOMAIN tables, ~(d \in DOMAIN known /\ known[d] = "undone")
  PROVE  d \in DOMAIN tables' /\ tables'[d] >= tables[d]
<1> USE DEF TypeOK
<1>0. tables[d] \in 1 .. 3
  BY DEF TablesOK
<1>1. CASE Pack
  BY <1>0, <1>1, PackTables
<1>2. CASE UndoTables
  BY <1>0, <1>2, UndoneTables DEF DiscOK
<1>3. CASE CopyTable
  BY <1>0, <1>3, CopyTableRun
<1>4. CASE ~Pack /\ ~CopyTable /\ ~UndoTables
  BY <1>0, <1>4, TablesFrame
<1>5. QED
  BY <1>1, <1>2, <1>3, <1>4

LEMMA RecordedStays ==
  ASSUME TypeOK, PackCarries, [Next]_vars, NEW d \in DOMAIN media,
         ~(d \in DOMAIN known /\ known[d] = "undone"), Recorded(d)
  PROVE  Recorded(d)'
<1> USE DEF TypeOK
<1>1. media'[d] = media[d]
  BY MediaStays
<1>2. DOMAIN files \subseteq DOMAIN files' /\ ledger \subseteq ledger'
  BY FilesGrow, LedgerGrows
<1>3. d \in DOMAIN tables /\ tables[d] = 3 => d \in DOMAIN tables' /\ tables'[d] = 3
  <2>1. TablesOK'
    BY TablesStay
  <2>2. QED
    BY <2>1, TablesGrow DEF TablesOK
<1>4. QED
  BY <1>1, <1>2, <1>3 DEF Recorded

LEMMA ReadStep ==
  ASSUME TypeOK, ReadOK, [Next]_vars
  PROVE  ReadOK'
<1> USE DEF TypeOK
<1>1. CASE ~(run'.cmd = "recover")
  BY <1>1 DEF ReadOK
<1>2. DOMAIN files \subseteq DOMAIN files' /\ \A d \in DOMAIN media : media'[d] = media[d]
  BY FilesGrow, MediaStays
<1>3. run.cmd = "recover" => run.disc \in DOMAIN media
  BY DEF DiscOK
<1>4. ASSUME run'.cmd = run.cmd, run'.disc = run.disc, run'.bad = run.bad, run'.todo = run.todo, run'.refs = run.refs,
             run'.tablesIntact = run.tablesIntact, run'.table = run.table, tables' = tables,
             run'.at # "copy" => run.at # "copy",
             run'.at \in {"lines", "items", "event"} => run.refs \subseteq ledger'
      PROVE  ReadOK'
  BY <1>2, <1>3, <1>4 DEF ReadOK
<1>5. ASSUME NEW d \in DOMAIN media, NEW copy \in CopiesOf(d), Recover(d, copy)
      PROVE  ReadOK'
  <2>1. ReadDisc("recover", d, copy)
    BY <1>5 DEF Recover
  <2>2. /\ run'.disc = d /\ run'.at = "copy" /\ run'.table = 0 /\ run'.bad = copy.bad
        /\ run'.todo = (media[d].objects \ copy.bad) /\ run'.tablesIntact = copy.tables
        /\ copy.tables => run'.refs = media[d].refs
        /\ run'.refs \subseteq media[d].refs
    BY <2>1, ReadDiscRun
  <2>3. media'[d] = media[d]
    BY <1>2
  <2>4. \A o \in media[d].objects : o \in copy.bad \/ o \in media[d].objects \ copy.bad
    OBVIOUS
  <2>5. QED
    BY <2>2, <2>3, <2>4 DEF ReadOK
<1>6. ASSUME NEW d \in DOMAIN media, Verify(d)
      PROVE  run'.cmd = "verify"
  BY <1>6, ReadDiscRun DEF Verify
<1>7. ASSUME NEW n \in Name, Commit(n)
      PROVE  run'.cmd = "commit"
  BY <1>7, CommitRun
<1>8. ASSUME NEW d \in DOMAIN media, Undo(d)
      PROVE  run'.cmd = "undo"
  BY <1>8, UndoRun
<1>9. CASE Pack
  BY <1>1, <1>9, PackRun
<1>10. CASE CopyObject
  <2>1. PICK o \in run.todo : run'.todo = run.todo \ {o} /\ DOMAIN files' = {o} \cup DOMAIN files
    BY <1>10, CopiedFiles
  <2>2. run'.cmd = run.cmd /\ run'.disc = run.disc /\ run'.bad = run.bad /\ run'.refs = run.refs
        /\ run'.tablesIntact = run.tablesIntact /\ run'.table = run.table /\ run'.at = "copy"
    BY <1>10, CopyObjectRun
  <2>3. tables' = tables
    BY <1>10 DEF CopyObject
  <2>4. QED
    BY <1>2, <1>3, <2>1, <2>2, <2>3 DEF ReadOK
<1>11. CASE CopyTable
  <2>1. /\ run'.cmd = run.cmd /\ run'.disc = run.disc /\ run'.bad = run.bad /\ run'.refs = run.refs
        /\ run'.tablesIntact = run.tablesIntact /\ run'.table = run.table + 1 /\ run'.at = "copy"
        /\ run'.todo = run.todo
    BY <1>11, CopyTableRun
  <2>2. run.disc \in DOMAIN tables' /\ tables'[run.disc] \in 1 .. 3 /\ tables'[run.disc] > run.table
        /\ run.table \in 0 .. 2
    BY <1>11, CopyTableRun
  <2>3. run.disc \in DOMAIN tables' /\ tables'[run.disc] >= run.table + 1
    BY <2>2
  <2>4. QED
    BY <1>2, <1>3, <2>1, <2>3 DEF ReadOK
<1>12. CASE WalkBegin
  <2>1. /\ run'.cmd = run.cmd /\ run'.disc = run.disc /\ run'.bad = run.bad /\ run'.refs = run.refs
        /\ run'.tablesIntact = run.tablesIntact /\ run'.table = run.table /\ run'.at = "walk"
        /\ run'.todo = run.todo /\ run.todo = {} /\ (run.tablesIntact => run.table = 3)
    BY <1>12, WalkBeginRun DEF Moves
  <2>2. tables' = tables
    BY <1>12 DEF WalkBegin, catalog
  <2>3. QED
    BY <1>2, <1>3, <2>1, <2>2 DEF ReadOK
<1>13. CASE Walk
  <2>1. tables' = tables
    BY <1>13 DEF Walk
  <2>2. QED
    BY <1>4, <1>13, <2>1, WalkRun DEF Moves
<1>14. CASE WalkEnd
  <2>1. CASE run' = NoRun
    BY <1>1, <2>1, Ends
  <2>2. CASE run.at = "walk" /\ Moves("ledger")
    <3>1. tables' = tables
      BY <1>14 DEF WalkEnd, catalog
    <3>2. QED
      BY <1>4, <2>2, <3>1 DEF Moves
  <2>3. QED
    BY <1>14, <2>1, <2>2, WalkEndRun
<1>15. CASE RecoverLedger
  <2>1. tables' = tables /\ run.refs \subseteq ledger'
    BY <1>15 DEF RecoverLedger, catalog
  <2>2. QED
    BY <1>4, <1>15, <2>1, MoveSteps DEF Moves
<1>16. CASE RecoverLines \/ RecoverItems
  <2>1. tables' = tables /\ ledger' = ledger
    BY <1>16 DEF RecoverLines, RecoverItems, catalog, refs
  <2>2. run.cmd = "recover" /\ run.at \in {"lines", "items"} /\ (Moves("items") \/ Moves("event"))
    BY <1>16, MoveSteps
  <2>3. run.refs \subseteq ledger
    BY <2>2 DEF ReadOK
  <2>4. QED
    BY <1>4, <2>1, <2>2, <2>3 DEF Moves
<1>17. CASE CommitMark \/ PackRow
  BY <1>1, <1>17, MoveSteps DEF Moves
<1>18. CASE Ending
  BY <1>1, <1>18, LastRun, Ends
<1>19. CASE Rot \/ UNCHANGED vars
  <2>1. run' = run /\ tables' = tables /\ ledger' = ledger
    BY <1>19 DEF Rot, vars, refs, catalog
  <2>2. run.cmd = "recover" /\ run.at \in {"lines", "items", "event"} => run.refs \subseteq ledger
    BY DEF ReadOK
  <2>3. CASE run.cmd = "recover"
    BY <1>4, <2>1, <2>2, <2>3
  <2>4. QED
    BY <1>1, <2>1, <2>3
<1>20. QED
  BY <1>1, <1>5, <1>6, <1>7, <1>8, <1>9, <1>10, <1>11, <1>12, <1>13, <1>14, <1>15, <1>16, <1>17, <1>18, <1>19
     DEF Next, RunStep, Ending

LEMMA RecoverEnds ==
  ASSUME TypeOK, ReadOK, RecoverEvent
  PROVE  Recorded(run.disc)
<1> USE DEF TypeOK
<1>1. run.cmd = "recover" /\ run.at = "event"
  BY DEF RecoverEvent
<1>2. PICK c \in CopiesOf(run.disc) : /\ run.bad = c.bad /\ run.tablesIntact = c.tables
                                      /\ c.tables => run.refs = media[run.disc].refs
  BY <1>1 DEF ReadOK
<1>3. \A o \in media[run.disc].objects : o \in DOMAIN files \/ o \in c.bad
  BY <1>1, <1>2 DEF ReadOK
<1>4. ASSUME c.tables
      PROVE  run.disc \in DOMAIN tables /\ tables[run.disc] = 3 /\ media[run.disc].refs \subseteq ledger
  <2>1. run.table = 3 /\ run.disc \in DOMAIN tables /\ tables[run.disc] >= 3
    BY <1>1, <1>2, <1>4 DEF ReadOK
  <2>2. tables[run.disc] = 3
    BY <2>1 DEF TablesOK
  <2>3. QED
    BY <1>1, <1>2, <1>4, <2>1, <2>2 DEF ReadOK
<1>5. QED
  BY <1>2, <1>3, <1>4 DEF Recorded

LEMMA RecordedStep ==
  ASSUME TypeOK, PackCarries, ReadOK, RecoveredIsRecorded, [Next]_vars
  PROVE  RecoveredIsRecorded'
<1> USE DEF TypeOK
<1>1. ASSUME NEW d \in DOMAIN known, known[d] = "recovered"
      PROVE  Recorded(d)'
  <2>1. Recorded(d) /\ d \in DOMAIN media
    BY <1>1 DEF RecoveredIsRecorded, Recorded, KnownOK
  <2>2. QED
    BY <1>1, <2>1, RecordedStays
<1>2. CASE RecoverEvent
  <2>1. ASSUME NEW d \in DOMAIN known', known'[d] = "recovered", d # run.disc
        PROVE  d \in DOMAIN known /\ known[d] = "recovered"
    BY <1>2, <2>1, RecoverEventKnown
  <2>2. Recorded(run.disc) /\ run.disc \in DOMAIN media
    BY <1>2, RecoverEnds, RecoverEventKnown
  <2>3. ledger' = ledger /\ tables' = tables /\ files' = files /\ media' = media
    BY <1>2 DEF RecoverEvent, catalog, refs
  <2>4. PICK d0 : d0 = run.disc
    OBVIOUS
  <2>5. Recorded(d0)'
    BY <2>2, <2>3, <2>4 DEF Recorded
  <2>6. \A d \in DOMAIN known' : known'[d] = "recovered" => Recorded(d)'
    BY <1>1, <2>1, <2>4, <2>5
  <2>7. QED
    BY <2>6 DEF RecoveredIsRecorded, Recorded
<1>3. CASE ~RecoverEvent
  <2>1. ASSUME NEW d \in DOMAIN known', known'[d] = "recovered"
        PROVE  d \in DOMAIN known /\ known[d] = "recovered"
    <3>1. CASE PackRow
      BY <2>1, <3>1, PackRowKnown
    <3>2. ASSUME NEW q \in DOMAIN media, Undo(q)
          PROVE  d \in DOMAIN known /\ known[d] = "recovered"
      BY <2>1, <3>2, UndoKnown
    <3>3. CASE ~PackRow /\ ~(\E q \in DOMAIN media : Undo(q))
      BY <1>3, <2>1, <3>3, KnownFrame
    <3>4. QED
      BY <3>1, <3>2, <3>3
  <2>2. QED
    BY <1>1, <2>1 DEF RecoveredIsRecorded, Recorded
<1>4. QED
  BY <1>2, <1>3

\* A disc that the state log calls recovered is in the ledger and the catalog:
\* the objects that some copy of it has intact, its three tables and its refs.
\* The event is the last record of recover, pack takes no record out of the
\* ledger and only the tables of an undone disc go.
THEOREM RecoverLeavesItsRecords == Spec => []RecoveredIsRecorded
<1>1. Init => TypeOK /\ PackCarries /\ ReadOK /\ RecoveredIsRecorded
  <2>1. Init => run.cmd = "none" /\ DOMAIN known = {}
    BY NoRunFields DEF Init
  <2>2. QED
    BY <2>1, TypeInit DEF PackCarries, ReadOK, RecoveredIsRecorded
<1>2. TypeOK /\ PackCarries /\ ReadOK /\ RecoveredIsRecorded /\ [Next]_vars
        => (TypeOK /\ PackCarries /\ ReadOK /\ RecoveredIsRecorded)'
  BY TypeStep, CarriesStep, ReadStep, RecordedStep
<1>3. QED
  BY <1>1, <1>2, PTL DEF Spec

--------------------------------------------------------------------------------
(* Snapshots, their times, and the records of refs *)

\* The time at which the repository is lost.
Lost == 1 + Max({0} \cup Range(OldTaken) \cup UNION {{r.time : r \in OldMedia[d].refs} : d \in Old})

\* The catalog can read the snapshot that the last finished commit gave each name.
CommitsVerify == \A n \in DOMAIN moved : Whole(moved[n])

\* The catalog can read the snapshot of each line of refs.txt.
LinesVerify == \A n \in DOMAIN lines : Whole(lines[n])

New(k) == {NewSnapshots[i] : i \in 1 .. k}

TakenOK ==
  /\ \E k \in 0 .. Len(NewSnapshots) : /\ DOMAIN taken = DOMAIN OldTaken \cup New(k)
                                       /\ IsFiniteSet(New(k)) /\ Cardinality(New(k)) = k
  /\ \A s \in DOMAIN OldTaken : taken[s] = OldTaken[s]
  /\ \A s \in DOMAIN taken \ DOMAIN OldTaken : taken[s] >= Lost
  /\ \A s \in DOMAIN taken : taken[s] \in Nat /\ taken[s] < clock
  /\ clock \in Nat /\ clock >= Lost

\* The ref records on the discs, in the ledger and in the running command.
AllRecords == ledger \cup run.refs \cup UNION {media[d].refs : d \in DOMAIN media}

\* The snapshot of a record is taken before the record is made, and so is that of a line.
RecordsOK ==
  /\ \A r \in AllRecords : r.time \in Nat /\ r.time < clock /\ r.snap \in DOMAIN taken
  /\ \A n \in DOMAIN lines : lines[n] \in DOMAIN taken

\* The snapshot of the running commit is the newest of all, and no record is as new.
CommitOK ==
  run.cmd = "commit" =>
    /\ run.snap \in Held /\ run.snap \in DOMAIN taken /\ taken[run.snap] >= Lost
    /\ \A r \in AllRecords : r.time < taken[run.snap]
    /\ \A s \in DOMAIN taken : taken[s] <= taken[run.snap]

\* A finished commit keeps its line, and a record of its name that is made later
\* has no older snapshot.
MovedOK ==
  /\ \A n \in DOMAIN moved : /\ n \in DOMAIN lines /\ lines[n] = moved[n]
                             /\ moved[n] \in Held /\ moved[n] \in DOMAIN taken
                             /\ taken[moved[n]] >= Lost
  /\ \A r \in AllRecords : r.name \in DOMAIN moved /\ r.time >= taken[moved[r.name]] =>
       taken[r.snap] >= taken[moved[r.name]]

\* Every copy of a disc of the lost repository can be read as far as refs go,
\* each disc carries the snapshots that its refs name, as pack writes it, and a ref
\* record has the newest snapshot that its name had when it was made.
SoundLoss ==
  /\ \A d \in Old : \A c \in Copies[d] : c.tables /\ c.bad \cap Snapshot = {}
  /\ \A d \in Old : \A r \in OldMedia[d].refs : r.snap \in OldMedia[d].objects /\ r.time > OldTaken[r.snap]
  /\ \A d, e \in Old : \A r \in OldMedia[d].refs, q \in OldMedia[e].refs :
       r.name = q.name /\ r.time > OldTaken[q.snap] => OldTaken[r.snap] >= OldTaken[q.snap]

\* The line of the name is on the snapshot of the record or on a newer one.
Covered(r) == r.name \in DOMAIN lines /\ taken[lines[r.name]] >= taken[r.snap]

LinesAreHeld == \A n \in DOMAIN lines : lines[n] \in Held

MergedIsCovered ==
  run.cmd = "recover" /\ run.at \in {"items", "event"} => \A r \in media[run.disc].refs : Covered(r)

--------------------------------------------------------------------------------
(* Times of the lost repository *)

\* A finite set of naturals has a maximum.
LEMMA FiniteMax ==
  ASSUME NEW S \in SUBSET Nat, IsFiniteSet(S), S # {}
  PROVE  \E x \in S : \A y \in S : x >= y
<1> DEFINE Above(x) == {y \in S : y > x}
           Aboves == {Above(x) : x \in S}
<1>1. Aboves \subseteq FiniteSubsetsOf(S) /\ Aboves # {}
  <2>1. ASSUME NEW x \in S
        PROVE  Above(x) \in FiniteSubsetsOf(S)
    <3>1. Above(x) \in SUBSET S
      OBVIOUS
    <3>2. IsFiniteSet(Above(x))
      BY <3>1, FS_Subset
    <3>3. QED
      BY <3>1, <3>2 DEF FiniteSubsetsOf
  <2>2. PICK x0 \in S : TRUE
    OBVIOUS
  <2>3. Above(x0) \in Aboves
    OBVIOUS
  <2>4. ASSUME NEW a \in Aboves
        PROVE  a \in FiniteSubsetsOf(S)
    <3>1. PICK x \in S : a = Above(x)
      OBVIOUS
    <3>2. QED
      BY <2>1, <3>1
  <2>5. QED
    <3> HIDE DEF Aboves
    <3>1. QED
      BY <2>3, <2>4
<1>2. PICK a \in Aboves : \A b \in Aboves : ~(<<b, a>> \in StrictSubsetOrdering(S))
  <2> HIDE DEF Aboves
  <2>1. QED
    BY <1>1, FS_StrictSubsetOrderingWellFounded, WFMin
<1>3. PICK x \in S : a = Above(x)
  OBVIOUS
<1>4. ASSUME NEW y \in S
      PROVE  x >= y
  <2>1. SUFFICES ASSUME y > x PROVE FALSE
    OBVIOUS
  <2>2. Above(y) \in Aboves
    OBVIOUS
  <2>3. Above(y) \subseteq Above(x) /\ y \in Above(x) /\ y \notin Above(y)
    <3>1. x \in Nat /\ y \in Nat
      OBVIOUS
    <3>2. ASSUME NEW z \in Above(y)
          PROVE  z \in Above(x)
      <4>1. z \in S /\ z \in Nat /\ z > y
        OBVIOUS
      <4>2. z > x
        BY <2>1, <3>1, <4>1
      <4>3. QED
        BY <4>1, <4>2
    <3>3. y \in Above(x) /\ y \notin Above(y)
      BY <2>1, <3>1
    <3>4. QED
      BY <3>2, <3>3
  <2>4. Above(y) # Above(x) /\ Above(y) \in SUBSET S /\ Above(x) \in SUBSET S
    BY <2>3
  <2>5. <<Above(y), Above(x)>> \in StrictSubsetOrdering(S)
    BY <2>3, <2>4 DEF StrictSubsetOrdering
  <2>6. QED
    BY <1>2, <1>3, <2>2, <2>5
<1>5. QED
  BY <1>4

\* The newest of records that have times up to some time.
LEMMA NewestIs ==
  ASSUME NEW R, R # {}, NEW b \in Nat, \A r \in R : r.time \in Nat /\ r.time <= b
  PROVE  Newest(R) \in R /\ \A q \in R : q.time <= Newest(R).time
<1> DEFINE T == {r.time : r \in R}
<1>1. T \in SUBSET Nat /\ T # {} /\ T \in SUBSET (0 .. b)
  OBVIOUS
<1>2. IsFiniteSet(T)
  <2> HIDE DEF T
  <2>1. IsFiniteSet(0 .. b)
    BY FS_Interval
  <2>2. QED
    BY <1>1, <2>1, FS_Subset
<1>3. PICK t \in T : \A y \in T : t >= y
  <2> HIDE DEF T
  <2>1. QED
    BY <1>1, <1>2, FiniteMax
<1>4. PICK r \in R : r.time = t
  OBVIOUS
<1>5. ASSUME NEW q \in R
      PROVE  ~NewerRef(q, r)
  <2>1. q.time \in T
    OBVIOUS
  <2>2. t >= q.time /\ t \in Nat /\ q.time \in Nat
    BY <1>1, <1>3, <2>1
  <2>3. QED
    BY <1>4, <2>2 DEF NewerRef
<1>6. Newest(R) \in R /\ \A q \in R \ {Newest(R)} : ~NewerRef(q, Newest(R))
  BY <1>5 DEF Newest
<1>7. ASSUME NEW q \in R
      PROVE  q.time <= Newest(R).time
  <2>1. PICK m \in R : m = Newest(R)
    BY <1>6
  <2>2. q = m \/ ~(q.time > m.time)
    BY <1>6, <2>1 DEF NewerRef
  <2>3. QED
    BY <2>1, <2>2
<1>8. QED
  BY <1>6, <1>7

LEMMA RefTimesAreFinite ==
  ASSUME NEW d \in Old
  PROVE  /\ {r.time : r \in OldMedia[d].refs} \in SUBSET Nat
         /\ IsFiniteSet({r.time : r \in OldMedia[d].refs})
<1>1. PICK R : R = OldMedia[d].refs
  OBVIOUS
<1>2. IsFiniteSet(R) /\ \A r \in R : r.time \in Nat
  BY <1>1, OldIs, CatalogAssumption
<1>3. PICK T : T = {r.time : r \in R}
  OBVIOUS
<1>4. PICK f : f = [r \in R |-> r.time]
  OBVIOUS
<1>5. f \in Surjection(R, T)
  BY <1>3, <1>4 DEF Surjection
<1>6. IsFiniteSet(T)
  BY <1>2, <1>5, FS_Surjection
<1>7. QED
  BY <1>1, <1>2, <1>3, <1>6

LEMMA LostIs ==
  /\ Lost \in Nat
  /\ \A s \in DOMAIN OldTaken : OldTaken[s] < Lost
  /\ \A d \in Old : \A r \in OldMedia[d].refs : r.time < Lost
<1>1. PICK A : A = Range(OldTaken)
  OBVIOUS
<1>2. A \in SUBSET Nat /\ IsFiniteSet(A) /\ \A s \in DOMAIN OldTaken : OldTaken[s] \in A
  <2>1. A \in SUBSET Nat /\ \A s \in DOMAIN OldTaken : OldTaken[s] \in A
    BY <1>1, CatalogAssumption DEF Range
  <2>2. PICK D : D = DOMAIN OldTaken
    OBVIOUS
  <2>3. OldTaken \in [D -> A] /\ \A t \in A : \E s \in D : OldTaken[s] = t
    BY <1>1, <2>1, <2>2, CatalogAssumption DEF Range
  <2>4. OldTaken \in Surjection(D, A)
    BY <2>3 DEF Surjection
  <2>5. IsFiniteSet(D)
    BY <2>2, CatalogAssumption
  <2>6. QED
    BY <2>1, <2>4, <2>5, FS_Surjection
<1>3. PICK B : B = {{r.time : r \in OldMedia[d].refs} : d \in Old}
  OBVIOUS
<1>4. \A T \in B : T \in SUBSET Nat /\ IsFiniteSet(T)
  BY <1>3, RefTimesAreFinite
<1>5. IsFiniteSet(B)
  <2>1. PICK f : f = [d \in Old |-> {r.time : r \in OldMedia[d].refs}]
    OBVIOUS
  <2>2. f \in Surjection(Old, B)
    BY <1>3, <2>1 DEF Surjection
  <2>3. IsFiniteSet(Old)
    BY OldIs, FS_Interval
  <2>4. QED
    BY <2>2, <2>3, FS_Surjection
<1>6. UNION B \in SUBSET Nat /\ IsFiniteSet(UNION B)
  BY <1>4, <1>5, FS_UNION
<1>7. PICK S : S = {0} \cup A \cup UNION B
  OBVIOUS
<1>8. IsFiniteSet({0} \cup A)
  <2>1. IsFiniteSet(A \cup {0})
    BY <1>2, FS_AddElement
  <2>2. {0} \cup A = A \cup {0}
    OBVIOUS
  <2>3. QED
    BY <2>1, <2>2
<1>9. S \in SUBSET Nat /\ S # {} /\ IsFiniteSet(S)
  <2>1. IsFiniteSet(({0} \cup A) \cup UNION B)
    BY <1>6, <1>8, FS_Union
  <2>2. S = ({0} \cup A) \cup UNION B
    BY <1>7
  <2>3. S \in SUBSET Nat /\ 0 \in S
    <3>1. PICK U : U = UNION B
      OBVIOUS
    <3>2. S = {0} \cup A \cup U /\ U \in SUBSET Nat
      BY <1>6, <1>7, <3>1
    <3>3. QED
      BY <1>2, <3>2
  <2>4. QED
    BY <2>1, <2>2, <2>3
<1>10. Max(S) \in S /\ \A y \in S : Max(S) >= y
  BY <1>9, FiniteMax DEF Max
<1>11. Lost = 1 + Max(S)
  BY <1>1, <1>3, <1>7 DEF Lost
<1>12. PICK m \in Nat : m = Max(S)
  BY <1>9, <1>10
<1>13. \A y \in S : y < Lost
  BY <1>9, <1>10, <1>11, <1>12
<1>14. \A d \in Old : \A r \in OldMedia[d].refs : r.time \in UNION B
  BY <1>3
<1>15. A \subseteq S /\ UNION B \subseteq S
  BY <1>7
<1>16. Lost \in Nat
  BY <1>11, <1>12
<1>17. \A s \in DOMAIN OldTaken : OldTaken[s] < Lost
  BY <1>2, <1>13, <1>15
<1>18. \A d \in Old : \A r \in OldMedia[d].refs : r.time < Lost
  BY <1>13, <1>14, <1>15
<1>19. QED
  BY <1>16, <1>17, <1>18

LEMMA InitClock ==
  ASSUME Init
  PROVE  clock = Lost
BY DEF Init, Lost

--------------------------------------------------------------------------------
(* The steps of these invariants *)

LEMMA NewIs ==
  /\ Len(NewSnapshots) \in Nat
  /\ \A i \in 1 .. Len(NewSnapshots) : NewSnapshots[i] \in Snapshot \ DOMAIN OldTaken
  /\ \A i, j \in 1 .. Len(NewSnapshots) : NewSnapshots[i] = NewSnapshots[j] => i = j
<1>1. PICK S : S = Snapshot \ DOMAIN OldTaken
  OBVIOUS
<1>2. NewSnapshots \in Seq(S) /\ IsInjective(NewSnapshots)
  BY <1>1, CatalogAssumption
<1>3. QED
  BY <1>1, <1>2 DEF IsInjective

LEMMA NewNext ==
  ASSUME NEW k \in 0 .. Len(NewSnapshots), k < Len(NewSnapshots)
  PROVE  /\ NewSnapshots[k + 1] \in Snapshot \ DOMAIN OldTaken /\ NewSnapshots[k + 1] \notin New(k)
         /\ New(k + 1) = New(k) \cup {NewSnapshots[k + 1]} /\ k + 1 \in 0 .. Len(NewSnapshots)
<1>1. k + 1 \in 1 .. Len(NewSnapshots) /\ k \in Nat
  BY NewIs
<1>2. NewSnapshots[k + 1] \notin New(k)
  BY <1>1, NewIs DEF New
<1>3. 1 .. (k + 1) = (1 .. k) \cup {k + 1}
  BY <1>1
<1>4. New(k + 1) = New(k) \cup {NewSnapshots[k + 1]}
  BY <1>3 DEF New
<1>5. QED
  BY <1>1, <1>2, <1>4, NewIs

\* A commit gives the next snapshot the time of the clock.
LEMMA CommitTaken ==
  ASSUME TakenOK, NEW n, Commit(n)
  PROVE  /\ NextSnapshot \in Snapshot /\ NextSnapshot \notin DOMAIN taken
         /\ DOMAIN taken' = {NextSnapshot} \cup DOMAIN taken /\ taken'[NextSnapshot] = clock
         /\ \A s \in DOMAIN taken : taken'[s] = taken[s]
         /\ \E k \in 0 .. Len(NewSnapshots) : /\ DOMAIN taken' = DOMAIN OldTaken \cup New(k)
                                              /\ IsFiniteSet(New(k)) /\ Cardinality(New(k)) = k
<1>1. PICK k \in 0 .. Len(NewSnapshots) : /\ DOMAIN taken = DOMAIN OldTaken \cup New(k)
                                          /\ IsFiniteSet(New(k)) /\ Cardinality(New(k)) = k
  BY DEF TakenOK
<1>2. New(k) \cap DOMAIN OldTaken = {}
  BY NewIs DEF New
<1>3. PICK O : O = DOMAIN OldTaken
  OBVIOUS
<1>4. PICK N : N = New(k)
  OBVIOUS
<1>5. IsFiniteSet(O) /\ IsFiniteSet(N) /\ O \cap N = {} /\ DOMAIN taken = O \cup N
  BY <1>1, <1>2, <1>3, <1>4, CatalogAssumption
<1>6. Cardinality(O) \in Nat
  BY <1>5, FS_CardinalityType
<1>7. Cardinality(DOMAIN taken) = Cardinality(O) + Cardinality(N)
  <2>1. Cardinality({}) = 0
    BY FS_EmptySet
  <2>2. Cardinality(N) \in Nat
    BY <1>5, FS_CardinalityType
  <2>3. Cardinality(O \cup N) = Cardinality(O) + Cardinality(N) - Cardinality(O \cap N)
    BY <1>5, FS_Union
  <2>4. Cardinality(O \cap N) = 0 /\ DOMAIN taken = O \cup N
    BY <1>5, <2>1
  <2>5. QED
    BY <1>6, <2>2, <2>3, <2>4
<1>8. Cardinality(DOMAIN taken) < Cardinality(O) + Len(NewSnapshots)
  BY <1>3 DEF Commit
<1>9. k < Len(NewSnapshots)
  BY <1>1, <1>4, <1>6, <1>7, <1>8, NewIs
<1>10. DOMAIN taken \ DOMAIN OldTaken = New(k)
  BY <1>1, <1>2
<1>11. NextSnapshot = NewSnapshots[k + 1]
  BY <1>1, <1>10 DEF NextSnapshot
<1>12. PICK s : s = NextSnapshot
  OBVIOUS
<1>13. s \in Snapshot \ DOMAIN OldTaken /\ s \notin New(k) /\ New(k + 1) = New(k) \cup {s}
       /\ k + 1 \in 0 .. Len(NewSnapshots)
  BY <1>9, <1>11, <1>12, NewNext
<1>14. taken' = Put(taken, s, clock)
  BY <1>12 DEF Commit
<1>15. DOMAIN taken' = {s} \cup DOMAIN taken /\ taken'[s] = clock
       /\ \A x \in DOMAIN taken : x # s => taken'[x] = taken[x]
  BY <1>14 DEF Put
<1>16. s \notin DOMAIN taken
  BY <1>1, <1>13
<1>17. IsFiniteSet(New(k + 1)) /\ Cardinality(New(k + 1)) = k + 1
  BY <1>1, <1>13, FS_AddElement
<1>18. DOMAIN taken' = DOMAIN OldTaken \cup New(k + 1)
  BY <1>1, <1>13, <1>15
<1>19. QED
  BY <1>12, <1>13, <1>15, <1>16, <1>17, <1>18

LEMMA TakenFrame ==
  ASSUME [Next]_vars, ~(\E n \in Name : Commit(n))
  PROVE  taken' = taken /\ clock' = IF Pack THEN clock + 1 ELSE clock
<1>1. taken' = taken
  BY DEF Next, RunStep, vars, Recover, Verify, ReadDisc, Pack, PackRow, PackLedger, Undo, UndoTables,
       Stop, Rot, CopyObject, CopyTable, Walk, WalkBegin, WalkEnd, RecoverLedger, RecoverLines, RecoverItems,
       RecoverEvent, CommitMark, CommitRef
<1>2. CASE Pack
  BY <1>1, <1>2 DEF Pack
<1>3. CASE ~Pack
  <2>1. clock' = clock
    BY <1>3 DEF Next, RunStep, vars, Recover, Verify, ReadDisc, PackRow, PackLedger, Undo, UndoTables, bounds,
       Stop, Rot, CopyObject, CopyTable, Walk, WalkBegin, WalkEnd, RecoverLedger, RecoverLines, RecoverItems,
       RecoverEvent, CommitMark, CommitRef
  <2>2. QED
    BY <1>1, <1>3, <2>1
<1>4. QED
  BY <1>2, <1>3

\* The time of a snapshot never changes.
LEMMA TakenStays ==
  ASSUME TakenOK, [Next]_vars
  PROVE  /\ DOMAIN taken \subseteq DOMAIN taken' /\ \A s \in DOMAIN taken : taken'[s] = taken[s]
         /\ clock' \in Nat /\ clock' >= clock
         /\ Pack => clock' = clock + 1
<1>1. ASSUME NEW n \in Name, Commit(n)
      PROVE  clock' = clock + 1 /\ DOMAIN taken \subseteq DOMAIN taken' /\ \A s \in DOMAIN taken : taken'[s] = taken[s]
  <2>1. clock' = clock + 1
    BY <1>1 DEF Commit
  <2>2. QED
    BY <1>1, <2>1, CommitTaken
<1>2. CASE ~(\E n \in Name : Commit(n))
  BY <1>2, TakenFrame DEF TakenOK
<1>3. clock \in Nat
  BY DEF TakenOK
<1>4. Pack => clock' = clock + 1
  BY DEF Pack
<1>5. QED
  BY <1>1, <1>2, <1>3, <1>4

LEMMA TakenStep ==
  ASSUME TakenOK, [Next]_vars
  PROVE  TakenOK'
<1>0. Lost \in Nat /\ clock \in Nat /\ clock >= Lost
  BY LostIs DEF TakenOK
<1>1. ASSUME NEW n \in Name, Commit(n)
      PROVE  TakenOK'
  <2>1. PICK s : s = NextSnapshot
    OBVIOUS
  <2>2. /\ s \notin DOMAIN taken
        /\ DOMAIN taken' = {s} \cup DOMAIN taken /\ taken'[s] = clock
        /\ \A x \in DOMAIN taken : taken'[x] = taken[x]
        /\ \E k \in 0 .. Len(NewSnapshots) : /\ DOMAIN taken' = DOMAIN OldTaken \cup New(k)
                                             /\ IsFiniteSet(New(k)) /\ Cardinality(New(k)) = k
    BY <1>1, <2>1, CommitTaken
  <2>3. clock' = clock + 1
    BY <1>1 DEF Commit
  <2>4. DOMAIN OldTaken \subseteq DOMAIN taken
    BY DEF TakenOK
  <2>5. \A x \in DOMAIN OldTaken : taken'[x] = OldTaken[x]
    BY <2>2, <2>4 DEF TakenOK
  <2>6. \A x \in DOMAIN taken' : taken'[x] \in Nat /\ taken'[x] < clock'
    BY <1>0, <2>2, <2>3 DEF TakenOK
  <2>7. \A x \in DOMAIN taken' \ DOMAIN OldTaken : taken'[x] >= Lost
    BY <1>0, <2>2 DEF TakenOK
  <2>8. clock' \in Nat /\ clock' >= Lost
    BY <1>0, <2>3
  <2>9. QED
    BY <2>2, <2>5, <2>6, <2>7, <2>8 DEF TakenOK
<1>2. CASE ~(\E n \in Name : Commit(n))
  <2>1. taken' = taken
    BY <1>2, TakenFrame
  <2>2. clock' \in Nat /\ clock' >= clock
    BY TakenStays
  <2>3. \A x \in DOMAIN taken : taken[x] \in Nat /\ taken[x] < clock'
    BY <1>0, <2>2 DEF TakenOK
  <2>4. QED
    BY <1>0, <2>1, <2>2, <2>3 DEF TakenOK
<1>3. QED
  BY <1>1, <1>2

--------------------------------------------------------------------------------
(* The records of refs *)

LEMMA RunRefs ==
  ASSUME TypeOK, [Next]_vars, ~Pack
  PROVE  run'.refs \subseteq run.refs \/ \E d \in DOMAIN media : run'.refs \subseteq media[d].refs
<1> USE DEF TypeOK
<1>1. ASSUME NEW cmd, NEW d \in DOMAIN media, NEW copy, ReadDisc(cmd, d, copy)
      PROVE  run'.refs \subseteq media[d].refs
  BY <1>1, ReadDiscRun
<1>2. ASSUME NEW n \in Name, Commit(n)
      PROVE  run'.refs = {}
  BY <1>2, CommitRun
<1>3. ASSUME NEW d \in DOMAIN media, Undo(d)
      PROVE  run'.refs = {}
  BY <1>3, UndoRun
<1>4. CASE RunStep \/ Stop \/ Rot \/ UNCHANGED vars
  <2>1. CASE Ending
    BY <2>1, LastRun, Ends
  <2>2. CASE CopyObject \/ CopyTable
    BY <2>2, CopyObjectRun, CopyTableRun
  <2>3. CASE WalkBegin \/ Walk
    BY <2>3, WalkBeginRun, WalkRun DEF Moves
  <2>4. CASE WalkEnd
    BY <2>4, WalkEndRun, Ends DEF Moves
  <2>5. CASE RecoverLedger \/ RecoverLines \/ RecoverItems \/ CommitMark \/ PackRow
    BY <2>5, MoveSteps DEF Moves
  <2>6. CASE Rot \/ UNCHANGED vars
    BY <2>6 DEF Rot, vars
  <2>7. QED
    BY <1>4, <2>1, <2>2, <2>3, <2>4, <2>5, <2>6 DEF RunStep, Ending
<1>5. QED
  BY <1>1, <1>2, <1>3, <1>4 DEF Next, Recover, Verify

\* Only pack makes a record.
LEMMA RecordsStay ==
  ASSUME TypeOK, [Next]_vars, ~Pack
  PROVE  AllRecords' \subseteq AllRecords
<1>1. media' = media
  BY MediaFrame
<1>2. ledger' \subseteq ledger \cup run.refs
  <2>1. CASE RecoverLedger
    BY <2>1 DEF RecoverLedger
  <2>2. CASE PackLedger
    BY <2>2 DEF PackLedger
  <2>3. CASE ~RecoverLedger /\ ~PackLedger
    BY <2>3, LedgerFrame
  <2>4. QED
    BY <2>1, <2>2, <2>3
<1>3. ASSUME NEW r \in AllRecords'
      PROVE  r \in AllRecords
  <2>1. CASE r \in ledger'
    BY <1>2, <2>1 DEF AllRecords
  <2>2. CASE r \in run'.refs
    BY <2>2, RunRefs DEF AllRecords
  <2>3. CASE \E d \in DOMAIN media' : r \in media'[d].refs
    BY <1>1, <2>3 DEF AllRecords
  <2>4. QED
    BY <2>1, <2>2, <2>3 DEF AllRecords
<1>4. QED
  BY <1>3

\* A line is a name that has the time of its snapshot, or none.
LEMMA LocalTime ==
  ASSUME TakenOK, RecordsOK, NEW n \in DOMAIN lines
  PROVE  /\ LocalRecord(n, lines[n]).time \in Nat /\ LocalRecord(n, lines[n]).time < clock
         /\ LocalRecord(n, lines[n]).snap = lines[n] /\ LocalRecord(n, lines[n]).name = n
         /\ Whole(lines[n]) => LocalRecord(n, lines[n]).time = taken[lines[n]]
<1>1. lines[n] \in DOMAIN taken /\ taken[lines[n]] \in Nat /\ taken[lines[n]] < clock /\ clock \in Nat
  BY DEF RecordsOK, TakenOK
<1>2. QED
  BY <1>1 DEF LocalRecord

\* The names of the records that pack makes have lines.
LEMMA NamedHasLine ==
  ASSUME TakenOK, RecordsOK
  PROVE  Named \subseteq DOMAIN lines
<1>1. Pending \subseteq DOMAIN lines
  BY DEF Pending
<1>2. ASSUME DOMAIN lines # {}
      PROVE  \E n \in DOMAIN lines : \A m \in DOMAIN lines :
               LocalRecord(m, lines[m]).time <= LocalRecord(n, lines[n]).time
  <2>1. PICK f : f = [n \in DOMAIN lines |-> LocalRecord(n, lines[n]).time]
    OBVIOUS
  <2>2. clock \in Nat /\ \A n \in DOMAIN lines : f[n] \in Nat /\ f[n] <= clock
    BY <2>1, LocalTime DEF TakenOK
  <2>3. PICK T : T = {f[n] : n \in DOMAIN lines}
    OBVIOUS
  <2>4. T \in SUBSET Nat /\ T \in SUBSET (0 .. clock) /\ T # {}
    BY <1>2, <2>2, <2>3
  <2>5. IsFiniteSet(0 .. clock)
    BY <2>2, FS_Interval
  <2>6. PICK t \in T : \A y \in T : t >= y
    BY <2>4, <2>5, FS_Subset, FiniteMax
  <2>7. PICK n \in DOMAIN lines : f[n] = t
    BY <2>3
  <2>8. ASSUME NEW m \in DOMAIN lines
        PROVE  f[m] <= f[n]
    <3>1. f[m] \in T
      BY <2>3
    <3>2. QED
      BY <2>4, <2>6, <2>7, <3>1
  <2>9. QED
    BY <2>1, <2>8
<1>3. NewestName \subseteq DOMAIN lines
  <2>1. CASE DOMAIN lines = {}
    BY <2>1 DEF NewestName
  <2>2. CASE DOMAIN lines # {}
    BY <1>2, <2>2 DEF NewestName
  <2>3. QED
    BY <2>1, <2>2
<1>4. QED
  BY <1>1, <1>3 DEF Named

LEMMA PackRecords ==
  ASSUME TypeOK, TakenOK, RecordsOK, Pack, NEW r \in AllRecords'
  PROVE  r \in AllRecords \/ (r.name \in DOMAIN lines /\ r.snap = lines[r.name] /\ r.time = clock)
<1>1. PICK P : P = PackRefs(Named)
  OBVIOUS
<1>2. PICK d \in Nat : /\ d = Cardinality(DOMAIN media) + 1
                       /\ DOMAIN media' = {d} \cup DOMAIN media
                       /\ \A q \in DOMAIN media : media'[q] = media[q]
                       /\ media'[d] = [objects |-> Logged \cup Takes, refs |-> PackRefs(Named),
                           names |-> {q \in DOMAIN known : known[q] # "undone"}]
  BY PackMedia DEF TypeOK
<1>3. media'[d].refs = P
  BY <1>1, <1>2
<1>4. run'.refs = P
  BY <1>1, <1>2, PackRun
<1>5. ledger' = ledger
  BY DEF Pack, refs
<1>6. ASSUME r \in P
      PROVE  r \in AllRecords \/ (r.name \in DOMAIN lines /\ r.snap = lines[r.name] /\ r.time = clock)
  <2>1. CASE r \in ledger
    BY <2>1 DEF AllRecords
  <2>2. CASE r \notin ledger
    <3>1. PICK n \in Named : r = [name |-> n, snap |-> lines[n], time |-> clock]
      BY <1>1, <1>6, <2>2 DEF PackRefs
    <3>2. QED
      BY <3>1, NamedHasLine
  <2>3. QED
    BY <2>1, <2>2
<1>7. CASE r \in ledger' \/ \E q \in DOMAIN media : r \in media'[q].refs
  BY <1>2, <1>5, <1>7 DEF AllRecords
<1>8. r \in ledger' \/ r \in run'.refs \/ \E q \in DOMAIN media' : r \in media'[q].refs
  BY DEF AllRecords
<1>9. QED
  BY <1>2, <1>3, <1>4, <1>6, <1>7, <1>8

--------------------------------------------------------------------------------
(* The lines of refs.txt *)

LEMMA LinesFrame ==
  ASSUME [Next]_vars, ~RecoverLines, ~CommitRef
  PROVE  lines' = lines /\ moved' = moved
<1>1. lines' = lines
  BY DEF Next, RunStep, vars, refs, Recover, Verify, ReadDisc, Pack, PackRow, PackLedger, Undo, UndoTables,
       Stop, Rot, Commit, CopyObject, CopyTable, Walk, WalkBegin, WalkEnd, RecoverLedger, RecoverItems,
       RecoverEvent, CommitMark
<1>2. moved' = moved
  BY DEF Next, RunStep, vars, Recover, Verify, ReadDisc, Pack, PackRow, PackLedger, Undo, UndoTables,
       Stop, Rot, Commit, CopyObject, CopyTable, Walk, WalkBegin, WalkEnd, RecoverLedger, RecoverItems,
       RecoverEvent, CommitMark
<1>3. QED
  BY <1>1, <1>2

\* A line stays when no record of the disc is newer, and else takes the newest one.
LEMMA MergedIs ==
  ASSUME TakenOK, RecordsOK, RecoverLines, NEW n
  PROVE  /\ n \in DOMAIN lines' <=> n \in DOMAIN lines \/ \E r \in run.refs : r.name = n
         /\ n \in DOMAIN lines' =>
              \/ /\ n \in DOMAIN lines /\ lines'[n] = lines[n]
                 /\ \A r \in run.refs : r.name = n => r.time <= LocalRecord(n, lines[n]).time
              \/ \E q \in run.refs :
                   /\ q.name = n /\ lines'[n] = q.snap
                   /\ \A r \in run.refs : r.name = n => r.time <= q.time
                   /\ n \in DOMAIN lines => q.time > LocalRecord(n, lines[n]).time
<1> DEFINE R == run.refs
           Stays(m) == m \in DOMAIN lines /\ ~NewerRef(Newest(Of(R, m)), LocalRecord(m, lines[m]))
           M == {m \in Names(R) : ~Stays(m)}
<1>1. lines' = Over([m \in M |-> Newest(Of(R, m)).snap], lines)
  BY DEF RecoverLines, MergedLines
<1>2. /\ DOMAIN lines' = M \cup DOMAIN lines
      /\ \A m \in M : lines'[m] = Newest(Of(R, m)).snap
      /\ \A m \in DOMAIN lines \ M : lines'[m] = lines[m]
  <2> HIDE DEF M, R
  <2>1. QED
    BY <1>1 DEF Over
<1>3. n \in Names(R) <=> \E r \in R : r.name = n
  BY DEF Names
<1>4. \A r \in R : r.time \in Nat /\ r.time <= clock
  BY DEF RecordsOK, AllRecords, TakenOK
<1>5. ASSUME n \in Names(R)
      PROVE  /\ Newest(Of(R, n)) \in R /\ Newest(Of(R, n)).name = n
             /\ \A r \in R : r.name = n => r.time <= Newest(Of(R, n)).time
  <2>1. PICK O : O = Of(R, n)
    OBVIOUS
  <2>2. O # {} /\ \A r : r \in O <=> r \in R /\ r.name = n
    BY <1>3, <1>5, <2>1 DEF Of
  <2>3. clock \in Nat /\ \A r \in O : r.time \in Nat /\ r.time <= clock
    BY <1>4, <2>2 DEF TakenOK
  <2>4. Newest(O) \in O /\ \A r \in O : r.time <= Newest(O).time
    <3> HIDE DEF R
    <3>1. QED
      BY <2>2, <2>3, NewestIs
  <2>5. QED
    BY <2>1, <2>2, <2>4
<1>6. n \in DOMAIN lines' <=> n \in DOMAIN lines \/ n \in Names(R)
  BY <1>2
<1>7. CASE n \in M
  <2>1. n \in Names(R) /\ ~Stays(n) /\ lines'[n] = Newest(Of(R, n)).snap
    BY <1>2, <1>7
  <2>2. PICK q \in R : q = Newest(Of(R, n))
    BY <1>5, <2>1
  <2>3. n \in DOMAIN lines => q.time > LocalRecord(n, lines[n]).time
    BY <2>1, <2>2 DEF NewerRef
  <2>4. q.name = n /\ lines'[n] = q.snap /\ \A r \in R : r.name = n => r.time <= q.time
    BY <1>5, <2>1, <2>2
  <2>5. QED
    BY <1>3, <1>6, <2>3, <2>4
<1>8. CASE n \in DOMAIN lines \ M
  <2>1. lines'[n] = lines[n]
    BY <1>2, <1>8
  <2>2. ASSUME NEW r \in R, r.name = n
        PROVE  r.time <= LocalRecord(n, lines[n]).time
    <3>1. Stays(n) /\ n \in Names(R)
      BY <1>3, <1>8, <2>2
    <3>2. PICK q \in R : q = Newest(Of(R, n))
      BY <1>5, <3>1
    <3>3. r.time <= q.time /\ ~(q.time > LocalRecord(n, lines[n]).time)
      BY <1>5, <2>2, <3>1, <3>2 DEF NewerRef
    <3>4. PICK t : t = LocalRecord(n, lines[n]).time
      OBVIOUS
    <3>5. t \in Nat /\ r.time \in Nat /\ q.time \in Nat
      BY <1>4, <1>8, <3>4, LocalTime
    <3>6. QED
      BY <3>3, <3>4, <3>5
  <2>3. QED
    BY <1>3, <1>6, <1>8, <2>1, <2>2
<1>9. CASE n \notin M \cup DOMAIN lines
  <2>1. n \notin DOMAIN lines'
    BY <1>2, <1>9
  <2>2. QED
    BY <1>3, <1>6, <2>1
<1>10. QED
  BY <1>7, <1>8, <1>9

LEMMA RecordsStep ==
  ASSUME TypeOK, TakenOK, RecordsOK, CommitOK, [Next]_vars
  PROVE  RecordsOK'
<1>1. clock \in Nat /\ clock' \in Nat /\ clock' >= clock /\ DOMAIN taken \subseteq DOMAIN taken'
      /\ (Pack => clock' = clock + 1)
  BY TakenStays DEF TakenOK
<1>2. ASSUME NEW r \in AllRecords
      PROVE  r.time \in Nat /\ r.time < clock' /\ r.snap \in DOMAIN taken'
  BY <1>1, <1>2 DEF RecordsOK
<1>3. ASSUME NEW r \in AllRecords'
      PROVE  r.time \in Nat /\ r.time < clock' /\ r.snap \in DOMAIN taken'
  <2>1. CASE r \in AllRecords
    BY <1>2, <2>1
  <2>2. CASE r \notin AllRecords
    <3>1. Pack
      BY <2>2, RecordsStay
    <3>2. r.name \in DOMAIN lines /\ r.snap = lines[r.name] /\ r.time = clock
      BY <2>2, <3>1, PackRecords
    <3>3. QED
      BY <1>1, <3>1, <3>2 DEF RecordsOK
  <2>3. QED
    BY <2>1, <2>2
<1>4. ASSUME NEW n \in DOMAIN lines'
      PROVE  lines'[n] \in DOMAIN taken'
  <2>1. CASE RecoverLines
    <3>1. (n \in DOMAIN lines /\ lines'[n] = lines[n]) \/ \E q \in run.refs : lines'[n] = q.snap
      BY <2>1, MergedIs
    <3>2. QED
      BY <1>1, <3>1 DEF RecordsOK, AllRecords
  <2>2. CASE CommitRef
    <3>1. lines' = Put(lines, run.name, run.snap) /\ run.cmd = "commit"
      BY <2>2 DEF CommitRef
    <3>2. lines'[n] = run.snap \/ (n \in DOMAIN lines /\ lines'[n] = lines[n])
      BY <3>1 DEF Put
    <3>3. QED
      BY <1>1, <3>1, <3>2 DEF RecordsOK, CommitOK
  <2>3. CASE ~RecoverLines /\ ~CommitRef
    BY <1>1, <2>3, LinesFrame DEF RecordsOK
  <2>4. QED
    BY <2>1, <2>2, <2>3
<1>5. QED
  BY <1>3, <1>4 DEF RecordsOK

LEMMA HeldGrows ==
  ASSUME RunOK, [Next]_vars
  PROVE  Held \subseteq Held'
BY FilesGrow DEF Held

LEMMA CommitStep ==
  ASSUME TypeOK, TakenOK, RecordsOK, CommitOK, [Next]_vars
  PROVE  CommitOK'
<1> USE DEF TypeOK
<1>1. CASE ~(run'.cmd = "commit")
  BY <1>1 DEF CommitOK
<1>2. Held \subseteq Held' /\ DOMAIN taken \subseteq DOMAIN taken' /\ \A s \in DOMAIN taken : taken'[s] = taken[s]
  BY HeldGrows, TakenStays
<1>3. ASSUME NEW n \in Name, Commit(n)
      PROVE  CommitOK'
  <2>1. PICK s : s = NextSnapshot
    OBVIOUS
  <2>2. s \in Snapshot /\ DOMAIN taken' = {s} \cup DOMAIN taken /\ taken'[s] = clock
        /\ \A x \in DOMAIN taken : taken'[x] = taken[x]
    BY <1>3, <2>1, CommitTaken
  <2>3. run'.snap = s
    BY <1>3, <2>1, CommitRun
  <2>4. s \in Held'
    BY <1>3, <2>1, <2>2, CommitFiles DEF Held
  <2>5. Lost \in Nat /\ clock \in Nat /\ clock >= Lost
    BY LostIs DEF TakenOK
  <2>6. ~Pack
    BY <1>3, CommitRun, PackRun
  <2>7. \A r \in AllRecords' : r.time < taken'[s]
    BY <2>2, <2>6, RecordsStay DEF RecordsOK
  <2>8. \A x \in DOMAIN taken' : taken'[x] <= taken'[s]
    BY <2>2, <2>5 DEF TakenOK
  <2>9. QED
    BY <2>2, <2>3, <2>4, <2>5, <2>7, <2>8 DEF CommitOK
<1>4. ASSUME run.cmd = "commit", run'.snap = run.snap, ~Pack, taken' = taken
      PROVE  CommitOK'
  <2>1. AllRecords' \subseteq AllRecords
    BY <1>4, RecordsStay
  <2>2. QED
    BY <1>2, <1>4, <2>1 DEF CommitOK
<1>5. ASSUME NEW d, NEW copy, NEW cmd \in {"recover", "verify"}, ReadDisc(cmd, d, copy)
      PROVE  run'.cmd # "commit"
  BY <1>5, ReadDiscRun
<1>6. ASSUME NEW d \in DOMAIN media, Undo(d)
      PROVE  run'.cmd # "commit"
  BY <1>6, UndoRun
<1>7. CASE Pack
  BY <1>1, <1>7, PackRun
<1>8. CASE CopyObject \/ CopyTable \/ WalkBegin \/ Walk
  <2>1. run.at \in {"copy", "walk"} /\ run'.cmd = run.cmd
    BY <1>8, CopyObjectRun, CopyTableRun, WalkBeginRun, WalkRun DEF Moves
  <2>2. QED
    BY <1>1, <2>1 DEF RunOK
<1>9. CASE WalkEnd
  BY <1>1, <1>9, WalkEndRun, Ends DEF Moves
<1>10. CASE RecoverLedger \/ RecoverLines \/ RecoverItems \/ PackRow
  BY <1>1, <1>10, MoveSteps DEF Moves
<1>11. CASE CommitMark
  <2>1. run.cmd = "commit" /\ run'.snap = run.snap
    BY <1>11, MoveSteps DEF Moves
  <2>2. taken' = taken /\ ~Pack
    BY <1>11, PackRun, MoveSteps DEF CommitMark, Moves
  <2>3. QED
    BY <1>4, <2>1, <2>2
<1>12. CASE Ending
  BY <1>1, <1>12, LastRun, Ends
<1>13. CASE Rot \/ UNCHANGED vars
  <2>1. run' = run /\ taken' = taken
    BY <1>13 DEF Rot, vars
  <2>2. CASE run.cmd = "commit"
    <3>1. ~Pack
      BY <2>1, <2>2, PackRun
    <3>2. QED
      BY <1>4, <2>1, <2>2, <3>1
  <2>3. QED
    BY <1>1, <2>1, <2>2
<1>14. CASE RunStep \/ Stop \/ Rot \/ UNCHANGED vars
  BY <1>8, <1>9, <1>10, <1>11, <1>12, <1>13, <1>14 DEF RunStep, Ending
<1>15. ASSUME NEW d \in DOMAIN media, NEW copy \in CopiesOf(d), Recover(d, copy)
      PROVE  CommitOK'
  BY <1>1, <1>5, <1>15 DEF Recover
<1>16. ASSUME NEW d \in DOMAIN media, Verify(d)
      PROVE  CommitOK'
  BY <1>1, <1>5, <1>16 DEF Verify
<1>17. ASSUME NEW d \in DOMAIN media, Undo(d)
      PROVE  CommitOK'
  BY <1>1, <1>6, <1>17
<1>18. QED
  BY <1>3, <1>7, <1>14, <1>15, <1>16, <1>17 DEF Next

\* The records that recover merges are older than every commit of this repository.
LEMMA RecoveredRecords ==
  ASSUME TypeOK, ReadOK, RecoverLines
  PROVE  /\ run.disc \in Old /\ run.refs \subseteq OldMedia[run.disc].refs
         /\ \A q \in run.refs : q.time \in Nat /\ q.time < Lost
<1>1. run.cmd = "recover" /\ run.at = "lines"
  BY DEF RecoverLines
<1>2. run.disc \in Old /\ media[run.disc] = OldMedia[run.disc]
  BY <1>1 DEF TypeOK, DiscOK, MediaOK, Recording
<1>3. run.refs \subseteq OldMedia[run.disc].refs
  BY <1>1, <1>2 DEF ReadOK
<1>4. \A q \in OldMedia[run.disc].refs : q.time \in Nat /\ q.time < Lost
  BY <1>2, OldIs, LostIs
<1>5. QED
  BY <1>2, <1>3, <1>4

LEMMA CommitRefLines ==
  ASSUME CommitRef
  PROVE  /\ run.cmd = "commit"
         /\ DOMAIN lines' = {run.name} \cup DOMAIN lines /\ lines'[run.name] = run.snap
         /\ \A n \in DOMAIN lines : n # run.name => lines'[n] = lines[n]
         /\ DOMAIN moved' = {run.name} \cup DOMAIN moved /\ moved'[run.name] = run.snap
         /\ \A n \in DOMAIN moved : n # run.name => moved'[n] = moved[n]
         /\ taken' = taken /\ ~Pack
<1>1. lines' = Put(lines, run.name, run.snap) /\ moved' = Put(moved, run.name, run.snap) /\ run.cmd = "commit"
  BY DEF CommitRef
<1>2. run' = NoRun /\ taken' = taken
  BY DEF CommitRef
<1>3. ~Pack
  BY <1>2, Ends, PackRun
<1>4. QED
  BY <1>1, <1>2, <1>3 DEF Put

LEMMA MovedStep ==
  ASSUME CommitsVerify, TypeOK, ReadOK, TakenOK, RecordsOK, CommitOK, MovedOK, [Next]_vars
  PROVE  MovedOK'
<1> USE DEF TypeOK
<1>1. Held \subseteq Held' /\ DOMAIN taken \subseteq DOMAIN taken' /\ \A s \in DOMAIN taken : taken'[s] = taken[s]
  BY HeldGrows, TakenStays
<1>2. ASSUME NEW n \in DOMAIN moved, moved' = moved, n \in DOMAIN lines', lines'[n] = lines[n]
      PROVE  /\ n \in DOMAIN lines' /\ lines'[n] = moved'[n]
             /\ moved'[n] \in Held' /\ moved'[n] \in DOMAIN taken'
             /\ taken'[moved'[n]] >= Lost
  BY <1>1, <1>2 DEF MovedOK
<1>3. ASSUME NEW r \in AllRecords, r.name \in DOMAIN moved, r.time >= taken[moved[r.name]]
      PROVE  taken[r.snap] >= taken[moved[r.name]]
  BY <1>3 DEF MovedOK
<1>4. CASE RecoverLines
  <2>1. moved' = moved /\ taken' = taken
    BY <1>4 DEF RecoverLines
  <2>2. ~Pack
    BY <1>4, PackRun, MoveSteps DEF Moves
  <2>3. ASSUME NEW n \in DOMAIN moved
        PROVE  n \in DOMAIN lines' /\ lines'[n] = lines[n]
    <3>1. n \in DOMAIN lines /\ lines[n] = moved[n] /\ moved[n] \in Held /\ taken[moved[n]] >= Lost
          /\ moved[n] \in DOMAIN taken
      BY DEF MovedOK
    <3>2. Whole(lines[n])
      BY <3>1 DEF CommitsVerify
    <3>3. LocalRecord(n, lines[n]).time = taken[moved[n]]
      BY <3>1, <3>2, LocalTime
    <3>4. taken[moved[n]] \in Nat /\ Lost \in Nat
      BY <3>1, LostIs DEF TakenOK
    <3>5. ASSUME NEW q \in run.refs
          PROVE  ~(q.time > LocalRecord(n, lines[n]).time)
      <4>1. q.time \in Nat /\ q.time < Lost
        BY <1>4, RecoveredRecords
      <4>2. QED
        BY <3>1, <3>3, <3>4, <4>1
    <3>6. n \in DOMAIN lines'
      BY <1>4, <3>1, MergedIs
    <3>7. QED
      BY <1>4, <3>1, <3>5, <3>6, MergedIs
  <2>4. AllRecords' \subseteq AllRecords
    BY <2>2, RecordsStay
  <2>5. QED
    BY <1>2, <1>3, <2>1, <2>3, <2>4 DEF MovedOK
<1>5. CASE CommitRef
  <2>1. PICK s : s = run.snap
    OBVIOUS
  <2>2. PICK m : m = run.name
    OBVIOUS
  <2>3. /\ run.cmd = "commit"
        /\ DOMAIN lines' = {m} \cup DOMAIN lines /\ lines'[m] = s
        /\ \A n \in DOMAIN lines : n # m => lines'[n] = lines[n]
        /\ DOMAIN moved' = {m} \cup DOMAIN moved /\ moved'[m] = s
        /\ \A n \in DOMAIN moved : n # m => moved'[n] = moved[n]
        /\ taken' = taken /\ ~Pack
    BY <1>5, <2>1, <2>2, CommitRefLines
  <2>4. s \in Held /\ s \in DOMAIN taken /\ taken[s] >= Lost /\ \A r \in AllRecords : r.time < taken[s]
    BY <2>1, <2>3 DEF CommitOK
  <2>5. AllRecords' \subseteq AllRecords
    BY <2>3, RecordsStay
  <2>6. ASSUME NEW n \in DOMAIN moved'
        PROVE  /\ n \in DOMAIN lines' /\ lines'[n] = moved'[n]
               /\ moved'[n] \in Held' /\ moved'[n] \in DOMAIN taken'
               /\ taken'[moved'[n]] >= Lost
    <3>1. CASE n = m
      BY <1>1, <2>3, <2>4, <3>1
    <3>2. CASE n # m
      BY <1>1, <2>3, <3>2 DEF MovedOK
    <3>3. QED
      BY <3>1, <3>2
  <2>7. ASSUME NEW r \in AllRecords', r.name \in DOMAIN moved', r.time >= taken'[moved'[r.name]]
        PROVE  taken'[r.snap] >= taken'[moved'[r.name]]
    <3>1. r \in AllRecords /\ r.time \in Nat /\ taken[s] \in Nat
      BY <2>4, <2>5 DEF RecordsOK, TakenOK
    <3>2. r.name # m
      BY <2>3, <2>4, <2>7, <3>1
    <3>3. QED
      BY <1>3, <2>3, <2>7, <3>1, <3>2
  <2>8. QED
    BY <2>6, <2>7 DEF MovedOK
<1>6. CASE ~RecoverLines /\ ~CommitRef
  <2>1. lines' = lines /\ moved' = moved
    BY <1>6, LinesFrame
  <2>2. \A n \in DOMAIN moved : n \in DOMAIN lines' /\ lines'[n] = lines[n] /\ moved[n] \in DOMAIN taken
    BY <2>1 DEF MovedOK
  <2>3. ASSUME NEW r \in AllRecords', r.name \in DOMAIN moved, r.time >= taken'[moved[r.name]]
        PROVE  taken'[r.snap] >= taken'[moved[r.name]]
    <3>1. CASE r \in AllRecords
      <4>1. r.snap \in DOMAIN taken /\ moved[r.name] \in DOMAIN taken
        BY <2>2, <2>3, <3>1 DEF RecordsOK
      <4>2. QED
        BY <1>1, <1>3, <2>3, <3>1, <4>1
    <3>2. CASE r \notin AllRecords
      <4>1. r.snap = lines[r.name]
        BY <3>2, RecordsStay, PackRecords
      <4>2. r.snap = moved[r.name] /\ r.snap \in DOMAIN taken
        BY <2>3, <4>1 DEF MovedOK
      <4>3. taken'[r.snap] \in Nat
        BY <1>1, <4>2 DEF TakenOK
      <4>4. QED
        BY <4>2, <4>3
    <3>3. QED
      BY <3>1, <3>2
  <2>4. QED
    BY <1>2, <2>1, <2>2, <2>3 DEF MovedOK
<1>7. QED
  BY <1>4, <1>5, <1>6

\* What holds of the times, the lines and the records while CommitsVerify does.
RefsInv == TypeOK /\ PackCarries /\ ReadOK /\ TakenOK /\ RecordsOK /\ CommitOK /\ MovedOK

LEMMA RefsInit ==
  ASSUME Init
  PROVE  RefsInv
<1>1. run.cmd = "none" /\ run.refs = {} /\ DOMAIN files = {} /\ DOMAIN lines = {} /\ DOMAIN moved = {} /\ ledger = {}
  BY NoRunFields DEF Init
<1>2. TypeOK /\ PackCarries /\ ReadOK
  BY <1>1, TypeInit DEF PackCarries, ReadOK
<1>3. New(0) = {}
  BY DEF New
<1>4. taken = OldTaken /\ clock = Lost /\ Lost \in Nat
  BY InitClock, LostIs DEF Init
<1>5. TakenOK
  <2>1. 0 \in 0 .. Len(NewSnapshots) /\ IsFiniteSet(New(0)) /\ Cardinality(New(0)) = 0
    <3>1. 0 \in 0 .. Len(NewSnapshots)
      BY NewIs
    <3>2. IsFiniteSet({}) /\ Cardinality({}) = 0
      BY FS_EmptySet
    <3>3. QED
      BY <1>3, <3>1, <3>2
  <2>2. DOMAIN taken = DOMAIN OldTaken \cup New(0)
    BY <1>3, <1>4
  <2>3. \A s \in DOMAIN taken : taken[s] \in Nat /\ taken[s] < clock
    BY <1>4, LostIs, CatalogAssumption
  <2>4. QED
    BY <1>4, <2>1, <2>2, <2>3 DEF TakenOK
<1>6. RecordsOK
  <2>1. ASSUME NEW r \in AllRecords
        PROVE  r.time \in Nat /\ r.time < clock /\ r.snap \in DOMAIN taken
    <3>1. PICK d \in Old : r \in OldMedia[d].refs
      BY <1>1 DEF AllRecords, Init, Old
    <3>2. QED
      BY <1>4, <3>1, LostIs, OldIs
  <2>2. QED
    BY <1>1, <2>1 DEF RecordsOK
<1>7. CommitOK /\ MovedOK
  BY <1>1 DEF CommitOK, MovedOK
<1>8. QED
  BY <1>2, <1>5, <1>6, <1>7 DEF RefsInv

LEMMA RefsStep ==
  ASSUME CommitsVerify, RefsInv, [Next]_vars
  PROVE  RefsInv'
<1> USE DEF RefsInv
<1>1. TypeOK' /\ PackCarries' /\ ReadOK'
  BY TypeStep, CarriesStep, ReadStep
<1>2. TakenOK' /\ RecordsOK' /\ CommitOK'
  BY TakenStep, RecordsStep, CommitStep
<1>3. MovedOK'
  BY MovedStep
<1>4. QED
  BY <1>1, <1>2, <1>3

LEMMA MovedResolves ==
  ASSUME RefsInv, CommitsVerify
  PROVE  CommitStaysResolved
<1> USE DEF RefsInv
<1>1. SUFFICES ASSUME NEW n \in DOMAIN moved
               PROVE  Resolves(n, DOMAIN media) /\ taken[Resolve(n, DOMAIN media)] >= taken[moved[n]]
  BY DEF CommitStaysResolved
<1>2. n \in DOMAIN lines /\ lines[n] = moved[n] /\ moved[n] \in Held /\ moved[n] \in DOMAIN taken
  BY DEF MovedOK
<1>3. PICK l : l = LocalRecord(n, lines[n])
  OBVIOUS
<1>4. l.time = taken[moved[n]] /\ l.snap = moved[n]
  <2>1. Whole(lines[n])
    BY <1>2 DEF CommitsVerify
  <2>2. QED
    BY <1>2, <1>3, <2>1, LocalTime
<1>5. PICK S : S = Records(n, DOMAIN media)
  OBVIOUS
<1>6. l \in S
  BY <1>2, <1>3, <1>5 DEF Records
<1>7. ASSUME NEW r \in S
      PROVE  r = l \/ (r \in AllRecords /\ r.name = n)
  BY <1>3, <1>5 DEF Records, AllRecords
<1>8. clock \in Nat /\ taken[moved[n]] \in Nat /\ taken[moved[n]] < clock
  BY <1>2 DEF TakenOK
<1>9. ASSUME NEW r \in S
      PROVE  r.time \in Nat /\ r.time <= clock
  BY <1>4, <1>7, <1>8 DEF RecordsOK
<1>10. Newest(S) \in S /\ \A q \in S : q.time <= Newest(S).time
  BY <1>6, <1>8, <1>9, NewestIs
<1>11. PICK r \in S : r = Newest(S)
  BY <1>10
<1>12. r.time >= taken[moved[n]]
  BY <1>4, <1>6, <1>8, <1>9, <1>10, <1>11
<1>13. taken[r.snap] >= taken[moved[n]]
  <2>1. CASE r = l
    BY <1>4, <1>8, <2>1
  <2>2. CASE r \in AllRecords /\ r.name = n
    BY <1>12, <2>2 DEF MovedOK
  <2>3. QED
    BY <1>7, <2>1, <2>2
<1>14. QED
  BY <1>5, <1>6, <1>11, <1>13 DEF Resolves, Resolve

\* The snapshot of a finished commit stays what its name resolves to, or a
\* newer one, whatever discs are read, packed and undone and whatever copies
\* and catalog files are damaged, as long as the catalog can read the snapshots
\* of the last commits: no line of a recovered disc is newer than a commit of
\* this repository, and a pack made after the commit gives the name the line.
\* While such a snapshot does not verify, localRefRecord gives it no time and
\* an older record does hide it; nothing is said of that repository.
THEOREM CommitIsNotHidden == Spec /\ []CommitsVerify => []CommitStaysResolved
<1>1. Init => RefsInv
  BY RefsInit
<1>2. RefsInv /\ CommitsVerify /\ [Next]_vars => RefsInv'
  BY RefsStep
<1>3. RefsInv /\ CommitsVerify => CommitStaysResolved
  BY MovedResolves
<1>4. QED
  BY <1>1, <1>2, <1>3, PTL DEF Spec

--------------------------------------------------------------------------------
(* The lines and the recovered discs *)

LEMMA OldRecord ==
  ASSUME TypeOK, TakenOK, NEW d \in Old, NEW r \in OldMedia[d].refs
  PROVE  /\ r.snap \in DOMAIN OldTaken /\ r.snap \in Snapshot /\ r.time \in Nat
         /\ taken[r.snap] = OldTaken[r.snap] /\ OldTaken[r.snap] \in Nat /\ r.snap \in DOMAIN taken
<1>1. r.snap \in DOMAIN OldTaken /\ r.time \in Nat
  BY OldIs
<1>2. r.snap \in Snapshot /\ OldTaken[r.snap] \in Nat /\ taken[r.snap] = OldTaken[r.snap] /\ r.snap \in DOMAIN taken
  BY <1>1, CatalogAssumption DEF TakenOK
<1>3. QED
  BY <1>1, <1>2

\* What recover merges is the table of the disc, and the catalog holds the snapshots of it.
LEMMA SoundRead ==
  ASSUME SoundLoss, TypeOK, ReadOK, RecoverLines
  PROVE  /\ run.disc \in Old /\ run.refs = OldMedia[run.disc].refs
         /\ \A q \in run.refs : q.snap \in Held
<1>1. run.cmd = "recover" /\ run.at = "lines"
  BY DEF RecoverLines
<1>2. run.disc \in Old /\ media[run.disc] = OldMedia[run.disc]
  BY <1>1 DEF TypeOK, DiscOK, MediaOK, Recording
<1>3. PICK c \in CopiesOf(run.disc) : run.bad = c.bad /\ (c.tables => run.refs = media[run.disc].refs)
  BY <1>1 DEF ReadOK
<1>4. c.tables /\ c.bad \cap Snapshot = {}
  <2>1. CASE c = Perfect
    BY <2>1 DEF Perfect
  <2>2. CASE c \in Copies[run.disc]
    BY <1>2, <2>2 DEF SoundLoss
  <2>3. QED
    BY <1>2, <2>1, <2>2 DEF CopiesOf
<1>5. run.refs = OldMedia[run.disc].refs
  BY <1>2, <1>3, <1>4
<1>6. ASSUME NEW q \in run.refs
      PROVE  q.snap \in Held
  <2>1. q.snap \in OldMedia[run.disc].objects
    BY <1>2, <1>5 DEF SoundLoss
  <2>2. q.snap \in Snapshot
    BY <1>2, <1>5, OldIs, CatalogAssumption
  <2>3. run.todo = {} /\ run.bad = c.bad
    BY <1>1, <1>3 DEF ReadOK
  <2>4. q.snap \in run.bad \/ q.snap \in run.todo \/ q.snap \in DOMAIN files
    BY <1>1, <1>2, <2>1 DEF ReadOK
  <2>5. QED
    BY <1>4, <2>2, <2>3, <2>4 DEF Held
<1>7. QED
  BY <1>2, <1>5, <1>6

LEMMA LinesHeldStep ==
  ASSUME SoundLoss, RefsInv, LinesAreHeld, [Next]_vars
  PROVE  LinesAreHeld'
<1> USE DEF RefsInv
<1>1. Held \subseteq Held'
  BY HeldGrows DEF TypeOK
<1>2. CASE RecoverLines
  <2>1. ASSUME NEW n \in DOMAIN lines'
        PROVE  lines'[n] \in Held
    <3>1. (n \in DOMAIN lines /\ lines'[n] = lines[n]) \/ \E q \in run.refs : lines'[n] = q.snap
      BY <1>2, MergedIs
    <3>2. QED
      BY <1>2, <3>1, SoundRead DEF LinesAreHeld
  <2>2. QED
    BY <1>1, <2>1 DEF LinesAreHeld
<1>3. CASE CommitRef
  BY <1>1, <1>3, CommitRefLines DEF LinesAreHeld, CommitOK
<1>4. CASE ~RecoverLines /\ ~CommitRef
  BY <1>1, <1>4, LinesFrame DEF LinesAreHeld
<1>5. QED
  BY <1>2, <1>3, <1>4

\* No step takes a line behind a record of the lost repository that it covers, and
\* recover covers those of its disc.
LEMMA CoveredStays ==
  ASSUME SoundLoss, LinesVerify, RefsInv, LinesAreHeld, [Next]_vars, NEW d \in Old, NEW r \in OldMedia[d].refs,
         Covered(r) \/ (RecoverLines /\ d = run.disc)
  PROVE  Covered(r)'
<1> USE DEF RefsInv
<1>1. /\ r.snap \in DOMAIN taken /\ taken[r.snap] = OldTaken[r.snap] /\ OldTaken[r.snap] \in Nat /\ r.time \in Nat
  BY OldRecord
<1>2. PICK n : n = r.name
  OBVIOUS
<1>3. DOMAIN taken \subseteq DOMAIN taken' /\ \A s \in DOMAIN taken : taken'[s] = taken[s]
  BY TakenStays
<1>4. \A m \in DOMAIN lines : lines[m] \in DOMAIN taken /\ taken[lines[m]] \in Nat /\ Whole(lines[m])
  BY DEF RecordsOK, TakenOK, LinesVerify
<1>5. ASSUME n \in DOMAIN lines, n \in DOMAIN lines', lines'[n] = lines[n], Covered(r)
      PROVE  Covered(r)'
  BY <1>1, <1>2, <1>3, <1>4, <1>5 DEF Covered
<1>6. CASE RecoverLines
  <2>1. run.disc \in Old /\ run.refs = OldMedia[run.disc].refs
    BY <1>6, SoundRead
  <2>2. n \in DOMAIN lines'
    BY <1>2, <1>6, <2>1, MergedIs DEF Covered
  <2>3. CASE /\ n \in DOMAIN lines /\ lines'[n] = lines[n]
             /\ \A q \in run.refs : q.name = n => q.time <= LocalRecord(n, lines[n]).time
    <3>1. CASE Covered(r)
      BY <1>5, <2>2, <2>3, <3>1
    <3>2. CASE d = run.disc
      <4>1. r.time <= LocalRecord(n, lines[n]).time
        BY <1>2, <2>1, <2>3, <3>2
      <4>2. LocalRecord(n, lines[n]).time = taken[lines[n]]
        BY <1>4, <2>3, LocalTime
      <4>3. r.time > OldTaken[r.snap]
        BY DEF SoundLoss
      <4>4. taken[lines[n]] \in Nat /\ lines[n] \in DOMAIN taken
        BY <1>4, <2>3
      <4>5. taken[lines[n]] >= taken[r.snap]
        BY <1>1, <4>1, <4>2, <4>3, <4>4
      <4>6. Covered(r)
        BY <1>2, <2>3, <4>5 DEF Covered
      <4>7. QED
        BY <1>5, <2>2, <2>3, <4>6
    <3>3. QED
      BY <3>1, <3>2
  <2>4. CASE \E q \in run.refs :
               /\ q.name = n /\ lines'[n] = q.snap
               /\ \A x \in run.refs : x.name = n => x.time <= q.time
               /\ n \in DOMAIN lines => q.time > LocalRecord(n, lines[n]).time
    <3>1. PICK q \in run.refs :
               /\ q.name = n /\ lines'[n] = q.snap
               /\ \A x \in run.refs : x.name = n => x.time <= q.time
               /\ n \in DOMAIN lines => q.time > LocalRecord(n, lines[n]).time
      BY <2>4
    <3>2. q \in OldMedia[run.disc].refs /\ run.disc \in Old
      BY <2>1
    <3>3. /\ q.snap \in DOMAIN taken /\ taken[q.snap] = OldTaken[q.snap] /\ q.time \in Nat
      BY <3>2, OldRecord
    <3>4. q.time > OldTaken[r.snap]
      <4>1. CASE Covered(r)
        <5>1. n \in DOMAIN lines /\ taken[lines[n]] >= taken[r.snap]
          BY <1>2, <4>1 DEF Covered
        <5>2. q.time > taken[lines[n]] /\ taken[lines[n]] \in Nat
          BY <1>4, <3>1, <5>1, LocalTime
        <5>3. QED
          BY <1>1, <3>3, <5>1, <5>2
      <4>2. CASE d = run.disc
        <5>1. r.time <= q.time
          BY <1>2, <2>1, <3>1, <4>2
        <5>2. r.time > OldTaken[r.snap]
          BY DEF SoundLoss
        <5>3. QED
          BY <1>1, <3>3, <5>1, <5>2
      <4>3. QED
        BY <4>1, <4>2
    <3>5. OldTaken[q.snap] >= OldTaken[r.snap]
      BY <1>2, <3>1, <3>2, <3>4 DEF SoundLoss
    <3>6. taken'[q.snap] >= taken'[r.snap]
      BY <1>1, <1>3, <3>3, <3>5
    <3>7. QED
      BY <1>2, <2>2, <3>1, <3>6 DEF Covered
  <2>5. QED
    BY <1>6, <2>2, <2>3, <2>4, MergedIs
<1>7. CASE CommitRef
  <2>1. Covered(r)
    BY <1>7, CommitRefLines, MoveSteps DEF CommitRef, RecoverLines
  <2>2. n \in DOMAIN lines
    BY <1>2, <2>1 DEF Covered
  <2>3. CASE n = run.name
    <3>1. lines'[n] = run.snap /\ n \in DOMAIN lines' /\ taken' = taken /\ run.cmd = "commit"
      BY <1>7, <2>3, CommitRefLines
    <3>2. taken[r.snap] <= taken[run.snap] /\ run.snap \in DOMAIN taken
      BY <1>1, <3>1 DEF CommitOK
    <3>3. taken[run.snap] \in Nat /\ taken[r.snap] \in Nat
      BY <1>1, <3>2 DEF TakenOK
    <3>4. QED
      BY <1>2, <3>1, <3>2, <3>3 DEF Covered
  <2>4. CASE n # run.name
    BY <1>5, <1>7, <2>1, <2>2, <2>4, CommitRefLines
  <2>5. QED
    BY <2>3, <2>4
<1>8. CASE ~RecoverLines /\ ~CommitRef
  BY <1>2, <1>5, <1>8, LinesFrame DEF Covered
<1>9. QED
  BY <1>6, <1>7, <1>8

BackInv == RefsInv /\ LinesAreHeld /\ MergedIsCovered /\ NameNeverGoesBack

LEMMA MergedStep ==
  ASSUME SoundLoss, LinesVerify, BackInv, [Next]_vars
  PROVE  MergedIsCovered'
<1> USE DEF BackInv, RefsInv, TypeOK
<1>1. CASE ~(run'.cmd = "recover" /\ run'.at \in {"items", "event"})
  BY <1>1 DEF MergedIsCovered
<1>2. ASSUME run'.disc = run.disc, run.disc \in Old,
             \A r \in OldMedia[run.disc].refs : Covered(r) \/ RecoverLines
      PROVE  MergedIsCovered'
  <2>1. media'[run.disc] = OldMedia[run.disc]
    BY <1>2, MediaStays DEF MediaOK
  <2>2. PICK d : d = run.disc
    OBVIOUS
  <2>3. \A r \in OldMedia[d].refs : Covered(r)'
    BY <1>2, <2>2, CoveredStays
  <2>4. QED
    BY <1>2, <2>1, <2>2, <2>3 DEF MergedIsCovered
<1>3. ASSUME run'.disc = run.disc, run.cmd = "recover", run.at \in {"items", "event"}
      PROVE  MergedIsCovered'
  <2>1. run.disc \in Old /\ media[run.disc] = OldMedia[run.disc]
    BY <1>3 DEF DiscOK, MediaOK, Recording
  <2>2. QED
    BY <1>2, <1>3, <2>1 DEF MergedIsCovered
<1>4. CASE RecoverLines
  <2>1. run'.disc = run.disc /\ run.disc \in Old
    BY <1>4, SoundRead, MoveSteps DEF Moves
  <2>2. QED
    BY <1>2, <1>4, <2>1
<1>5. CASE RecoverItems
  BY <1>3, <1>5, MoveSteps DEF Moves
<1>6. ASSUME NEW d, NEW copy, NEW cmd, ReadDisc(cmd, d, copy)
      PROVE  run'.at = "copy"
  BY <1>6, ReadDiscRun
<1>7. CASE \E d \in DOMAIN media : (\E copy \in CopiesOf(d) : Recover(d, copy)) \/ Verify(d)
  BY <1>1, <1>6, <1>7 DEF Recover, Verify
<1>8. ASSUME NEW n \in Name, Commit(n)
      PROVE  run'.cmd = "commit"
  BY <1>8, CommitRun
<1>9. ASSUME NEW d \in DOMAIN media, Undo(d)
      PROVE  run'.cmd = "undo"
  BY <1>9, UndoRun
<1>10. CASE Pack
  BY <1>1, <1>10, PackRun
<1>11. CASE RunStep \/ Stop \/ Rot \/ UNCHANGED vars
  <2>1. CASE Ending
    BY <1>1, <2>1, LastRun, Ends
  <2>2. CASE CopyObject \/ CopyTable
    BY <1>1, <2>2, CopyObjectRun, CopyTableRun
  <2>3. CASE WalkBegin \/ Walk
    BY <1>1, <2>3, WalkBeginRun, WalkRun DEF Moves
  <2>4. CASE WalkEnd
    BY <1>1, <2>4, WalkEndRun, Ends DEF Moves
  <2>5. CASE RecoverLedger \/ CommitMark \/ PackRow
    BY <1>1, <2>5, MoveSteps DEF Moves
  <2>6. CASE Rot \/ UNCHANGED vars
    <3>1. run' = run
      BY <2>6 DEF Rot, vars
    <3>2. QED
      BY <1>1, <1>3, <3>1
  <2>7. QED
    BY <1>4, <1>5, <1>11, <2>1, <2>2, <2>3, <2>4, <2>5, <2>6 DEF RunStep, Ending
<1>12. QED
  BY <1>1, <1>7, <1>8, <1>9, <1>10, <1>11 DEF Next

LEMMA BackStep ==
  ASSUME SoundLoss, LinesVerify, BackInv, [Next]_vars
  PROVE  NameNeverGoesBack'
<1> USE DEF BackInv, RefsInv, TypeOK
<1>1. ASSUME NEW d \in DOMAIN known, known[d] = "recovered"
      PROVE  d \in Old /\ media[d] = OldMedia[d] /\ \A r \in OldMedia[d].refs : Covered(r)
  <2>1. d \in Old /\ media[d] = OldMedia[d]
    BY <1>1 DEF KnownOK, MediaOK
  <2>2. QED
    BY <1>1, <2>1 DEF NameNeverGoesBack, Covered
<1>2. ASSUME NEW d \in DOMAIN known', known'[d] = "recovered"
      PROVE  d \in Old /\ \A r \in OldMedia[d].refs : Covered(r)
  <2>1. CASE d \in DOMAIN known /\ known[d] = "recovered"
    BY <1>1, <2>1
  <2>2. CASE ~(d \in DOMAIN known /\ known[d] = "recovered")
    <3>1. RecoverEvent /\ d = run.disc
      <4>1. CASE RecoverEvent
        BY <1>2, <2>2, <4>1, RecoverEventKnown
      <4>2. CASE PackRow
        BY <1>2, <2>2, <4>2, PackRowKnown
      <4>3. ASSUME NEW q \in DOMAIN media, Undo(q)
            PROVE  FALSE
        BY <1>2, <2>2, <4>3, UndoKnown
      <4>4. CASE ~RecoverEvent /\ ~PackRow /\ ~(\E q \in DOMAIN media : Undo(q))
        BY <1>2, <2>2, <4>4, KnownFrame
      <4>5. QED
        BY <4>1, <4>2, <4>3, <4>4
    <3>2. run.cmd = "recover" /\ run.at = "event"
      BY <3>1 DEF RecoverEvent
    <3>3. d \in Old /\ media[d] = OldMedia[d]
      BY <3>1, <3>2 DEF DiscOK, MediaOK, Recording
    <3>4. QED
      BY <3>1, <3>2, <3>3 DEF MergedIsCovered
  <2>3. QED
    BY <2>1, <2>2
<1>3. ASSUME NEW d \in DOMAIN known', known'[d] = "recovered"
      PROVE  \A r \in media'[d].refs : Covered(r)'
  <2>1. d \in Old /\ media'[d] = OldMedia[d]
    BY <1>2, <1>3, MediaStays DEF MediaOK
  <2>2. \A r \in OldMedia[d].refs : Covered(r)'
    BY <1>2, <1>3, <2>1, CoveredStays
  <2>3. QED
    BY <2>1, <2>2
<1>4. QED
  BY <1>3 DEF NameNeverGoesBack, Covered

\* A name that a recovered disc carries is never on an older snapshot in
\* refs.txt than the disc gives it, in whatever order the discs are read and
\* wherever a recover stops, when the discs are those of a repository whose
\* records are of the newest snapshot of their name, no copy of one has a
\* damaged snapshot or ref table, and the catalog can read the snapshots of
\* refs.txt all along.
THEOREM NamesDoNotGoBack == Spec /\ []LinesVerify => [](SoundLoss => NameNeverGoesBack)
<1>1. CASE SoundLoss
  <2>1. Init => BackInv
    <3>1. Init => DOMAIN lines = {} /\ DOMAIN known = {} /\ run.cmd = "none"
      BY NoRunFields DEF Init
    <3>2. QED
      BY <3>1, RefsInit DEF BackInv, LinesAreHeld, MergedIsCovered, NameNeverGoesBack
  <2>2. BackInv /\ LinesVerify /\ [Next]_vars => BackInv'
    <3>1. SUFFICES ASSUME BackInv, LinesVerify, [Next]_vars PROVE BackInv'
      OBVIOUS
    <3>2. CommitsVerify
      BY <3>1 DEF BackInv, RefsInv, MovedOK, LinesVerify, CommitsVerify
    <3>3. RefsInv' /\ LinesAreHeld'
      BY <1>1, <3>1, <3>2, RefsStep, LinesHeldStep DEF BackInv
    <3>4. MergedIsCovered' /\ NameNeverGoesBack'
      BY <1>1, <3>1, MergedStep, BackStep
    <3>5. QED
      BY <3>3, <3>4 DEF BackInv
  <2>3. BackInv => (SoundLoss => NameNeverGoesBack)
    BY DEF BackInv
  <2>4. QED
    BY <2>1, <2>2, <2>3, PTL DEF Spec
<1>2. CASE ~SoundLoss
  <2>1. TRUE => (SoundLoss => NameNeverGoesBack)
    BY <1>2
  <2>2. QED
    BY <2>1, PTL
<1>3. QED
  BY <1>1, <1>2

--------------------------------------------------------------------------------
(* The disc that pack writes *)

\* Every copy of a disc of the lost repository has intact tables.
SoundTables == \A d \in Old : \A c \in Copies[d] : c.tables

\* What a pack that runs puts on its disc, beside the discs that the catalog then resolves with.
PackNames ==
  run.cmd = "pack" =>
    /\ run.refs = media[run.disc].refs
    /\ \A r \in run.refs : r \in ledger \/ r.name \in DOMAIN lines
    /\ \A n \in DOMAIN lines : Of(run.refs, n) # {} /\ Newest(Of(run.refs, n)).snap = lines[n]
    /\ \A c \in DOMAIN known : known[c] # "missing" /\ (c \in {run.disc} \cup DOMAIN tables => known[c] # "undone")

PackedNames ==
  \A c \in DOMAIN known : known[c] = "packed" =>
    \A r \in media[c].refs : r \in ledger \/ r.name \in DOMAIN lines

NamesInv == TypeOK /\ PackCarries /\ ReadOK /\ RecoveredIsRecorded /\ TakenOK /\ RecordsOK /\ CommitOK /\ PackNames /\ PackedNames

\* The record of a name on the new disc: pack makes the newest one of a name that
\* it takes, and the ledger has it already of every other name that has a line.
LEMMA OwnIsLine ==
  ASSUME TakenOK, RecordsOK, NEW n \in DOMAIN lines
  PROVE  Of(PackRefs(Named), n) # {} /\ Newest(Of(PackRefs(Named), n)).snap = lines[n]
<1>1. PICK N : N = Named
  OBVIOUS
<1>2. PICK P : P = PackRefs(N)
  OBVIOUS
<1>3. \A r : r \in P <=> r \in ledger \/ \E m \in N : r = [name |-> m, snap |-> lines[m], time |-> clock]
  BY <1>2 DEF PackRefs
<1>4. PICK O : O = Of(P, n)
  OBVIOUS
<1>5. \A r : r \in O <=> r \in P /\ r.name = n
  BY <1>4 DEF Of
<1>6. clock \in Nat /\ \A r \in ledger : r.time \in Nat /\ r.time < clock
  BY DEF TakenOK, RecordsOK, AllRecords
<1>7. CASE n \in N
  <2>1. PICK l : l = [name |-> n, snap |-> lines[n], time |-> clock]
    OBVIOUS
  <2>2. l \in O
    BY <1>3, <1>5, <1>7, <2>1
  <2>3. ASSUME NEW r \in O
        PROVE  r = l \/ (r.time \in Nat /\ r.time < clock)
    BY <1>3, <1>5, <1>6, <2>1, <2>3
  <2>4. ASSUME NEW r \in O
        PROVE  r.time \in Nat /\ r.time <= clock
    BY <1>6, <2>1, <2>3
  <2>5. Newest(O) \in O /\ \A q \in O : q.time <= Newest(O).time
    BY <1>6, <2>2, <2>4, NewestIs
  <2>6. PICK x \in O : x = Newest(O)
    BY <2>5
  <2>7. clock <= x.time
    BY <2>1, <2>2, <2>5, <2>6
  <2>8. x = l
    BY <1>6, <2>3, <2>7
  <2>9. QED
    BY <1>1, <1>2, <1>4, <2>1, <2>2, <2>6, <2>8
<1>8. CASE n \notin N
  <2>1. n \notin Pending
    BY <1>1, <1>8 DEF Named
  <2>2. n \in Names(ledger) /\ Newest(Of(ledger, n)).snap = lines[n]
    BY <2>1 DEF Pending
  <2>3. O = Of(ledger, n)
    <3>1. \A r : r \in O <=> r \in ledger /\ r.name = n
      BY <1>3, <1>5, <1>8
    <3>2. \A r : r \in Of(ledger, n) <=> r \in ledger /\ r.name = n
      BY DEF Of
    <3>3. QED
      BY <1>4, <3>1, <3>2 DEF Of
  <2>4. O # {}
    BY <2>2, <2>3 DEF Names, Of
  <2>5. QED
    BY <1>1, <1>2, <1>4, <2>2, <2>3, <2>4
<1>9. QED
  BY <1>7, <1>8

LEMMA LinesGrow ==
  ASSUME TakenOK, RecordsOK, [Next]_vars
  PROVE  DOMAIN lines \subseteq DOMAIN lines'
<1>1. CASE RecoverLines
  <2>1. ASSUME NEW n \in DOMAIN lines
        PROVE  n \in DOMAIN lines'
    BY <1>1, <2>1, MergedIs
  <2>2. QED
    BY <2>1
<1>2. CASE CommitRef
  BY <1>2, CommitRefLines
<1>3. CASE ~RecoverLines /\ ~CommitRef
  BY <1>3, LinesFrame
<1>4. QED
  BY <1>1, <1>2, <1>3

LEMMA PackNamesStep ==
  ASSUME NamesInv, [Next]_vars
  PROVE  PackNames'
<1> USE DEF NamesInv, TypeOK
<1>1. CASE ~(run'.cmd = "pack")
  BY <1>1 DEF PackNames
<1>2. ASSUME run.cmd = "pack", run'.cmd = run.cmd, run'.disc = run.disc, run'.refs = run.refs, media' = media,
             ledger' = ledger, lines' = lines,
             \A c \in DOMAIN known' : c # run.disc => c \in DOMAIN known /\ known'[c] = known[c],
             run.disc \in DOMAIN known' => known'[run.disc] \notin {"missing", "undone"},
             DOMAIN tables' \subseteq {run.disc} \cup DOMAIN tables
      PROVE  PackNames'
  <2>2. /\ run.refs = media[run.disc].refs
        /\ \A r \in run.refs : r \in ledger \/ r.name \in DOMAIN lines
        /\ \A n \in DOMAIN lines : Of(run.refs, n) # {} /\ Newest(Of(run.refs, n)).snap = lines[n]
        /\ \A c \in DOMAIN known : known[c] # "missing" /\ (c \in {run.disc} \cup DOMAIN tables => known[c] # "undone")
    BY <1>2 DEF PackNames
  <2>3. \A c \in DOMAIN known' : known'[c] # "missing" /\ (c \in {run'.disc} \cup DOMAIN tables' => known'[c] # "undone")
    BY <1>2, <2>2
  <2>4. \A n \in DOMAIN lines' : Of(run'.refs, n) # {} /\ Newest(Of(run'.refs, n)).snap = lines'[n]
    BY <1>2, <2>2
  <2>5. run'.refs = media'[run'.disc].refs /\ \A r \in run'.refs : r \in ledger' \/ r.name \in DOMAIN lines'
    BY <1>2, <2>2
  <2>6. QED
    BY <2>3, <2>4, <2>5 DEF PackNames
<1>3. CASE Pack
  <2>1. PICK P : P = PackRefs(Named)
    OBVIOUS
  <2>2. PICK d \in Nat : /\ d = Cardinality(DOMAIN media) + 1 /\ d \notin DOMAIN media
                         /\ media'[d] = [objects |-> Logged \cup Takes, refs |-> PackRefs(Named),
                                         names |-> {q \in DOMAIN known : known[q] # "undone"}]
    BY <1>3, PackMedia
  <2>3. run'.disc = d /\ run'.refs = P
    BY <1>3, <2>1, <2>2, PackRun
  <2>4. media'[d].refs = P
    BY <2>1, <2>2
  <2>5. lines' = lines /\ ledger' = ledger /\ known' = known /\ Missing = {}
    BY <1>3 DEF Pack, refs
  <2>6. ASSUME NEW r \in P
        PROVE  r \in ledger \/ r.name \in DOMAIN lines
    <3>1. CASE r \notin ledger
      <4>1. PICK n \in Named : r = [name |-> n, snap |-> lines[n], time |-> clock]
        BY <2>1, <2>6, <3>1 DEF PackRefs
      <4>2. QED
        BY <4>1, NamedHasLine
    <3>2. QED
      BY <3>1
  <2>7. \A n \in DOMAIN lines : Of(P, n) # {} /\ Newest(Of(P, n)).snap = lines[n]
    BY <2>1, OwnIsLine
  <2>8. \A c \in DOMAIN known : known[c] # "missing"
    BY <2>5 DEF Missing
  <2>9. d \notin DOMAIN known
    BY <2>2 DEF KnownOK
  <2>10. \A c \in DOMAIN known : c \in DOMAIN tables' => known[c] # "undone"
    <3>1. PICK S : S = {c \in DOMAIN tables : ~(c \in DOMAIN known /\ known[c] = "undone")}
      OBVIOUS
    <3>2. tables' = Restrict(tables, S)
      BY <1>3, <3>1 DEF Pack
    <3>3. QED
      BY <3>1, <3>2, RestrictFields
  <2>11. \A n \in DOMAIN lines' : Of(run'.refs, n) # {} /\ Newest(Of(run'.refs, n)).snap = lines'[n]
    BY <2>3, <2>5, <2>7
  <2>12. \A c \in DOMAIN known' : known'[c] # "missing" /\ (c \in {run'.disc} \cup DOMAIN tables' => known'[c] # "undone")
    BY <2>3, <2>5, <2>8, <2>9, <2>10
  <2>13. run'.refs = media'[run'.disc].refs /\ \A r \in run'.refs : r \in ledger' \/ r.name \in DOMAIN lines'
    BY <2>3, <2>4, <2>5, <2>6
  <2>14. QED
    BY <2>11, <2>12, <2>13 DEF PackNames
<1>4. ASSUME NEW d, NEW copy, NEW cmd \in {"recover", "verify"}, ReadDisc(cmd, d, copy)
      PROVE  run'.cmd # "pack"
  BY <1>4, ReadDiscRun
<1>5. CASE \E d \in DOMAIN media : (\E copy \in CopiesOf(d) : Recover(d, copy)) \/ Verify(d)
  BY <1>1, <1>4, <1>5 DEF Recover, Verify
<1>6. CASE \E n \in Name : Commit(n)
  BY <1>1, <1>6, CommitRun
<1>7. CASE \E d \in DOMAIN media : Undo(d)
  BY <1>1, <1>7, UndoRun
<1>8. CASE CopyObject \/ WalkBegin \/ Walk \/ WalkEnd
  <2>1. run'.cmd # "pack"
    BY <1>8, CopyObjectRun, WalkBeginRun, WalkRun, WalkEndRun, Ends DEF Moves, RunOK
  <2>2. QED
    BY <1>1, <2>1
<1>9. CASE CopyTable
  <2>1. CASE run.cmd = "pack"
    <3>1. run'.cmd = run.cmd /\ run'.disc = run.disc /\ run'.refs = run.refs /\ DOMAIN tables' = {run.disc} \cup DOMAIN tables
      BY <1>9, CopyTableRun
    <3>2. media' = media /\ ledger' = ledger /\ lines' = lines /\ known' = known
      BY <1>9 DEF CopyTable, refs
    <3>3. run.disc \in DOMAIN known => known[run.disc] \notin {"missing", "undone"}
      BY <2>1 DEF PackNames
    <3>4. QED
      BY <1>2, <2>1, <3>1, <3>2, <3>3
  <2>2. QED
    BY <1>1, <1>9, <2>1, CopyTableRun
<1>10. CASE RecoverLedger \/ RecoverLines \/ RecoverItems \/ CommitMark
  BY <1>1, <1>10, MoveSteps DEF Moves
<1>11. CASE PackRow
  <2>1. run.cmd = "pack" /\ run'.cmd = run.cmd /\ run'.disc = run.disc /\ run'.refs = run.refs
    BY <1>11, MoveSteps DEF Moves
  <2>2. media' = media /\ ledger' = ledger /\ lines' = lines /\ tables' = tables
    BY <1>11 DEF PackRow, refs, catalog
  <2>3. DOMAIN known' = {run.disc} \cup DOMAIN known /\ known'[run.disc] = "packed"
        /\ \A c \in DOMAIN known : c # run.disc => known'[c] = known[c]
    BY <1>11, PackRowKnown
  <2>4. QED
    BY <1>2, <2>1, <2>2, <2>3
<1>12. CASE Ending
  BY <1>1, <1>12, LastRun, Ends
<1>13. CASE Rot \/ UNCHANGED vars
  <2>1. run' = run /\ media' = media /\ ledger' = ledger /\ lines' = lines /\ known' = known /\ tables' = tables
    BY <1>13 DEF Rot, vars, refs, catalog
  <2>2. CASE run.cmd = "pack"
    <3>1. run.disc \in DOMAIN known => known[run.disc] \notin {"missing", "undone"}
      BY <2>2 DEF PackNames
    <3>2. QED
      BY <1>2, <2>1, <2>2, <3>1
  <2>3. QED
    BY <1>1, <2>1, <2>2
<1>14. QED
  BY <1>3, <1>5, <1>6, <1>7, <1>8, <1>9, <1>10, <1>11, <1>12, <1>13 DEF Next, RunStep, Ending

LEMMA PackedStep ==
  ASSUME NamesInv, [Next]_vars
  PROVE  PackedNames'
<1> USE DEF NamesInv, TypeOK
<1>1. ledger \subseteq ledger' /\ DOMAIN lines \subseteq DOMAIN lines' /\ \A d \in DOMAIN media : media'[d] = media[d]
  BY LedgerGrows, LinesGrow, MediaStays
<1>2. ASSUME NEW c \in DOMAIN known', known'[c] = "packed"
      PROVE  c \in DOMAIN media /\ \A r \in media[c].refs : r \in ledger \/ r.name \in DOMAIN lines
  <2>1. CASE c \in DOMAIN known /\ known[c] = "packed"
    BY <2>1 DEF PackedNames, KnownOK
  <2>2. CASE ~(c \in DOMAIN known /\ known[c] = "packed")
    <3>1. PackRow /\ c = run.disc
      <4>1. CASE RecoverEvent
        BY <1>2, <2>2, <4>1, RecoverEventKnown
      <4>2. CASE PackRow
        BY <1>2, <2>2, <4>2, PackRowKnown
      <4>3. ASSUME NEW q \in DOMAIN media, Undo(q)
            PROVE  FALSE
        BY <1>2, <2>2, <4>3, UndoKnown
      <4>4. CASE ~RecoverEvent /\ ~PackRow /\ ~(\E q \in DOMAIN media : Undo(q))
        BY <1>2, <2>2, <4>4, KnownFrame
      <4>5. QED
        BY <4>1, <4>2, <4>3, <4>4
    <3>2. run.cmd = "pack" /\ run.disc \in DOMAIN media
      BY <3>1, MoveSteps DEF DiscOK
    <3>3. QED
      BY <3>1, <3>2 DEF PackNames
  <2>3. QED
    BY <2>1, <2>2
<1>3. QED
  BY <1>1, <1>2 DEF PackedNames

LEMMA ResolvesIs ==
  ASSUME NEW n, NEW D, n \notin DOMAIN lines, Resolves(n, D)
  PROVE  \E c \in DOMAIN tables \cap D : \E r \in media[c].refs : r.name = n
<1>1. PICK r : r \in Records(n, D)
  BY DEF Resolves
<1>2. PICK c \in DOMAIN tables \cap D : r \in media[c].refs
  BY <1>1 DEF Records
<1>3. r.name = n
  BY <1>1 DEF Records
<1>4. QED
  BY <1>2, <1>3

LEMMA DiscHasNames ==
  ASSUME SoundTables, NamesInv
  PROVE  NewestDiscNamesEveryRef
<1> USE DEF NamesInv, TypeOK
<1>1. SUFFICES ASSUME run.cmd = "pack", NEW n
               PROVE  /\ Resolves(n, DOMAIN known) => Of(media[run.disc].refs, n) # {}
                      /\ n \in DOMAIN lines => Newest(Of(media[run.disc].refs, n)).snap = lines[n]
  BY DEF NewestDiscNamesEveryRef
<1>2. run.refs = media[run.disc].refs
  BY <1>1 DEF PackNames
<1>3. n \in DOMAIN lines => Of(run.refs, n) # {} /\ Newest(Of(run.refs, n)).snap = lines[n]
  BY <1>1 DEF PackNames
<1>4. ASSUME Resolves(n, DOMAIN known), n \notin DOMAIN lines
      PROVE  Of(run.refs, n) # {}
  <2>1. PICK c \in DOMAIN tables \cap DOMAIN known : \E q \in media[c].refs : q.name = n
    BY <1>4, ResolvesIs
  <2>0. PICK r \in media[c].refs : r.name = n
    BY <2>1
  <2>2. known[c] # "missing" /\ known[c] # "undone"
    BY <1>1, <2>1 DEF PackNames
  <2>3. r \in ledger
    <3>1. CASE known[c] = "recovered"
      <4>1. c \in Old
        BY <2>1, <3>1 DEF KnownOK
      <4>2. \A x \in CopiesOf(c) : x.tables
        BY <4>1 DEF SoundTables, CopiesOf, Perfect
      <4>3. QED
        BY <2>0, <2>1, <3>1, <4>2 DEF RecoveredIsRecorded
    <3>2. CASE known[c] = "packed"
      BY <1>4, <2>0, <2>1, <3>2 DEF PackedNames
    <3>3. known[c] \in {"missing", "recovered", "packed", "undone"}
      BY <2>1 DEF KnownOK
    <3>4. QED
      BY <2>2, <3>1, <3>2, <3>3
  <2>4. r \in run.refs
    BY <1>1, <2>3 DEF PackCarries
  <2>5. QED
    BY <2>0, <2>4 DEF Of
<1>5. QED
  BY <1>2, <1>3, <1>4

\* The disc that pack writes has, alone, a ref record of each name that the
\* repository resolves, and the newest one of a name in refs.txt is of its
\* line, when the tables of the copies that recover reads are intact: a
\* recover or a pack that stopped leaves no name that the next pack misses.
THEOREM NewestDiscHasTheNames == Spec => [](SoundTables => NewestDiscNamesEveryRef)
<1>1. CASE SoundTables
  <2>1. Init => NamesInv
    <3>1. Init => DOMAIN known = {} /\ run.cmd = "none"
      BY NoRunFields DEF Init
    <3>2. Init => RecoveredIsRecorded /\ PackNames /\ PackedNames
      BY <3>1 DEF RecoveredIsRecorded, PackNames, PackedNames
    <3>3. QED
      BY <3>2, RefsInit DEF RefsInv, NamesInv
  <2>2. NamesInv /\ [Next]_vars => NamesInv'
    <3>1. SUFFICES ASSUME NamesInv, [Next]_vars PROVE NamesInv'
      OBVIOUS
    <3>2. TypeOK' /\ PackCarries' /\ ReadOK' /\ RecoveredIsRecorded'
      BY <3>1, TypeStep, CarriesStep, ReadStep, RecordedStep DEF NamesInv
    <3>3. TakenOK' /\ RecordsOK' /\ CommitOK'
      BY <3>1, TakenStep, RecordsStep, CommitStep DEF NamesInv
    <3>4. PackNames' /\ PackedNames'
      BY <3>1, PackNamesStep, PackedStep
    <3>5. QED
      BY <3>2, <3>3, <3>4 DEF NamesInv
  <2>3. NamesInv => (SoundTables => NewestDiscNamesEveryRef)
    BY DiscHasNames
  <2>4. QED
    BY <2>1, <2>2, <2>3, PTL DEF Spec
<1>2. CASE ~SoundTables
  <2>1. TRUE => (SoundTables => NewestDiscNamesEveryRef)
    BY <1>2
  <2>2. QED
    BY <2>1, PTL
<1>3. QED
  BY <1>1, <1>2

================================================================================
