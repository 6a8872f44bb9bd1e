----------------------------- MODULE Commit_proofs -----------------------------
(***************************************************************************)
(* Proofs about commit, for every source, chunk set, batch size and number *)
(* of commits, kills, failures and power losses.                           *)
(*                                                                         *)
(* The invariant grows in four layers.  EntriesInv: what a read has is the *)
(* start of the file, as long as the file is the one of the stat before.   *)
(* ReachInv: run.reachable has all that the snapshot will reach, so the    *)
(* batch of records covers the ref.  DropInv: every chunk file has a       *)
(* reason, a record, the snapshot, the time before the commit, or          *)
(* removeDropped to come.  HeldInv: each needed object is on a disc, whole *)
(* under its name or in a batch, unless a failed flush ends the commit;    *)
(* and every name that waits for a sync of its directory is of the running *)
(* commit.  The last part holds before the first kill or failure only,     *)
(* hence the condition PowerFirst of the last theorem.                     *)
(***************************************************************************)
EXTENDS Commit, TLAPS

--------------------------------------------------------------------------------
(* The inductive invariant *)

Entry == [path : Path, chunks : Seq(Chunk), unstable : BOOLEAN]
Trees == {Tree(es) : es \in Seq(Entry)}
Roots == {RootTree(t) : t \in Trees}
Objects ==
  {ChunkObject(c) : c \in Chunk} \cup {Blob(cs) : cs \in Seq(Chunk)} \cup Trees \cup Roots
    \cup {Snapshot(r, n) : r \in Roots, n \in Nat}

Fields == {"at", "no", "before", "attempt", "pos", "new", "reachable", "dropped", "dirty",
           "entries", "tree", "there", "ended"}

Walking == {"stat", "read"}
Sealed == {"flush", "remove", "sync", "record", "complete", "ref"}

SourceOK ==
  /\ DOMAIN source = Path
  /\ \A p \in Path : source[p] \in [version : 1 .. Len(Version[p]), gone : BOOLEAN]

RunOK ==
  /\ DOMAIN run = Fields
  /\ run.at \in {"idle", "root", "snapshot"} \cup Walking \cup Sealed
  /\ run.no \in Nat /\ (run.at \in Walking => run.no > 0) /\ (run.at = "read" => run.no \in DOMAIN Walked)
  /\ run.pos \in Seq(Chunk) /\ run.entries \in Seq(Entry)
  /\ run.at # "read" => run.pos = << >> /\ run.new = {}
  /\ run.ended \in {"no", "ok", "failed"} /\ (run.ended = "ok" => run.at = "idle")
  /\ run.at = "idle" => run.dirty = {}

BatchOK ==
  /\ group \in Seq(Objects)
  /\ flush \in [files : Seq(Objects), phase : {"none", "sync", "rename", "failed"}]
  /\ flush.phase \in {"none", "failed"} => flush.files = << >>
  /\ run.at \in {"idle", "remove", "sync", "record", "complete", "ref"} =>
       group = << >> /\ flush.phase = "none"

CountsOK == commits \in Nat /\ stops \in Nat /\ power \in Nat /\ errors \in Nat

\* The object of the last step of a run.
TreeOK ==
  /\ run.at = "root" => run.tree = Tree(run.entries)
  /\ run.at = "snapshot" => run.tree = RootTree(Tree(run.entries))
  /\ run.at \in Sealed => \E n \in Nat : run.tree = Snapshot(RootTree(Tree(run.entries)), n)

TypeOK == SourceOK /\ RunOK /\ BatchOK /\ CountsOK /\ TreeOK

--------------------------------------------------------------------------------
(* Lemmas about the operators *)

LEMMA RangeOfAppend ==
  ASSUME NEW S, NEW s \in Seq(S), NEW e \in S
  PROVE  Range(Append(s, e)) = Range(s) \cup {e} /\ Append(s, e) \in Seq(S)
<1>1. /\ DOMAIN Append(s, e) = 1 .. Len(s) + 1 /\ DOMAIN s = 1 .. Len(s) /\ Len(s) \in Nat
      /\ \A i \in 1 .. Len(s) : Append(s, e)[i] = s[i]
      /\ Append(s, e)[Len(s) + 1] = e /\ Append(s, e) \in Seq(S)
  OBVIOUS
<1>2. PICK n \in Nat : n = Len(s)
  BY <1>1
<1>3. PICK t : t = Append(s, e)
  OBVIOUS
<1>4. /\ DOMAIN t = 1 .. n + 1 /\ DOMAIN s = 1 .. n /\ \A i \in 1 .. n : t[i] = s[i]
      /\ t[n + 1] = e
  BY <1>1, <1>2, <1>3
<1>5. Range(t) = Range(s) \cup {e}
  BY <1>4 DEF Range
<1>6. QED
  BY <1>1, <1>3, <1>5

LEMMA RangeOfTail ==
  ASSUME NEW S, NEW s \in Seq(S), s # << >>
  PROVE  /\ Range(s) = {Head(s)} \cup Range(Tail(s)) /\ Tail(s) \in Seq(S) /\ Head(s) \in S
<1>1. /\ DOMAIN s = 1 .. Len(s) /\ Len(s) \in Nat \ {0} /\ Head(s) = s[1] /\ Head(s) \in S
      /\ Tail(s) \in Seq(S) /\ DOMAIN Tail(s) = 1 .. Len(s) - 1
      /\ \A i \in 1 .. Len(s) - 1 : Tail(s)[i] = s[i + 1]
  OBVIOUS
<1>2. PICK n \in Nat \ {0} : n = Len(s)
  BY <1>1
<1>3. PICK t : t = Tail(s)
  OBVIOUS
<1>4. DOMAIN s = 1 .. n /\ DOMAIN t = 1 .. n - 1 /\ \A i \in 1 .. n - 1 : t[i] = s[i + 1]
  BY <1>1, <1>2, <1>3
<1>5. Range(s) \subseteq {s[1]} \cup Range(t)
  <2>1. SUFFICES ASSUME NEW i \in 1 .. n, i # 1 PROVE s[i] \in Range(t)
    BY <1>4 DEF Range
  <2>2. i - 1 \in 1 .. n - 1 /\ s[i] = t[i - 1]
    BY <1>4, <2>1
  <2>3. QED BY <1>4, <2>2 DEF Range
<1>6. {s[1]} \cup Range(t) \subseteq Range(s)
  <2>1. ASSUME NEW i \in 1 .. n - 1 PROVE t[i] \in Range(s)
    BY <1>4 DEF Range
  <2>2. s[1] \in Range(s)
    BY <1>4 DEF Range
  <2>3. QED BY <1>4, <2>1, <2>2 DEF Range
<1>7. QED
  BY <1>1, <1>3, <1>5, <1>6

LEMMA RangeOfNone == Range(<< >>) = {}
BY DEF Range

LEMMA KindsDiffer ==
  ASSUME NEW c
  PROVE  /\ \A r, n : ChunkObject(c) # Snapshot(r, n)
         /\ ChunkObject(c).kind = "chunk" /\ \A r, n : Snapshot(r, n).kind = "snapshot"
BY DEF ChunkObject, Snapshot

LEMMA ReachOf ==
  ASSUME NEW es, NEW n, NEW s, s = Snapshot(RootTree(Tree(es)), n), NEW o \in Reach(s)
  PROVE  \/ o \in {s, RootTree(Tree(es)), Tree(es)}
         \/ \E e \in Range(es) : o = Blob(e.chunks) \/ \E c \in Range(e.chunks) : o = ChunkObject(c)
<1>1. s.of[1] = RootTree(Tree(es))
  BY DEF Snapshot
<1>2. RootTree(Tree(es)).of = Tree(es) /\ Tree(es).of = es
  BY DEF RootTree, Tree
<1>3. \/ o \in {s, RootTree(Tree(es)), Tree(es)}
      \/ o \in {Blob(e.chunks) : e \in Range(es)}
      \/ o \in {ChunkObject(c) : c \in UNION {Range(b.of) : b \in {Blob(e.chunks) : e \in Range(es)}}}
  BY <1>1, <1>2 DEF Reach
<1>4. \A e \in Range(es) : Blob(e.chunks).of = e.chunks
  BY DEF Blob
<1>5. QED
  BY <1>3, <1>4

LEMMA EntriesOf ==
  ASSUME NEW es, NEW n, NEW s, s = Snapshot(RootTree(Tree(es)), n)
  PROVE  s.of[1].of.of = es
BY DEF Snapshot, RootTree, Tree

LEMMA GroupedType ==
  ASSUME group \in Seq(Objects), NEW o \in Objects
  PROVE  /\ Grouped(o) \in Seq(Objects)
         /\ Range(Grouped(o)) = IF NeedsFile(o) THEN Range(group) \cup {o} ELSE Range(group)
<1>1. CASE NeedsFile(o)
  BY <1>1, RangeOfAppend DEF Grouped
<1>2. CASE ~NeedsFile(o)
  BY <1>2 DEF Grouped
<1>3. QED
  BY <1>1, <1>2

LEMMA CurrentType ==
  ASSUME SourceOK, NEW i \in DOMAIN Walked
  PROVE  /\ Walked[i] \in Path /\ source[Walked[i]] \in [version : 1 .. Len(Version[Walked[i]]), gone : BOOLEAN]
         /\ source[Walked[i]].version \in DOMAIN Version[Walked[i]]
         /\ Content(Walked[i]) \in Seq(Chunk)
<1>1. Walked[i] \in Path
  BY CommitAssumption
<1>2. source[Walked[i]] \in [version : 1 .. Len(Version[Walked[i]]), gone : BOOLEAN]
  BY <1>1 DEF SourceOK
<1>3. source[Walked[i]].version \in 1 .. Len(Version[Walked[i]])
  BY <1>2
<1>4. Version[Walked[i]] \in Seq(Seq(Chunk))
  BY <1>1, CommitAssumption
<1>5. Content(Walked[i]) \in Seq(Chunk)
  BY <1>3, <1>4 DEF Content
<1>6. QED
  BY <1>1, <1>2, <1>3, <1>4, <1>5

--------------------------------------------------------------------------------
(* What each step does to the run *)

LEMMA NextPathFields ==
  ASSUME NEW r, DOMAIN r = Fields, NEW q, q = NextPath(r)
  PROVE  /\ DOMAIN q = Fields /\ q.at = "stat" /\ q.no = r.no + 1 /\ q.attempt = 0
         /\ q.pos = << >> /\ q.new = {} /\ q.before = r.before /\ q.reachable = r.reachable
         /\ q.dropped = r.dropped /\ q.dirty = r.dirty /\ q.entries = r.entries
         /\ q.tree = r.tree /\ q.there = r.there /\ q.ended = r.ended
BY DEF NextPath, Fields

LEMMA DirtyFields ==
  ASSUME NEW r, DOMAIN r = Fields, NEW o, NEW q, q = Dirty(r, o)
  PROVE  /\ DOMAIN q = Fields /\ q.at = r.at /\ q.no = r.no /\ q.attempt = r.attempt
         /\ q.pos = r.pos /\ q.new = r.new /\ q.before = r.before /\ q.reachable = r.reachable
         /\ q.dropped = r.dropped /\ q.entries = r.entries
         /\ q.tree = r.tree /\ q.there = r.there /\ q.ended = r.ended
         /\ q.dirty = IF NeedsFile(o) THEN r.dirty \cup {o} ELSE r.dirty
<1>1. CASE NeedsFile(o)
  BY <1>1 DEF Dirty, Fields
<1>2. CASE ~NeedsFile(o)
  BY <1>2 DEF Dirty
<1>3. QED
  BY <1>1, <1>2

LEMMA DropFields ==
  ASSUME NEW r, DOMAIN r = Fields, NEW q, q = Drop(r)
  PROVE  /\ DOMAIN q = Fields /\ q.at = r.at /\ q.no = r.no /\ q.attempt = r.attempt
         /\ q.pos = r.pos /\ q.new = r.new /\ q.before = r.before /\ q.reachable = r.reachable
         /\ q.dirty = r.dirty /\ q.entries = r.entries
         /\ q.tree = r.tree /\ q.there = r.there /\ q.ended = r.ended
         /\ q.dropped = r.dropped \cup r.new
BY DEF Drop, Fields

ChunksOf(pos) == {ChunkObject(c) : c \in Range(pos)}

LEMMA KeepFields ==
  ASSUME NEW r, DOMAIN r = Fields, NEW q, q = Keep(r)
  PROVE  /\ DOMAIN q = Fields /\ q.at = r.at /\ q.no = r.no /\ q.attempt = r.attempt
         /\ q.pos = r.pos /\ q.new = r.new /\ q.before = r.before
         /\ q.dirty = r.dirty /\ q.entries = r.entries
         /\ q.tree = r.tree /\ q.there = r.there /\ q.ended = r.ended
         /\ q.reachable = r.reachable \cup ChunksOf(r.pos) \cup {Blob(r.pos)}
         /\ q.dropped = r.dropped \ ChunksOf(r.pos)
<1>1. q = [r EXCEPT !.reachable = @ \cup ChunksOf(r.pos) \cup {Blob(r.pos)},
                    !.dropped = @ \ ChunksOf(r.pos)]
  BY DEF Keep, ChunksOf
<1>2. QED
  BY <1>1 DEF Fields

\* What every step of a run keeps, up to its end.
SameRun ==
  /\ DOMAIN run' = Fields /\ run'.there = run.there /\ run'.ended = run.ended

\* A read of the walk ends, or is begun again, without an entry.
Passes ==
  /\ SameRun /\ run'.pos = << >> /\ run'.new = {} /\ run'.dirty = run.dirty
  /\ run'.reachable = run.reachable /\ run'.entries = run.entries /\ run'.tree = run.tree
  /\ run'.dropped \in {run.dropped, run.dropped \cup run.new}
  /\ run.new # {} => run'.dropped = run.dropped \cup run.new
  /\ group' = group

Wait == UNCHANGED <<objects, log, complete, refs, flush, commits, stops, power>>

\* One object is written, or counts as written.
Puts(o) ==
  /\ group' = Grouped(o)
  /\ run'.dirty = IF NeedsFile(o) THEN run.dirty \cup {o} ELSE run.dirty

LEMMA StatBeforeRun ==
  ASSUME RunOK, StatBefore
  PROVE  /\ run.at = "stat" /\ run.no <= Len(Walked) /\ Passes /\ Wait /\ UNCHANGED <<source, errors>>
         /\ \/ run'.at = "stat" /\ run'.no = run.no + 1
            \/ run'.at = "read" /\ run'.no = run.no /\ run'.before = source[Current].version
<1>1. run.at = "stat" /\ run.no <= Len(Walked) /\ Wait /\ UNCHANGED <<source, errors, group>>
  BY DEF StatBefore, Wait, objects, repo, bounds
<1>2. CASE source[Current].gone
  BY <1>1, <1>2, NextPathFields DEF StatBefore, RunOK, Passes, SameRun
<1>3. CASE ~source[Current].gone
  <2>1. run' = [run EXCEPT !.at = "read", !.before = source[Current].version]
    BY <1>3 DEF StatBefore
  <2>2. DOMAIN run = Fields /\ run.pos = << >> /\ run.new = {}
    BY <1>1 DEF RunOK
  <2>3. QED BY <1>1, <2>1, <2>2 DEF Passes, SameRun, Fields
<1>4. QED
  BY <1>2, <1>3

NextChunk == Content(Current)[Len(run.pos) + 1]

\* The chunk that a read takes has a file or gets one, or a disc has it.
LEMMA ReadChunkRun ==
  ASSUME RunOK, ReadChunk, NEW c, c = NextChunk
  PROVE  /\ run.at = "read" /\ Len(run.pos) < Len(Content(Current)) /\ Wait /\ UNCHANGED <<source, errors>>
         /\ SameRun /\ run'.at = "read" /\ run'.no = run.no /\ run'.before = run.before
         /\ run'.pos = Append(run.pos, c) /\ run'.reachable = run.reachable
         /\ run'.dropped = run.dropped /\ run'.entries = run.entries /\ run'.tree = run.tree
         /\ \/ OnDisc(c) /\ group' = group /\ run'.dirty = run.dirty /\ run'.new = run.new
            \/ /\ Puts(ChunkObject(c))
               /\ run'.new = IF NeedsFile(ChunkObject(c)) THEN run.new \cup {ChunkObject(c)} ELSE run.new
<1>1. run.at = "read" /\ Len(run.pos) < Len(Content(Current)) /\ Wait /\ UNCHANGED <<source, errors>>
  BY DEF ReadChunk, Wait, objects, repo, bounds
<1>2. PICK o : o = ChunkObject(c)
  OBVIOUS
<1>3. PICK r : r = [run EXCEPT !.pos = Append(@, c)]
  OBVIOUS
<1>4. /\ DOMAIN r = Fields /\ r.at = run.at /\ r.no = run.no /\ r.before = run.before
      /\ r.pos = Append(run.pos, c) /\ r.reachable = run.reachable /\ r.dropped = run.dropped
      /\ r.entries = run.entries /\ r.tree = run.tree /\ r.dirty = run.dirty /\ r.new = run.new
      /\ r.there = run.there /\ r.ended = run.ended
  BY <1>3 DEF RunOK, Fields
<1>5. CASE OnDisc(c) \/ ~NeedsFile(o)
  <2>1. run' = r /\ group' = group
    BY <1>2, <1>3, <1>5 DEF ReadChunk, NextChunk
  <2>2. ~NeedsFile(o) => Puts(o) /\ run'.new = run.new
    BY <1>4, <2>1 DEF Puts, Grouped
  <2>3. QED BY <1>1, <1>2, <1>4, <1>5, <2>1, <2>2 DEF SameRun
<1>6. CASE ~OnDisc(c) /\ NeedsFile(o)
  <2>1. PICK q : q = [r EXCEPT !.new = @ \cup {o}]
    OBVIOUS
  <2>2. run' = Dirty(q, o) /\ group' = Grouped(o)
    BY <1>2, <1>3, <1>6, <2>1 DEF ReadChunk, NextChunk
  <2>3. /\ DOMAIN q = Fields /\ q.at = run.at /\ q.no = run.no /\ q.before = run.before
        /\ q.pos = Append(run.pos, c) /\ q.reachable = run.reachable /\ q.dropped = run.dropped
        /\ q.entries = run.entries /\ q.tree = run.tree /\ q.dirty = run.dirty /\ q.new = run.new \cup {o}
        /\ q.there = run.there /\ q.ended = run.ended
    BY <1>4, <2>1 DEF Fields
  <2>4. /\ DOMAIN run' = Fields /\ run'.at = q.at /\ run'.no = q.no /\ run'.before = q.before
        /\ run'.pos = q.pos /\ run'.reachable = q.reachable /\ run'.dropped = q.dropped
        /\ run'.entries = q.entries /\ run'.tree = q.tree /\ run'.new = q.new
        /\ run'.there = q.there /\ run'.ended = q.ended
        /\ run'.dirty = IF NeedsFile(o) THEN q.dirty \cup {o} ELSE q.dirty
    <3>1. DOMAIN q = Fields
      BY <2>3
    <3>2. QED BY <2>2, <3>1, DirtyFields
  <2>5. Puts(o) /\ SameRun
    BY <2>2, <2>3, <2>4 DEF Puts, SameRun
  <2>6. run'.new = IF NeedsFile(o) THEN run.new \cup {o} ELSE run.new
    BY <1>6, <2>3, <2>4
  <2>7. QED BY <1>1, <1>2, <2>3, <2>4, <2>5, <2>6
<1>7. QED
  BY <1>5, <1>6

LEMMA DropRun ==
  ASSUME RunOK, run' = NextPath(Drop(run)), group' = group
  PROVE  Passes /\ run'.at = "stat" /\ run'.no = run.no + 1
<1>1. PICK r : r = Drop(run)
  OBVIOUS
<1>2. DOMAIN run = Fields
  BY DEF RunOK
<1>3. /\ DOMAIN r = Fields /\ r.no = run.no /\ r.reachable = run.reachable /\ r.dirty = run.dirty
      /\ r.entries = run.entries /\ r.tree = run.tree /\ r.there = run.there /\ r.ended = run.ended
      /\ r.dropped = run.dropped \cup run.new
  BY <1>1, <1>2, DropFields
<1>4. run' = NextPath(r)
  BY <1>1
<1>5. QED
  BY <1>3, <1>4, NextPathFields DEF Passes, SameRun

LEMMA ReadFailsRun ==
  ASSUME RunOK, ReadFails
  PROVE  /\ run.at = "read" /\ Passes /\ run'.at = "stat" /\ run'.no = run.no + 1
         /\ Wait /\ source' = source /\ errors' \in {errors, errors + 1}
<1>1. run.at = "read" /\ run' = NextPath(Drop(run)) /\ group' = group
  BY DEF ReadFails
<1>2. Wait /\ source' = source /\ errors' \in {errors, errors + 1}
  BY DEF ReadFails, Wait, objects, repo
<1>3. QED
  BY <1>1, <1>2, DropRun

LEMMA StatAfterRun ==
  ASSUME RunOK, StatAfter, NEW e, e = [path |-> Current, chunks |-> run.pos, unstable |-> Differs]
  PROVE  /\ run.at = "read" /\ Len(run.pos) >= Len(Content(Current)) /\ Wait /\ UNCHANGED <<source, errors>>
         /\ \/ /\ SameRun /\ run'.at = "stat" /\ run'.no = run.no + 1
               /\ run'.pos = << >> /\ run'.new = {} /\ run'.tree = run.tree
               /\ run'.entries = Append(run.entries, e)
               /\ run'.reachable = run.reachable \cup ChunksOf(run.pos) \cup {Blob(run.pos)}
               /\ run'.dropped = run.dropped \ ChunksOf(run.pos)
               /\ Puts(Blob(run.pos))
            \/ Passes /\ run'.at = "stat" /\ run'.no = run.no + 1
            \/ Passes /\ run'.at = "read" /\ run'.no = run.no /\ run'.before = source[Current].version
<1>1. run.at = "read" /\ Len(run.pos) >= Len(Content(Current)) /\ Wait /\ UNCHANGED <<source, errors>>
  BY DEF StatAfter, Wait, objects, repo, bounds
<1>2. DOMAIN run = Fields
  BY DEF RunOK
<1>3. CASE ~Differs \/ run.attempt >= RetryUnstable
  <2>1. PICK k : k = Keep(run)
    OBVIOUS
  <2>2. PICK a : a = [k EXCEPT !.entries = Append(@, e)]
    OBVIOUS
  <2>3. PICK n : n = NextPath(a)
    OBVIOUS
  <2>4. run' = Dirty(n, Blob(run.pos)) /\ group' = Grouped(Blob(run.pos))
    BY <1>3, <2>1, <2>2, <2>3 DEF StatAfter
  <2>5. /\ DOMAIN k = Fields /\ k.no = run.no /\ k.dirty = run.dirty /\ k.entries = run.entries
        /\ k.tree = run.tree /\ k.there = run.there /\ k.ended = run.ended
        /\ k.reachable = run.reachable \cup ChunksOf(run.pos) \cup {Blob(run.pos)}
        /\ k.dropped = run.dropped \ ChunksOf(run.pos)
    BY <1>2, <2>1, KeepFields
  <2>6. /\ DOMAIN a = Fields /\ a.no = k.no /\ a.dirty = k.dirty /\ a.entries = Append(k.entries, e)
        /\ a.tree = k.tree /\ a.there = k.there /\ a.ended = k.ended
        /\ a.reachable = k.reachable /\ a.dropped = k.dropped
    BY <2>2, <2>5 DEF Fields
  <2>7. /\ DOMAIN n = Fields /\ n.at = "stat" /\ n.no = run.no + 1 /\ n.pos = << >> /\ n.new = {}
        /\ n.dirty = run.dirty /\ n.entries = Append(run.entries, e)
        /\ n.tree = run.tree /\ n.there = run.there /\ n.ended = run.ended
        /\ n.reachable = k.reachable /\ n.dropped = k.dropped
    BY <2>3, <2>5, <2>6, NextPathFields
  <2>8. PICK o : o = Blob(run.pos)
    OBVIOUS
  <2>9. run' = Dirty(n, o) /\ group' = Grouped(o)
    BY <2>4, <2>8
  <2>10. /\ DOMAIN run' = Fields /\ run'.at = n.at /\ run'.no = n.no /\ run'.pos = n.pos
         /\ run'.reachable = n.reachable /\ run'.dropped = n.dropped
         /\ run'.entries = n.entries /\ run'.tree = n.tree /\ run'.new = n.new
         /\ run'.there = n.there /\ run'.ended = n.ended
         /\ run'.dirty = IF NeedsFile(o) THEN n.dirty \cup {o} ELSE n.dirty
    <3>1. DOMAIN n = Fields
      BY <2>7
    <3>2. QED BY <2>9, <3>1, DirtyFields
  <2>11. Puts(o) /\ SameRun
    BY <2>7, <2>9, <2>10 DEF Puts, SameRun
  <2>12. QED BY <1>1, <2>5, <2>7, <2>8, <2>10, <2>11
<1>4. CASE ~(~Differs \/ run.attempt >= RetryUnstable) /\ source[Current].gone
  <2>1. run' = NextPath(Drop(run)) /\ group' = group
    BY <1>4 DEF StatAfter
  <2>2. QED BY <1>1, <2>1, DropRun
<1>5. CASE ~(~Differs \/ run.attempt >= RetryUnstable) /\ ~source[Current].gone
  <2>1. PICK d : d = Drop(run)
    OBVIOUS
  <2>2. run' = [d EXCEPT !.attempt = @ + 1, !.pos = << >>, !.new = {}, !.before = source[Current].version]
        /\ group' = group
    BY <1>5, <2>1 DEF StatAfter
  <2>3. /\ DOMAIN d = Fields /\ d.at = run.at /\ d.no = run.no /\ d.reachable = run.reachable
        /\ d.dirty = run.dirty /\ d.entries = run.entries /\ d.tree = run.tree /\ d.there = run.there
        /\ d.ended = run.ended /\ d.dropped = run.dropped \cup run.new
    BY <1>2, <2>1, DropFields
  <2>4. QED BY <1>1, <2>2, <2>3 DEF Passes, SameRun, Fields
<1>6. QED
  BY <1>3, <1>4, <1>5

\* The three last objects of the walk.
Wrote(o) ==
  /\ SameRun /\ run'.tree = o /\ run'.no = run.no /\ run'.pos = run.pos /\ run'.new = run.new
  /\ run'.dropped = run.dropped /\ run'.entries = run.entries
  /\ Puts(o) /\ Wait /\ UNCHANGED <<source, errors>>

LEMMA WriteTreeRun ==
  ASSUME RunOK, WriteTree, NEW o, o = Tree(run.entries)
  PROVE  /\ run.at = "stat" /\ run'.at = "root" /\ Wrote(o) /\ run'.reachable = run.reachable \cup {o}
<1>1. PICK r : r = [run EXCEPT !.at = "root", !.tree = o, !.reachable = @ \cup {o}]
  OBVIOUS
<1>2. run' = Dirty(r, o) /\ group' = Grouped(o) /\ run.at = "stat" /\ Wait /\ UNCHANGED <<source, errors>>
  BY <1>1 DEF WriteTree, Wait, objects, repo, bounds
<1>3. /\ DOMAIN r = Fields /\ r.at = "root" /\ r.tree = o /\ r.reachable = run.reachable \cup {o}
      /\ r.no = run.no /\ r.pos = run.pos /\ r.new = run.new /\ r.dropped = run.dropped
      /\ r.entries = run.entries /\ r.dirty = run.dirty /\ r.there = run.there /\ r.ended = run.ended
  BY <1>1 DEF RunOK, Fields
<1>4. QED
  BY <1>2, <1>3, DirtyFields DEF Wrote, SameRun, Puts

LEMMA WriteRootRun ==
  ASSUME RunOK, WriteRootTree, NEW o, o = RootTree(run.tree)
  PROVE  /\ run.at = "root" /\ run'.at = "snapshot" /\ Wrote(o) /\ run'.reachable = run.reachable \cup {o}
<1>1. PICK r : r = [run EXCEPT !.at = "snapshot", !.tree = o, !.reachable = @ \cup {o}]
  OBVIOUS
<1>2. run' = Dirty(r, o) /\ group' = Grouped(o) /\ run.at = "root" /\ Wait /\ UNCHANGED <<source, errors>>
  BY <1>1 DEF WriteRootTree, Wait, objects, repo, bounds
<1>3. /\ DOMAIN r = Fields /\ r.at = "snapshot" /\ r.tree = o /\ r.reachable = run.reachable \cup {o}
      /\ r.no = run.no /\ r.pos = run.pos /\ r.new = run.new /\ r.dropped = run.dropped
      /\ r.entries = run.entries /\ r.dirty = run.dirty /\ r.there = run.there /\ r.ended = run.ended
  BY <1>1 DEF RunOK, Fields
<1>4. QED
  BY <1>2, <1>3, DirtyFields DEF Wrote, SameRun, Puts

LEMMA WriteSnapshotRun ==
  ASSUME RunOK, WriteSnapshot, NEW o, o = Snapshot(run.tree, commits)
  PROVE  /\ run.at = "snapshot" /\ run'.at = "flush" /\ Wrote(o) /\ run'.reachable = run.reachable
<1>1. PICK r : r = [run EXCEPT !.at = "flush", !.tree = o]
  OBVIOUS
<1>2. run' = Dirty(r, o) /\ group' = Grouped(o) /\ run.at = "snapshot" /\ Wait /\ UNCHANGED <<source, errors>>
  BY <1>1 DEF WriteSnapshot, Wait, objects, repo, bounds
<1>3. /\ DOMAIN r = Fields /\ r.at = "flush" /\ r.tree = o /\ r.reachable = run.reachable
      /\ r.no = run.no /\ r.pos = run.pos /\ r.new = run.new /\ r.dropped = run.dropped
      /\ r.entries = run.entries /\ r.dirty = run.dirty /\ r.there = run.there /\ r.ended = run.ended
  BY <1>1 DEF RunOK, Fields
<1>4. QED
  BY <1>2, <1>3, DirtyFields DEF Wrote, SameRun, Puts

\* The next step of the end of a commit.
Moves(at) ==
  /\ SameRun /\ run'.at = at /\ run'.tree = run.tree /\ run'.no = run.no /\ run'.pos = run.pos
  /\ run'.new = run.new /\ run'.dropped = run.dropped /\ run'.entries = run.entries
  /\ run'.dirty = run.dirty /\ run'.reachable = run.reachable

LEMMA MovesFields ==
  ASSUME RunOK, NEW at, run' = [run EXCEPT !.at = at]
  PROVE  Moves(at)
BY DEF RunOK, Fields, Moves, SameRun

\* A commit that ends, in one way or another.
Over ==
  /\ DOMAIN run' = Fields /\ run'.at = "idle" /\ run'.no = 0 /\ run'.pos = << >> /\ run'.new = {}
  /\ run'.reachable = {} /\ run'.dropped = {} /\ run'.dirty = {} /\ run'.entries = << >>
  /\ run'.ended \in {"no", "failed", "ok"}

LEMMA OverFields ==
  /\ run' = NoRun => Over /\ run'.ended = "no"
  /\ run' = Failed => Over /\ run'.ended = "failed"
  /\ run' = [NoRun EXCEPT !.there = run.there, !.ended = "ok"] => Over /\ run'.there = run.there /\ run'.ended = "ok"
<1>1. PICK r : r = NoRun
  OBVIOUS
<1>2. /\ DOMAIN r = Fields /\ r.at = "idle" /\ r.no = 0 /\ r.pos = << >> /\ r.new = {}
      /\ r.reachable = {} /\ r.dropped = {} /\ r.dirty = {} /\ r.entries = << >> /\ r.ended = "no"
  BY <1>1 DEF NoRun, Fields
<1>3. run' = NoRun => Over /\ run'.ended = "no"
  BY <1>1, <1>2 DEF Over
<1>4. run' = Failed => Over /\ run'.ended = "failed"
  <2>1. Failed = [r EXCEPT !.ended = "failed"]
    BY <1>1 DEF Failed
  <2>2. QED BY <1>2, <2>1 DEF Over, Fields
<1>5. run' = [NoRun EXCEPT !.there = run.there, !.ended = "ok"] => Over /\ run'.there = run.there /\ run'.ended = "ok"
  <2>1. SUFFICES ASSUME run' = [r EXCEPT !.there = run.there, !.ended = "ok"]
                 PROVE  Over /\ run'.there = run.there /\ run'.ended = "ok"
    BY <1>1
  <2>2. QED BY <1>2, <2>1 DEF Over, Fields
<1>6. QED
  BY <1>3, <1>4, <1>5

LEMMA BeginFields ==
  ASSUME Begin
  PROVE  /\ DOMAIN run' = Fields /\ run.at = "idle" /\ run'.at = "stat" /\ run'.no = 1 /\ run'.pos = << >>
         /\ run'.new = {} /\ run'.reachable = {} /\ run'.dropped = {} /\ run'.dirty = {}
         /\ run'.entries = << >> /\ run'.there = named /\ run'.ended = "no"
BY DEF Begin, NoRun, Fields

--------------------------------------------------------------------------------
(* Types *)

LEMMA InitTypes == Init => TypeOK
<1> SUFFICES ASSUME Init PROVE TypeOK
  OBVIOUS
<1>1. SourceOK
  <2>1. \A p \in Path : Version[p] \in Seq(Seq(Chunk)) /\ Version[p] # << >>
    BY CommitAssumption
  <2>2. \A p \in Path : 1 \in 1 .. Len(Version[p])
    BY <2>1
  <2>3. QED BY <2>2 DEF Init, SourceOK
<1>2. RunOK /\ TreeOK
  BY DEF Init, NoRun, RunOK, TreeOK, Fields, Walking, Sealed
<1>3. BatchOK /\ CountsOK
  BY <1>2 DEF Init, NoFlush, BatchOK, CountsOK
<1>4. QED
  BY <1>1, <1>2, <1>3 DEF TypeOK

LEMMA EntryType ==
  ASSUME TypeOK, run.at = "read", NEW e, e = [path |-> Current, chunks |-> run.pos, unstable |-> Differs]
  PROVE  e \in Entry /\ e.path = Current /\ e.chunks = run.pos /\ (e.unstable <=> Differs)
<1>1. Current \in Path /\ run.pos \in Seq(Chunk) /\ Differs \in BOOLEAN
  <2>1. run.no \in DOMAIN Walked /\ run.pos \in Seq(Chunk)
    BY DEF TypeOK, RunOK
  <2>2. source[Current].gone \in BOOLEAN
    BY <2>1, CurrentType DEF TypeOK, Current
  <2>3. QED BY <2>1, <2>2, CurrentType DEF TypeOK, Current, Differs
<1>2. PICK b \in BOOLEAN : b = Differs
  BY <1>1
<1>3. e = [path |-> Current, chunks |-> run.pos, unstable |-> b]
  BY <1>2
<1>4. QED
  BY <1>1, <1>2, <1>3 DEF Entry

LEMMA NextChunkType ==
  ASSUME TypeOK, ReadChunk
  PROVE  NextChunk \in Chunk /\ run.no \in DOMAIN Walked
<1>1. run.at = "read" /\ Len(run.pos) < Len(Content(Current))
  BY DEF ReadChunk
<1>2. run.no \in DOMAIN Walked /\ run.pos \in Seq(Chunk)
  BY <1>1 DEF TypeOK, RunOK
<1>3. PICK t \in Seq(Chunk) : t = Content(Current)
  BY <1>2, CurrentType DEF TypeOK, Current
<1>4. PICK n \in Nat : n = Len(run.pos)
  BY <1>2
<1>5. t[n + 1] \in Chunk
  BY <1>1, <1>3, <1>4
<1>6. QED
  BY <1>2, <1>3, <1>4, <1>5 DEF NextChunk

\* The objects that the walk writes.
LEMMA WrittenObjects ==
  ASSUME TypeOK
  PROVE  /\ \A c \in Chunk : ChunkObject(c) \in Objects
         /\ Blob(run.pos) \in Objects
         /\ Tree(run.entries) \in Objects
         /\ run.at = "root" => RootTree(run.tree) \in Objects
         /\ run.at = "snapshot" => Snapshot(run.tree, commits) \in Objects
<1>1. run.pos \in Seq(Chunk) /\ Tree(run.entries) \in Trees /\ commits \in Nat
  BY DEF TypeOK, RunOK, CountsOK, Trees
<1>2. RootTree(Tree(run.entries)) \in Roots
  BY <1>1 DEF Roots
<1>3. (run.at = "root" => run.tree = Tree(run.entries)) /\ (run.at = "snapshot" => run.tree = RootTree(Tree(run.entries)))
  BY DEF TypeOK, TreeOK
<1>4. QED
  BY <1>1, <1>2, <1>3 DEF Objects

LEMMA PutsTypes ==
  ASSUME BatchOK, NEW o \in Objects, Puts(o), flush' = flush,
         run'.at \notin {"idle", "remove", "sync", "record", "complete", "ref"}
  PROVE  BatchOK'
BY GroupedType DEF BatchOK, Puts

LEMMA PassesTypes ==
  ASSUME TypeOK, run.at \in Walking, Passes, flush' = flush,
         \/ run'.at = "stat" /\ run'.no = run.no + 1
         \/ run'.at = "read" /\ run'.no = run.no /\ run.no <= Len(Walked)
  PROVE  RunOK' /\ BatchOK' /\ TreeOK'
<1>1. run.no \in Nat \ {0} /\ Len(Walked) \in Nat /\ DOMAIN Walked = 1 .. Len(Walked)
  BY CommitAssumption DEF TypeOK, RunOK
<1>2. RunOK'
  BY <1>1 DEF TypeOK, RunOK, Passes, SameRun, Walking, Sealed
<1>3. TreeOK'
  BY DEF TreeOK, Walking, Sealed
<1>4. BatchOK'
  BY DEF TypeOK, BatchOK, Passes
<1>5. QED
  BY <1>2, <1>3, <1>4

LEMMA WroteTypes ==
  ASSUME TypeOK, NEW o \in Objects, Wrote(o), run.at \notin {"idle", "read"},
         run'.at \in {"root", "snapshot", "flush"},
         run'.at = "root" => o = Tree(run.entries),
         run'.at = "snapshot" => o = RootTree(Tree(run.entries)),
         run'.at = "flush" => \E n \in Nat : o = Snapshot(RootTree(Tree(run.entries)), n)
  PROVE  RunOK' /\ BatchOK' /\ TreeOK'
<1>1. RunOK'
  BY DEF TypeOK, RunOK, Wrote, SameRun, Walking, Sealed
<1>2. TreeOK'
  BY DEF TreeOK, Wrote, Sealed
<1>3. BatchOK'
  BY PutsTypes DEF TypeOK, Wrote, Wait
<1>4. QED
  BY <1>1, <1>2, <1>3

LEMMA MovesTypes ==
  ASSUME TypeOK, run.at \in Sealed, NEW at \in Sealed, Moves(at), group' = group, flush' = flush,
         at # "flush" => group = << >> /\ flush.phase = "none"
  PROVE  RunOK' /\ BatchOK' /\ TreeOK'
<1>1. RunOK'
  BY DEF TypeOK, RunOK, Moves, SameRun, Walking, Sealed
<1>2. TreeOK'
  BY DEF TypeOK, TreeOK, Moves, Sealed
<1>3. BatchOK'
  BY DEF TypeOK, BatchOK, Moves, Sealed
<1>4. QED
  BY <1>1, <1>2, <1>3

LEMMA OverTypes ==
  ASSUME TypeOK, Over, group' = << >>, flush' = NoFlush
  PROVE  RunOK' /\ BatchOK' /\ TreeOK'
<1>1. RunOK' /\ TreeOK'
  BY DEF RunOK, TreeOK, Over, Walking, Sealed
<1>2. BatchOK'
  BY DEF BatchOK, NoFlush
<1>3. QED
  BY <1>1, <1>2

LEMMA IdleBatch ==
  ASSUME TypeOK, run.at \in {"idle", "remove", "sync", "record", "complete", "ref"}
  PROVE  group = << >> /\ flush.phase = "none" /\ flush.files = << >> /\ flush = NoFlush
<1>1. group = << >> /\ flush.phase = "none" /\ flush.files = << >>
      /\ flush \in [files : Seq(Objects), phase : {"none", "sync", "rename", "failed"}]
  BY DEF TypeOK, BatchOK
<1>2. flush = NoFlush
  BY <1>1 DEF NoFlush
<1>3. QED
  BY <1>1, <1>2

LEMMA SameRunTypes == RunOK /\ TreeOK /\ run' = run => RunOK' /\ TreeOK'
BY DEF RunOK, TreeOK, Walking, Sealed

LEMMA FlushTypes ==
  ASSUME TypeOK, StartFlush \/ FlushSync \/ FlushRename \/ FlushFails \/ FlushDone
  PROVE  RunOK' /\ BatchOK' /\ TreeOK'
<1>1. CASE StartFlush
  <2>1. run.at \notin {"idle", "remove", "sync", "record", "complete", "ref"}
    <3>1. group # << >>
      BY <1>1, CommitAssumption DEF StartFlush
    <3>2. QED BY <3>1, IdleBatch
  <2>2. run' = run /\ group' = << >> /\ flush' = [files |-> group, phase |-> "sync"]
    BY <1>1 DEF StartFlush
  <2>3. BatchOK'
    BY <2>1, <2>2 DEF TypeOK, BatchOK
  <2>4. QED BY <2>2, <2>3, SameRunTypes DEF TypeOK
<1>2. CASE FlushSync
  <2>1. run' = run /\ group' = group /\ flush' = [flush EXCEPT !.phase = "rename"] /\ flush.phase = "sync"
    BY <1>2 DEF FlushSync
  <2>2. BatchOK'
    BY <2>1 DEF TypeOK, BatchOK
  <2>3. QED BY <2>1, <2>2, SameRunTypes DEF TypeOK
<1>3. CASE FlushRename
  <2>1. /\ run' = run /\ group' = group /\ flush' = [flush EXCEPT !.files = Tail(@)]
        /\ flush.phase = "rename" /\ flush.files # << >>
    BY <1>3 DEF FlushRename
  <2>2. Tail(flush.files) \in Seq(Objects)
    BY <2>1, RangeOfTail DEF TypeOK, BatchOK
  <2>3. BatchOK'
    BY <2>1, <2>2 DEF TypeOK, BatchOK
  <2>4. QED BY <2>1, <2>3, SameRunTypes DEF TypeOK
<1>4. CASE FlushFails
  <2>1. /\ run' = run /\ group' = group /\ flush' = [files |-> << >>, phase |-> "failed"]
        /\ flush.phase \in {"sync", "rename"}
    BY <1>4 DEF FlushFails
  <2>2. BatchOK'
    BY <2>1 DEF TypeOK, BatchOK
  <2>3. QED BY <2>1, <2>2, SameRunTypes DEF TypeOK
<1>5. CASE FlushDone
  <2>1. flush' = NoFlush
    BY <1>5 DEF FlushDone
  <2>2. CASE flush.phase = "failed"
    <3>1. run' = Failed /\ group' = << >>
      BY <1>5, <2>2 DEF FlushDone
    <3>2. QED BY <2>1, <3>1, OverFields, OverTypes
  <2>3. CASE flush.phase # "failed"
    <3>1. run' = run /\ group' = group
      BY <1>5, <2>3 DEF FlushDone
    <3>2. BatchOK'
      BY <2>1, <3>1 DEF TypeOK, BatchOK, NoFlush
    <3>3. QED BY <3>1, <3>2, SameRunTypes DEF TypeOK
  <2>4. QED BY <2>2, <2>3
<1>6. QED
  BY <1>1, <1>2, <1>3, <1>4, <1>5

LEMMA WalkTypes ==
  ASSUME TypeOK, StatBefore \/ ReadChunk \/ ReadFails \/ StatAfter \/ WriteTree \/ WriteRootTree \/ WriteSnapshot
  PROVE  RunOK' /\ BatchOK' /\ TreeOK'
<1> RunOK
  BY DEF TypeOK
<1>0. run.at = "read" => run.no \in DOMAIN Walked /\ run.no <= Len(Walked)
  BY CommitAssumption DEF RunOK
<1>1. CASE StatBefore
  BY <1>1, StatBeforeRun, PassesTypes DEF Walking, Wait
<1>2. CASE ReadChunk
  <2>1. PICK c : c = NextChunk
    OBVIOUS
  <2>2. c \in Chunk /\ ChunkObject(c) \in Objects /\ run.no \in DOMAIN Walked
    BY <1>2, <2>1, NextChunkType, WrittenObjects
  <2>3. run'.at = "read" /\ run'.pos = Append(run.pos, c) /\ run'.no = run.no /\ SameRun /\ flush' = flush
        /\ run'.entries = run.entries /\ run.at = "read"
    BY <1>2, <2>1, ReadChunkRun DEF Wait
  <2>4. RunOK'
    BY <2>2, <2>3 DEF RunOK, SameRun, Walking, Sealed
  <2>5. TreeOK'
    BY <2>3 DEF TreeOK, Sealed
  <2>6. BatchOK'
    <3>1. CASE group' = group
      BY <2>3, <3>1 DEF TypeOK, BatchOK
    <3>2. CASE Puts(ChunkObject(c))
      BY <2>2, <2>3, <3>2, PutsTypes DEF TypeOK
    <3>3. QED BY <1>2, <2>1, <3>1, <3>2, ReadChunkRun
  <2>7. QED BY <2>4, <2>5, <2>6
<1>3. CASE ReadFails
  BY <1>3, ReadFailsRun, PassesTypes DEF Walking, Wait
<1>4. CASE StatAfter
  <2>1. PICK e : e = [path |-> Current, chunks |-> run.pos, unstable |-> Differs]
    OBVIOUS
  <2>2. run.at = "read" /\ flush' = flush
    BY <1>4, <2>1, StatAfterRun DEF Wait
  <2>3. CASE Passes
    BY <1>0, <1>4, <2>1, <2>2, <2>3, StatAfterRun, PassesTypes DEF Walking
  <2>4. CASE /\ SameRun /\ run'.at = "stat" /\ run'.no = run.no + 1
             /\ run'.pos = << >> /\ run'.new = {}
             /\ run'.entries = Append(run.entries, e) /\ Puts(Blob(run.pos))
    <3>1. e \in Entry
      BY <2>1, <2>2, EntryType
    <3>2. run'.entries \in Seq(Entry)
      BY <2>4, <3>1 DEF RunOK
    <3>3. RunOK' /\ TreeOK'
      BY <2>2, <2>4, <3>2 DEF RunOK, TreeOK, SameRun, Walking, Sealed
    <3>4. BatchOK'
      BY <2>2, <2>4, PutsTypes, WrittenObjects DEF TypeOK
    <3>5. QED BY <3>3, <3>4
  <2>5. QED BY <1>4, <2>1, <2>3, <2>4, StatAfterRun
<1>5. CASE WriteTree
  BY <1>5, WriteTreeRun, WrittenObjects, WroteTypes
<1>6. CASE WriteRootTree
  <2>1. run.at = "root" /\ run'.at = "snapshot" /\ Wrote(RootTree(run.tree))
    BY <1>6, WriteRootRun
  <2>2. run.tree = Tree(run.entries)
    BY <2>1 DEF TypeOK, TreeOK
  <2>3. QED BY <2>1, <2>2, WrittenObjects, WroteTypes
<1>7. CASE WriteSnapshot
  <2>1. run.at = "snapshot" /\ run'.at = "flush" /\ Wrote(Snapshot(run.tree, commits))
    BY <1>7, WriteSnapshotRun
  <2>2. run.tree = RootTree(Tree(run.entries)) /\ commits \in Nat
    BY <2>1 DEF TypeOK, TreeOK, CountsOK
  <2>3. QED BY <2>1, <2>2, WrittenObjects, WroteTypes
<1>8. QED
  BY <1>1, <1>2, <1>3, <1>4, <1>5, <1>6, <1>7

LEMMA EndTypes ==
  ASSUME TypeOK, FlushEnds \/ RemoveDropped \/ RemoveFails \/ SyncDirs \/ MarkStaged \/ MarkComplete \/ UpdateRef
  PROVE  RunOK' /\ BatchOK' /\ TreeOK'
<1> RunOK
  BY DEF TypeOK
<1>0. /\ run.at \in Sealed /\ group' = group /\ flush' = flush
      /\ group = << >> /\ flush.phase = "none" /\ flush = NoFlush
  <2>1. run.at \in Sealed /\ group' = group /\ flush' = flush
    BY DEF FlushEnds, RemoveDropped, RemoveFails, SyncDirs, MarkStaged, MarkComplete, UpdateRef, Sealed
  <2>2. /\ group = << >> /\ flush.phase = "none" /\ flush.files = << >>
        /\ flush \in [files : Seq(Objects), phase : {"none", "sync", "rename", "failed"}]
    <3>1. CASE run.at = "flush"
      BY <3>1 DEF FlushEnds, RemoveDropped, RemoveFails, SyncDirs, MarkStaged, MarkComplete, UpdateRef, TypeOK, BatchOK
    <3>2. QED BY <2>1, <3>1, IdleBatch DEF Sealed, TypeOK, BatchOK
  <2>3. flush = NoFlush
    BY <2>2 DEF NoFlush
  <2>4. QED BY <2>1, <2>2, <2>3
<1>1. ASSUME NEW at \in Sealed, run' = [run EXCEPT !.at = at] PROVE RunOK' /\ BatchOK' /\ TreeOK'
  BY <1>0, <1>1, MovesFields, MovesTypes
<1>2. CASE Over
  BY <1>0, <1>2, OverTypes
<1>3. CASE run' = run
  BY <1>0, <1>3, SameRunTypes DEF TypeOK, BatchOK
<1>4. CASE FlushEnds
  BY <1>1, <1>4 DEF FlushEnds, Sealed
<1>5. CASE RemoveDropped
  BY <1>1, <1>3, <1>5 DEF RemoveDropped, Sealed
<1>6. CASE SyncDirs
  BY <1>1, <1>2, <1>6, OverFields DEF SyncDirs, Sealed
<1>7. CASE MarkStaged
  BY <1>1, <1>7 DEF MarkStaged, Sealed
<1>8. CASE MarkComplete
  BY <1>1, <1>8 DEF MarkComplete, Sealed
<1>9. CASE UpdateRef
  BY <1>2, <1>9, OverFields DEF UpdateRef
<1>10. CASE RemoveFails
  BY <1>2, <1>10, OverFields DEF RemoveFails
<1>11. QED
  BY <1>4, <1>5, <1>6, <1>7, <1>8, <1>9, <1>10

LEMMA SourceTypes == TypeOK /\ [Next]_vars => SourceOK' /\ CountsOK'
<1> SUFFICES ASSUME TypeOK, [Next]_vars PROVE SourceOK' /\ CountsOK'
  OBVIOUS
<1>1. CountsOK'
  BY DEF TypeOK, CountsOK, Next, vars, bounds, Change, Vanish, StartFlush, FlushSync, FlushRename, FlushFails,
         FlushDone, Begin, StatBefore, ReadChunk, ReadFails, StatAfter, WriteTree, WriteRootTree,
         WriteSnapshot, FlushEnds, RemoveDropped, RemoveFails, SyncDirs, MarkStaged, MarkComplete, UpdateRef,
         Kill, PowerLoss
<1>2. CASE source' = source
  BY <1>1, <1>2 DEF TypeOK, SourceOK
<1>3. CASE Change
  <2>1. PICK p \in Path : source[p].version < Len(Version[p]) /\ source' = [source EXCEPT ![p].version = @ + 1]
    BY <1>3 DEF Change
  <2>2. Len(Version[p]) \in Nat
    BY CommitAssumption
  <2>3. PICK s : s = source[p]
    OBVIOUS
  <2>4. s \in [version : 1 .. Len(Version[p]), gone : BOOLEAN] /\ s.version < Len(Version[p])
    BY <2>1, <2>3 DEF TypeOK, SourceOK
  <2>5. [s EXCEPT !.version = @ + 1] \in [version : 1 .. Len(Version[p]), gone : BOOLEAN]
    BY <2>2, <2>4
  <2>6. source' = [source EXCEPT ![p] = [s EXCEPT !.version = @ + 1]]
    BY <2>1, <2>3
  <2>7. QED BY <1>1, <2>5, <2>6 DEF TypeOK, SourceOK
<1>4. CASE Vanish
  <2>1. PICK p \in Path : source' = [source EXCEPT ![p].gone = TRUE]
    BY <1>4 DEF Vanish
  <2>2. PICK s : s = source[p]
    OBVIOUS
  <2>3. s \in [version : 1 .. Len(Version[p]), gone : BOOLEAN]
    BY <2>2 DEF TypeOK, SourceOK
  <2>4. [s EXCEPT !.gone = TRUE] \in [version : 1 .. Len(Version[p]), gone : BOOLEAN]
    BY <2>3
  <2>5. source' = [source EXCEPT ![p] = [s EXCEPT !.gone = TRUE]]
    BY <2>1, <2>2
  <2>6. QED BY <1>1, <2>4, <2>5 DEF TypeOK, SourceOK
<1>5. QED
  BY <1>1, <1>2, <1>3, <1>4 DEF Next, vars, StartFlush, FlushSync, FlushRename, FlushFails,
         FlushDone, Begin, StatBefore, ReadChunk, ReadFails, StatAfter, WriteTree, WriteRootTree,
         WriteSnapshot, FlushEnds, RemoveDropped, RemoveFails, SyncDirs, MarkStaged, MarkComplete, UpdateRef,
         Kill, PowerLoss

LEMMA NextTypes == TypeOK /\ [Next]_vars => TypeOK'
<1> SUFFICES ASSUME TypeOK, [Next]_vars PROVE RunOK' /\ BatchOK' /\ TreeOK'
  BY SourceTypes DEF TypeOK
<1>1. CASE Change \/ Vanish \/ UNCHANGED vars
  <2>1. run' = run /\ group' = group /\ flush' = flush
    BY <1>1 DEF Change, Vanish, vars
  <2>2. QED BY <2>1, SameRunTypes DEF TypeOK, BatchOK
<1>2. CASE Begin
  <2>1. group' = group /\ flush' = flush /\ group = << >> /\ flush.phase = "none"
    BY <1>2, IdleBatch DEF Begin
  <2>2. /\ DOMAIN run' = Fields /\ run'.at = "stat" /\ run'.no = 1 /\ run'.pos = << >>
        /\ run'.new = {} /\ run'.entries = << >> /\ run'.ended = "no"
    BY <1>2, BeginFields
  <2>3. TreeOK'
    BY <2>2 DEF TreeOK, Sealed
  <2>4. RunOK'
    BY <2>2 DEF RunOK, Walking, Sealed
  <2>5. BatchOK'
    BY <2>1, <2>2 DEF TypeOK, BatchOK
  <2>6. QED BY <2>3, <2>4, <2>5
<1>3. CASE Kill \/ PowerLoss
  BY <1>3, OverFields, OverTypes DEF Kill, PowerLoss
<1>4. QED
  BY <1>1, <1>2, <1>3, FlushTypes, WalkTypes, EndTypes DEF Next

--------------------------------------------------------------------------------
(* An entry holds one version of its file *)

OneVersion(e) == e.unstable \/ \E v \in DOMAIN Version[e.path] : e.chunks = Version[e.path][v]

PartOf(pos, t) == Len(pos) <= Len(t) /\ \A i \in 1 .. Len(pos) : pos[i] = t[i]

\* What a read has is the start of the file, as long as the file is the one of
\* the stat before the read.
ReadOK ==
  run.at = "read" =>
    /\ run.before \in Nat /\ run.before <= source[Current].version
    /\ run.before = source[Current].version => PartOf(run.pos, Content(Current))

EntriesOK == \A e \in Range(run.entries) : OneVersion(e)

RefsOK ==
  \A s \in refs : \E es \in Seq(Entry), n \in Nat :
    s = Snapshot(RootTree(Tree(es)), n) /\ \A e \in Range(es) : OneVersion(e)

EntriesInv == TypeOK /\ ReadOK /\ EntriesOK /\ RefsOK

LEMMA PartOfNone == \A t \in Seq(Chunk) : PartOf(<< >>, t)
BY DEF PartOf

LEMMA PartOfAppend ==
  ASSUME NEW pos \in Seq(Chunk), NEW t \in Seq(Chunk), PartOf(pos, t), Len(pos) < Len(t)
  PROVE  PartOf(Append(pos, t[Len(pos) + 1]), t)
BY DEF PartOf

LEMMA PartOfAll ==
  ASSUME NEW pos \in Seq(Chunk), NEW t \in Seq(Chunk), PartOf(pos, t), Len(pos) >= Len(t)
  PROVE  pos = t
BY DEF PartOf

LEMMA EntriesKept ==
  ASSUME EntriesInv, run'.entries \in {run.entries, << >>}, refs' = refs
  PROVE  EntriesOK' /\ RefsOK'
BY RangeOfNone DEF EntriesInv, EntriesOK, RefsOK

\* A read that begins, at the version of its stat.
LEMMA ReadBegins ==
  ASSUME EntriesInv, run.no \in DOMAIN Walked, source' = source, run'.no = run.no,
         run'.before = source[Current].version, run'.pos = << >>
  PROVE  ReadOK'
<1>1. source[Current].version \in Nat /\ Content(Current) \in Seq(Chunk)
  <2>1. PICK n : n = Len(Version[Current])
    OBVIOUS
  <2>2. source[Current] \in [version : 1 .. n, gone : BOOLEAN] /\ Content(Current) \in Seq(Chunk)
    BY <2>1, CurrentType DEF EntriesInv, TypeOK, Current
  <2>3. QED BY <2>2
<1>2. PartOf(run'.pos, Content(Current))
  BY <1>1, PartOfNone
<1>3. Content(Current)' = Content(Current) /\ Current' = Current
  BY DEF Content, Current
<1>4. QED
  BY <1>1, <1>2, <1>3 DEF ReadOK

LEMMA SourceEntries ==
  ASSUME EntriesInv, Change \/ Vanish \/ UNCHANGED vars
  PROVE  ReadOK'
<1>0. run' = run /\ Current' = Current
  BY DEF Change, Vanish, vars, Current
<1> SUFFICES ASSUME run.at = "read" PROVE ReadOK'
  BY <1>0 DEF ReadOK
<1>1. PICK q \in Path : q = Current
  BY CurrentType DEF EntriesInv, TypeOK, RunOK, Current
<1>2. PICK v \in Nat : v = source[q].version
  <2>1. PICK n : n = Len(Version[q])
    OBVIOUS
  <2>2. source[q] \in [version : 1 .. n, gone : BOOLEAN]
    BY <2>1 DEF EntriesInv, TypeOK, SourceOK
  <2>3. QED BY <2>2
<1>3. /\ run.before \in Nat /\ run.before <= v
      /\ run.before = v => PartOf(run.pos, Version[q][v])
  BY <1>1, <1>2 DEF EntriesInv, ReadOK, Content
<1>4. source'[q].version \in {v, v + 1}
  <2>1. CASE UNCHANGED vars
    BY <1>2, <2>1 DEF vars
  <2>2. CASE Change
    <3>1. PICK p \in Path : source' = [source EXCEPT ![p].version = @ + 1]
      BY <2>2 DEF Change
    <3>2. PICK r : r = source[p]
      OBVIOUS
    <3>3. r \in [version : 1 .. Len(Version[p]), gone : BOOLEAN]
      BY <3>2 DEF EntriesInv, TypeOK, SourceOK
    <3>4. PICK r2 : r2 = [r EXCEPT !.version = @ + 1]
      OBVIOUS
    <3>5. r2.version = r.version + 1
      BY <3>3, <3>4
    <3>6. source' = [source EXCEPT ![p] = r2]
      BY <3>1, <3>2, <3>4
    <3>7. q \in DOMAIN source
      BY DEF EntriesInv, TypeOK, SourceOK
    <3>8. QED BY <1>2, <3>2, <3>5, <3>6, <3>7
  <2>3. CASE Vanish
    <3>1. PICK p \in Path : source' = [source EXCEPT ![p].gone = TRUE]
      BY <2>3 DEF Vanish
    <3>2. PICK r : r = source[p]
      OBVIOUS
    <3>3. r \in [version : 1 .. Len(Version[p]), gone : BOOLEAN]
      BY <3>2 DEF EntriesInv, TypeOK, SourceOK
    <3>4. PICK r2 : r2 = [r EXCEPT !.gone = TRUE]
      OBVIOUS
    <3>5. r2.version = r.version
      BY <3>3, <3>4
    <3>6. source' = [source EXCEPT ![p] = r2]
      BY <3>1, <3>2, <3>4
    <3>7. q \in DOMAIN source
      BY DEF EntriesInv, TypeOK, SourceOK
    <3>8. QED BY <1>2, <3>2, <3>5, <3>6, <3>7
  <2>4. QED BY <2>1, <2>2, <2>3
<1>5. PICK w : w = source'[q].version
  OBVIOUS
<1>6. w \in {v, v + 1} /\ Content(Current)' = Version[q][w] /\ source'[Current'].version = w
  BY <1>0, <1>1, <1>4, <1>5 DEF Content
<1>7. QED
  BY <1>0, <1>3, <1>6 DEF ReadOK

LEMMA SameReadOK ==
  ASSUME EntriesInv, run' = run \/ run'.at # "read", source' = source
  PROVE  ReadOK'
BY DEF EntriesInv, ReadOK, Content, Current

LEMMA ReadChunkEntries ==
  ASSUME EntriesInv, ReadChunk
  PROVE  ReadOK'
<1> TypeOK /\ RunOK
  BY DEF EntriesInv, TypeOK
<1>1. PICK c : c = NextChunk
  OBVIOUS
<1>2. /\ run.at = "read" /\ Len(run.pos) < Len(Content(Current)) /\ source' = source
      /\ run'.at = "read" /\ run'.no = run.no /\ run'.before = run.before /\ run'.pos = Append(run.pos, c)
  BY <1>1, ReadChunkRun
<1>3. run.no \in DOMAIN Walked
  BY NextChunkType
<1>4. PICK t \in Seq(Chunk) : t = Content(Current)
  BY <1>3, CurrentType DEF TypeOK, Current
<1>5. PICK p \in Seq(Chunk) : p = run.pos
  BY DEF RunOK
<1>6. Content(Current)' = t /\ source'[Current'] = source[Current]
  BY <1>2, <1>4 DEF Content, Current
<1>7. c = t[Len(p) + 1] /\ Len(p) < Len(t) /\ run'.pos = Append(p, c)
  BY <1>1, <1>2, <1>4, <1>5 DEF NextChunk
<1>8. PartOf(p, t) => PartOf(run'.pos, t)
  BY <1>7, PartOfAppend
<1>9. QED
  BY <1>2, <1>4, <1>5, <1>6, <1>8 DEF EntriesInv, ReadOK

LEMMA StatAfterEntries ==
  ASSUME EntriesInv, StatAfter
  PROVE  ReadOK' /\ EntriesOK' /\ RefsOK'
<1> TypeOK /\ RunOK
  BY DEF EntriesInv, TypeOK
<1>1. PICK e : e = [path |-> Current, chunks |-> run.pos, unstable |-> Differs]
  OBVIOUS
<1>2. run.at = "read" /\ Len(run.pos) >= Len(Content(Current)) /\ source' = source /\ refs' = refs
  BY <1>1, StatAfterRun DEF Wait
<1>3. run.no \in DOMAIN Walked
  BY <1>2 DEF RunOK
<1>4. e \in Entry /\ e.path = Current /\ e.chunks = run.pos /\ (e.unstable <=> Differs)
  BY <1>1, <1>2, EntryType
<1>5. PICK t \in Seq(Chunk) : t = Content(Current)
  BY <1>3, CurrentType DEF TypeOK, Current
<1>6. PICK p \in Seq(Chunk) : p = run.pos
  BY DEF RunOK
<1>7. OneVersion(e)
  <2>1. SUFFICES ASSUME ~Differs PROVE \E v \in DOMAIN Version[Current] : run.pos = Version[Current][v]
    BY <1>4 DEF OneVersion
  <2>2. run.before = source[Current].version
    BY <2>1 DEF Differs
  <2>3. PartOf(p, t)
    BY <1>2, <1>5, <1>6, <2>2 DEF EntriesInv, ReadOK
  <2>4. p = t
    BY <1>2, <1>5, <1>6, <2>3, PartOfAll
  <2>5. source[Current].version \in DOMAIN Version[Current]
    BY <1>3, CurrentType DEF TypeOK, Current
  <2>6. QED BY <1>5, <1>6, <2>4, <2>5 DEF Content
<1>8. CASE Passes /\ run'.at = "stat"
  BY <1>2, <1>8, SameReadOK, EntriesKept DEF Passes
<1>9. CASE Passes /\ run'.at = "read" /\ run'.no = run.no /\ run'.before = source[Current].version
  BY <1>2, <1>3, <1>9, ReadBegins, EntriesKept DEF Passes
<1>10. CASE run'.at = "stat" /\ run'.entries = Append(run.entries, e)
  <2>1. ReadOK'
    BY <1>2, <1>10, SameReadOK
  <2>2. PICK es \in Seq(Entry) : es = run.entries
    BY DEF RunOK
  <2>3. Range(Append(es, e)) = Range(es) \cup {e}
    BY <1>4, RangeOfAppend
  <2>4. Range(run'.entries) = Range(es) \cup {e}
    BY <1>10, <2>2, <2>3
  <2>5. EntriesOK'
    BY <1>7, <2>2, <2>4 DEF EntriesInv, EntriesOK
  <2>6. RefsOK'
    BY <1>2 DEF EntriesInv, RefsOK
  <2>7. QED BY <2>1, <2>5, <2>6
<1>11. QED
  BY <1>1, <1>8, <1>9, <1>10, StatAfterRun

LEMMA UpdateRefEntries ==
  ASSUME EntriesInv, UpdateRef
  PROVE  ReadOK' /\ EntriesOK' /\ RefsOK'
<1>1. run.at = "ref" /\ refs' = refs \cup {run.tree} /\ source' = source
  BY DEF UpdateRef
<1>2. Over
  BY OverFields DEF UpdateRef
<1>3. PICK n \in Nat : run.tree = Snapshot(RootTree(Tree(run.entries)), n)
  BY <1>1 DEF EntriesInv, TypeOK, TreeOK, Sealed
<1>4. run.entries \in Seq(Entry) /\ \A e \in Range(run.entries) : OneVersion(e)
  BY DEF EntriesInv, TypeOK, RunOK, EntriesOK
<1>5. RefsOK'
  BY <1>1, <1>3, <1>4 DEF EntriesInv, RefsOK
<1>6. EntriesOK' /\ ReadOK'
  BY <1>2, RangeOfNone DEF Over, EntriesOK, ReadOK
<1>7. QED
  BY <1>5, <1>6

\* The steps that leave the entries and the reads of a run, or end the run.
LEMMA OtherEntries ==
  ASSUME EntriesInv,
         StartFlush \/ FlushSync \/ FlushRename \/ FlushFails \/ FlushDone \/ Begin \/ StatBefore
           \/ ReadFails \/ WriteTree \/ WriteRootTree \/ WriteSnapshot \/ FlushEnds \/ RemoveDropped \/ RemoveFails
           \/ SyncDirs \/ MarkStaged \/ MarkComplete \/ Kill \/ PowerLoss
  PROVE  ReadOK' /\ EntriesOK' /\ RefsOK'
<1> TypeOK /\ RunOK
  BY DEF EntriesInv, TypeOK
<1>1. source' = source /\ refs' = refs
  BY DEF StartFlush, FlushSync, FlushRename, FlushFails, FlushDone, Begin, StatBefore, ReadFails, WriteTree,
         WriteRootTree, WriteSnapshot, FlushEnds, RemoveDropped, RemoveFails, SyncDirs, MarkStaged, MarkComplete,
         Kill, PowerLoss, repo
<1>2. CASE run' = run
  BY <1>1, <1>2, SameReadOK, EntriesKept
<1>3. CASE run'.at # "read" /\ run'.entries \in {run.entries, << >>}
  BY <1>1, <1>3, SameReadOK, EntriesKept
<1>4. CASE Over
  BY <1>3, <1>4 DEF Over
<1>5. CASE \E at \in Sealed : run' = [run EXCEPT !.at = at]
  BY <1>3, <1>5, MovesFields DEF Moves, Sealed
<1>6. CASE StartFlush \/ FlushSync \/ FlushRename \/ FlushFails
  BY <1>2, <1>6 DEF StartFlush, FlushSync, FlushRename, FlushFails
<1>7. CASE FlushDone
  BY <1>2, <1>4, <1>7, OverFields DEF FlushDone
<1>8. CASE Begin
  BY <1>3, <1>8, BeginFields
<1>9. CASE StatBefore
  <2>1. CASE run'.at = "stat"
    BY <1>3, <1>9, <2>1, StatBeforeRun DEF Passes
  <2>2. CASE run'.at = "read" /\ run'.no = run.no /\ run'.before = source[Current].version
    <3>1. run.no \in DOMAIN Walked
      BY <1>9, <2>2, CommitAssumption, StatBeforeRun DEF RunOK, Walking
    <3>2. Passes
      BY <1>9, StatBeforeRun
    <3>3. QED BY <1>1, <2>2, <3>1, <3>2, ReadBegins, EntriesKept DEF Passes
  <2>3. QED BY <1>9, <2>1, <2>2, StatBeforeRun
<1>10. CASE ReadFails
  BY <1>3, <1>10, ReadFailsRun DEF Passes
<1>11. CASE WriteTree
  BY <1>3, <1>11, WriteTreeRun DEF Wrote
<1>12. CASE WriteRootTree
  BY <1>3, <1>12, WriteRootRun DEF Wrote
<1>13. CASE WriteSnapshot
  BY <1>3, <1>13, WriteSnapshotRun DEF Wrote
<1>14. CASE FlushEnds \/ MarkStaged \/ MarkComplete
  BY <1>5, <1>14 DEF FlushEnds, MarkStaged, MarkComplete, Sealed
<1>15. CASE RemoveDropped
  BY <1>2, <1>5, <1>15 DEF RemoveDropped, Sealed
<1>16. CASE SyncDirs
  BY <1>4, <1>5, <1>16, OverFields DEF SyncDirs, Sealed
<1>17. CASE RemoveFails \/ Kill \/ PowerLoss
  BY <1>4, <1>17, OverFields DEF RemoveFails, Kill, PowerLoss
<1>18. QED
  BY <1>6, <1>7, <1>8, <1>9, <1>10, <1>11, <1>12, <1>13, <1>14, <1>15, <1>16, <1>17

LEMMA InitEntries == Init => EntriesInv
BY InitTypes, RangeOfNone DEF Init, NoRun, EntriesInv, ReadOK, EntriesOK, RefsOK

LEMMA NextEntries == EntriesInv /\ [Next]_vars => EntriesInv'
<1> SUFFICES ASSUME EntriesInv, [Next]_vars PROVE ReadOK' /\ EntriesOK' /\ RefsOK'
  BY NextTypes DEF EntriesInv
<1>1. CASE Change \/ Vanish \/ UNCHANGED vars
  <2>1. run' = run /\ refs' = refs
    BY <1>1 DEF Change, Vanish, vars, repo
  <2>2. QED BY <1>1, <2>1, SourceEntries, EntriesKept
<1>2. CASE ReadChunk
  <2>1. run'.entries = run.entries /\ refs' = refs
    <3>1. PICK c : c = NextChunk
      OBVIOUS
    <3>2. QED BY <1>2, <3>1, ReadChunkRun DEF EntriesInv, TypeOK, Wait
  <2>2. QED BY <1>2, <2>1, ReadChunkEntries, EntriesKept
<1>3. QED
  BY <1>1, <1>2, StatAfterEntries, UpdateRefEntries, OtherEntries DEF Next

\* Each entry of a ref without the UNSTABLE flag holds one version of its file:
\* the stat before a read and the one after it enclose the chunks (commitEntry),
\* whatever the program writes to the file meanwhile.
THEOREM EntriesAreOneVersion == Spec => []EntryIsOneVersion
<1>1. EntriesInv => EntryIsOneVersion
  BY EntriesOf DEF EntriesInv, RefsOK, EntryIsOneVersion, OneVersion
<1>2. QED
  BY <1>1, InitEntries, NextEntries, PTL DEF Spec

--------------------------------------------------------------------------------
(* What a ref reaches has a record *)

Kept(o) == State(o) \in {"Staged", "Packed", "OnDisc"}

LogOK == \A o \in DOMAIN log : log[o] \in {"Staged", "Packed", "OnDisc", "Lost"}

\* What the snapshot of the running commit will reach is in run.reachable.
EntriesReached ==
  \A e \in Range(run.entries) :
    Blob(e.chunks) \in run.reachable /\ ChunksOf(e.chunks) \subseteq run.reachable

TreesReached ==
  /\ run.at \in {"root", "snapshot"} \cup Sealed => Tree(run.entries) \in run.reachable
  /\ run.at \in {"snapshot"} \cup Sealed => RootTree(Tree(run.entries)) \in run.reachable

AllRecorded == run.at \in {"complete", "ref"} => \A o \in run.reachable \cup {run.tree} : Kept(o)

RefsRecorded == \A s \in refs : \A o \in Reach(s) : Kept(o)

ReachInv == EntriesInv /\ LogOK /\ EntriesReached /\ TreesReached /\ AllRecorded /\ RefsRecorded

LEMMA LogKept == LogOK /\ log' = log => LogOK' /\ \A o : State(o)' = State(o) /\ (Kept(o) => Kept(o)')
BY DEF LogOK, Kept, State

LEMMA MarkStagedLog ==
  ASSUME LogOK, MarkStaged
  PROVE  /\ LogOK' /\ DOMAIN log \subseteq DOMAIN log'
         /\ \A o \in run.reachable \cup {run.tree} : Kept(o)'
         /\ \A o : (Kept(o) => State(o)' = State(o)) /\ (State(o) # "none" => State(o)' # "none")
<1>1. PICK new : new = {o \in run.reachable \cup {run.tree} : State(o) \in {"none", "Lost"}}
  OBVIOUS
<1>2. log' = [o \in DOMAIN log \cup new |-> IF o \in new THEN "Staged" ELSE log[o]]
  BY <1>1 DEF MarkStaged
<1>3. DOMAIN log' = DOMAIN log \cup new /\ \A o \in DOMAIN log' : log'[o] = IF o \in new THEN "Staged" ELSE log[o]
  BY <1>2
<1>4. LogOK'
  BY <1>3 DEF LogOK
<1>5. ASSUME NEW o \in run.reachable \cup {run.tree} PROVE Kept(o)'
  <2>1. CASE o \in new
    BY <1>3, <2>1 DEF Kept, State
  <2>2. CASE o \notin new
    <3>1. State(o) \notin {"none", "Lost"}
      BY <1>1, <2>2
    <3>2. o \in DOMAIN log /\ log[o] \in {"Staged", "Packed", "OnDisc"}
      BY <3>1 DEF State, LogOK
    <3>3. QED BY <1>3, <2>2, <3>2 DEF Kept, State
  <2>3. QED BY <2>1, <2>2
<1>6. ASSUME NEW o, Kept(o) PROVE State(o)' = State(o)
  <2>1. o \in DOMAIN log /\ o \notin new
    BY <1>1, <1>6 DEF Kept, State
  <2>2. QED BY <1>3, <2>1 DEF State
<1>7. ASSUME NEW o, State(o) # "none" PROVE State(o)' # "none"
  <2>1. o \in DOMAIN log
    BY <1>7 DEF State
  <2>2. log'[o] # "none"
    BY <1>3, <2>1 DEF LogOK
  <2>3. QED BY <1>3, <2>1, <2>2 DEF State
<1>8. QED
  BY <1>3, <1>4, <1>5, <1>6, <1>7

\* What the snapshot that a commit has written reaches.
LEMMA ReachOfRun ==
  ASSUME TypeOK, EntriesReached, TreesReached, run.at \in Sealed
  PROVE  Reach(run.tree) \subseteq run.reachable \cup {run.tree}
<1>1. PICK n \in Nat : run.tree = Snapshot(RootTree(Tree(run.entries)), n)
  BY DEF TypeOK, TreeOK
<1>2. Tree(run.entries) \in run.reachable /\ RootTree(Tree(run.entries)) \in run.reachable
  BY DEF TreesReached
<1>3. ASSUME NEW o \in Reach(run.tree) PROVE o \in run.reachable \cup {run.tree}
  <2>1. \/ o \in {run.tree, RootTree(Tree(run.entries)), Tree(run.entries)}
        \/ \E e \in Range(run.entries) : o = Blob(e.chunks) \/ \E c \in Range(e.chunks) : o = ChunkObject(c)
    BY <1>1, ReachOf
  <2>2. ASSUME NEW e \in Range(run.entries), o = Blob(e.chunks) \/ \E c \in Range(e.chunks) : o = ChunkObject(c)
        PROVE  o \in run.reachable
    BY <2>2 DEF EntriesReached, ChunksOf
  <2>3. QED BY <1>2, <2>1, <2>2
<1>4. QED
  BY <1>3

\* Steps of the walk that add nothing to the entries.
LEMMA WalkReach ==
  ASSUME ReachInv, log' = log, refs' = refs, run'.at \in Walking, run'.entries = run.entries,
         run'.reachable = run.reachable
  PROVE  LogOK' /\ EntriesReached' /\ TreesReached' /\ AllRecorded' /\ RefsRecorded'
BY LogKept DEF ReachInv, EntriesReached, TreesReached, AllRecorded, RefsRecorded, Walking, Sealed

LEMMA SameReach ==
  ASSUME ReachInv, log' = log, refs' = refs, run' = run
  PROVE  LogOK' /\ EntriesReached' /\ TreesReached' /\ AllRecorded' /\ RefsRecorded'
<1>1. LogOK' /\ \A o : Kept(o) => Kept(o)'
  BY LogKept DEF ReachInv
<1>2. EntriesReached' /\ TreesReached'
  BY DEF ReachInv, EntriesReached, TreesReached
<1>3. AllRecorded' /\ RefsRecorded'
  BY <1>1 DEF ReachInv, AllRecorded, RefsRecorded
<1>4. QED
  BY <1>1, <1>2, <1>3

LEMMA OverReach ==
  ASSUME ReachInv, log' = log, refs' = refs, run'.at \in {"idle", "stat"}, run'.entries = << >>
  PROVE  LogOK' /\ EntriesReached' /\ TreesReached' /\ AllRecorded' /\ RefsRecorded'
<1>1. LogOK' /\ \A o : Kept(o) => Kept(o)'
  BY LogKept DEF ReachInv
<1>2. EntriesReached' /\ TreesReached'
  BY RangeOfNone DEF EntriesReached, TreesReached, Sealed
<1>3. AllRecorded' /\ RefsRecorded'
  BY <1>1 DEF ReachInv, AllRecorded, RefsRecorded
<1>4. QED
  BY <1>1, <1>2, <1>3

LEMMA WroteReach ==
  ASSUME ReachInv, NEW o, Wrote(o), run'.reachable \subseteq run.reachable \cup {o},
         run.reachable \subseteq run'.reachable, run'.at \in {"root", "snapshot", "flush"},
         run'.at # "root" => Tree(run.entries) \in run.reachable,
         run'.at = "root" => Tree(run.entries) \in run'.reachable,
         run'.at \in {"snapshot", "flush"} => RootTree(Tree(run.entries)) \in run'.reachable
  PROVE  LogOK' /\ EntriesReached' /\ TreesReached' /\ AllRecorded' /\ RefsRecorded'
<1>1. LogOK' /\ \A p : Kept(p) => Kept(p)'
  BY LogKept DEF ReachInv, Wrote, Wait
<1>2. run'.entries = run.entries
  BY DEF Wrote
<1>3. EntriesReached'
  BY <1>2 DEF ReachInv, EntriesReached
<1>4. TreesReached'
  BY <1>2 DEF TreesReached, Sealed
<1>5. AllRecorded' /\ RefsRecorded'
  BY <1>1 DEF ReachInv, AllRecorded, RefsRecorded, Wrote, Wait
<1>6. QED
  BY <1>1, <1>3, <1>4, <1>5

LEMMA MovesReach ==
  ASSUME ReachInv, NEW at \in Sealed, Moves(at), run.at \in Sealed, refs' = refs,
         LogOK', \A o : Kept(o) => Kept(o)',
         at \in {"complete", "ref"} => \A o \in run.reachable \cup {run.tree} : Kept(o)'
  PROVE  EntriesReached' /\ TreesReached' /\ AllRecorded' /\ RefsRecorded'
<1>1. EntriesReached' /\ TreesReached'
  BY DEF ReachInv, EntriesReached, TreesReached, Moves
<1>2. AllRecorded'
  BY DEF AllRecorded, Moves
<1>3. RefsRecorded'
  BY DEF ReachInv, RefsRecorded
<1>4. QED
  BY <1>1, <1>2, <1>3

LEMMA WalkStepsReach ==
  ASSUME ReachInv, StatBefore \/ ReadChunk \/ ReadFails \/ StatAfter
  PROVE  LogOK' /\ EntriesReached' /\ TreesReached' /\ AllRecorded' /\ RefsRecorded'
<1> TypeOK /\ RunOK
  BY DEF ReachInv, EntriesInv, TypeOK
<1>1. CASE StatBefore
  BY <1>1, StatBeforeRun, WalkReach DEF Passes, Wait, Walking
<1>2. CASE ReadChunk
  <2>1. PICK c : c = NextChunk
    OBVIOUS
  <2>2. run'.at = "read" /\ run'.entries = run.entries /\ run'.reachable = run.reachable
        /\ log' = log /\ refs' = refs
    BY <1>2, <2>1, ReadChunkRun DEF Wait
  <2>3. QED BY <2>2, WalkReach DEF Walking
<1>3. CASE ReadFails
  BY <1>3, ReadFailsRun, WalkReach DEF Passes, Wait, Walking
<1>4. CASE StatAfter
  <2>1. PICK e : e = [path |-> Current, chunks |-> run.pos, unstable |-> Differs]
    OBVIOUS
  <2>2. run.at = "read" /\ log' = log /\ refs' = refs
    BY <1>4, <2>1, StatAfterRun DEF Wait
  <2>3. e \in Entry /\ e.chunks = run.pos
    BY <2>1, <2>2, EntryType
  <2>4. CASE Passes /\ run'.at \in Walking
    BY <2>2, <2>4, WalkReach DEF Passes
  <2>5. CASE /\ run'.at = "stat" /\ run'.entries = Append(run.entries, e)
             /\ run'.reachable = run.reachable \cup ChunksOf(run.pos) \cup {Blob(run.pos)}
    <3>1. PICK es \in Seq(Entry) : es = run.entries
      BY DEF RunOK
    <3>2. Range(run'.entries) = Range(es) \cup {e}
      BY <2>3, <2>5, <3>1, RangeOfAppend
    <3>3. Blob(e.chunks) \in run'.reachable /\ ChunksOf(e.chunks) \subseteq run'.reachable
      BY <2>3, <2>5
    <3>4. EntriesReached'
      BY <2>5, <3>1, <3>2, <3>3 DEF ReachInv, EntriesReached, ChunksOf
    <3>5. TreesReached' /\ AllRecorded'
      BY <2>5 DEF TreesReached, AllRecorded, Sealed
    <3>6. LogOK' /\ RefsRecorded'
      BY <2>2, LogKept DEF ReachInv, RefsRecorded
    <3>7. QED BY <3>4, <3>5, <3>6
  <2>6. QED BY <1>4, <2>1, <2>4, <2>5, StatAfterRun DEF Walking
<1>5. QED
  BY <1>1, <1>2, <1>3, <1>4

LEMMA WritesReach ==
  ASSUME ReachInv, WriteTree \/ WriteRootTree \/ WriteSnapshot
  PROVE  LogOK' /\ EntriesReached' /\ TreesReached' /\ AllRecorded' /\ RefsRecorded'
<1> TypeOK /\ RunOK /\ TreeOK /\ TreesReached
  BY DEF ReachInv, EntriesInv, TypeOK
<1>1. CASE WriteTree
  BY <1>1, WriteTreeRun, WroteReach
<1>2. CASE WriteRootTree
  <2>1. run.at = "root" /\ run'.at = "snapshot" /\ Wrote(RootTree(run.tree))
        /\ run'.reachable = run.reachable \cup {RootTree(run.tree)}
    BY <1>2, WriteRootRun
  <2>2. run.tree = Tree(run.entries) /\ Tree(run.entries) \in run.reachable
    BY <2>1 DEF TreeOK, TreesReached
  <2>3. QED BY <2>1, <2>2, WroteReach
<1>3. CASE WriteSnapshot
  <2>1. run.at = "snapshot" /\ run'.at = "flush" /\ Wrote(Snapshot(run.tree, commits))
        /\ run'.reachable = run.reachable
    BY <1>3, WriteSnapshotRun
  <2>2. Tree(run.entries) \in run.reachable /\ RootTree(Tree(run.entries)) \in run.reachable
    BY <2>1 DEF TreesReached
  <2>3. QED BY <2>1, <2>2, WroteReach
<1>4. QED
  BY <1>1, <1>2, <1>3

LEMMA EndReach ==
  ASSUME ReachInv, FlushEnds \/ RemoveDropped \/ RemoveFails \/ SyncDirs \/ MarkStaged \/ MarkComplete \/ UpdateRef
  PROVE  LogOK' /\ EntriesReached' /\ TreesReached' /\ AllRecorded' /\ RefsRecorded'
<1> RunOK /\ LogOK
  BY DEF ReachInv, EntriesInv, TypeOK
<1>1. ASSUME NEW at \in Sealed, run.at \in Sealed, run' = [run EXCEPT !.at = at], log' = log, refs' = refs,
             at \in {"complete", "ref"} => run.at = "complete"
      PROVE  LogOK' /\ EntriesReached' /\ TreesReached' /\ AllRecorded' /\ RefsRecorded'
  <2>1. LogOK' /\ \A o : Kept(o) => Kept(o)'
    BY <1>1, LogKept
  <2>2. Moves(at)
    BY <1>1, MovesFields
  <2>3. at \in {"complete", "ref"} => \A o \in run.reachable \cup {run.tree} : Kept(o)'
    BY <1>1, <2>1 DEF ReachInv, AllRecorded
  <2>4. QED BY <1>1, <2>1, <2>2, <2>3, MovesReach
<1>2. CASE FlushEnds
  BY <1>1, <1>2 DEF FlushEnds, Sealed, repo
<1>3. CASE RemoveDropped
  <2>1. run.at = "remove" /\ log' = log /\ refs' = refs /\ (run' = run \/ run' = [run EXCEPT !.at = "sync"])
    BY <1>3 DEF RemoveDropped, repo
  <2>2. QED BY <1>1, <2>1, SameReach DEF Sealed
<1>4. CASE SyncDirs
  <2>1. run.at = "sync" /\ log' = log /\ refs' = refs /\ (run' = [run EXCEPT !.at = "record"] \/ run' = Failed)
    BY <1>4 DEF SyncDirs, repo
  <2>2. CASE run' = Failed
    BY <2>1, <2>2, OverFields, OverReach DEF Over
  <2>3. QED BY <1>1, <2>1, <2>2 DEF Sealed
<1>5. CASE MarkStaged
  <2>1. run.at = "record" /\ refs' = refs /\ run' = [run EXCEPT !.at = "complete"]
    BY <1>5 DEF MarkStaged
  <2>2. Moves("complete")
    BY <2>1, MovesFields
  <2>3. LogOK' /\ \A o \in run.reachable \cup {run.tree} : Kept(o)'
    BY <1>5, MarkStagedLog
  <2>4. \A o : Kept(o) => Kept(o)'
    BY <1>5, MarkStagedLog DEF Kept
  <2>5. QED BY <2>1, <2>2, <2>3, <2>4, MovesReach DEF Sealed
<1>6. CASE MarkComplete
  BY <1>1, <1>6 DEF MarkComplete, Sealed
<1>7. CASE UpdateRef
  <2>1. run.at = "ref" /\ log' = log /\ refs' = refs \cup {run.tree}
    BY <1>7 DEF UpdateRef
  <2>2. Over
    BY <1>7, OverFields DEF UpdateRef
  <2>3. LogOK' /\ \A o : Kept(o) => Kept(o)'
    BY <2>1, LogKept
  <2>4. \A o \in Reach(run.tree) : Kept(o)
    BY <2>1, ReachOfRun DEF ReachInv, EntriesInv, AllRecorded, Sealed
  <2>5. RefsRecorded'
    BY <2>1, <2>3, <2>4 DEF ReachInv, RefsRecorded
  <2>6. EntriesReached' /\ TreesReached' /\ AllRecorded'
    BY <2>2, RangeOfNone DEF Over, EntriesReached, TreesReached, AllRecorded, Sealed
  <2>7. QED BY <2>3, <2>5, <2>6
<1>8. CASE RemoveFails
  <2>1. log' = log /\ refs' = refs /\ run' = Failed
    BY <1>8 DEF RemoveFails, repo
  <2>2. QED BY <2>1, OverFields, OverReach DEF Over
<1>9. QED
  BY <1>2, <1>3, <1>4, <1>5, <1>6, <1>7, <1>8

LEMMA InitReach == Init => ReachInv
<1> SUFFICES ASSUME Init PROVE ReachInv
  OBVIOUS
<1>1. LogOK
  <2>1. log = [o \in {ChunkObject(c) : c \in DOMAIN Known} |-> Known[o.of]]
    BY DEF Init
  <2>2. ASSUME NEW c \in DOMAIN Known PROVE log[ChunkObject(c)] = Known[c]
    BY <2>1 DEF ChunkObject
  <2>3. \A c \in DOMAIN Known : Known[c] \in {"Staged", "Packed", "OnDisc", "Lost"}
    BY CommitAssumption
  <2>4. QED BY <2>1, <2>2, <2>3 DEF LogOK
<1>2. run.at = "idle" /\ run.entries = << >> /\ refs = {}
  BY DEF Init, NoRun
<1>3. QED
  BY <1>1, <1>2, InitEntries, RangeOfNone DEF ReachInv, EntriesReached, TreesReached, AllRecorded, RefsRecorded, Sealed

LEMMA NextReach == ReachInv /\ [Next]_vars => ReachInv'
<1> SUFFICES ASSUME ReachInv, [Next]_vars
             PROVE  LogOK' /\ EntriesReached' /\ TreesReached' /\ AllRecorded' /\ RefsRecorded'
  BY NextEntries DEF ReachInv
<1>1. CASE Change \/ Vanish \/ UNCHANGED vars \/ StartFlush \/ FlushSync \/ FlushRename \/ FlushFails
  <2>1. run' = run /\ log' = log /\ refs' = refs
    BY <1>1 DEF Change, Vanish, vars, repo, StartFlush, FlushSync, FlushRename, FlushFails
  <2>2. QED BY <2>1, SameReach
<1>2. CASE FlushDone
  <2>1. log' = log /\ refs' = refs /\ (run' = Failed \/ run' = run)
    BY <1>2 DEF FlushDone, repo
  <2>2. CASE run' = Failed
    BY <2>1, <2>2, OverFields, OverReach DEF Over
  <2>3. QED BY <2>1, <2>2, SameReach
<1>3. CASE Begin
  <2>1. log' = log /\ refs' = refs
    BY <1>3 DEF Begin, repo
  <2>2. QED BY <1>3, <2>1, BeginFields, OverReach
<1>4. CASE Kill \/ PowerLoss
  <2>1. log' = log /\ refs' = refs /\ run' = NoRun
    BY <1>4 DEF Kill, PowerLoss, repo
  <2>2. QED BY <2>1, OverFields, OverReach DEF Over
<1>5. QED
  BY <1>1, <1>2, <1>3, <1>4, WalkStepsReach, WritesReach, EndReach DEF Next

\* No step but a power loss takes a file that a record or a ref needs: what
\* removeDropped removes has no record, and all that a ref reaches has one.
THEOREM NoNeededFileGoes == Spec => NeededFilesStay
<1>1. ASSUME ReachInv, [Next]_vars, NEW o \in named \ named', power' = power
      PROVE  State(o) = "none" /\ \A s \in refs : o \notin Reach(s)
  <2>1. RemoveDropped
    <3>1. CASE PowerLoss
      <4>1. power' = power + 1 /\ power \in Nat
        BY <3>1, <1>1 DEF PowerLoss, ReachInv, EntriesInv, TypeOK, CountsOK
      <4>2. QED BY <1>1, <4>1
    <3>2. QED
      BY <1>1, <3>1 DEF Next, vars, objects, Change, Vanish, StartFlush, FlushSync, FlushRename, FlushFails,
           FlushDone, Begin, StatBefore, ReadChunk, ReadFails, StatAfter, WriteTree, WriteRootTree,
           WriteSnapshot, FlushEnds, RemoveFails, SyncDirs, MarkStaged, MarkComplete, UpdateRef, Kill
  <2>2. State(o) = "none"
    BY <1>1, <2>1 DEF RemoveDropped, Removable
  <2>3. ~Kept(o)
    BY <2>2 DEF Kept
  <2>4. QED BY <1>1, <2>2, <2>3 DEF ReachInv, RefsRecorded
<1>2. ReachInv /\ [Next]_vars => [\A o \in named \ named' : power' # power \/ (State(o) = "none" /\ \A s \in refs : o \notin Reach(s))]_vars
  BY <1>1
<1>3. QED
  BY <1>2, InitReach, NextReach, PTL DEF Spec, NeededFilesStay

--------------------------------------------------------------------------------
(* Every chunk file has a reason to be there *)

Files == named \cup Range(group) \cup Range(flush.files)

\* Why a commit may have the file: it was there before, a record names it, the
\* snapshot will reach it, or removeDropped will come to it.
Explained(o) ==
  \/ o \in run.there \/ State(o) # "none"
  \/ run.at \notin {"complete", "ref", "idle"} /\ (o \in run.reachable \/ (run.at \in Sealed /\ o = run.tree))
  \/ run.at \notin {"sync", "record", "complete", "ref", "idle"} /\ o \in run.dropped \cup run.new

ChunksDropped ==
  run.new \subseteq ChunksOf(run.pos) /\ \A o \in run.dropped \cup run.new : o.kind = "chunk"

FilesExplained == run.at # "idle" \/ run.ended = "ok" => \A o \in Files : Explained(o)

DropInv == ReachInv /\ ChunksDropped /\ FilesExplained

LEMMA FlushFiles ==
  ASSUME TypeOK, StartFlush \/ FlushSync \/ FlushRename \/ FlushFails \/ FlushDone
  PROVE  Files' \subseteq Files
<1> BatchOK
  BY DEF TypeOK
<1>1. CASE StartFlush
  <2>1. named' = named /\ group' = << >> /\ flush'.files = group
    BY <1>1 DEF StartFlush, objects
  <2>2. QED BY <2>1, RangeOfNone DEF Files
<1>2. CASE FlushSync
  <2>1. named' = named /\ group' = group /\ flush'.files = flush.files
    BY <1>2 DEF FlushSync, BatchOK
  <2>2. QED BY <2>1 DEF Files
<1>3. CASE FlushRename
  <2>1. PICK q \in Seq(Objects) : q = flush.files
    BY DEF BatchOK
  <2>2. named' = named \cup {Head(q)} /\ group' = group /\ flush'.files = Tail(q) /\ q # << >>
    BY <1>3, <2>1 DEF FlushRename, BatchOK
  <2>3. Range(q) = {Head(q)} \cup Range(Tail(q))
    BY <2>2, RangeOfTail
  <2>4. QED BY <2>1, <2>2, <2>3 DEF Files
<1>4. CASE FlushFails
  <2>1. named' = named /\ group' = group /\ flush'.files = << >>
    BY <1>4 DEF FlushFails, objects
  <2>2. QED BY <2>1, RangeOfNone DEF Files
<1>5. CASE FlushDone
  <2>1. named' = named /\ group' \in {group, << >>} /\ flush'.files = << >>
    BY <1>5 DEF FlushDone, objects, NoFlush
  <2>2. QED BY <2>1, RangeOfNone DEF Files
<1>6. QED
  BY <1>1, <1>2, <1>3, <1>4, <1>5

LEMMA PutsFiles ==
  ASSUME TypeOK, NEW o \in Objects, Puts(o), named' = named, flush' = flush
  PROVE  Files' = Files \cup (IF NeedsFile(o) THEN {o} ELSE {})
BY GroupedType DEF TypeOK, BatchOK, Puts, Files

LEMMA SameRunDrops ==
  ASSUME DropInv, run' = run, log' = log, Files' \subseteq Files
  PROVE  ChunksDropped' /\ FilesExplained'
<1>1. \A o : Explained(o) => Explained(o)'
  BY DEF Explained, State
<1>2. FilesExplained'
  BY <1>1 DEF DropInv, FilesExplained
<1>3. ChunksDropped'
  BY DEF DropInv, ChunksDropped
<1>4. QED
  BY <1>2, <1>3

\* A commit that ends without its ref.
LEMMA EndedDrops ==
  ASSUME Over, run'.ended # "ok"
  PROVE  ChunksDropped' /\ FilesExplained'
BY DEF Over, ChunksDropped, FilesExplained

LEMMA PassesDrops ==
  ASSUME DropInv, Passes, Wait, run.at \in Walking, run'.at \in Walking
  PROVE  ChunksDropped' /\ FilesExplained'
<1>1. named' = named /\ group' = group /\ flush' = flush /\ log' = log
  BY DEF Passes, Wait, objects
<1>2. run.dropped \cup run.new = run'.dropped \cup run'.new
  BY DEF Passes
<1>3. run'.there = run.there /\ run'.reachable = run.reachable /\ run'.new = {}
  BY DEF Passes, SameRun
<1>4. \A o : Explained(o) => Explained(o)'
  BY <1>1, <1>2, <1>3 DEF Explained, State, Walking, Sealed
<1>5. FilesExplained'
  BY <1>1, <1>4 DEF DropInv, FilesExplained, Files, Walking
<1>6. ChunksDropped'
  BY <1>2, <1>3 DEF DropInv, ChunksDropped
<1>7. QED
  BY <1>5, <1>6

LEMMA ReadChunkDrops ==
  ASSUME DropInv, ReadChunk
  PROVE  ChunksDropped' /\ FilesExplained'
<1> TypeOK /\ RunOK
  BY DEF DropInv, ReachInv, EntriesInv, TypeOK
<1>1. PICK c : c = NextChunk
  OBVIOUS
<1>2. PICK o : o = ChunkObject(c)
  OBVIOUS
<1>3. c \in Chunk /\ o \in Objects
  BY <1>1, <1>2, NextChunkType, WrittenObjects
<1>4. /\ run.at = "read" /\ named' = named /\ flush' = flush /\ log' = log
      /\ run'.at = "read" /\ run'.there = run.there /\ run'.reachable = run.reachable
      /\ run'.dropped = run.dropped /\ run'.pos = Append(run.pos, c)
  BY <1>1, ReadChunkRun DEF Wait, objects, SameRun
<1>5. PICK p \in Seq(Chunk) : p = run.pos
  BY DEF RunOK
<1>6. ChunksOf(run'.pos) = ChunksOf(run.pos) \cup {o}
  <2>1. Range(Append(p, c)) = Range(p) \cup {c}
    BY <1>3, RangeOfAppend
  <2>2. QED BY <1>2, <1>4, <1>5, <2>1 DEF ChunksOf
<1>7. /\ run'.new \in {run.new, run.new \cup {o}}
      /\ Files' \subseteq Files \/ (Files' \subseteq Files \cup {o} /\ o \in run'.new)
  <2>1. CASE group' = group /\ run'.new = run.new
    BY <1>4, <2>1 DEF Files
  <2>2. CASE Puts(o) /\ run'.new = IF NeedsFile(o) THEN run.new \cup {o} ELSE run.new
    <3>1. Files' = Files \cup (IF NeedsFile(o) THEN {o} ELSE {})
      BY <1>3, <1>4, <2>2, PutsFiles
    <3>2. QED BY <2>2, <3>1
  <2>3. QED BY <1>1, <1>2, <2>1, <2>2, ReadChunkRun
<1>8. \A x : Explained(x) => Explained(x)'
  BY <1>4, <1>7 DEF Explained, State, Sealed
<1>9. o \in run'.new => Explained(o)'
  BY <1>4 DEF Explained
<1>10. FilesExplained'
  BY <1>4, <1>7, <1>8, <1>9 DEF DropInv, FilesExplained
<1>11. o.kind = "chunk"
  BY <1>2, KindsDiffer
<1>12. ChunksDropped'
  BY <1>4, <1>6, <1>7, <1>11 DEF DropInv, ChunksDropped
<1>13. QED
  BY <1>10, <1>12

\* A read that is kept, and its blob.
LEMMA KeptDrops ==
  ASSUME DropInv, Wait, SameRun, run.at = "read", run'.at = "stat", run'.pos = << >>, run'.new = {},
         run'.reachable = run.reachable \cup ChunksOf(run.pos) \cup {Blob(run.pos)},
         run'.dropped = run.dropped \ ChunksOf(run.pos), Puts(Blob(run.pos))
  PROVE  ChunksDropped' /\ FilesExplained'
<1>1. PICK o \in Objects : o = Blob(run.pos)
  BY WrittenObjects DEF DropInv, ReachInv, EntriesInv
<1>2. named' = named /\ flush' = flush /\ log' = log
  BY DEF Wait, objects
<1>3. Files' \subseteq Files \cup {o}
  <2>1. Files' = Files \cup (IF NeedsFile(o) THEN {o} ELSE {})
    BY <1>1, <1>2, PutsFiles DEF DropInv, ReachInv, EntriesInv
  <2>2. QED BY <2>1
<1>4. run.new \subseteq ChunksOf(run.pos)
  BY DEF DropInv, ChunksDropped
<1>5. \A x : Explained(x) => Explained(x)'
  BY <1>2, <1>4 DEF Explained, State, Sealed, SameRun
<1>6. Explained(o)'
  BY <1>1 DEF Explained
<1>7. FilesExplained'
  BY <1>3, <1>5, <1>6 DEF DropInv, FilesExplained
<1>8. ChunksDropped'
  BY DEF DropInv, ChunksDropped
<1>9. QED
  BY <1>7, <1>8

LEMMA WroteDrops ==
  ASSUME DropInv, NEW o \in Objects, Wrote(o), run.at \notin Sealed \cup {"idle", "read"},
         run'.at \in {"root", "snapshot", "flush"}, run.reachable \subseteq run'.reachable,
         o \in run'.reachable \/ run'.at = "flush"
  PROVE  ChunksDropped' /\ FilesExplained'
<1>2. named' = named /\ flush' = flush /\ log' = log
  BY DEF Wrote, Wait, objects
<1>3. Files' \subseteq Files \cup {o}
  <2>1. Files' = Files \cup (IF NeedsFile(o) THEN {o} ELSE {})
    BY <1>2, PutsFiles DEF DropInv, ReachInv, EntriesInv, Wrote
  <2>2. QED BY <2>1
<1>5. \A x : Explained(x) => Explained(x)'
  BY <1>2 DEF Explained, State, Wrote, SameRun
<1>6. Explained(o)'
  BY DEF Explained, Wrote, Sealed
<1>7. FilesExplained'
  BY <1>3, <1>5, <1>6 DEF DropInv, FilesExplained
<1>8. ChunksDropped'
  BY DEF DropInv, ChunksDropped, Wrote
<1>9. QED
  BY <1>7, <1>8

LEMMA WalkDrops ==
  ASSUME DropInv, StatBefore \/ ReadFails \/ StatAfter \/ WriteTree \/ WriteRootTree \/ WriteSnapshot
  PROVE  ChunksDropped' /\ FilesExplained'
<1> TypeOK /\ RunOK
  BY DEF DropInv, ReachInv, EntriesInv, TypeOK
<1>1. CASE StatBefore
  BY <1>1, StatBeforeRun, PassesDrops DEF Walking
<1>2. CASE ReadFails
  BY <1>2, ReadFailsRun, PassesDrops DEF Walking
<1>3. CASE StatAfter
  <2>1. PICK e : e = [path |-> Current, chunks |-> run.pos, unstable |-> Differs]
    OBVIOUS
  <2>2. run.at = "read" /\ Wait
    BY <1>3, <2>1, StatAfterRun
  <2>3. CASE Passes /\ run'.at \in Walking
    BY <2>2, <2>3, PassesDrops DEF Walking
  <2>4. CASE /\ SameRun /\ run'.at = "stat" /\ run'.pos = << >> /\ run'.new = {}
             /\ run'.reachable = run.reachable \cup ChunksOf(run.pos) \cup {Blob(run.pos)}
             /\ run'.dropped = run.dropped \ ChunksOf(run.pos)
             /\ Puts(Blob(run.pos))
    BY <2>2, <2>4, KeptDrops
  <2>5. QED BY <1>3, <2>1, <2>3, <2>4, StatAfterRun DEF Walking
<1>4. CASE WriteTree
  <2>1. PICK o : o = Tree(run.entries)
    OBVIOUS
  <2>2. /\ run.at = "stat" /\ run'.at = "root" /\ Wrote(o) /\ run'.reachable = run.reachable \cup {o}
        /\ o \in Objects
    BY <1>4, <2>1, WriteTreeRun, WrittenObjects
  <2>3. QED BY <2>2, WroteDrops DEF Sealed
<1>5. CASE WriteRootTree
  <2>1. PICK o : o = RootTree(run.tree)
    OBVIOUS
  <2>2. /\ run.at = "root" /\ run'.at = "snapshot" /\ Wrote(o) /\ run'.reachable = run.reachable \cup {o}
        /\ o \in Objects
    BY <1>5, <2>1, WriteRootRun, WrittenObjects
  <2>3. QED BY <2>2, WroteDrops DEF Sealed
<1>6. CASE WriteSnapshot
  <2>1. PICK o : o = Snapshot(run.tree, commits)
    OBVIOUS
  <2>2. /\ run.at = "snapshot" /\ run'.at = "flush" /\ Wrote(o) /\ run'.reachable = run.reachable
        /\ o \in Objects
    BY <1>6, <2>1, WriteSnapshotRun, WrittenObjects
  <2>3. QED BY <2>2, WroteDrops DEF Sealed
<1>7. QED
  BY <1>1, <1>2, <1>3, <1>4, <1>5, <1>6

LEMMA EndDrops ==
  ASSUME DropInv, FlushEnds \/ RemoveDropped \/ RemoveFails \/ SyncDirs \/ MarkStaged \/ MarkComplete \/ UpdateRef
  PROVE  ChunksDropped' /\ FilesExplained'
<1> TypeOK /\ RunOK /\ LogOK
  BY DEF DropInv, ReachInv, EntriesInv, TypeOK
<1>1. ASSUME NEW at \in Sealed, run' = [run EXCEPT !.at = at], run.at \in Sealed, Files' \subseteq Files,
             \A o \in Files : Explained(o) => Explained(o)'
      PROVE  ChunksDropped' /\ FilesExplained'
  <2>1. Moves(at)
    BY <1>1, MovesFields
  <2>2. ChunksDropped'
    BY <2>1 DEF DropInv, ChunksDropped, Moves
  <2>3. QED BY <1>1, <2>2 DEF DropInv, FilesExplained, Sealed
<1>2. CASE FlushEnds
  <2>1. run.at = "flush" /\ run' = [run EXCEPT !.at = "remove"] /\ log' = log /\ Files' = Files
    BY <1>2 DEF FlushEnds, repo, objects, Files
  <2>2. Moves("remove")
    BY <2>1, MovesFields
  <2>3. \A o \in Files : Explained(o) => Explained(o)'
    BY <2>1, <2>2 DEF Explained, State, Moves, SameRun, Sealed
  <2>4. QED BY <1>1, <2>1, <2>3 DEF Sealed
<1>3. CASE RemoveDropped
  <2>1. run.at = "remove" /\ log' = log /\ group' = group /\ flush' = flush /\ group = << >> /\ flush.files = << >>
    BY <1>3, IdleBatch DEF RemoveDropped, repo
  <2>2. named' \subseteq named /\ Files' \subseteq Files /\ Files = named
    BY <1>3, <2>1, RangeOfNone DEF RemoveDropped, Files
  <2>3. CASE run' = run
    BY <2>1, <2>2, <2>3, SameRunDrops
  <2>4. CASE ~ \E o \in run.dropped \cap named : Removable(o)
    <3>1. run' = [run EXCEPT !.at = "sync"]
      BY <1>3, <2>4 DEF RemoveDropped
    <3>2. Moves("sync")
      BY <3>1, MovesFields
    <3>3. run.new = {}
      BY <2>1 DEF RunOK
    <3>4. \A o \in named : o \in run.dropped => o \in run.reachable \/ State(o) # "none"
      BY <2>4 DEF Removable
    <3>5. \A o \in Files : Explained(o) => Explained(o)'
      BY <2>1, <2>2, <3>2, <3>3, <3>4 DEF Explained, State, Moves, SameRun, Sealed
    <3>6. QED BY <1>1, <2>1, <2>2, <3>1, <3>5 DEF Sealed
  <2>5. QED BY <1>3, <2>3, <2>4 DEF RemoveDropped
<1>4. CASE SyncDirs
  <2>1. run.at = "sync" /\ log' = log /\ Files' = Files
    BY <1>4 DEF SyncDirs, repo, Files
  <2>2. CASE run' = Failed
    BY <2>2, OverFields, EndedDrops
  <2>3. CASE run' = [run EXCEPT !.at = "record"]
    <3>1. Moves("record")
      BY <2>3, MovesFields
    <3>2. \A o \in Files : Explained(o) => Explained(o)'
      BY <2>1, <3>1 DEF Explained, State, Moves, SameRun, Sealed
    <3>3. QED BY <1>1, <2>1, <2>3, <3>2 DEF Sealed
  <2>4. QED BY <1>4, <2>2, <2>3 DEF SyncDirs
<1>5. CASE MarkStaged
  <2>1. run.at = "record" /\ run' = [run EXCEPT !.at = "complete"] /\ Files' = Files
    BY <1>5 DEF MarkStaged, objects, Files
  <2>2. Moves("complete")
    BY <2>1, MovesFields
  <2>3. /\ \A o \in run.reachable \cup {run.tree} : Kept(o)'
        /\ \A o : State(o) # "none" => State(o)' # "none"
    BY <1>5, MarkStagedLog
  <2>4. \A o \in run.reachable \cup {run.tree} : State(o)' # "none"
    BY <2>3 DEF Kept
  <2>5. \A o \in Files : Explained(o) => Explained(o)'
    BY <2>1, <2>2, <2>3, <2>4 DEF Explained, Moves, SameRun, Sealed
  <2>6. QED BY <1>1, <2>1, <2>5 DEF Sealed
<1>6. CASE MarkComplete
  <2>1. run.at = "complete" /\ run' = [run EXCEPT !.at = "ref"] /\ log' = log /\ Files' = Files
    BY <1>6 DEF MarkComplete, objects, Files
  <2>2. Moves("ref")
    BY <2>1, MovesFields
  <2>3. \A o \in Files : Explained(o) => Explained(o)'
    BY <2>1, <2>2 DEF Explained, State, Moves, SameRun, Sealed
  <2>4. QED BY <1>1, <2>1, <2>3 DEF Sealed
<1>7. CASE UpdateRef
  <2>1. run.at = "ref" /\ log' = log /\ Files' = Files
    BY <1>7 DEF UpdateRef, objects, Files
  <2>2. Over /\ run'.there = run.there
    BY <1>7, OverFields DEF UpdateRef
  <2>3. \A o \in Files : Explained(o) => Explained(o)'
    BY <2>1, <2>2 DEF Explained, State, Over
  <2>4. FilesExplained'
    BY <2>1, <2>3 DEF DropInv, FilesExplained
  <2>5. ChunksDropped'
    BY <2>2 DEF Over, ChunksDropped
  <2>6. QED BY <2>4, <2>5
<1>8. CASE RemoveFails
  <2>1. run.at = "remove" /\ log' = log /\ Files' = Files /\ run' = Failed
    BY <1>8 DEF RemoveFails, repo, objects, Files
  <2>2. QED BY <2>1, OverFields, EndedDrops
<1>9. QED
  BY <1>2, <1>3, <1>4, <1>5, <1>6, <1>7, <1>8

LEMMA InitDrops == Init => DropInv
BY InitReach DEF Init, NoRun, DropInv, ChunksDropped, FilesExplained

LEMMA NextDrops == DropInv /\ [Next]_vars => DropInv'
<1> SUFFICES ASSUME DropInv, [Next]_vars PROVE ChunksDropped' /\ FilesExplained'
  BY NextReach DEF DropInv
<1> TypeOK
  BY DEF DropInv, ReachInv, EntriesInv
<1>1. CASE Change \/ Vanish \/ UNCHANGED vars
  <2>1. run' = run /\ log' = log /\ Files' = Files
    BY <1>1 DEF Change, Vanish, vars, repo, objects, Files
  <2>2. QED BY <2>1, SameRunDrops
<1>2. CASE StartFlush \/ FlushSync \/ FlushRename \/ FlushFails \/ FlushDone
  <2>1. Files' \subseteq Files /\ log' = log
    BY <1>2, FlushFiles DEF StartFlush, FlushSync, FlushRename, FlushFails, FlushDone, repo
  <2>2. run' = run \/ run' = Failed
    BY <1>2 DEF StartFlush, FlushSync, FlushRename, FlushFails, FlushDone
  <2>3. QED BY <2>1, <2>2, SameRunDrops, OverFields, EndedDrops
<1>3. CASE Begin
  <2>1. /\ run'.there = named /\ named' = named /\ group' = group /\ flush' = flush
        /\ group = << >> /\ flush.files = << >> /\ run'.new = {} /\ run'.dropped = {}
    BY <1>3, BeginFields, IdleBatch DEF Begin, objects
  <2>2. Files' = run'.there
    BY <2>1, RangeOfNone DEF Files
  <2>3. QED BY <2>1, <2>2 DEF FilesExplained, Explained, ChunksDropped
<1>4. CASE Kill \/ PowerLoss
  BY <1>4, OverFields, EndedDrops DEF Kill, PowerLoss
<1>5. QED
  BY <1>1, <1>2, <1>3, <1>4, WalkDrops, ReadChunkDrops, EndDrops DEF Next

\* A commit that ends leaves no chunk file of a dropped read: drop and keep hand
\* every one of them to removeDropped or to the snapshot (writer.go).
THEOREM DroppedFilesAreGone == Spec => []DroppedAreGone
<1>1. DropInv => DroppedAreGone
  <2>1. SUFFICES ASSUME DropInv, run.ended = "ok", NEW o \in named \ run.there PROVE State(o) # "none"
    BY DEF DroppedAreGone
  <2>2. Explained(o)
    BY <2>1 DEF DropInv, FilesExplained, Files
  <2>3. run.at = "idle"
    BY <2>1 DEF DropInv, ReachInv, EntriesInv, TypeOK, RunOK
  <2>4. QED BY <2>1, <2>2, <2>3 DEF Explained
<1>2. QED
  BY <1>1, InitDrops, NextDrops, PTL DEF Spec

--------------------------------------------------------------------------------
(* What a ref reaches has its bytes *)

Batch == Range(group) \cup Range(flush.files)

Whole(o) == State(o) \in {"Packed", "OnDisc"} \/ o \in named \ damaged

\* A commit has the object, or will: the flush that fails ends the commit.
Held(o) == Whole(o) \/ o \in Batch \/ flush.phase = "failed"

Needed ==
  run.reachable \cup ChunksOf(run.pos) \cup (IF run.at \in Sealed THEN {run.tree} ELSE {})

NeededHeld == \A o \in Needed : Held(o)

\* Neither a kill nor a failure.
Quiet == stops = 0 /\ errors = 0

FlushOK ==
  /\ flush.phase = "rename" => Range(flush.files) \subseteq synced
  /\ flush.phase = "failed" => errors > 0

\* Every name is of synced bytes, and the running commit will sync the
\* directory of every name whose directory was not.
SyncOK ==
  /\ named \subseteq synced
  /\ Batch \subseteq run.dirty
  /\ Quiet => soft \subseteq run.dirty
  /\ Quiet /\ run.at \in {"record", "complete", "ref"} => soft = {}

\* An object that a ref reaches: no batch has it, so no rename makes its name
\* one that a power loss can take.
Safe(o) ==
  \/ State(o) \in {"Packed", "OnDisc"}
  \/ State(o) = "Staged" /\ o \in named \ damaged /\ o \notin Batch /\ (Quiet => o \notin soft)

RefsSafe == \A s \in refs : \A o \in Reach(s) : Safe(o)

HeldInv == DropInv /\ NeededHeld /\ FlushOK /\ SyncOK /\ RefsSafe

LEMMA CountersGrow ==
  ASSUME TypeOK, [Next]_vars
  PROVE  /\ stops' \in {stops, stops + 1} /\ errors' \in {errors, errors + 1}
         /\ Quiet' => Quiet
<1>1. stops' \in {stops, stops + 1} /\ errors' \in {errors, errors + 1}
  BY DEF Next, vars, bounds, Change, Vanish, StartFlush, FlushSync, FlushRename, FlushFails,
         FlushDone, Begin, StatBefore, ReadChunk, ReadFails, StatAfter, WriteTree, WriteRootTree,
         WriteSnapshot, FlushEnds, RemoveDropped, RemoveFails, SyncDirs, MarkStaged, MarkComplete, UpdateRef,
         Kill, PowerLoss
<1>2. stops \in Nat /\ errors \in Nat
  BY DEF TypeOK, CountsOK
<1>3. QED
  BY <1>1, <1>2 DEF Quiet

LEMMA BatchOfNone == group = << >> /\ flush.files = << >> => Batch = {}
BY RangeOfNone DEF Batch

\* A step that changes no file that counts.
LEMMA RefsSafeKept ==
  ASSUME HeldInv, log' = log, refs' = refs, named' = named, damaged' = damaged,
         soft' \subseteq soft, Batch' \subseteq Batch, Quiet' => Quiet
  PROVE  RefsSafe'
<1>1. \A o : Safe(o) => Safe(o)'
  BY DEF Safe, State
<1>2. QED
  BY <1>1 DEF HeldInv, RefsSafe

LEMMA OverHeld ==
  ASSUME Over, group' = << >>, flush' = NoFlush, named' \subseteq synced', Quiet' => soft' = {}
  PROVE  NeededHeld' /\ FlushOK' /\ SyncOK' /\ Batch' = {}
<1>1. flush'.files = << >> /\ flush'.phase = "none"
  BY DEF NoFlush
<1>2. Batch' = {}
  BY <1>1, RangeOfNone DEF Batch
<1>3. Needed' = {}
  BY RangeOfNone DEF Over, Needed, ChunksOf, Sealed
<1>4. QED
  BY <1>1, <1>2, <1>3 DEF NeededHeld, FlushOK, SyncOK, Over

LEMMA StartFlushHeld ==
  ASSUME HeldInv, StartFlush, Quiet' => Quiet
  PROVE  NeededHeld' /\ FlushOK' /\ SyncOK' /\ RefsSafe'
<1>1. /\ flush.phase = "none" /\ flush'.files = group /\ flush'.phase = "sync" /\ group' = << >>
      /\ run' = run /\ log' = log /\ refs' = refs
      /\ named' = named /\ damaged' = damaged /\ synced' = synced /\ soft' = soft
  BY DEF StartFlush, objects, repo
<1>2. flush.files = << >>
  BY <1>1 DEF HeldInv, DropInv, ReachInv, EntriesInv, TypeOK, BatchOK
<1>3. Batch' = Batch
  BY <1>1, <1>2, RangeOfNone DEF Batch
<1>4. NeededHeld'
  BY <1>1, <1>3 DEF HeldInv, NeededHeld, Needed, Held, Whole, State
<1>5. FlushOK' /\ SyncOK'
  BY <1>1, <1>3 DEF HeldInv, FlushOK, SyncOK
<1>6. RefsSafe'
  BY <1>1, <1>3, RefsSafeKept
<1>7. QED
  BY <1>4, <1>5, <1>6

LEMMA FlushSyncHeld ==
  ASSUME HeldInv, FlushSync, Quiet' => Quiet
  PROVE  NeededHeld' /\ FlushOK' /\ SyncOK' /\ RefsSafe'
<1>1. /\ flush.phase = "sync" /\ flush'.files = flush.files /\ flush'.phase = "rename" /\ group' = group
      /\ run' = run /\ log' = log /\ refs' = refs
      /\ named' = named /\ damaged' = damaged /\ synced' = synced \cup Range(flush.files) /\ soft' = soft
  BY DEF FlushSync, repo, HeldInv, DropInv, ReachInv, EntriesInv, TypeOK, BatchOK
<1>3. Batch' = Batch
  BY <1>1 DEF Batch
<1>4. NeededHeld'
  BY <1>1, <1>3 DEF HeldInv, NeededHeld, Needed, Held, Whole, State
<1>5. FlushOK' /\ SyncOK'
  BY <1>1, <1>3 DEF HeldInv, FlushOK, SyncOK
<1>6. RefsSafe'
  BY <1>1, <1>3, RefsSafeKept
<1>7. QED
  BY <1>4, <1>5, <1>6

LEMMA FlushRenameHeld ==
  ASSUME HeldInv, FlushRename, Quiet' => Quiet
  PROVE  NeededHeld' /\ FlushOK' /\ SyncOK' /\ RefsSafe'
<1>1. PICK q \in Seq(Objects) : q = flush.files
  BY DEF HeldInv, DropInv, ReachInv, EntriesInv, TypeOK, BatchOK
<1>2. PICK h : h = Head(q)
  OBVIOUS
<1>3. /\ flush.phase = "rename" /\ q # << >> /\ flush'.files = Tail(q) /\ flush'.phase = "rename"
      /\ group' = group /\ run' = run /\ log' = log /\ refs' = refs /\ synced' = synced
      /\ named' = named \cup {h} /\ damaged' = damaged \ {h} /\ soft' = soft \cup {h}
  BY <1>1, <1>2 DEF FlushRename, repo, HeldInv, DropInv, ReachInv, EntriesInv, TypeOK, BatchOK
<1>4. Range(q) = {h} \cup Range(Tail(q))
  BY <1>2, <1>3, RangeOfTail
<1>5. h \in Batch /\ Batch' \subseteq Batch /\ Batch \subseteq Batch' \cup {h} /\ h \in synced
  BY <1>1, <1>3, <1>4 DEF Batch, HeldInv, FlushOK
<1>6. NeededHeld'
  <2>1. \A o : Held(o) => Held(o)'
    BY <1>3, <1>5 DEF Held, Whole, State
  <2>2. Needed' = Needed
    BY <1>3 DEF Needed
  <2>3. QED BY <2>1, <2>2 DEF HeldInv, NeededHeld
<1>7. FlushOK'
  BY <1>1, <1>3, <1>4 DEF HeldInv, FlushOK
<1>8. SyncOK'
  <2>1. run.at \notin {"record", "complete", "ref"}
    BY <1>3 DEF HeldInv, DropInv, ReachInv, EntriesInv, TypeOK, BatchOK
  <2>2. QED BY <1>3, <1>5, <2>1 DEF HeldInv, SyncOK
<1>9. RefsSafe'
  <2>1. \A o : Safe(o) => Safe(o)'
    BY <1>3, <1>5 DEF Safe, State
  <2>2. QED BY <1>3, <2>1 DEF HeldInv, RefsSafe
<1>10. QED
  BY <1>6, <1>7, <1>8, <1>9

LEMMA FlushFailsHeld ==
  ASSUME HeldInv, FlushFails
  PROVE  NeededHeld' /\ FlushOK' /\ SyncOK' /\ RefsSafe'
<1>1. /\ flush'.files = << >> /\ flush'.phase = "failed" /\ group' = group
      /\ run' = run /\ log' = log /\ refs' = refs /\ errors' = errors + 1 /\ errors \in Nat
      /\ named' = named /\ damaged' = damaged /\ synced' = synced /\ soft' = soft
  BY DEF FlushFails, objects, repo, HeldInv, DropInv, ReachInv, EntriesInv, TypeOK, CountsOK
<1>2. Batch' \subseteq Batch
  BY <1>1, RangeOfNone DEF Batch
<1>3. ~Quiet'
  BY <1>1 DEF Quiet
<1>4. NeededHeld' /\ FlushOK'
  BY <1>1 DEF NeededHeld, Held, FlushOK
<1>5. SyncOK'
  BY <1>1, <1>2, <1>3 DEF HeldInv, SyncOK
<1>6. RefsSafe'
  BY <1>1, <1>2, <1>3, RefsSafeKept
<1>7. QED
  BY <1>4, <1>5, <1>6

LEMMA FlushDoneHeld ==
  ASSUME HeldInv, FlushDone, Quiet' => Quiet
  PROVE  NeededHeld' /\ FlushOK' /\ SyncOK' /\ RefsSafe'
<1>1. /\ flush' = NoFlush /\ flush.files = << >> /\ flush.phase \in {"rename", "failed"}
      /\ log' = log /\ refs' = refs /\ errors' = errors
      /\ named' = named /\ damaged' = damaged /\ synced' = synced /\ soft' = soft
  BY DEF FlushDone, objects, repo, bounds
<1>2. flush'.files = << >> /\ flush'.phase = "none"
  BY <1>1 DEF NoFlush
<1>3. CASE flush.phase = "failed"
  <2>1. Over /\ group' = << >>
    BY <1>1, <1>3, OverFields DEF FlushDone
  <2>2. errors > 0
    BY <1>3 DEF HeldInv, FlushOK
  <2>3. ~Quiet'
    BY <1>1, <2>2 DEF Quiet
  <2>4. NeededHeld' /\ FlushOK' /\ SyncOK' /\ Batch' = {}
    <3>1. named' \subseteq synced'
      BY <1>1 DEF HeldInv, SyncOK
    <3>2. QED BY <1>1, <2>1, <2>3, <3>1, OverHeld
  <2>5. QED BY <1>1, <2>4, RefsSafeKept
<1>4. CASE flush.phase # "failed"
  <2>1. run' = run /\ group' = group
    BY <1>1, <1>4 DEF FlushDone
  <2>2. Batch' = Batch
    BY <1>1, <1>2, <2>1 DEF Batch
  <2>3. NeededHeld'
    BY <1>1, <1>4, <2>1, <2>2 DEF HeldInv, NeededHeld, Needed, Held, Whole, State
  <2>4. FlushOK' /\ SyncOK'
    BY <1>1, <1>2, <2>1, <2>2 DEF HeldInv, FlushOK, SyncOK
  <2>5. QED BY <1>1, <2>2, <2>3, <2>4, RefsSafeKept
<1>5. QED
  BY <1>3, <1>4

\* One more object is needed, and is written or counts as written.
LEMMA PutsHeld ==
  ASSUME HeldInv, NEW o \in Objects, Puts(o), Wait, errors' = errors,
         run'.at \notin {"record", "complete", "ref"}, Needed' \subseteq Needed \cup {o}
  PROVE  NeededHeld' /\ FlushOK' /\ SyncOK' /\ RefsSafe'
<1>1. /\ flush' = flush /\ log' = log /\ refs' = refs /\ (Quiet' => Quiet)
      /\ named' = named /\ damaged' = damaged /\ synced' = synced /\ soft' = soft
  BY DEF Wait, objects, Quiet
<1>2. group \in Seq(Objects)
  BY DEF HeldInv, DropInv, ReachInv, EntriesInv, TypeOK, BatchOK
<1>3. Range(group') = IF NeedsFile(o) THEN Range(group) \cup {o} ELSE Range(group)
  BY <1>2, GroupedType DEF Puts
<1>4. Batch' = IF NeedsFile(o) THEN Batch \cup {o} ELSE Batch
  BY <1>1, <1>3 DEF Batch
<1>5. NeedsFile(o) <=> (o \notin Batch /\ (o \notin named \/ o \in damaged))
  BY DEF NeedsFile, InBatch, Batch
<1>6. NeededHeld'
  <2>1. \A x : Held(x) => Held(x)'
    BY <1>1, <1>4 DEF Held, Whole, State
  <2>2. Held(o)'
    BY <1>1, <1>4, <1>5 DEF Held, Whole
  <2>3. QED BY <2>1, <2>2 DEF HeldInv, NeededHeld
<1>7. FlushOK'
  BY <1>1 DEF HeldInv, FlushOK, Wait
<1>8. SyncOK'
  BY <1>1, <1>4 DEF HeldInv, SyncOK, Puts
<1>9. RefsSafe'
  <2>1. \A x : Safe(x) => Safe(x)'
    BY <1>1, <1>4, <1>5 DEF Safe, State
  <2>2. QED BY <1>1, <2>1 DEF HeldInv, RefsSafe
<1>10. QED
  BY <1>6, <1>7, <1>8, <1>9

\* A step of the run that writes nothing and needs nothing more.
LEMMA IdleHeld ==
  ASSUME HeldInv, Wait, group' = group, Quiet' => Quiet, errors' \in {errors, errors + 1},
         run'.dirty = run.dirty, Needed' \subseteq Needed,
         run'.at \in {"record", "complete", "ref"} => run.at \in {"record", "complete", "ref"}
  PROVE  NeededHeld' /\ FlushOK' /\ SyncOK' /\ RefsSafe'
<1>1. /\ flush' = flush /\ log' = log /\ refs' = refs
      /\ named' = named /\ damaged' = damaged /\ synced' = synced /\ soft' = soft
  BY DEF Wait, objects
<1>2. Batch' = Batch
  BY <1>1 DEF Batch
<1>3. \A x : Held(x) => Held(x)'
  BY <1>1, <1>2 DEF Held, Whole, State
<1>4. NeededHeld'
  BY <1>3 DEF HeldInv, NeededHeld
<1>5. FlushOK'
  BY <1>1 DEF HeldInv, FlushOK, DropInv, ReachInv, EntriesInv, TypeOK, CountsOK
<1>6. SyncOK'
  BY <1>1, <1>2 DEF HeldInv, SyncOK
<1>7. QED
  BY <1>1, <1>2, <1>4, <1>5, <1>6, RefsSafeKept

LEMMA NeededOfPasses ==
  ASSUME Passes, run'.at \in Walking
  PROVE  Needed' \subseteq Needed
BY RangeOfNone DEF Passes, Needed, ChunksOf, Walking, Sealed

LEMMA WalkHeld ==
  ASSUME HeldInv, StatBefore \/ ReadChunk \/ ReadFails \/ StatAfter, Quiet' => Quiet
  PROVE  NeededHeld' /\ FlushOK' /\ SyncOK' /\ RefsSafe'
<1> TypeOK /\ RunOK
  BY DEF HeldInv, DropInv, ReachInv, EntriesInv, TypeOK
<1>1. ASSUME Passes, Wait, run'.at \in Walking, errors' \in {errors, errors + 1}
      PROVE  NeededHeld' /\ FlushOK' /\ SyncOK' /\ RefsSafe'
  <2>1. Needed' \subseteq Needed
    BY <1>1, NeededOfPasses
  <2>2. run'.dirty = run.dirty /\ group' = group /\ run'.at \notin {"record", "complete", "ref"}
    BY <1>1 DEF Passes, Walking
  <2>3. QED BY <1>1, <2>1, <2>2, IdleHeld
<1>2. CASE StatBefore
  BY <1>1, <1>2, StatBeforeRun DEF Walking
<1>3. CASE ReadFails
  BY <1>1, <1>3, ReadFailsRun DEF Walking
<1>4. CASE StatAfter
  <2>1. PICK e : e = [path |-> Current, chunks |-> run.pos, unstable |-> Differs]
    OBVIOUS
  <2>2. run.at = "read" /\ Wait /\ errors' = errors
    BY <1>4, <2>1, StatAfterRun
  <2>3. CASE Passes /\ run'.at \in Walking
    BY <1>1, <2>2, <2>3
  <2>4. CASE /\ run'.at = "stat" /\ run'.pos = << >>
             /\ run'.reachable = run.reachable \cup ChunksOf(run.pos) \cup {Blob(run.pos)}
             /\ Puts(Blob(run.pos))
    <3>1. PICK o \in Objects : o = Blob(run.pos)
      BY WrittenObjects
    <3>2. Needed' \subseteq Needed \cup {o}
      BY <2>4, <3>1, RangeOfNone DEF Needed, ChunksOf, Sealed
    <3>3. QED BY <2>2, <2>4, <3>1, <3>2, PutsHeld
  <2>5. QED BY <1>4, <2>1, <2>3, <2>4, StatAfterRun DEF Walking
<1>5. CASE ReadChunk
  <2>1. PICK c : c = NextChunk
    OBVIOUS
  <2>2. PICK o : o = ChunkObject(c)
    OBVIOUS
  <2>3. c \in Chunk /\ o \in Objects
    BY <1>5, <2>1, <2>2, NextChunkType, WrittenObjects
  <2>4. PICK p \in Seq(Chunk) : p = run.pos
    BY DEF RunOK
  <2>5. /\ run.at = "read" /\ Wait /\ errors' = errors /\ run'.at = "read"
        /\ run'.pos = Append(p, c) /\ run'.reachable = run.reachable
    BY <1>5, <2>1, <2>4, ReadChunkRun
  <2>6. Needed' = Needed \cup {o}
    <3>1. Range(Append(p, c)) = Range(p) \cup {c}
      BY <2>3, RangeOfAppend
    <3>2. QED BY <2>2, <2>4, <2>5, <3>1 DEF Needed, ChunksOf, Sealed
  <2>7. CASE Puts(o)
    BY <2>3, <2>5, <2>6, <2>7, PutsHeld
  <2>8. CASE OnDisc(c) /\ group' = group /\ run'.dirty = run.dirty
    <3>1. /\ flush' = flush /\ log' = log /\ refs' = refs
          /\ named' = named /\ damaged' = damaged /\ synced' = synced /\ soft' = soft
      BY <2>5 DEF Wait, objects
    <3>2. Batch' = Batch
      BY <2>8, <3>1 DEF Batch
    <3>3. \A x : Held(x) => Held(x)'
      BY <3>1, <3>2 DEF Held, Whole, State
    <3>4. Held(o)'
      BY <2>2, <2>8, <3>1 DEF Held, Whole, OnDisc, State
    <3>5. NeededHeld'
      BY <2>6, <3>3, <3>4 DEF HeldInv, NeededHeld
    <3>6. FlushOK' /\ SyncOK'
      BY <2>5, <2>8, <3>1, <3>2 DEF HeldInv, FlushOK, SyncOK
    <3>7. QED BY <3>1, <3>2, <3>5, <3>6, RefsSafeKept
  <2>9. QED BY <1>5, <2>1, <2>2, <2>7, <2>8, ReadChunkRun
<1>6. QED
  BY <1>2, <1>3, <1>4, <1>5

LEMMA WritesHeld ==
  ASSUME HeldInv, WriteTree \/ WriteRootTree \/ WriteSnapshot
  PROVE  NeededHeld' /\ FlushOK' /\ SyncOK' /\ RefsSafe'
<1> TypeOK /\ RunOK
  BY DEF HeldInv, DropInv, ReachInv, EntriesInv, TypeOK
<1>1. ASSUME NEW o \in Objects, Wrote(o), run'.reachable \subseteq run.reachable \cup {o},
             run'.at \in {"root", "snapshot", "flush"}
      PROVE  NeededHeld' /\ FlushOK' /\ SyncOK' /\ RefsSafe'
  <2>1. Needed' \subseteq Needed \cup {o}
    BY <1>1 DEF Needed, Wrote
  <2>2. Puts(o) /\ Wait /\ errors' = errors /\ run'.at \notin {"record", "complete", "ref"}
    BY <1>1 DEF Wrote
  <2>3. QED BY <2>1, <2>2, PutsHeld
<1>2. CASE WriteTree
  BY <1>1, <1>2, WriteTreeRun, WrittenObjects
<1>3. CASE WriteRootTree
  <2>1. PICK o : o = RootTree(run.tree)
    OBVIOUS
  <2>2. o \in Objects /\ Wrote(o) /\ run'.reachable \subseteq run.reachable \cup {o} /\ run'.at = "snapshot"
    BY <1>3, <2>1, WriteRootRun, WrittenObjects
  <2>3. QED BY <1>1, <2>2
<1>4. CASE WriteSnapshot
  <2>1. PICK o : o = Snapshot(run.tree, commits)
    OBVIOUS
  <2>2. o \in Objects /\ Wrote(o) /\ run'.reachable \subseteq run.reachable \cup {o} /\ run'.at = "flush"
    BY <1>4, <2>1, WriteSnapshotRun, WrittenObjects
  <2>3. QED BY <1>1, <2>2
<1>5. QED
  BY <1>2, <1>3, <1>4

LEMMA RemoveDroppedHeld ==
  ASSUME HeldInv, RemoveDropped, Quiet' => Quiet
  PROVE  NeededHeld' /\ FlushOK' /\ SyncOK' /\ RefsSafe'
<1> TypeOK /\ RunOK
  BY DEF HeldInv, DropInv, ReachInv, EntriesInv, TypeOK
<1>1. /\ run.at = "remove" /\ log' = log /\ refs' = refs /\ synced' = synced
      /\ group' = group /\ flush' = flush /\ errors' = errors
  BY DEF RemoveDropped, repo, bounds
<1>2. CASE ~ \E o \in run.dropped \cap named : Removable(o)
  <2>1. named' = named /\ damaged' = damaged /\ soft' = soft /\ run' = [run EXCEPT !.at = "sync"]
    BY <1>2 DEF RemoveDropped
  <2>2. Moves("sync")
    BY <2>1, MovesFields
  <2>3. Needed' \subseteq Needed /\ run'.dirty = run.dirty /\ run'.at = "sync"
    BY <1>1, <2>2 DEF Needed, Moves, Sealed
  <2>4. Wait
    BY <1>1, <2>1 DEF Wait, objects, RemoveDropped, repo, bounds
  <2>5. QED BY <1>1, <2>3, <2>4, IdleHeld
<1>3. CASE \E o \in run.dropped \cap named : Removable(o)
  <2>1. PICK o \in run.dropped \cap named : Removable(o) /\ named' = named \ {o}
    BY <1>3 DEF RemoveDropped
  <2>2. run' = run /\ damaged' \subseteq damaged /\ soft' \subseteq soft
    BY <1>3 DEF RemoveDropped
  <2>3. State(o) = "none" /\ o \notin run.reachable /\ o.kind = "chunk"
    BY <2>1 DEF Removable, HeldInv, DropInv, ChunksDropped
  <2>4. PICK n \in Nat : run.tree = Snapshot(RootTree(Tree(run.entries)), n)
    BY <1>1 DEF TypeOK, TreeOK, Sealed
  <2>5. o # run.tree
    BY <2>3, <2>4 DEF Snapshot
  <2>6. o \notin Needed
    BY <1>1, <2>3, <2>5, RangeOfNone DEF Needed, ChunksOf, RunOK
  <2>7. Batch' = Batch /\ Needed' = Needed
    BY <1>1, <2>2 DEF Batch, Needed
  <2>8. \A x : x # o /\ Held(x) => Held(x)'
    BY <1>1, <2>1, <2>2, <2>7 DEF Held, Whole, State
  <2>9. NeededHeld'
    BY <2>6, <2>7, <2>8 DEF HeldInv, NeededHeld
  <2>10. FlushOK' /\ SyncOK'
    BY <1>1, <2>1, <2>2, <2>7 DEF HeldInv, FlushOK, SyncOK
  <2>11. \A x : Safe(x) => Safe(x)'
    BY <1>1, <2>1, <2>2, <2>3, <2>7 DEF Safe, State
  <2>12. RefsSafe'
    BY <1>1, <2>11 DEF HeldInv, RefsSafe
  <2>13. QED BY <2>9, <2>10, <2>12
<1>4. QED
  BY <1>2, <1>3

LEMMA RemoveFailsHeld ==
  ASSUME HeldInv, RemoveFails, Quiet' => Quiet
  PROVE  NeededHeld' /\ FlushOK' /\ SyncOK' /\ RefsSafe'
<1> TypeOK /\ RunOK
  BY DEF HeldInv, DropInv, ReachInv, EntriesInv, TypeOK
<1>1. /\ run.at = "remove" /\ log' = log /\ refs' = refs /\ synced' = synced /\ named' = named
      /\ damaged' = damaged /\ soft' = soft /\ group' = group /\ flush' = flush
      /\ run' = Failed /\ errors' = errors + 1
  BY DEF RemoveFails, repo, objects
<1>2. group = << >> /\ flush = NoFlush
  BY <1>1, IdleBatch
<1>3. Batch' = Batch
  BY <1>1 DEF Batch
<1>4. Over
  BY <1>1, OverFields
<1>5. ~Quiet'
  BY <1>1 DEF Quiet, TypeOK, CountsOK
<1>6. named' \subseteq synced' /\ group' = << >> /\ flush' = NoFlush
  BY <1>1, <1>2 DEF HeldInv, SyncOK
<1>7. NeededHeld' /\ FlushOK' /\ SyncOK'
  BY <1>4, <1>5, <1>6, OverHeld
<1>8. RefsSafe'
  BY <1>1, <1>3, RefsSafeKept
<1>9. QED
  BY <1>7, <1>8

LEMMA SyncDirsHeld ==
  ASSUME HeldInv, SyncDirs, Quiet' => Quiet
  PROVE  NeededHeld' /\ FlushOK' /\ SyncOK' /\ RefsSafe'
<1> TypeOK /\ RunOK
  BY DEF HeldInv, DropInv, ReachInv, EntriesInv, TypeOK
<1>1. /\ run.at = "sync" /\ log' = log /\ refs' = refs /\ synced' = synced /\ named' = named
      /\ damaged' = damaged /\ group' = group /\ flush' = flush
  BY DEF SyncDirs, repo
<1>2. group = << >> /\ flush = NoFlush /\ flush.files = << >>
  BY <1>1, IdleBatch
<1>3. Batch' = Batch
  BY <1>1 DEF Batch
<1>4. CASE soft' = soft \ run.dirty /\ run' = [run EXCEPT !.at = "record"] /\ errors' = errors
  <2>1. Moves("record")
    BY <1>4, MovesFields
  <2>2. Needed' = Needed /\ run'.dirty = run.dirty
    BY <1>1, <2>1 DEF Needed, Moves, Sealed
  <2>3. Quiet => soft' = {}
    BY <1>4 DEF HeldInv, SyncOK
  <2>4. NeededHeld'
    BY <1>1, <1>3, <2>2 DEF HeldInv, NeededHeld, Held, Whole, State
  <2>5. FlushOK' /\ SyncOK'
    BY <1>1, <1>3, <1>4, <2>2, <2>3 DEF HeldInv, FlushOK, SyncOK
  <2>6. RefsSafe'
    BY <1>1, <1>3, <1>4, RefsSafeKept
  <2>7. QED BY <2>4, <2>5, <2>6
<1>5. CASE soft' = soft /\ run' = Failed /\ errors' = errors + 1
  <2>1. Over
    BY <1>5, OverFields
  <2>2. ~Quiet'
    BY <1>5 DEF Quiet, TypeOK, CountsOK
  <2>3. named' \subseteq synced' /\ group' = << >> /\ flush' = NoFlush
    BY <1>1, <1>2 DEF HeldInv, SyncOK
  <2>4. NeededHeld' /\ FlushOK' /\ SyncOK'
    BY <2>1, <2>2, <2>3, OverHeld
  <2>5. RefsSafe'
    BY <1>1, <1>3, <1>5, RefsSafeKept
  <2>6. QED BY <2>4, <2>5
<1>6. QED
  BY <1>4, <1>5 DEF SyncDirs

LEMMA MarkStagedHeld ==
  ASSUME HeldInv, MarkStaged
  PROVE  NeededHeld' /\ FlushOK' /\ SyncOK' /\ RefsSafe'
<1> RunOK /\ LogOK
  BY DEF HeldInv, DropInv, ReachInv, EntriesInv, TypeOK
<1>1. /\ run.at = "record" /\ refs' = refs /\ synced' = synced /\ named' = named /\ soft' = soft
      /\ damaged' = damaged /\ group' = group /\ flush' = flush /\ errors' = errors /\ stops' = stops
      /\ run' = [run EXCEPT !.at = "complete"]
  BY DEF MarkStaged, objects, bounds
<1>2. Moves("complete")
  BY <1>1, MovesFields
<1>3. Batch' = Batch /\ Needed' = Needed /\ run'.dirty = run.dirty /\ run'.at = "complete"
  BY <1>1, <1>2 DEF Batch, Needed, Moves, Sealed
<1>4. \A o : Kept(o) => State(o)' = State(o)
  BY MarkStagedLog
<1>5. \A o : Held(o) => Held(o)'
  BY <1>1, <1>3, <1>4 DEF Held, Whole, Kept
<1>6. NeededHeld'
  BY <1>3, <1>5 DEF HeldInv, NeededHeld
<1>7. FlushOK' /\ SyncOK'
  BY <1>1, <1>3 DEF HeldInv, FlushOK, SyncOK, Quiet
<1>8. \A o : Safe(o) => Safe(o)'
  BY <1>1, <1>3, <1>4 DEF Safe, Kept, Quiet
<1>9. RefsSafe'
  BY <1>1, <1>8 DEF HeldInv, RefsSafe
<1>10. QED
  BY <1>6, <1>7, <1>9

LEMMA UpdateRefHeld ==
  ASSUME HeldInv, UpdateRef
  PROVE  NeededHeld' /\ FlushOK' /\ SyncOK' /\ RefsSafe'
<1> TypeOK /\ RunOK
  BY DEF HeldInv, DropInv, ReachInv, EntriesInv, TypeOK
<1>1. /\ run.at = "ref" /\ refs' = refs \cup {run.tree} /\ log' = log /\ synced' = synced /\ named' = named
      /\ soft' = soft /\ damaged' = damaged /\ group' = group /\ flush' = flush /\ (Quiet' <=> Quiet)
  BY DEF UpdateRef, objects, bounds, Quiet
<1>2. Over
  BY OverFields DEF UpdateRef
<1>3. group = << >> /\ flush = NoFlush /\ flush.phase = "none" /\ flush.files = << >>
  BY <1>1, IdleBatch
<1>4. Batch = {} /\ Batch' = {}
  BY <1>1, <1>3, RangeOfNone DEF Batch
<1>5. Quiet => soft = {}
  BY <1>1 DEF HeldInv, SyncOK
<1>6. NeededHeld' /\ FlushOK' /\ SyncOK'
  BY <1>1, <1>2, <1>3, <1>5, OverHeld DEF HeldInv, SyncOK
<1>7. \A o : Safe(o) => Safe(o)'
  BY <1>1, <1>4 DEF Safe, State
<1>8. ASSUME NEW o \in Reach(run.tree) PROVE Safe(o)'
  <2>1. o \in run.reachable \cup {run.tree}
    BY <1>1, ReachOfRun DEF HeldInv, DropInv, ReachInv, Sealed
  <2>2. Kept(o)
    BY <1>1, <2>1 DEF HeldInv, DropInv, ReachInv, AllRecorded
  <2>3. o \in Needed
    BY <1>1, <2>1 DEF Needed, Sealed
  <2>4. Whole(o)
    BY <1>3, <1>4, <2>3 DEF HeldInv, NeededHeld, Held
  <2>5. Safe(o)
    BY <1>4, <1>5, <2>2, <2>4 DEF Safe, Whole, Kept
  <2>6. QED BY <1>7, <2>5
<1>9. RefsSafe'
  BY <1>1, <1>7, <1>8 DEF HeldInv, RefsSafe
<1>10. QED
  BY <1>6, <1>9

LEMMA MovesHeld ==
  ASSUME HeldInv, FlushEnds \/ MarkComplete
  PROVE  NeededHeld' /\ FlushOK' /\ SyncOK' /\ RefsSafe'
<1> RunOK
  BY DEF HeldInv, DropInv, ReachInv, EntriesInv, TypeOK
<1>1. PICK at \in {"remove", "ref"} : run' = [run EXCEPT !.at = at] /\ (at = "ref" => run.at = "complete")
                                      /\ run.at \in {"flush", "complete"}
  BY DEF FlushEnds, MarkComplete
<1>2. Moves(at)
  BY <1>1, MovesFields
<1>3. Needed' = Needed /\ run'.dirty = run.dirty /\ run'.at = at
  BY <1>1, <1>2 DEF Needed, Moves, Sealed
<1>4. /\ flush' = flush /\ log' = log /\ refs' = refs /\ group' = group /\ errors' = errors /\ stops' = stops
      /\ named' = named /\ damaged' = damaged /\ synced' = synced /\ soft' = soft
  BY DEF FlushEnds, MarkComplete, objects, repo, bounds
<1>5. Batch' = Batch /\ (Quiet' <=> Quiet)
  BY <1>4 DEF Batch, Quiet
<1>6. NeededHeld'
  BY <1>3, <1>4, <1>5 DEF HeldInv, NeededHeld, Held, Whole, State
<1>7. FlushOK' /\ SyncOK'
  BY <1>1, <1>3, <1>4, <1>5 DEF HeldInv, FlushOK, SyncOK
<1>8. QED
  BY <1>4, <1>5, <1>6, <1>7, RefsSafeKept

LEMMA BeginHeld ==
  ASSUME HeldInv, Begin
  PROVE  NeededHeld' /\ FlushOK' /\ SyncOK' /\ RefsSafe'
<1> TypeOK /\ RunOK
  BY DEF HeldInv, DropInv, ReachInv, EntriesInv, TypeOK
<1>1. /\ flush' = flush /\ log' = log /\ refs' = refs /\ group' = group /\ errors' = errors /\ stops' = stops
      /\ named' = named /\ damaged' = damaged /\ synced' = synced /\ soft' = soft
  BY DEF Begin, objects, repo
<1>2. /\ run.at = "idle" /\ run'.at = "stat" /\ run'.pos = << >> /\ run'.reachable = {} /\ run'.dirty = {}
  BY BeginFields
<1>3. group = << >> /\ flush.phase = "none" /\ flush.files = << >>
  BY <1>2, IdleBatch
<1>4. Batch = {} /\ Batch' = {} /\ (Quiet' <=> Quiet)
  BY <1>1, <1>3, BatchOfNone, RangeOfNone DEF Batch, Quiet
<1>5. Needed' = {}
  BY <1>2, RangeOfNone DEF Needed, ChunksOf, Sealed
<1>6. NeededHeld' /\ FlushOK'
  BY <1>1, <1>3, <1>5 DEF NeededHeld, FlushOK
<1>7. SyncOK'
  BY <1>1, <1>2, <1>4 DEF HeldInv, SyncOK, RunOK
<1>8. QED
  BY <1>1, <1>4, <1>6, <1>7, RefsSafeKept

LEMMA KillHeld ==
  ASSUME HeldInv, Kill
  PROVE  NeededHeld' /\ FlushOK' /\ SyncOK' /\ RefsSafe'
<1>1. /\ flush' = NoFlush /\ log' = log /\ refs' = refs /\ group' = << >> /\ stops' = stops + 1
      /\ named' = named /\ damaged' = damaged /\ synced' = synced /\ soft' = soft /\ Over
  BY OverFields DEF Kill, objects, repo
<1>2. ~Quiet'
  BY <1>1 DEF Quiet, HeldInv, DropInv, ReachInv, EntriesInv, TypeOK, CountsOK
<1>3. named' \subseteq synced'
  BY <1>1 DEF HeldInv, SyncOK
<1>4. NeededHeld' /\ FlushOK' /\ SyncOK' /\ Batch' = {}
  BY <1>1, <1>2, <1>3, OverHeld
<1>5. QED
  BY <1>1, <1>2, <1>4, RefsSafeKept

\* The one step that can take what a ref needs; with neither a kill nor a
\* failure before it, each such name is of a directory that was synced.
LEMMA PowerLossHeld ==
  ASSUME HeldInv, PowerLoss, PowerFirst
  PROVE  NeededHeld' /\ FlushOK' /\ SyncOK' /\ RefsSafe'
<1>1. PICK lost \in SUBSET soft : named' = named \ lost /\ damaged' = (damaged \cup (named \ synced)) \ lost
  BY DEF PowerLoss
<1>2. /\ flush' = NoFlush /\ log' = log /\ refs' = refs /\ group' = << >>
      /\ synced' = synced /\ soft' = {} /\ Over /\ Quiet
  BY OverFields DEF PowerLoss, repo, Quiet
<1>3. named' \subseteq synced'
  BY <1>1, <1>2 DEF HeldInv, SyncOK
<1>4. NeededHeld' /\ FlushOK' /\ SyncOK' /\ Batch' = {}
  BY <1>2, <1>3, OverHeld
<1>5. \A o : Safe(o) => Safe(o)'
  BY <1>1, <1>2, <1>4 DEF Safe, State, HeldInv, SyncOK
<1>6. QED
  BY <1>2, <1>4, <1>5 DEF HeldInv, RefsSafe

LEMMA InitHeld == Init => HeldInv
<1> SUFFICES ASSUME Init PROVE HeldInv
  OBVIOUS
<1>1. /\ run.at = "idle" /\ run.pos = << >> /\ run.reachable = {} /\ group = << >>
      /\ flush.files = << >> /\ flush.phase = "none"
  BY DEF Init, NoRun, NoFlush
<1>2. Batch = {} /\ Needed = {}
  BY <1>1, BatchOfNone, RangeOfNone DEF Needed, ChunksOf, Sealed
<1>3. QED
  BY <1>1, <1>2, InitDrops DEF Init, HeldInv, NeededHeld, FlushOK, SyncOK, RefsSafe

LEMMA NextHeld == HeldInv /\ PowerFirst /\ [Next]_vars => HeldInv'
<1> SUFFICES ASSUME HeldInv, PowerFirst, [Next]_vars
             PROVE  NeededHeld' /\ FlushOK' /\ SyncOK' /\ RefsSafe'
  BY NextDrops DEF HeldInv
<1>1. Quiet' => Quiet
  BY CountersGrow DEF HeldInv, DropInv, ReachInv, EntriesInv
<1>2. CASE Change \/ Vanish \/ UNCHANGED vars
  <2>1. /\ flush' = flush /\ log' = log /\ refs' = refs /\ group' = group /\ errors' = errors /\ run' = run
        /\ named' = named /\ damaged' = damaged /\ synced' = synced /\ soft' = soft
    BY <1>2 DEF Change, Vanish, vars, repo, objects, bounds
  <2>2. Batch' = Batch /\ Needed' = Needed
    BY <2>1 DEF Batch, Needed
  <2>3. NeededHeld'
    BY <2>1, <2>2 DEF HeldInv, NeededHeld, Held, Whole, State
  <2>4. FlushOK' /\ SyncOK'
    BY <1>1, <2>1, <2>2 DEF HeldInv, FlushOK, SyncOK
  <2>5. QED BY <1>1, <2>1, <2>2, <2>3, <2>4, RefsSafeKept
<1>3. QED
  BY <1>1, <1>2, StartFlushHeld, FlushSyncHeld, FlushRenameHeld, FlushFailsHeld, FlushDoneHeld, WalkHeld,
     WritesHeld, RemoveDroppedHeld, RemoveFailsHeld, SyncDirsHeld, MarkStagedHeld, UpdateRefHeld, MovesHeld, BeginHeld,
     KillHeld, PowerLossHeld DEF Next

\* All that a ref reaches has a record, and bytes under its name when no disc has
\* it, through kills, failed flushes and power losses; a power loss after a kill
\* or a failure is left out, for a name that such a commit left is not synced.
THEOREM CommitsAreWhole == Spec => [](PowerFirst => CommittedIsWhole)
<1>1. HeldInv => CommittedIsWhole
  BY DEF HeldInv, RefsSafe, Safe, CommittedIsWhole
<1>2. CASE PowerFirst
  <2>1. HeldInv /\ [Next]_vars => HeldInv'
    BY <1>2, NextHeld
  <2>2. Spec => []CommittedIsWhole
    BY <1>1, <2>1, InitHeld, PTL DEF Spec
  <2>3. QED BY <2>2, PTL
<1>3. CASE ~PowerFirst
  <2>1. TRUE => (PowerFirst => CommittedIsWhole)
    BY <1>3
  <2>2. QED BY <2>1, PTL
<1>4. QED
  BY <1>2, <1>3

================================================================================
