---------------------------- MODULE RecordLog_proofs ----------------------------
(* Proofs about the record files and the sequence mark, for any number of     *)
(* records, checkouts, stops, power losses and failed writes: the files       *)
(* implement AppendLog, no acknowledged record is lost, and neither a command *)
(* with the lock nor a reader takes a sound log for a damaged or an old one.  *)
(*                                                                            *)
(* None of the properties is inductive.  BaseInv says that every version of a *)
(* file replays to records whose sequences grow; MarkInv keeps the mark below *)
(* the logs; LsInv follows the mark that a reader took; and VersionInv says   *)
(* which version of state/ is the newest while nothing but checkouts happens. *)
EXTENDS RecordLog, SequenceTheorems, FiniteSetTheorems, WellFoundedInduction, TLAPS

--------------------------------------------------------------------------------
(* The inductive invariant *)

\* s is the start of t.
Begins(s, t) == Len(s) <= Len(t) /\ \A i \in 1 .. Len(s) : s[i] = t[i]

Good == [seq : Nat \ {0}, id : Nat \ {0}]

\* Records as the appends write them: none is bad and the sequences grow.
Growing(s) ==
  /\ \A i \in 1 .. Len(s) : s[i] \in Good
  /\ \A i, j \in 1 .. Len(s) : i < j => s[i].seq < s[j].seq

\* A file with nothing behind its last good record.
Whole(f) == ~f.part /\ Replay(f) = f.recs

Busy == {"write", "sync"}
Opened ==
  IF At("discs") THEN {"items"}
  ELSE IF holder.at \in {"mark", "ready", "write", "sync", "after"} THEN Log
  ELSE {}
\* The holder has the batch of l in hand.
InHand(l) == holder.at \in Busy /\ l = holder.log

HolderOK ==
  holder \in [at : {"none", "items", "discs", "mark", "ready", "write", "sync", "after", "refused"},
              why : {"ok", "damaged", "rollback"},
              last : [Log -> Nat], log : Log, new : File \cup {<< >>}]

ReaderOK ==
  reader \in [kind : AllReaders,
              at : {"none", "items", "read items", "discs", "read discs", "mark", "end"},
              size : Nat, mark : [Log -> Nat] \cup {NoMark}, seen : [Log -> Seq(Record)],
              last : [Log -> Nat], told : {"nothing", "rollback", "failed"}]

StateOK ==
  /\ file \in [Log -> File] /\ disk \in [Log -> File] /\ saved \in [Log -> File]
  /\ mark \in [Log -> Nat] \cup {NoMark}
  /\ acked \in [Log -> Seq(Record)]
  /\ written \in Nat /\ checkouts \in Nat
  /\ HolderOK
  /\ ReaderOK

\* Every version of a file replays, and what a power loss leaves is its start.
FilesInv ==
  \A l \in Log : /\ Growing(Replay(file[l])) /\ Growing(Replay(disk[l])) /\ Growing(Replay(saved[l]))
                 /\ Begins(Replay(disk[l]), Replay(file[l]))

\* What the holder knows of a log that it opened.
HolderInv ==
  /\ \A l \in Opened :
       /\ (At("write") /\ l = holder.log) \/ Whole(file[l])
       /\ InHand(l) \/ holder.last[l] = LastSeqOf(Replay(file[l]))
  /\ At("write") => /\ holder.new \in File /\ Whole(holder.new) /\ Growing(holder.new.recs)
                    /\ Begins(Replay(file[holder.log]), holder.new.recs)

AckInv == checkouts = 0 => \A l \in Log : Begins(acked[l], Replay(disk[l]))

\* The mark is not above the logs, and before the first stop not above what a
\* power loss leaves of them.
MarkInv ==
  checkouts = 0 =>
    /\ ~MarkMayLead /\ mark # NoMark => \A l \in Log : mark[l] <= LastSeqOf(Replay(file[l]))
    /\ "stop" \notin struck =>
         /\ mark # NoMark => \A l \in Log : mark[l] <= LastSeqOf(Replay(disk[l]))
         /\ \A l \in Log : InHand(l) \/ Replay(disk[l]) = Replay(file[l])

ReaderInv ==
  reader.at # "none" => \A l \in Log : Begins(reader.seen[l], Replay(file[l]))

--------------------------------------------------------------------------------
(* ls and the mark *)

SeqAt(s, n) == IF n = 0 THEN 0 ELSE s[n].seq

Reading(l) == reader.at = IF l = "items" THEN "read items" ELSE "read discs"
Passed(l) ==
  reader.at \in IF l = "items" THEN {"discs", "read discs", "end"} ELSE {"end"}

\* What ls finds at the end of the l that it took the size of.
EndSeen(l) ==
  LET r == Replay(file[l])
  IN SeqAt(r, IF reader.size <= Len(r) THEN reader.size ELSE Len(r))

LsInv ==
  checkouts = 0 /\ ~MarkMayLead /\ reader.at # "none" /\ reader.kind = "ls" =>
    /\ \A l \in Log : Reading(l) => reader.size <= Len(Replay(file[l])) + 1
    /\ reader.mark # NoMark =>
         \A l \in Log :
           reader.mark[l] <= IF Passed(l) THEN reader.last[l]
                             ELSE IF Reading(l) THEN EndSeen(l)
                             ELSE LastSeqOf(Replay(file[l]))

--------------------------------------------------------------------------------
(* Versions of state/ *)

\* The file has all that was acknowledged, and the saved version is older.
FileIsNewest ==
  \A l \in Log : /\ Begins(saved[l].recs, Replay(file[l]))
                 /\ Begins(acked[l], Replay(file[l]))
                 /\ InHand(l) \/ acked[l] = Replay(file[l])

\* The newest version is the saved one, and no command passed the mark since.
SavedIsNewest ==
  /\ checkouts > 0
  /\ holder.at \in {"none", "items", "discs", "mark", "refused"}
  /\ \A l \in Log : Begins(Replay(file[l]), saved[l].recs) /\ acked[l] = saved[l].recs

VersionInv ==
  struck \subseteq {"checkout"} =>
    /\ \A l \in Log : Whole(saved[l]) /\ (Whole(file[l]) \/ (At("write") /\ l = holder.log))
    /\ FileIsNewest \/ SavedIsNewest
    /\ At("after") \/ IF mark = NoMark THEN \A l \in Log : acked[l] = << >>
                      ELSE \A l \in Log : mark[l] = LastSeqOf(acked[l])
    /\ mark = NoMark => holder.at \in {"none", "items", "discs", "mark", "refused"}

--------------------------------------------------------------------------------
(* Sequences of records *)

LEMMA StartIs ==
  ASSUME NEW S, NEW s \in Seq(S), NEW n \in 0 .. Len(s)
  PROVE  /\ SubSeq(s, 1, n) \in Seq(S) /\ Len(SubSeq(s, 1, n)) = n
         /\ \A i \in 1 .. n : SubSeq(s, 1, n)[i] = s[i]
<1>1. Len(s) \in Nat
  BY LenProperties
<1>2. \A i \in 1 .. n : s[i] \in S
  BY <1>1, ElementOfSeq
<1> QED
  BY <1>1, <1>2, SubSeqProperties

LEMMA PrefixIsBegins ==
  ASSUME NEW S, NEW s \in Seq(S), NEW t \in Seq(S)
  PROVE  IsPrefix(s, t) <=> Begins(s, t)
<1>1. Len(s) \in Nat /\ Len(t) \in Nat /\ SubSeq(s, 1, Len(s)) = s
  BY LenProperties, SubSeqFull
<1>2. ASSUME Len(s) <= Len(t)
      PROVE  /\ SubSeq(t, 1, Len(s)) \in Seq(S) /\ Len(SubSeq(t, 1, Len(s))) = Len(s)
             /\ \A i \in 1 .. Len(s) : SubSeq(t, 1, Len(s))[i] = t[i]
  <2>1. \A i \in 1 .. Len(s) : t[i] \in S
    BY <1>1, <1>2, ElementOfSeq
  <2> QED
    BY <1>1, <2>1, SubSeqProperties
<1>3. CASE Len(s) <= Len(t)
  <2>1. SubSeq(t, 1, Len(s)) = s <=> \A i \in 1 .. Len(s) : s[i] = t[i]
    <3>1. ASSUME \A i \in 1 .. Len(s) : s[i] = t[i]
          PROVE  s = SubSeq(t, 1, Len(s))
      BY <1>2, <1>3, <3>1, SeqEqual
    <3>2. ASSUME SubSeq(t, 1, Len(s)) = s
          PROVE  \A i \in 1 .. Len(s) : s[i] = t[i]
      BY <1>2, <1>3, <3>2
    <3> QED
      BY <3>1, <3>2
  <2> QED
    BY <1>1, <1>3, <2>1 DEF IsPrefix, Begins
<1>4. CASE ~(Len(s) <= Len(t))
  BY <1>4 DEF IsPrefix, Begins
<1> QED
  BY <1>3, <1>4

LEMMA BeginsSelf ==
  ASSUME NEW s \in Seq(Record)
  PROVE  Begins(s, s)
  BY LenProperties DEF Begins

LEMMA BeginsAfter ==
  ASSUME NEW s \in Seq(Record), NEW t \in Seq(Record), NEW u \in Seq(Record),
         Begins(s, t), Begins(t, u)
  PROVE  Begins(s, u)
<1>1. Len(s) \in Nat /\ Len(t) \in Nat /\ Len(u) \in Nat
  BY LenProperties
<1> QED
  BY <1>1 DEF Begins

LEMMA BeginsSame ==
  ASSUME NEW s \in Seq(Record), NEW t \in Seq(Record), Begins(s, t), Len(t) <= Len(s)
  PROVE  s = t
<1>1. Len(s) \in Nat /\ Len(t) \in Nat
  BY LenProperties
<1> QED
  BY <1>1, SeqEqual DEF Begins

LEMMA BeginsEmpty ==
  ASSUME NEW s \in Seq(Record)
  PROVE  Begins(<< >>, s) /\ (Begins(s, << >>) => s = << >>)
<1>1. Len(s) \in Nat /\ Len(<< >>) = 0 /\ << >> \in Seq(Record)
  BY LenProperties, EmptySeq
<1>2. Begins(<< >>, s)
  BY <1>1 DEF Begins
<1>3. ASSUME Begins(s, << >>)
      PROVE  s = << >>
  <2>1. Len(s) <= Len(<< >>)
    BY <1>3 DEF Begins
  <2> QED
    BY <1>1, <2>1, EmptySeq
<1> QED
  BY <1>2, <1>3

LEMMA SeqType ==
  ASSUME NEW r \in Record
  PROVE  r.seq \in Nat /\ (r \in Good <=> r # Bad)
  BY DEF Record, Good, Bad

LEMMA LastSeqType ==
  ASSUME NEW s \in Seq(Record)
  PROVE  LastSeqOf(s) \in Nat /\ LastSeqOf(s) = SeqAt(s, Len(s))
<1>1. Len(s) \in Nat /\ (s = << >> <=> Len(s) = 0)
  BY LenProperties, EmptySeq
<1>2. CASE s = << >>
  BY <1>1, <1>2 DEF LastSeqOf, SeqAt
<1>3. CASE s # << >>
  <2>1. s[Len(s)] \in Record
    BY <1>1, <1>3, ElementOfSeq
  <2> QED
    BY <1>1, <1>3, <2>1, SeqType DEF LastSeqOf, SeqAt, Last
<1> QED
  BY <1>2, <1>3

\* The sequences of a growing log are above those of its starts.
LEMMA SeqAtGrows ==
  ASSUME NEW s \in Seq(Record), NEW t \in Seq(Record), Begins(s, t), Growing(t),
         NEW m \in 0 .. Len(s), NEW n \in m .. Len(t)
  PROVE  SeqAt(s, m) \in Nat /\ SeqAt(t, n) \in Nat /\ SeqAt(s, m) <= SeqAt(t, n)
<1>1. Len(s) \in Nat /\ Len(t) \in Nat /\ Len(s) <= Len(t)
  BY LenProperties DEF Begins
<1>2. CASE m = 0
  <2>1. n = 0 \/ t[n].seq \in Nat
    BY <1>1 DEF Growing, Good
  <2> QED
    BY <1>2, <2>1 DEF SeqAt
<1>3. CASE m # 0
  <2>1. s[m] = t[m] /\ t[m] \in Good /\ t[n] \in Good
    BY <1>1, <1>3 DEF Begins, Growing
  <2>2. t[m].seq \in Nat /\ t[n].seq \in Nat
    BY <2>1 DEF Good
  <2>3. m = n \/ t[m].seq < t[n].seq
    BY <1>1, <1>3 DEF Growing
  <2> QED
    BY <1>1, <1>3, <2>1, <2>2, <2>3 DEF SeqAt
<1> QED
  BY <1>2, <1>3

LEMMA LastSeqGrows ==
  ASSUME NEW s \in Seq(Record), NEW t \in Seq(Record), Begins(s, t), Growing(t)
  PROVE  LastSeqOf(s) <= LastSeqOf(t)
<1>1. Len(s) \in Nat /\ Len(t) \in Nat /\ Len(s) <= Len(t)
  BY LenProperties DEF Begins
<1> QED
  BY <1>1, SeqAtGrows, LastSeqType

\* A start of a growing log that has its last sequence is all of it.
LEMMA LastSeqSame ==
  ASSUME NEW s \in Seq(Record), NEW t \in Seq(Record), Begins(s, t), Growing(t),
         LastSeqOf(t) <= LastSeqOf(s)
  PROVE  s = t
<1>1. Len(s) \in Nat /\ Len(t) \in Nat /\ Len(s) <= Len(t)
  BY LenProperties DEF Begins
<1>2. SUFFICES ASSUME Len(s) < Len(t)
               PROVE  FALSE
  BY <1>1, BeginsSame
<1>3. t[Len(t)] \in Good /\ LastSeqOf(t) = t[Len(t)].seq
  BY <1>1, <1>2, LastSeqType DEF Growing, SeqAt
<1>4. CASE Len(s) = 0
  <2>1. LastSeqOf(s) = 0
    BY <1>4, LastSeqType DEF SeqAt
  <2> QED
    BY <1>3, <2>1 DEF Good
<1>5. CASE Len(s) # 0
  <2>1. s[Len(s)] = t[Len(s)] /\ t[Len(s)] \in Good /\ t[Len(s)].seq < t[Len(t)].seq
    BY <1>1, <1>2, <1>5 DEF Begins, Growing
  <2> QED
    BY <1>1, <1>2, <1>3, <1>5, <2>1, LastSeqType DEF Good, SeqAt
<1> QED
  BY <1>4, <1>5

--------------------------------------------------------------------------------
(* One record file *)

LEMMA FileIs ==
  ASSUME NEW s \in Seq(Record), NEW part \in BOOLEAN, NEW f, f = [recs |-> s, part |-> part]
  PROVE  f \in File /\ f.recs = s /\ f.part = part
  BY DEF File

LEMMA ReplayIs ==
  ASSUME NEW f \in File
  PROVE  /\ Replay(f) \in Seq(Record)
         /\ Begins(Replay(f), f.recs)
         /\ \/ Replay(f) = f.recs /\ (Len(f.recs) > 0 => f.recs[Len(f.recs)] # Bad)
            \/ Len(f.recs) > 0 /\ f.recs[Len(f.recs)] = Bad /\ Len(Replay(f)) = Len(f.recs) - 1
<1> DEFINE s == f.recs
<1>1. s \in Seq(Record) /\ Len(s) \in Nat /\ (s = << >> <=> Len(s) = 0)
  BY LenProperties, EmptySeq DEF File
<1>2. CASE s # << >> /\ s[Len(s)] = Bad
  <2>1. Replay(f) = SubSeq(s, 1, Len(s) - 1)
    BY <1>2 DEF Replay, Last, Front
  <2>2. \A i \in 1 .. Len(s) - 1 : s[i] \in Record
    BY <1>1, ElementOfSeq
  <2>3. /\ SubSeq(s, 1, Len(s) - 1) \in Seq(Record)
        /\ Len(SubSeq(s, 1, Len(s) - 1)) = Len(s) - 1
        /\ \A i \in 1 .. Len(s) - 1 : SubSeq(s, 1, Len(s) - 1)[i] = s[i]
    BY <1>1, <1>2, <2>2, SubSeqProperties
  <2> QED
    BY <1>1, <1>2, <2>1, <2>3 DEF Begins
<1>3. CASE ~(s # << >> /\ s[Len(s)] = Bad)
  <2>1. Replay(f) = s
    BY <1>3 DEF Replay, Last
  <2> QED
    BY <1>1, <1>3, <2>1, BeginsSelf
<1> QED
  BY <1>2, <1>3

\* A file of records that are good and, at most, a bad one at the end.
LEMMA ReplayOfStart ==
  ASSUME NEW f \in File, NEW n \in 0 .. Len(f.recs), \A i \in 1 .. n : f.recs[i] \in Good,
         n = Len(f.recs) \/ (n = Len(f.recs) - 1 /\ f.recs[Len(f.recs)] = Bad)
  PROVE  Len(Replay(f)) = n /\ \A i \in 1 .. n : Replay(f)[i] = f.recs[i]
<1>1. Len(f.recs) \in Nat /\ f.recs \in Seq(Record)
  BY LenProperties DEF File
<1>2. Bad \notin Good
  BY DEF Bad, Good
<1>3. Len(Replay(f)) = n
  BY <1>1, <1>2, ReplayIs
<1> QED
  BY <1>3, ReplayIs DEF Begins

\* The records of a start of a log that replays.
LEMMA ReplaySame ==
  ASSUME NEW f \in File, Growing(Replay(f))
  PROVE  /\ Replay(f) = f.recs <=> \A i \in 1 .. Len(f.recs) : f.recs[i] \in Good
         /\ \A i \in 1 .. Len(f.recs) - 1 : f.recs[i] \in Good /\ i <= Len(Replay(f))
<1>1. Len(f.recs) \in Nat /\ Len(Replay(f)) \in Nat
  BY LenProperties, ReplayIs DEF File
<1>2. Bad \notin Good
  BY DEF Bad, Good
<1> QED
  BY <1>1, <1>2, ReplayIs DEF Growing, Begins

\* A log that replays is not refused as damaged.
LEMMA GrowingIsSound ==
  ASSUME NEW f \in File, Growing(Replay(f))
  PROVE  ~Damaged(f)
<1>1. Replay(f) \in Seq(Record) /\ Len(Replay(f)) \in Nat /\ DOMAIN Replay(f) = 1 .. Len(Replay(f))
  BY ReplayIs, LenProperties
<1>2. SUFFICES ASSUME NEW i \in 1 .. Len(Replay(f))
               PROVE  Replay(f)[i] # Bad /\ (i > 1 => ~(Replay(f)[i].seq <= Replay(f)[i - 1].seq))
  BY <1>1 DEF Damaged
<1>3. Replay(f)[i] \in Good
  BY <1>1 DEF Growing
<1>4. ASSUME i > 1
      PROVE  Replay(f)[i - 1] \in Good /\ Replay(f)[i - 1].seq < Replay(f)[i].seq
  BY <1>1, <1>4 DEF Growing
<1> QED
  BY <1>3, <1>4 DEF Good, Bad

LEMMA CutIs ==
  ASSUME NEW f \in File, Growing(Replay(f))
  PROVE  Cut(f) \in File /\ Whole(Cut(f)) /\ Replay(Cut(f)) = Replay(f)
<1>1. Cut(f) \in File /\ Cut(f).recs = Replay(f) /\ ~Cut(f).part
  BY ReplayIs DEF Cut, File
<1>2. Len(Replay(f)) \in Nat
  BY ReplayIs, LenProperties
<1>3. Bad \notin Good
  BY DEF Bad, Good
<1>4. Replay(Cut(f)) = Cut(f).recs
  BY <1>1, <1>2, <1>3, ReplayIs DEF Growing
<1> QED
  BY <1>1, <1>4 DEF Whole

LEMMA MaxIs ==
  ASSUME NEW S \in SUBSET Int, NEW m \in S, \A x \in S : x <= m
  PROVE  Max(S) = m
<1>1. \E x \in S : \A y \in S : x >= y
  OBVIOUS
<1>2. PICK x : x = Max(S)
  OBVIOUS
<1>3. x \in S /\ \A y \in S : x >= y
  BY <1>1, <1>2, Zenon DEF Max
<1>4. x = m
  BY <1>3
<1> QED
  BY <1>2, <1>4

\* A bounded set of lengths has a greatest one.
LEMMA MaxOfLengths ==
  ASSUME NEW b \in Nat, NEW S \in SUBSET (0 .. b), NEW n \in S
  PROVE  Max(S) \in S /\ n <= Max(S)
<1> DEFINE T == {b - x : x \in S}
<1>1. T \subseteq Nat /\ T # {}
  OBVIOUS
<1>2. PICK t \in T : \A y \in T : ~(<<y, t>> \in OpToRel(<, Nat))
  BY <1>1, NatLessThanWellFounded, WFMin
<1>3. \A y \in T : ~(y < t)
  BY <1>1, <1>2 DEF OpToRel
<1>4. PICK m \in S : t = b - m
  OBVIOUS
<1>5. \A x \in S : x <= m
  <2> SUFFICES ASSUME NEW x \in S PROVE x <= m
    OBVIOUS
  <2>1. b - x \in T
    OBVIOUS
  <2>2. ~(b - x < b - m)
    BY <1>3, <1>4, <2>1
  <2> QED
    BY <2>2
<1> QED
  BY <1>5, MaxIs

LEMMA MinOfTwo ==
  ASSUME NEW a \in Nat, NEW b \in Nat
  PROVE  Min({a, b}) = IF a <= b THEN a ELSE b
<1>1. \E x \in {a, b} : \A y \in {a, b} : x =< y
  OBVIOUS
<1>2. PICK m : m = Min({a, b})
  OBVIOUS
<1>3. m \in {a, b} /\ \A y \in {a, b} : m =< y
  BY <1>1, <1>2, Zenon DEF Min
<1>4. m \in {a, b} /\ m =< a /\ m =< b
  BY <1>3
<1>5. m = IF a <= b THEN a ELSE b
  BY <1>4
<1> QED
  BY <1>2, <1>5

Same(d, f) == {k \in 0 .. Min({Len(d.recs), Len(f.recs)}) :
                 SubSeq(d.recs, 1, k) = SubSeq(f.recs, 1, k)}
Tails == {EmptyFile, [EmptyFile EXCEPT !.part = TRUE], [EmptyFile EXCEPT !.recs = <<Bad>>]}
PartOf(f, k, tail) == [recs |-> SubSeq(f.recs, 1, k) \o tail.recs, part |-> tail.part]

LEMMA SurvivingCases ==
  ASSUME NEW d, NEW f, NEW g \in Surviving(d, f)
  PROVE  \/ g \in {d, f}
         \/ \E k \in Max(Same(d, f)) .. Len(f.recs) - 1, tail \in Tails : g = PartOf(f, k, tail)
<1>1. Surviving(d, f) = {d, f} \cup {PartOf(f, k, tail) : k \in Max(Same(d, f)) .. Len(f.recs) - 1, tail \in Tails}
  BY SMT DEF Surviving, Same, Tails, PartOf
<1> QED
  BY <1>1, SMT

\* What a power loss leaves of a file replays to a start of what was in it, and
\* has all that the synced version has.
LEMMA SurvivingIs ==
  ASSUME NEW d \in File, NEW f \in File, Growing(Replay(d)), Growing(Replay(f)),
         Begins(Replay(d), Replay(f)), NEW g \in Surviving(d, f)
  PROVE  /\ g \in File
         /\ Begins(Replay(d), Replay(g)) /\ Begins(Replay(g), Replay(f)) /\ Growing(Replay(g))
<1> DEFINE p == Replay(d)
           n == Min({Len(d.recs), Len(f.recs)})
           same == Same(d, f)
<1>1. /\ d.recs \in Seq(Record) /\ Len(d.recs) \in Nat /\ f.recs \in Seq(Record) /\ Len(f.recs) \in Nat
      /\ p \in Seq(Record) /\ Len(p) \in Nat /\ Replay(f) \in Seq(Record) /\ Len(Replay(f)) \in Nat
  BY ReplayIs, LenProperties DEF File
<1>2. CASE g = d
  BY <1>1, <1>2, BeginsSelf
<1>3. CASE g = f
  BY <1>1, <1>3, BeginsSelf
<1>4. ASSUME NEW k \in Max(same) .. Len(f.recs) - 1, NEW tail \in Tails, g = PartOf(f, k, tail)
      PROVE  /\ g \in File
             /\ Begins(Replay(d), Replay(g)) /\ Begins(Replay(g), Replay(f)) /\ Growing(Replay(g))
  <2>1. n \in Nat /\ n <= Len(d.recs) /\ n <= Len(f.recs) /\ Len(p) <= n
    <3>1. n = IF Len(d.recs) <= Len(f.recs) THEN Len(d.recs) ELSE Len(f.recs)
      BY <1>1, MinOfTwo
    <3>2. Len(p) <= Len(d.recs) /\ Len(p) <= Len(f.recs)
      BY <1>1, ReplayIs DEF Begins
    <3> HIDE DEF n
    <3> QED
      BY <1>1, <3>1, <3>2
  <2>2. SubSeq(d.recs, 1, Len(p)) = SubSeq(f.recs, 1, Len(p))
    <3>1. /\ \A i \in 1 .. Len(p) : d.recs[i] = f.recs[i]
          /\ Len(p) \in 0 .. Len(d.recs) /\ Len(p) \in 0 .. Len(f.recs)
      BY <1>1, ReplayIs DEF Begins
    <3>2. /\ SubSeq(d.recs, 1, Len(p)) \in Seq(Record) /\ Len(SubSeq(d.recs, 1, Len(p))) = Len(p)
          /\ \A i \in 1 .. Len(p) : SubSeq(d.recs, 1, Len(p))[i] = d.recs[i]
      BY <1>1, <3>1, StartIs
    <3>3. /\ SubSeq(f.recs, 1, Len(p)) \in Seq(Record) /\ Len(SubSeq(f.recs, 1, Len(p))) = Len(p)
          /\ \A i \in 1 .. Len(p) : SubSeq(f.recs, 1, Len(p))[i] = f.recs[i]
      BY <1>1, <3>1, StartIs
    <3> QED
      BY <3>1, <3>2, <3>3, SeqEqual
  <2>3. Max(same) \in same /\ Len(p) <= Max(same)
    <3>1. Len(p) \in same /\ same \in SUBSET (0 .. n)
      BY <1>1, <2>1, <2>2 DEF Same
    <3> HIDE DEF same, n
    <3> QED
      BY <2>1, <3>1, MaxOfLengths
  <2>4. Len(p) <= k /\ k \in Nat /\ k < Len(f.recs)
    <3>1. PICK m : m = Max(same)
      OBVIOUS
    <3>2. m \in 0 .. n /\ Len(p) <= m
      BY <2>3, <3>1 DEF Same
    <3>3. k \in m .. Len(f.recs) - 1
      BY <3>1
    <3> HIDE DEF same, n
    <3> QED
      BY <1>1, <2>1, <3>2, <3>3
  <2>5. \A i \in 1 .. k : f.recs[i] \in Good /\ f.recs[i] \in Record /\ f.recs[i] = Replay(f)[i]
    BY <1>1, <2>4, ReplaySame, ReplayIs, ElementOfSeq DEF Begins
  <2>6. /\ SubSeq(f.recs, 1, k) \in Seq(Record) /\ Len(SubSeq(f.recs, 1, k)) = k
        /\ \A i \in 1 .. k : SubSeq(f.recs, 1, k)[i] = f.recs[i]
    BY <1>1, <2>4, StartIs
  <2>7. /\ tail.recs \in Seq(Record) /\ tail.part \in BOOLEAN
        /\ Len(tail.recs) = 0 \/ (Len(tail.recs) = 1 /\ tail.recs[1] = Bad)
    <3>1. tail.part \in BOOLEAN /\ (tail.recs = << >> \/ tail.recs = <<Bad>>)
      <4>1. CASE tail = EmptyFile
        BY <4>1 DEF EmptyFile
      <4>2. CASE tail = [EmptyFile EXCEPT !.part = TRUE]
        BY <4>2 DEF EmptyFile
      <4>3. CASE tail = [EmptyFile EXCEPT !.recs = <<Bad>>]
        BY <4>3 DEF EmptyFile
      <4> QED
        BY <4>1, <4>2, <4>3 DEF Tails
    <3>2. Bad \in Record
      BY DEF Record
    <3>3. <<Bad>> \in Seq(Record) /\ Len(<<Bad>>) = 1 /\ <<Bad>>[1] = Bad
      BY <3>2
    <3>4. << >> \in Seq(Record) /\ Len(<< >>) = 0
      BY EmptySeq
    <3> QED
      BY <3>1, <3>3, <3>4
  <2>8. /\ g \in File /\ Len(g.recs) = k + Len(tail.recs)
        /\ \A i \in 1 .. k : g.recs[i] = f.recs[i]
        /\ Len(tail.recs) = 1 => g.recs[k + 1] = Bad
    <3>1. PICK a, b : a = SubSeq(f.recs, 1, k) /\ b = tail.recs
      OBVIOUS
    <3>2. /\ a \in Seq(Record) /\ b \in Seq(Record) /\ Len(a) = k
          /\ \A i \in 1 .. k : a[i] = f.recs[i]
          /\ Len(b) = 0 \/ (Len(b) = 1 /\ b[1] = Bad)
      BY <2>6, <2>7, <3>1
    <3>3. /\ a \o b \in Seq(Record) /\ Len(a \o b) = Len(a) + Len(b)
          /\ \A i \in 1 .. Len(a) + Len(b) : (a \o b)[i] = IF i <= Len(a) THEN a[i] ELSE b[i - Len(a)]
      <4>1. a \in Seq(Record) /\ b \in Seq(Record)
        BY <3>2
      <4> QED
        BY ONLY <4>1, ConcatProperties
    <3>4. g = [recs |-> a \o b, part |-> tail.part]
      BY <1>4, <3>1 DEF PartOf
    <3>5. g \in File /\ g.recs = a \o b
      BY <2>7, <3>3, <3>4, FileIs
    <3>6. /\ \A i \in 1 .. k : (a \o b)[i] = f.recs[i]
          /\ Len(b) = 1 => (a \o b)[k + 1] = Bad
      <4>1. PICK ab : ab = a \o b
        OBVIOUS
      <4>2. Len(b) \in {0, 1} /\ \A i \in 1 .. k + Len(b) : ab[i] = IF i <= k THEN a[i] ELSE b[i - k]
        BY <3>2, <3>3, <4>1
      <4>3. \A i \in 1 .. k : i \in 1 .. k + Len(b) /\ ab[i] = a[i]
        BY <2>4, <4>2
      <4>4. ASSUME Len(b) = 1
            PROVE  ab[k + 1] = Bad
        <5>1. k + 1 \in 1 .. k + Len(b) /\ ~(k + 1 <= k) /\ k + 1 - k = 1
          BY <2>4, <4>4
        <5>2. ab[k + 1] = b[1]
          BY <4>2, <5>1
        <5> QED
          BY <3>2, <4>4, <5>2
      <4> QED
        BY <3>2, <4>1, <4>3, <4>4
    <3> QED
      BY <3>1, <3>2, <3>3, <3>5, <3>6
  <2>9. Len(Replay(g)) = k /\ \A i \in 1 .. k : Replay(g)[i] = f.recs[i]
    <3>1. \A i \in 1 .. k : g.recs[i] \in Good
      BY <2>5, <2>8
    <3>2. k \in 0 .. Len(g.recs) /\ (k = Len(g.recs) \/ (k = Len(g.recs) - 1 /\ g.recs[Len(g.recs)] = Bad))
      <4>1. CASE Len(tail.recs) = 0
        BY <2>4, <2>8, <4>1
      <4>2. CASE Len(tail.recs) = 1
        <5>1. Len(g.recs) = k + 1 /\ g.recs[k + 1] = Bad
          BY <2>8, <4>2
        <5> QED
          BY <2>4, <5>1
      <4> QED
        BY <2>7, <4>1, <4>2
    <3>3. Len(Replay(g)) = k /\ \A i \in 1 .. k : Replay(g)[i] = g.recs[i]
      BY <2>8, <3>1, <3>2, ReplayOfStart
    <3> QED
      BY <2>8, <3>3
  <2>10. \A i \in 1 .. k : Replay(g)[i] = Replay(f)[i] /\ Replay(g)[i] \in Good
    BY <2>5, <2>9
  <2>11. k <= Len(Replay(f))
    BY <1>1, <2>4, ReplayIs
  <2>12. Begins(Replay(g), Replay(f)) /\ Growing(Replay(g))
    BY <1>1, <2>4, <2>9, <2>10, <2>11 DEF Begins, Growing
  <2>13. Begins(p, Replay(g))
    BY <1>1, <2>4, <2>9, <2>10 DEF Begins
  <2> QED
    BY <2>8, <2>12, <2>13
<1>5. g = d \/ g = f \/ \E k \in Max(same) .. Len(f.recs) - 1, tail \in Tails : g = PartOf(f, k, tail)
  BY SurvivingCases
<1> QED
  BY <1>2, <1>3, <1>4, <1>5

\* An append to a file that ends with a whole record.
LEMMA AppendedIs ==
  ASSUME NEW f \in File, Growing(Replay(f)), Whole(f), NEW new \in Seq(Good),
         \A i, j \in 1 .. Len(new) : i < j => new[i].seq < new[j].seq,
         \A i \in 1 .. Len(new) : LastSeqOf(Replay(f)) < new[i].seq,
         NEW part \in BOOLEAN, NEW g, g = [recs |-> Appended(f, new), part |-> part]
  PROVE  /\ g \in File /\ g.recs = f.recs \o new /\ Replay(g) = g.recs
         /\ Len(g.recs) = Len(f.recs) + Len(new) /\ Begins(Replay(f), g.recs) /\ Growing(g.recs)
<1>1. /\ f.recs \in Seq(Record) /\ Len(f.recs) \in Nat /\ Replay(f) = f.recs
      /\ new \in Seq(Record) /\ Len(new) \in Nat
  BY LenProperties, SeqMonotonic DEF File, Whole, Record, Good
<1>2. g = [recs |-> f.recs \o new, part |-> part]
  BY DEF Appended, Whole
<1>3. /\ f.recs \o new \in Seq(Record) /\ Len(f.recs \o new) = Len(f.recs) + Len(new)
      /\ \A i \in 1 .. Len(f.recs) + Len(new) :
           (f.recs \o new)[i] = IF i <= Len(f.recs) THEN f.recs[i] ELSE new[i - Len(f.recs)]
  BY <1>1, ConcatProperties
<1>4. g \in File /\ g.recs = f.recs \o new
  BY <1>2, <1>3, FileIs
<1>5. \A i \in 1 .. Len(new) : new[i] \in Good
  BY ElementOfSeq
<1>6. \A i \in 1 .. Len(g.recs) : g.recs[i] \in Good
  <2> SUFFICES ASSUME NEW i \in 1 .. Len(g.recs) PROVE g.recs[i] \in Good
    OBVIOUS
  <2>1. CASE i <= Len(f.recs)
    <3>1. i \in 1 .. Len(f.recs) /\ g.recs[i] = f.recs[i]
      BY <1>1, <1>3, <1>4, <2>1
    <3> QED
      BY <1>1, <3>1 DEF Growing
  <2>2. CASE ~(i <= Len(f.recs))
    <3>1. i - Len(f.recs) \in 1 .. Len(new) /\ g.recs[i] = new[i - Len(f.recs)]
      BY <1>1, <1>3, <1>4, <2>2
    <3> QED
      BY <1>5, <3>1
  <2> QED
    BY <2>1, <2>2
<1>7. ASSUME NEW i \in 1 .. Len(g.recs), NEW j \in 1 .. Len(g.recs), i < j
      PROVE  g.recs[i].seq < g.recs[j].seq
  <2>1. CASE j <= Len(f.recs)
    <3>1. i \in 1 .. Len(f.recs) /\ j \in 1 .. Len(f.recs)
      BY <1>1, <1>3, <1>4, <1>7, <2>1
    <3>2. g.recs[i] = f.recs[i] /\ g.recs[j] = f.recs[j]
      BY <1>1, <1>3, <1>4, <2>1, <3>1
    <3> QED
      BY <1>1, <1>7, <3>1, <3>2 DEF Growing
  <2>2. CASE ~(j <= Len(f.recs)) /\ i <= Len(f.recs)
    <3>1. g.recs[i] = f.recs[i] /\ i \in 1 .. Len(f.recs)
      BY <1>1, <1>3, <1>4, <2>2
    <3>2. j - Len(f.recs) \in 1 .. Len(new) /\ g.recs[j] = new[j - Len(f.recs)]
      BY <1>1, <1>3, <1>4, <2>2
    <3>3. f.recs[i].seq <= LastSeqOf(f.recs)
      <4>1. SeqAt(f.recs, i) <= SeqAt(f.recs, Len(f.recs))
        BY <1>1, <3>1, BeginsSelf, SeqAtGrows
      <4> QED
        BY <1>1, <3>1, <4>1, LastSeqType DEF SeqAt
    <3>4. f.recs[i].seq \in Nat /\ LastSeqOf(f.recs) \in Nat /\ g.recs[j].seq \in Nat
      BY <1>1, <1>6, <3>1, LastSeqType DEF Good
    <3>5. LastSeqOf(f.recs) < g.recs[j].seq
      BY <1>1, <3>2
    <3> QED
      BY <3>1, <3>3, <3>4, <3>5
  <2>3. CASE ~(j <= Len(f.recs)) /\ ~(i <= Len(f.recs))
    <3>1. i - Len(f.recs) \in 1 .. Len(new) /\ g.recs[i] = new[i - Len(f.recs)]
      BY <1>1, <1>3, <1>4, <2>3
    <3>2. j - Len(f.recs) \in 1 .. Len(new) /\ g.recs[j] = new[j - Len(f.recs)]
      BY <1>1, <1>3, <1>4, <2>3
    <3>3. i - Len(f.recs) < j - Len(f.recs)
      BY <1>1, <1>3, <1>4, <1>7
    <3> QED
      BY <3>1, <3>2, <3>3
  <2> QED
    BY <2>1, <2>2, <2>3
<1>8. Growing(g.recs)
  BY <1>6, <1>7 DEF Growing
<1>9. Replay(g) = g.recs
  BY <1>4, <1>6, <1>3, <1>1, ReplayIs DEF Good, Bad
<1>10. Begins(Replay(f), g.recs)
  BY <1>1, <1>3, <1>4 DEF Begins
<1> QED
  BY <1>3, <1>4, <1>8, <1>9, <1>10

\* lastSequence of the first n records gives the last one that replays.
LEMMA LastSequenceIs ==
  ASSUME NEW f \in File, Growing(Replay(f)), NEW n \in 0 .. Len(f.recs)
  PROVE  /\ LastSequence(f, n) \in Nat
         /\ LastSequence(f, n) = SeqAt(Replay(f), IF n <= Len(Replay(f)) THEN n ELSE Len(Replay(f)))
<1> DEFINE r == Replay(f)
           good == {i \in {n - 1, n} : i > 0 /\ f.recs[i] # Bad}
           m == IF n <= Len(r) THEN n ELSE Len(r)
<1>1. Len(f.recs) \in Nat /\ Len(r) \in Nat /\ r \in Seq(Record) /\ f.recs \in Seq(Record)
  BY ReplayIs, LenProperties DEF File
<1>2. m \in 0 .. Len(r) /\ m <= n /\ n <= m + 1 /\ (n = m + 1 => f.recs[n] = Bad)
  BY <1>1, ReplayIs DEF Begins
<1>3. m > 0 => f.recs[m] = r[m] /\ r[m] \in Good /\ f.recs[m] # Bad
  BY <1>1, <1>2, ReplayIs DEF Begins, Growing, Good, Bad
<1>4. CASE m = 0
  <2>1. good = {}
    BY <1>2, <1>4
  <2> QED
    BY <1>4, <2>1 DEF LastSequence, SeqAt
<1>5. CASE m > 0
  <2>1. m \in good /\ good \subseteq Int /\ \A x \in good : x <= m
    BY <1>1, <1>2, <1>3, <1>5
  <2>2. Max(good) = m
    <3> HIDE DEF good, m
    <3> QED
      BY <2>1, MaxIs
  <2>3. LastSequence(f, n) = f.recs[m].seq
    BY <2>1, <2>2 DEF LastSequence
  <2> QED
    BY <1>3, <1>5, <2>3 DEF SeqAt, Good
<1> QED
  BY <1>1, <1>2, <1>4, <1>5

--------------------------------------------------------------------------------
(* The files and the holder *)

BaseInv == StateOK /\ FilesInv /\ HolderInv

LEMMA NoHolderIs ==
  NoHolder \in [at : {"none", "items", "discs", "mark", "ready", "write", "sync", "after", "refused"},
                why : {"ok", "damaged", "rollback"},
                last : [Log -> Nat], log : Log, new : File \cup {<< >>}]
  BY DEF NoHolder, Log

LEMMA NoReaderIs ==
  NoReader \in [kind : AllReaders,
                at : {"none", "items", "read items", "discs", "read discs", "mark", "end"},
                size : Nat, mark : [Log -> Nat] \cup {NoMark}, seen : [Log -> Seq(Record)],
                last : [Log -> Nat], told : {"nothing", "rollback", "failed"}]
<1>1. << >> \in Seq(Record)
  BY EmptySeq
<1> QED
  BY <1>1 DEF NoReader, AllReaders, Log

LEMMA BaseInit == Init => BaseInv
<1> SUFFICES ASSUME Init PROVE BaseInv
  OBVIOUS
<1>1. << >> \in Seq(Record) /\ Len(<< >>) = 0
  BY EmptySeq
<1>2. EmptyFile \in File /\ EmptyFile.recs = << >>
  BY <1>1 DEF EmptyFile, File
<1>3. StateOK
  BY <1>1, <1>2, NoHolderIs, NoReaderIs DEF Init, StateOK, HolderOK, ReaderOK
<1>4. Replay(EmptyFile) = << >>
  BY <1>2 DEF Replay
<1>5. Growing(<< >>) /\ Begins(<< >>, << >>)
  BY <1>1 DEF Growing, Begins
<1>6. FilesInv
  BY <1>4, <1>5 DEF Init, FilesInv
<1>7. holder.at = "none"
  BY DEF Init, NoHolder
<1> QED
  BY <1>3, <1>6, <1>7 DEF BaseInv, HolderInv, Opened, At

\* A step that changes neither a file nor the holder.
LEMMA BaseSame ==
  ASSUME BaseInv, file' = file, disk' = disk, saved' = saved, holder' = holder, StateOK'
  PROVE  BaseInv'
  BY DEF BaseInv, FilesInv, HolderInv, Opened, InHand, At

LEMMA ReplayTyped ==
  ASSUME StateOK, NEW l \in Log
  PROVE  /\ file[l] \in File /\ disk[l] \in File /\ saved[l] \in File
         /\ Replay(file[l]) \in Seq(Record) /\ Replay(disk[l]) \in Seq(Record)
         /\ Replay(saved[l]) \in Seq(Record) /\ acked[l] \in Seq(Record)
  BY ReplayIs DEF StateOK

LEMMA TakeLockBase ==
  ASSUME BaseInv, TakeLock
  PROVE  BaseInv'
<1>1. /\ holder' \in [at : {"none", "items", "discs", "mark", "ready", "write", "sync", "after", "refused"},
                      why : {"ok", "damaged", "rollback"},
                      last : [Log -> Nat], log : Log, new : File \cup {<< >>}]
      /\ holder'.at = "items"
  BY NoHolderIs DEF TakeLock
<1>2. StateOK'
  BY <1>1 DEF BaseInv, StateOK, HolderOK, ReaderOK, TakeLock
<1> QED
  BY <1>1, <1>2 DEF BaseInv, FilesInv, HolderInv, Opened, At, TakeLock

LEMMA ReleaseBase ==
  ASSUME BaseInv, Release
  PROVE  BaseInv'
<1>1. holder' = NoHolder /\ holder'.at = "none"
  BY DEF Release, NoHolder
<1>2. StateOK'
  BY <1>1, NoHolderIs DEF BaseInv, StateOK, HolderOK, ReaderOK, Release
<1> QED
  BY <1>1, <1>2 DEF BaseInv, FilesInv, HolderInv, Opened, At, Release

\* The open of a log cuts it and refuses none.
LEMMA OpenIs ==
  ASSUME BaseInv, OpenRecFile
  PROVE  /\ \A m \in Log : Replay(file'[m]) = Replay(file[m]) /\ (Whole(file[m]) => Whole(file'[m]))
         /\ file' \in [Log -> File]
         /\ \E l \in Log : /\ holder.at = l /\ Whole(file'[l])
                           /\ holder' = [holder EXCEPT !.at = IF l = "items" THEN "discs" ELSE "mark",
                                                       !.last[l] = LastSeqOf(Replay(file[l]))]
<1>1. PICK l \in Log :
        /\ At(l)
        /\ IF Damaged(file[l])
           THEN /\ holder' = [holder EXCEPT !.at = "refused", !.why = "damaged"]
                /\ UNCHANGED file
           ELSE /\ file' = [file EXCEPT ![l] = Cut(@)]
                /\ holder' = [holder EXCEPT !.at = IF l = "items" THEN "discs" ELSE "mark",
                                            !.last[l] = LastSeqOf(Replay(file[l]))]
  BY DEF OpenRecFile
<1>2. ~Damaged(file[l])
  BY ReplayTyped, GrowingIsSound DEF BaseInv, FilesInv
<1>3. /\ file' = [file EXCEPT ![l] = Cut(file[l])]
      /\ holder' = [holder EXCEPT !.at = IF l = "items" THEN "discs" ELSE "mark",
                                  !.last[l] = LastSeqOf(Replay(file[l]))]
  BY <1>1, <1>2
<1>4. Cut(file[l]) \in File /\ Whole(Cut(file[l])) /\ Replay(Cut(file[l])) = Replay(file[l])
  BY ReplayTyped, CutIs DEF BaseInv, FilesInv
<1>5. file' \in [Log -> File] /\ \A m \in Log : file'[m] = IF m = l THEN Cut(file[l]) ELSE file[m]
  BY <1>3, <1>4 DEF BaseInv, StateOK
<1>6. \A m \in Log : Replay(file'[m]) = Replay(file[m]) /\ (Whole(file[m]) => Whole(file'[m]))
  BY <1>4, <1>5
<1>7. Whole(file'[l])
  BY <1>4, <1>5
<1> QED
  BY <1>1, <1>3, <1>5, <1>6, <1>7 DEF At

LEMMA OpenRecFileBase ==
  ASSUME BaseInv, OpenRecFile
  PROVE  BaseInv'
<1>1. /\ \A m \in Log : Replay(file'[m]) = Replay(file[m]) /\ (Whole(file[m]) => Whole(file'[m]))
      /\ file' \in [Log -> File]
  BY OpenIs
<1>2. PICK l \in Log : /\ holder.at = l /\ Whole(file'[l])
                       /\ holder' = [holder EXCEPT !.at = IF l = "items" THEN "discs" ELSE "mark",
                                                   !.last[l] = LastSeqOf(Replay(file[l]))]
  BY OpenIs
<1>3. LastSeqOf(Replay(file[l])) \in Nat
  BY ReplayTyped, LastSeqType DEF BaseInv
<1>4. /\ holder' \in [at : {"none", "items", "discs", "mark", "ready", "write", "sync", "after", "refused"},
                      why : {"ok", "damaged", "rollback"},
                      last : [Log -> Nat], log : Log, new : File \cup {<< >>}]
      /\ holder'.at = IF l = "items" THEN "discs" ELSE "mark"
      /\ \A m \in Log : holder'.last[m] = IF m = l THEN LastSeqOf(Replay(file[l])) ELSE holder.last[m]
  BY <1>2, <1>3 DEF BaseInv, StateOK, HolderOK
<1>5. StateOK'
  BY <1>1, <1>4 DEF BaseInv, StateOK, HolderOK, ReaderOK, OpenRecFile
<1>6. FilesInv'
  BY <1>1 DEF BaseInv, FilesInv, OpenRecFile
<1>7. CASE l = "items"
  BY <1>1, <1>2, <1>4, <1>5, <1>6, <1>7 DEF BaseInv, HolderInv, Opened, At, InHand, Busy
<1>8. CASE l = "discs"
  <2>1. Opened = {"items"} /\ Opened' = Log /\ Log = {"items", "discs"}
    BY <1>2, <1>4, <1>8 DEF Opened, At, Log
  <2>2. Whole(file["items"]) /\ holder.last["items"] = LastSeqOf(Replay(file["items"]))
    BY <1>2, <1>8, <2>1 DEF BaseInv, HolderInv, InHand, Busy, At
  <2>3. \A m \in Log : Whole(file'[m]) /\ holder'.last[m] = LastSeqOf(Replay(file'[m]))
    BY <1>1, <1>2, <1>4, <1>8, <2>1, <2>2
  <2> QED
    BY <1>4, <1>5, <1>6, <1>8, <2>1, <2>3 DEF BaseInv, HolderInv, At
<1> QED
  BY <1>7, <1>8 DEF Log

LEMMA UseMarkBase ==
  ASSUME BaseInv, UseMark
  PROVE  BaseInv'
<1>1. /\ holder.at = "mark"
      /\ \/ holder' = [holder EXCEPT !.at = "refused", !.why = "rollback"] /\ mark' = mark
         \/ holder' = [holder EXCEPT !.at = "ready"] /\ mark' = holder.last
  BY DEF UseMark, At
<1>2. /\ holder' \in [at : {"none", "items", "discs", "mark", "ready", "write", "sync", "after", "refused"},
                      why : {"ok", "damaged", "rollback"},
                      last : [Log -> Nat], log : Log, new : File \cup {<< >>}]
      /\ holder'.at \in {"refused", "ready"} /\ holder'.last = holder.last
      /\ mark' \in [Log -> Nat] \cup {NoMark}
  BY <1>1 DEF BaseInv, StateOK, HolderOK
<1>3. StateOK'
  BY <1>2 DEF BaseInv, StateOK, HolderOK, ReaderOK, UseMark
<1>4. FilesInv'
  BY DEF BaseInv, FilesInv, UseMark
<1>5. Opened = Log /\ \A l \in Log : Whole(file[l]) /\ holder.last[l] = LastSeqOf(Replay(file[l]))
  BY <1>1 DEF BaseInv, HolderInv, Opened, At, InHand, Busy
<1>6. Opened' \subseteq Log /\ ~At("write")'
  BY <1>2 DEF Opened, At, Log
<1> QED
  BY <1>2, <1>3, <1>4, <1>5, <1>6 DEF BaseInv, HolderInv, UseMark

LEMMA BatchIs ==
  ASSUME StateOK, NEW l \in Log, NEW n \in 1 .. 2, NEW j \in 0 .. n
  PROVE  /\ Batch(l, n) \in Seq(Good) /\ Len(Batch(l, n)) = n
         /\ \A i \in 1 .. n : Batch(l, n)[i].seq = holder.last[l] + i
         /\ SubSeq(Batch(l, n), 1, j) \in Seq(Good) /\ Len(SubSeq(Batch(l, n), 1, j)) = j
         /\ \A i \in 1 .. j : SubSeq(Batch(l, n), 1, j)[i] = Batch(l, n)[i]
<1>1. holder.last[l] \in Nat /\ written \in Nat
  BY DEF StateOK, HolderOK
<1>2. \A i \in 1 .. n : [seq |-> holder.last[l] + i, id |-> written + i] \in Good
  BY <1>1 DEF Good
<1>3. Batch(l, n) \in Seq(Good) /\ Len(Batch(l, n)) = n
      /\ \A i \in 1 .. n : Batch(l, n)[i] = [seq |-> holder.last[l] + i, id |-> written + i]
  BY <1>2 DEF Batch
<1> QED
  BY <1>3, StartIs

\* What WriteBatch puts into the file and what it has in hand.
LEMMA WriteIs ==
  ASSUME BaseInv, WriteBatch
  PROVE  \E l \in Log, n \in 1 .. 2, part \in BOOLEAN, f \in File, g \in File :
           /\ holder.at = "ready"
           /\ file' = [file EXCEPT ![l] = f]
           /\ holder' = [holder EXCEPT !.at = "write", !.log = l, !.new = g]
           /\ written' = written + n
           /\ Growing(Replay(f)) /\ Begins(Replay(file[l]), Replay(f))
           /\ Whole(g) /\ Growing(g.recs) /\ Begins(Replay(f), g.recs)
           /\ Len(Replay(f)) - Len(Replay(file[l])) \in {0, 1}
<1>1. PICK l \in Log, n \in 1 .. 2, j \in 0 .. 1, part \in BOOLEAN :
        /\ At("ready") /\ written + n <= MaxRecords /\ j < n
        /\ file' = [file EXCEPT ![l] = [recs |-> Appended(@, SubSeq(Batch(l, n), 1, j)),
                                        part |-> @.part \/ part]]
        /\ holder' = [holder EXCEPT !.at = "write", !.log = l,
                        !.new = [recs |-> Appended(file[l], Batch(l, n)), part |-> file[l].part]]
        /\ written' = written + n
  BY Zenon DEF WriteBatch
<1>2. Whole(file[l]) /\ holder.last[l] = LastSeqOf(Replay(file[l])) /\ Growing(Replay(file[l]))
  BY <1>1 DEF BaseInv, HolderInv, FilesInv, Opened, At, InHand, Busy
<1>3. file[l] \in File /\ holder.last[l] \in Nat /\ Replay(file[l]) \in Seq(Record)
  BY ReplayTyped DEF BaseInv, StateOK, HolderOK
<1>4. PICK new : new = Batch(l, n)
  OBVIOUS
<1>5. PICK start : start = SubSeq(Batch(l, n), 1, j)
  OBVIOUS
<1>6. j \in 0 .. n
  BY <1>1
<1>7. /\ new \in Seq(Good) /\ Len(new) = n /\ \A i \in 1 .. n : new[i].seq = holder.last[l] + i
      /\ start \in Seq(Good) /\ Len(start) = j /\ \A i \in 1 .. j : start[i] = new[i]
  BY <1>4, <1>5, <1>6, BatchIs DEF BaseInv
<1>8. PICK f : f = [recs |-> Appended(file[l], start), part |-> part]
  OBVIOUS
<1>9. PICK g : g = [recs |-> Appended(file[l], new), part |-> FALSE]
  OBVIOUS
<1>10. /\ file' = [file EXCEPT ![l] = f]
       /\ holder' = [holder EXCEPT !.at = "write", !.log = l, !.new = g]
  <2>1. file[l].part \in BOOLEAN /\ ~file[l].part
    BY <1>2, <1>3 DEF Whole, File
  <2>2. file[l].part = FALSE /\ (file[l].part \/ part) = part
    BY <2>1, Zenon
  <2>3. file' = [file EXCEPT ![l] = [recs |-> Appended(file[l], SubSeq(Batch(l, n), 1, j)),
                                     part |-> file[l].part \/ part]]
    BY <1>1, Zenon
  <2> QED
    BY <1>1, <1>4, <1>5, <1>8, <1>9, <2>2, <2>3, Zenon
<1>11. /\ f \in File /\ f.recs = file[l].recs \o start /\ Replay(f) = f.recs
       /\ Len(f.recs) = Len(file[l].recs) + Len(start)
       /\ Begins(Replay(file[l]), f.recs) /\ Growing(f.recs)
  <2>1. \A i, k \in 1 .. Len(start) : i < k => start[i].seq < start[k].seq
    BY <1>3, <1>6, <1>7
  <2>2. \A i \in 1 .. Len(start) : LastSeqOf(Replay(file[l])) < start[i].seq
    BY <1>2, <1>3, <1>6, <1>7
  <2> QED
    <3>1. CASE part = TRUE
      <4>1. f = [recs |-> Appended(file[l], start), part |-> TRUE]
        BY <1>8, <3>1
      <4> QED
        BY <1>2, <1>3, <1>7, <2>1, <2>2, <4>1, AppendedIs
    <3>2. CASE part = FALSE
      <4>1. f = [recs |-> Appended(file[l], start), part |-> FALSE]
        BY <1>8, <3>2
      <4> QED
        BY <1>2, <1>3, <1>7, <2>1, <2>2, <4>1, AppendedIs
    <3> QED
      BY <3>1, <3>2
<1>12. /\ g \in File /\ g.recs = file[l].recs \o new /\ Replay(g) = g.recs
       /\ Len(g.recs) = Len(file[l].recs) + Len(new)
       /\ Begins(Replay(file[l]), g.recs) /\ Growing(g.recs)
  <2>1. \A i, k \in 1 .. Len(new) : i < k => new[i].seq < new[k].seq
    BY <1>3, <1>7
  <2>2. \A i \in 1 .. Len(new) : LastSeqOf(Replay(file[l])) < new[i].seq
    BY <1>2, <1>3, <1>7
  <2> QED
    BY <1>2, <1>3, <1>7, <1>9, <2>1, <2>2, AppendedIs
<1>13. Begins(f.recs, g.recs)
  <2>1. /\ file[l].recs \in Seq(Record) /\ Len(file[l].recs) \in Nat
        /\ start \in Seq(Record) /\ new \in Seq(Record)
    <3>1. Good \subseteq Record
      BY DEF Good, Record
    <3>2. file[l].recs \in Seq(Record)
      BY <1>3 DEF File
    <3> QED
      BY <1>7, <3>1, <3>2, LenProperties, SeqMonotonic
  <2>2. \A i \in 1 .. Len(file[l].recs) + Len(start) :
          f.recs[i] = IF i <= Len(file[l].recs) THEN file[l].recs[i] ELSE start[i - Len(file[l].recs)]
    BY <1>11, <2>1, ConcatProperties
  <2>3. \A i \in 1 .. Len(file[l].recs) + Len(new) :
          g.recs[i] = IF i <= Len(file[l].recs) THEN file[l].recs[i] ELSE new[i - Len(file[l].recs)]
    BY <1>12, <2>1, ConcatProperties
  <2>4. ASSUME NEW i \in 1 .. Len(f.recs)
        PROVE  f.recs[i] = g.recs[i]
    <3>1. i \in 1 .. Len(file[l].recs) + Len(start) /\ i \in 1 .. Len(file[l].recs) + Len(new)
      BY <1>6, <1>7, <1>11, <2>1
    <3>2. CASE i <= Len(file[l].recs)
      BY <2>2, <2>3, <3>1, <3>2
    <3>3. CASE ~(i <= Len(file[l].recs))
      <4>1. i - Len(file[l].recs) \in 1 .. j
        BY <1>6, <1>7, <2>1, <3>1, <3>3
      <4> QED
        BY <1>7, <2>2, <2>3, <3>1, <3>3, <4>1
    <3> QED
      BY <3>2, <3>3
  <2>5. Len(f.recs) <= Len(g.recs)
    BY <1>6, <1>7, <1>11, <1>12, <2>1
  <2> QED
    BY <2>4, <2>5 DEF Begins
<1>14. Len(Replay(f)) - Len(Replay(file[l])) \in {0, 1}
  <2>1. Len(file[l].recs) \in Nat /\ Replay(file[l]) = file[l].recs
    BY <1>2, <1>3, LenProperties DEF Whole, File
  <2> QED
    BY <1>1, <1>7, <1>11, <2>1
<1>15. Whole(g)
  BY <1>9, <1>12 DEF Whole
<1>16. At("ready")
  BY <1>1
<1> QED
  BY <1>1, <1>10, <1>11, <1>12, <1>13, <1>14, <1>15, <1>16 DEF At

LEMMA WriteBatchBase ==
  ASSUME BaseInv, WriteBatch
  PROVE  BaseInv'
<1>1. PICK l \in Log, n \in 1 .. 2, part \in BOOLEAN, f \in File, g \in File :
           /\ holder.at = "ready"
           /\ file' = [file EXCEPT ![l] = f]
           /\ holder' = [holder EXCEPT !.at = "write", !.log = l, !.new = g]
           /\ written' = written + n
           /\ Growing(Replay(f)) /\ Begins(Replay(file[l]), Replay(f))
           /\ Whole(g) /\ Growing(g.recs) /\ Begins(Replay(f), g.recs)
  BY WriteIs
<1>2. /\ holder' \in [at : {"none", "items", "discs", "mark", "ready", "write", "sync", "after", "refused"},
                      why : {"ok", "damaged", "rollback"},
                      last : [Log -> Nat], log : Log, new : File \cup {<< >>}]
      /\ holder'.at = "write" /\ holder'.log = l /\ holder'.new = g /\ holder'.last = holder.last
  BY <1>1 DEF BaseInv, StateOK, HolderOK
<1>3. file' \in [Log -> File] /\ \A m \in Log : file'[m] = IF m = l THEN f ELSE file[m]
  BY <1>1 DEF BaseInv, StateOK
<1>4. StateOK'
  <2>1. written' \in Nat
    BY <1>1 DEF BaseInv, StateOK
  <2> QED
    BY <1>2, <1>3, <2>1 DEF BaseInv, StateOK, HolderOK, ReaderOK, WriteBatch
<1>5. FilesInv'
  <2> SUFFICES ASSUME NEW m \in Log
               PROVE  /\ Growing(Replay(file'[m])) /\ Growing(Replay(disk[m])) /\ Growing(Replay(saved[m]))
                      /\ Begins(Replay(disk[m]), Replay(file'[m]))
    BY DEF FilesInv, WriteBatch
  <2>1. /\ Growing(Replay(file[m])) /\ Growing(Replay(disk[m])) /\ Growing(Replay(saved[m]))
        /\ Begins(Replay(disk[m]), Replay(file[m]))
    BY DEF BaseInv, FilesInv
  <2>2. Replay(disk[m]) \in Seq(Record) /\ Replay(file[m]) \in Seq(Record) /\ Replay(f) \in Seq(Record)
    BY ReplayTyped, ReplayIs DEF BaseInv
  <2>3. CASE m = l
    <3>1. Begins(Replay(disk[m]), Replay(f))
      BY <1>1, <2>1, <2>2, <2>3, BeginsAfter
    <3> QED
      BY <1>1, <1>3, <2>1, <2>3, <3>1
  <2>4. CASE m # l
    BY <1>3, <2>1, <2>4
  <2> QED
    BY <2>3, <2>4
<1>6. \A m \in Log : Whole(file[m]) /\ holder.last[m] = LastSeqOf(Replay(file[m]))
  BY <1>1 DEF BaseInv, HolderInv, Opened, At, InHand, Busy
<1>7. HolderInv'
  <2>1. \A m \in Log : /\ (At("write")' /\ m = holder'.log) \/ Whole(file'[m])
                       /\ InHand(m)' \/ holder'.last[m] = LastSeqOf(Replay(file'[m]))
    BY <1>2, <1>3, <1>6 DEF At, InHand, Busy
  <2>2. Opened' = Log
    BY <1>2 DEF Opened, At
  <2>3. /\ holder'.new \in File /\ Whole(holder'.new) /\ Growing(holder'.new.recs)
        /\ Begins(Replay(file'[holder'.log]), holder'.new.recs)
    BY <1>1, <1>2, <1>3
  <2> QED
    BY <2>1, <2>2, <2>3 DEF HolderInv
<1> QED
  BY <1>4, <1>5, <1>7 DEF BaseInv

LEMMA WriteEndsBase ==
  ASSUME BaseInv, WriteEnds
  PROVE  BaseInv'
<1>1. PICK l \in Log, g \in File : l = holder.log /\ g = holder.new
  BY DEF BaseInv, StateOK, HolderOK, HolderInv, WriteEnds, At
<1>2. /\ holder.at = "write" /\ file' = [file EXCEPT ![l] = g]
      /\ Whole(g) /\ Growing(g.recs) /\ Begins(Replay(file[l]), g.recs) /\ Replay(g) = g.recs
  BY <1>1 DEF BaseInv, HolderInv, WriteEnds, At, Whole
<1>3. /\ holder' \in [at : {"none", "items", "discs", "mark", "ready", "write", "sync", "after", "refused"},
                      why : {"ok", "damaged", "rollback"},
                      last : [Log -> Nat], log : Log, new : File \cup {<< >>}]
      /\ holder'.at = "sync" /\ holder'.log = l /\ holder'.last = holder.last
  BY <1>1 DEF BaseInv, StateOK, HolderOK, WriteEnds
<1>4. file' \in [Log -> File] /\ \A m \in Log : file'[m] = IF m = l THEN g ELSE file[m]
  BY <1>2 DEF BaseInv, StateOK
<1>5. StateOK'
  BY <1>3, <1>4 DEF BaseInv, StateOK, HolderOK, ReaderOK, WriteEnds
<1>6. FilesInv'
  <2> SUFFICES ASSUME NEW m \in Log
               PROVE  /\ Growing(Replay(file'[m])) /\ Growing(Replay(disk[m])) /\ Growing(Replay(saved[m]))
                      /\ Begins(Replay(disk[m]), Replay(file'[m]))
    BY DEF FilesInv, WriteEnds
  <2>1. /\ Growing(Replay(file[m])) /\ Growing(Replay(disk[m])) /\ Growing(Replay(saved[m]))
        /\ Begins(Replay(disk[m]), Replay(file[m]))
    BY DEF BaseInv, FilesInv
  <2>2. Replay(disk[m]) \in Seq(Record) /\ Replay(file[m]) \in Seq(Record) /\ Replay(g) \in Seq(Record)
    BY ReplayTyped, ReplayIs DEF BaseInv
  <2>3. CASE m = l
    <3>1. Begins(Replay(disk[m]), Replay(g))
      BY <1>2, <2>1, <2>2, <2>3, BeginsAfter
    <3> QED
      BY <1>2, <1>4, <2>1, <2>3, <3>1
  <2>4. CASE m # l
    BY <1>4, <2>1, <2>4
  <2> QED
    BY <2>3, <2>4
<1>7. \A m \in Log : m # l => Whole(file[m]) /\ holder.last[m] = LastSeqOf(Replay(file[m]))
  BY <1>1, <1>2 DEF BaseInv, HolderInv, Opened, At, InHand, Busy
<1>8. \A m \in Log : Whole(file'[m]) /\ (InHand(m)' \/ holder'.last[m] = LastSeqOf(Replay(file'[m])))
  BY <1>2, <1>3, <1>4, <1>7 DEF InHand, Busy
<1>9. ~At("write")' /\ Opened' = Log
  BY <1>3 DEF At, Opened
<1> QED
  BY <1>5, <1>6, <1>8, <1>9 DEF BaseInv, HolderInv

LEMMA SyncBatchBase ==
  ASSUME BaseInv, SyncBatch
  PROVE  BaseInv'
<1>1. PICK l \in Log : l = holder.log
  BY DEF BaseInv, StateOK, HolderOK
<1>2. /\ holder.at = "sync" /\ disk' = [disk EXCEPT ![l] = file[l]] /\ file' = file /\ saved' = saved
      /\ acked' = [acked EXCEPT ![l] = Replay(file[l])]
      /\ holder' = [holder EXCEPT !.at = "after", !.new = << >>, !.last[l] = LastSeqOf(file[l].recs)]
  BY <1>1 DEF SyncBatch, At
<1>3. \A m \in Log : Whole(file[m]) /\ (m # l => holder.last[m] = LastSeqOf(Replay(file[m])))
  BY <1>1, <1>2 DEF BaseInv, HolderInv, Opened, At, InHand, Busy
<1>4. LastSeqOf(file[l].recs) \in Nat /\ file[l].recs = Replay(file[l])
  BY <1>3, ReplayTyped, LastSeqType DEF BaseInv, Whole
<1>5. /\ holder' \in [at : {"none", "items", "discs", "mark", "ready", "write", "sync", "after", "refused"},
                      why : {"ok", "damaged", "rollback"},
                      last : [Log -> Nat], log : Log, new : File \cup {<< >>}]
      /\ holder'.at = "after"
      /\ \A m \in Log : holder'.last[m] = IF m = l THEN LastSeqOf(file[l].recs) ELSE holder.last[m]
  BY <1>2, <1>4 DEF BaseInv, StateOK, HolderOK
<1>6. /\ disk' \in [Log -> File] /\ \A m \in Log : disk'[m] = IF m = l THEN file[l] ELSE disk[m]
      /\ acked' \in [Log -> Seq(Record)]
  BY <1>2, ReplayTyped DEF BaseInv, StateOK
<1>7. StateOK'
  BY <1>5, <1>6 DEF BaseInv, StateOK, HolderOK, ReaderOK, SyncBatch
<1>8. FilesInv'
  <2>1. \A m \in Log : Begins(Replay(file[m]), Replay(file[m]))
    BY ReplayTyped, BeginsSelf DEF BaseInv
  <2> QED
    BY <1>2, <1>6, <2>1 DEF BaseInv, FilesInv
<1>9. \A m \in Log : Whole(file'[m]) /\ holder'.last[m] = LastSeqOf(Replay(file'[m]))
  BY <1>2, <1>3, <1>4, <1>5
<1>10. ~At("write")' /\ Opened' = Log
  BY <1>5 DEF At, Opened
<1> QED
  BY <1>7, <1>8, <1>9, <1>10 DEF BaseInv, HolderInv

LEMMA AfterAppendBase ==
  ASSUME BaseInv, AfterAppend
  PROVE  BaseInv'
<1>1. /\ holder.at = "after" /\ holder' = [holder EXCEPT !.at = "ready"]
      /\ mark' = holder.last \/ mark' = mark
      /\ file' = file /\ disk' = disk /\ saved' = saved
  BY DEF AfterAppend, At
<1>2. /\ holder' \in [at : {"none", "items", "discs", "mark", "ready", "write", "sync", "after", "refused"},
                      why : {"ok", "damaged", "rollback"},
                      last : [Log -> Nat], log : Log, new : File \cup {<< >>}]
      /\ holder'.at = "ready" /\ holder'.last = holder.last
      /\ mark' \in [Log -> Nat] \cup {NoMark}
  BY <1>1 DEF BaseInv, StateOK, HolderOK
<1>3. StateOK'
  BY <1>2 DEF BaseInv, StateOK, HolderOK, ReaderOK, AfterAppend
<1>4. FilesInv'
  BY <1>1 DEF BaseInv, FilesInv
<1>5. \A l \in Log : Whole(file[l]) /\ holder.last[l] = LastSeqOf(Replay(file[l]))
  BY <1>1 DEF BaseInv, HolderInv, Opened, At, InHand, Busy
<1>6. Opened' = Log /\ ~At("write")'
  BY <1>2 DEF Opened, At
<1> QED
  BY <1>1, <1>2, <1>3, <1>4, <1>5, <1>6 DEF BaseInv, HolderInv

--------------------------------------------------------------------------------
(* The reader and what happens outside *)

LEMMA AfterIs ==
  ASSUME StateOK
  PROVE  /\ reader.kind = "status" => /\ Order(reader.kind)[1] = "items" /\ After("items") = "discs"
                                      /\ After("discs") = "mark" /\ After("mark") = "end"
         /\ reader.kind = "ls" => /\ Order(reader.kind)[1] = "mark" /\ After("mark") = "items"
                                  /\ After("items") = "discs" /\ After("discs") = "end"
<1>1. CASE reader.kind = "status"
  <2>1. PICK o : o = Order(reader.kind)
    OBVIOUS
  <2>2. o = <<"items", "discs", "mark", "end">>
    BY <1>1, <2>1 DEF Order
  <2>3. /\ o[1] = "items" /\ o[2] = "discs" /\ o[3] = "mark" /\ o[4] = "end"
    BY <2>2
  <2>4. \A i \in 1 .. 3 : i = 1 \/ i = 2 \/ i = 3
    OBVIOUS
  <2>5. /\ (CHOOSE i \in 1 .. 3 : o[i] = "items") = 1
        /\ (CHOOSE i \in 1 .. 3 : o[i] = "discs") = 2
        /\ (CHOOSE i \in 1 .. 3 : o[i] = "mark") = 3
    BY <2>3, <2>4
  <2> QED
    BY <1>1, <2>1, <2>3, <2>5 DEF After
<1>2. CASE reader.kind = "ls"
  <2>1. PICK o : o = Order(reader.kind)
    OBVIOUS
  <2>2. o = <<"mark", "items", "discs", "end">>
    BY <1>2, <2>1 DEF Order
  <2>3. /\ o[1] = "mark" /\ o[2] = "items" /\ o[3] = "discs" /\ o[4] = "end"
    BY <2>2
  <2>4. \A i \in 1 .. 3 : i = 1 \/ i = 2 \/ i = 3
    OBVIOUS
  <2>5. /\ (CHOOSE i \in 1 .. 3 : o[i] = "mark") = 1
        /\ (CHOOSE i \in 1 .. 3 : o[i] = "items") = 2
        /\ (CHOOSE i \in 1 .. 3 : o[i] = "discs") = 3
    BY <2>3, <2>4
  <2> QED
    BY <1>2, <2>1, <2>3, <2>5 DEF After
<1> QED
  BY <1>1, <1>2

LEMMA ReaderKinds ==
  ASSUME StateOK
  PROVE  reader.kind \in {"status", "ls"}
  BY DEF StateOK, ReaderOK, AllReaders

\* A reader begins with no mark and with nothing seen.
LEMMA ReaderBeginsIs ==
  ASSUME StateOK, ReaderBegins
  PROVE  /\ ReaderOK' /\ reader.at = "none"
         /\ reader' = [NoReader EXCEPT !.kind = reader'.kind, !.at = reader'.at]
         /\ reader'.at = IF reader'.kind = "ls" THEN "mark" ELSE "items"
<1>1. PICK k \in Readers : reader.at = "none" /\ reader' = [NoReader EXCEPT !.kind = k, !.at = Order(k)[1]]
  BY DEF ReaderBegins
<1>2. k \in AllReaders
  BY KindAssumption
<1>3. Order(k)[1] = IF k = "ls" THEN "mark" ELSE "items"
  BY <1>2 DEF Order, AllReaders
<1>4. reader'.kind = k /\ reader'.at = Order(k)[1]
  BY <1>1 DEF NoReader
<1> QED
  BY <1>1, <1>2, <1>3, <1>4, NoReaderIs DEF ReaderOK

LEMMA ReaderStatsIs ==
  ASSUME StateOK, NEW l \in Log, reader.at = l,
         reader' = [reader EXCEPT !.size = Len(file[l].recs),
                                  !.at = IF l = "items" THEN "read items" ELSE "read discs"]
  PROVE  ReaderOK'
<1>1. Len(file[l].recs) \in Nat
  BY ReplayTyped, LenProperties DEF File
<1> QED
  BY <1>1 DEF StateOK, ReaderOK

\* The first records of a file that replays.
LEMMA PartIs ==
  ASSUME NEW f \in File, Growing(Replay(f)), NEW n \in 0 .. Len(f.recs),
         NEW g, g = [f EXCEPT !.recs = SubSeq(@, 1, n)]
  PROVE  /\ g \in File /\ Replay(g) \in Seq(Record) /\ Begins(Replay(g), Replay(f))
         /\ Growing(Replay(g)) /\ ~Damaged(g)
<1>1. f.recs \in Seq(Record) /\ f.part \in BOOLEAN /\ Len(f.recs) \in Nat /\ Len(Replay(f)) \in Nat
  BY ReplayIs, LenProperties DEF File
<1>2. /\ SubSeq(f.recs, 1, n) \in Seq(Record) /\ Len(SubSeq(f.recs, 1, n)) = n
      /\ \A i \in 1 .. n : SubSeq(f.recs, 1, n)[i] = f.recs[i]
  BY <1>1, StartIs
<1>3. g \in File /\ g.recs = SubSeq(f.recs, 1, n)
  BY <1>2 DEF File
<1>4. CASE n <= Len(Replay(f))
  <2>1. \A i \in 1 .. n : g.recs[i] \in Good /\ g.recs[i] = Replay(f)[i]
    <3>1. \A i \in 1 .. Len(Replay(f)) : f.recs[i] = Replay(f)[i] /\ Replay(f)[i] \in Good
      BY <1>1, ReplayIs DEF Growing, Begins
    <3>2. \A i \in 1 .. n : i \in 1 .. Len(Replay(f)) /\ g.recs[i] = f.recs[i]
      BY <1>1, <1>2, <1>3, <1>4
    <3> QED
      BY <3>1, <3>2
  <2>2. Len(Replay(g)) = n /\ \A i \in 1 .. n : Replay(g)[i] = g.recs[i]
    <3>1. Len(g.recs) = n /\ n \in 0 .. Len(g.recs)
      BY <1>1, <1>2, <1>3
    <3>2. \A i \in 1 .. n : g.recs[i] \in Good
      BY <2>1
    <3> QED
      BY <1>3, <3>1, <3>2, ReplayOfStart
  <2>3. Begins(Replay(g), Replay(f)) /\ Growing(Replay(g))
    <3>1. \A i \in 1 .. n : Replay(g)[i] = Replay(f)[i] /\ Replay(g)[i] \in Good /\ i \in 1 .. Len(Replay(f))
      <4>1. \A i \in 1 .. n : i \in 1 .. Len(Replay(f))
        BY <1>1, <1>4
      <4> QED
        BY <2>1, <2>2, <4>1
    <3> QED
      BY <1>1, <1>4, <2>2, <3>1 DEF Begins, Growing
  <2> QED
    BY <1>3, <2>3, ReplayIs, GrowingIsSound
<1>5. CASE ~(n <= Len(Replay(f)))
  <2>1. n = Len(f.recs)
    BY <1>1, <1>5, ReplayIs
  <2>2. SubSeq(f.recs, 1, n) = f.recs
    BY <1>1, <2>1, SubSeqFull
  <2>3. g = f
    BY <2>2 DEF File
  <2> QED
    BY <2>3, BeginsSelf, ReplayIs, GrowingIsSound
<1> QED
  BY <1>4, <1>5

\* A read that takes a log: a start of its replay, and its last sequence.
ReadTakes(l) ==
  /\ reader.size <= Len(file[l].recs)
  /\ \E seen \in Seq(Record), last \in Nat :
       /\ reader' = [reader EXCEPT !.at = After(l), !.seen[l] = seen, !.last[l] = last]
       /\ Begins(seen, Replay(file[l]))
       /\ reader.kind = "ls" => last = LastSequence(file[l], reader.size)

LEMMA ReaderReadsIs ==
  ASSUME BaseInv, ReaderReads
  PROVE  \E l \in Log :
           /\ Reading(l)
           /\ \/ \E told \in {"failed", "nothing"} : reader' = [reader EXCEPT !.at = "none", !.told = told]
              \/ ReadTakes(l)
<1>1. PICK l \in Log :
        /\ reader.at = IF l = "items" THEN "read items" ELSE "read discs"
        /\ LET part == [file[l] EXCEPT !.recs = SubSeq(@, 1, reader.size)]
           IN reader' =
                IF reader.size > Len(file[l].recs) \/ (reader.kind = "status" /\ Damaged(part))
                THEN [reader EXCEPT !.at = "none",
                        !.told = IF reader.kind = "status" THEN "failed" ELSE "nothing"]
                ELSE [reader EXCEPT
                        !.at = After(l),
                        !.seen[l] = Replay(part),
                        !.last[l] = IF reader.kind = "status" THEN LastSeqOf(Replay(part))
                                    ELSE LastSequence(file[l], reader.size)]
  BY DEF ReaderReads
<1>2. Reading(l)
  BY <1>1 DEF Reading
<1>3. PICK part : part = [file[l] EXCEPT !.recs = SubSeq(@, 1, reader.size)]
  OBVIOUS
<1>4. file[l] \in File /\ Growing(Replay(file[l])) /\ Len(file[l].recs) \in Nat /\ reader.size \in Nat
  BY ReplayTyped, LenProperties DEF BaseInv, FilesInv, StateOK, ReaderOK, File
<1>5. CASE reader.size > Len(file[l].recs)
  <2>1. reader' = [reader EXCEPT !.at = "none", !.told = IF reader.kind = "status" THEN "failed" ELSE "nothing"]
    BY <1>1, <1>5
  <2> QED
    BY <1>2, <2>1
<1>6. CASE reader.size \in 0 .. Len(file[l].recs)
  <2>1. /\ part \in File /\ Replay(part) \in Seq(Record) /\ Begins(Replay(part), Replay(file[l]))
        /\ ~Damaged(part)
    BY <1>3, <1>4, <1>6, PartIs
  <2>2. reader' = [reader EXCEPT
                        !.at = After(l),
                        !.seen[l] = Replay(part),
                        !.last[l] = IF reader.kind = "status" THEN LastSeqOf(Replay(part))
                                    ELSE LastSequence(file[l], reader.size)]
    <3>1. ~(reader.size > Len(file[l].recs))
      BY <1>4, <1>6
    <3> QED
      BY <1>1, <1>3, <2>1, <3>1, Zenon
  <2>3. PICK last : last = IF reader.kind = "status" THEN LastSeqOf(Replay(part))
                           ELSE LastSequence(file[l], reader.size)
    OBVIOUS
  <2>4. last \in Nat /\ (reader.kind = "ls" => last = LastSequence(file[l], reader.size))
    <3>1. LastSeqOf(Replay(part)) \in Nat
      BY <2>1, LastSeqType
    <3>2. LastSequence(file[l], reader.size) \in Nat
      BY <1>4, <1>6, LastSequenceIs
    <3> QED
      BY <2>3, <3>1, <3>2
  <2>5. reader' = [reader EXCEPT !.at = After(l), !.seen[l] = Replay(part), !.last[l] = last]
    BY <2>2, <2>3, Zenon
  <2>6. ReadTakes(l)
    <3>1. reader.size <= Len(file[l].recs)
      BY <1>4, <1>6
    <3>2. \E seen \in Seq(Record), x \in Nat :
            /\ reader' = [reader EXCEPT !.at = After(l), !.seen[l] = seen, !.last[l] = x]
            /\ Begins(seen, Replay(file[l]))
            /\ reader.kind = "ls" => x = LastSequence(file[l], reader.size)
      BY <2>1, <2>4, <2>5, Zenon
    <3> QED
      BY <3>1, <3>2, Zenon DEF ReadTakes
  <2> QED
    BY <1>2, <2>6
<1> QED
  BY <1>4, <1>5, <1>6

LEMMA ReaderStepBase ==
  ASSUME BaseInv, ReaderBegins \/ ReaderStats \/ ReaderReads \/ ReaderTakesMark \/ ReaderTells
  PROVE  BaseInv'
<1>1. /\ file' = file /\ disk' = disk /\ saved' = saved /\ holder' = holder /\ mark' = mark
      /\ acked' = acked /\ written' = written /\ checkouts' = checkouts
  BY DEF ReaderBegins, ReaderStats, ReaderReads, ReaderTakesMark, ReaderTells
<1>2. ReaderOK'
  <2>1. CASE ReaderBegins
    BY <2>1, ReaderBeginsIs DEF BaseInv
  <2>2. CASE ReaderStats
    BY <2>2, ReaderStatsIs DEF BaseInv, ReaderStats
  <2>3. CASE ReaderReads
    <3>1. PICK l \in Log :
            \/ \E told \in {"failed", "nothing"} : reader' = [reader EXCEPT !.at = "none", !.told = told]
            \/ ReadTakes(l)
      BY <2>3, ReaderReadsIs
    <3>2. ASSUME NEW told \in {"failed", "nothing"}, reader' = [reader EXCEPT !.at = "none", !.told = told]
          PROVE  ReaderOK'
      BY <3>2 DEF BaseInv, StateOK, ReaderOK
    <3>3. CASE ReadTakes(l)
      <4>1. After(l) \in {"discs", "mark", "end"}
        BY AfterIs, ReaderKinds DEF BaseInv, Log
      <4>2. PICK seen \in Seq(Record), last \in Nat :
              reader' = [reader EXCEPT !.at = After(l), !.seen[l] = seen, !.last[l] = last]
        BY <3>3 DEF ReadTakes
      <4> QED
        BY <4>1, <4>2 DEF BaseInv, StateOK, ReaderOK
    <3> QED
      BY <3>1, <3>2, <3>3
  <2>4. CASE ReaderTakesMark
    <3>1. After("mark") \in {"items", "end"}
      BY AfterIs, ReaderKinds DEF BaseInv
    <3> QED
      BY <2>4, <3>1 DEF BaseInv, StateOK, ReaderOK, ReaderTakesMark
  <2>5. CASE ReaderTells
    BY <2>5 DEF BaseInv, StateOK, ReaderOK, ReaderTells
  <2> QED
    BY <2>1, <2>2, <2>3, <2>4, <2>5
<1> QED
  BY <1>1, <1>2, BaseSame DEF BaseInv, StateOK, HolderOK

\* What is left of each log after a power loss.
LEMMA PowerLossIs ==
  ASSUME BaseInv, PowerLoss
  PROVE  /\ file' = disk' /\ file' \in [Log -> File]
         /\ \A l \in Log : /\ Begins(Replay(disk[l]), Replay(file'[l]))
                           /\ Begins(Replay(file'[l]), Replay(file[l])) /\ Growing(Replay(file'[l]))
<1>1. PICK f \in [Log -> UNION {Surviving(disk[l], file[l]) : l \in Log}] :
        /\ \A l \in Log : f[l] \in Surviving(disk[l], file[l])
        /\ file' = f /\ disk' = f
  BY DEF PowerLoss
<1>2. ASSUME NEW l \in Log
      PROVE  /\ f[l] \in File /\ Begins(Replay(disk[l]), Replay(f[l]))
             /\ Begins(Replay(f[l]), Replay(file[l])) /\ Growing(Replay(f[l]))
  <2>1. /\ disk[l] \in File /\ file[l] \in File /\ Growing(Replay(disk[l])) /\ Growing(Replay(file[l]))
        /\ Begins(Replay(disk[l]), Replay(file[l]))
    BY ReplayTyped DEF BaseInv, FilesInv
  <2> QED
    BY <1>1, <2>1, SurvivingIs
<1> QED
  BY <1>1, <1>2

LEMMA PowerLossBase ==
  ASSUME BaseInv, PowerLoss
  PROVE  BaseInv'
<1>1. holder' = NoHolder /\ reader' = NoReader /\ holder'.at = "none"
  BY DEF PowerLoss, NoHolder
<1>2. file' = disk' /\ file' \in [Log -> File] /\ \A l \in Log : Growing(Replay(file'[l]))
  BY PowerLossIs
<1>3. StateOK'
  BY <1>1, <1>2, NoHolderIs, NoReaderIs DEF BaseInv, StateOK, HolderOK, ReaderOK, PowerLoss
<1>4. \A l \in Log : Begins(Replay(file'[l]), Replay(file'[l]))
  BY <1>2, ReplayIs, BeginsSelf
<1>5. FilesInv'
  BY <1>2, <1>4 DEF BaseInv, FilesInv, PowerLoss
<1> QED
  BY <1>1, <1>3, <1>5 DEF BaseInv, HolderInv, Opened, At

LEMMA SaveVersionBase ==
  ASSUME BaseInv, SaveVersion
  PROVE  BaseInv'
<1>1. /\ file' = file /\ disk' = disk /\ saved' = file /\ holder' = holder /\ reader' = reader
      /\ mark' = mark /\ acked' = acked /\ written' = written /\ checkouts' = checkouts
  BY DEF SaveVersion
<1>2. StateOK'
  <2>1. HolderOK' /\ ReaderOK'
    BY <1>1 DEF BaseInv, StateOK, HolderOK, ReaderOK
  <2> QED
    BY <1>1, <2>1 DEF BaseInv, StateOK
<1>3. FilesInv'
  BY <1>1 DEF BaseInv, FilesInv
<1>4. HolderInv'
  BY <1>1 DEF BaseInv, HolderInv, Opened, InHand, At
<1> QED
  BY <1>2, <1>3, <1>4 DEF BaseInv

LEMMA CheckoutBase ==
  ASSUME BaseInv, Checkout
  PROVE  BaseInv'
<1>1. file' = saved /\ disk' = saved /\ saved' = file /\ holder' = holder /\ holder.at = "none"
  BY DEF Checkout, Idle, At
<1>2. StateOK'
  <2>1. checkouts' \in Nat
    BY DEF BaseInv, StateOK, Checkout
  <2>2. reader' = reader /\ mark' = mark /\ acked' = acked /\ written' = written
    BY DEF Checkout
  <2> QED
    BY <1>1, <2>1, <2>2 DEF BaseInv, StateOK, HolderOK, ReaderOK
<1>3. \A l \in Log : Begins(Replay(saved[l]), Replay(saved[l]))
  BY ReplayTyped, BeginsSelf DEF BaseInv
<1>4. FilesInv'
  BY <1>1, <1>3 DEF BaseInv, FilesInv
<1> QED
  BY <1>1, <1>2, <1>4 DEF BaseInv, HolderInv, Opened, At

LEMMA LoseStagingBase ==
  ASSUME BaseInv, LoseStaging
  PROVE  BaseInv'
<1>1. StateOK'
  BY DEF BaseInv, StateOK, HolderOK, ReaderOK, LoseStaging
<1> QED
  BY <1>1, BaseSame DEF LoseStaging

LEMMA BaseNext ==
  ASSUME BaseInv, [Next]_vars
  PROVE  BaseInv'
<1>1. CASE UNCHANGED vars
  <2>1. HolderOK' /\ ReaderOK'
    BY <1>1 DEF vars, BaseInv, StateOK, HolderOK, ReaderOK
  <2>2. StateOK'
    BY <1>1, <2>1 DEF vars, BaseInv, StateOK
  <2> QED
    BY <1>1, <2>2, BaseSame DEF vars
<1> QED
  BY <1>1, TakeLockBase, OpenRecFileBase, UseMarkBase, WriteBatchBase, WriteEndsBase, SyncBatchBase,
     AfterAppendBase, ReleaseBase, ReaderStepBase, PowerLossBase, SaveVersionBase, CheckoutBase,
     LoseStagingBase DEF Next

\* Whatever stops, each file, what is left of it after a power loss and the saved
\* version of it replay without damage, and the holder knows where its logs end.
THEOREM RecordFilesReplay == Spec => []BaseInv
<1>1. Init => BaseInv
  BY BaseInit
<1>2. BaseInv /\ [Next]_vars => BaseInv'
  BY BaseNext
<1> QED
  BY <1>1, <1>2, PTL DEF Spec

--------------------------------------------------------------------------------
(* What a command acknowledged, and the mark *)

\* A step that neither is a power loss nor puts another version back.
LEMMA FilesGrow ==
  ASSUME BaseInv, [Next]_vars, ~PowerLoss, ~Checkout
  PROVE  \A l \in Log : Begins(Replay(file[l]), Replay(file'[l]))
<1>1. \A l \in Log : Begins(Replay(file[l]), Replay(file[l]))
  BY ReplayTyped, BeginsSelf DEF BaseInv
<1>2. CASE OpenRecFile
  <2>1. \A l \in Log : Replay(file'[l]) = Replay(file[l])
    BY <1>2, OpenIs
  <2> QED
    BY <1>1, <2>1
<1>3. CASE WriteBatch
  <2>1. PICK l \in Log, n \in 1 .. 2, part \in BOOLEAN, f \in File, g \in File :
          file' = [file EXCEPT ![l] = f] /\ Begins(Replay(file[l]), Replay(f))
    BY <1>3, WriteIs
  <2>2. \A m \in Log : file'[m] = IF m = l THEN f ELSE file[m]
    BY <2>1 DEF BaseInv, StateOK
  <2> QED
    BY <1>1, <2>1, <2>2
<1>4. CASE WriteEnds
  <2>1. /\ file' = [file EXCEPT ![holder.log] = holder.new]
        /\ Begins(Replay(file[holder.log]), Replay(holder.new))
    BY <1>4 DEF WriteEnds, BaseInv, HolderInv, Whole
  <2>2. \A m \in Log : file'[m] = IF m = holder.log THEN holder.new ELSE file[m]
    BY <2>1 DEF BaseInv, StateOK, HolderOK
  <2> QED
    BY <1>1, <2>1, <2>2
<1>5. CASE file' = file
  BY <1>1, <1>5
<1> QED
  BY <1>2, <1>3, <1>4, <1>5
     DEF Next, vars, TakeLock, UseMark, SyncBatch, AfterAppend, Release, ReaderBegins, ReaderStats,
         ReaderReads, ReaderTakesMark, ReaderTells, SaveVersion, LoseStaging

LEMMA HistoryGrows ==
  ASSUME StateOK, [Next]_vars
  PROVE  struck \subseteq struck' /\ (checkouts' = 0 => checkouts = 0 /\ ~Checkout)
<1>1. ASSUME Checkout
      PROVE  checkouts' # checkouts
  BY <1>1 DEF Checkout, StateOK
<1>2. CASE AfterAppend \/ Release
  <2>1. checkouts' = checkouts /\ struck \subseteq struck'
    BY <1>2 DEF AfterAppend, Release
  <2> QED
    BY <1>1, <2>1
<1>3. CASE PowerLoss \/ LoseStaging
  <2>1. checkouts' = checkouts /\ struck \subseteq struck'
    BY <1>3 DEF PowerLoss, LoseStaging
  <2> QED
    BY <1>1, <2>1
<1>4. CASE Checkout
  BY <1>4 DEF Checkout, StateOK
<1>5. CASE struck' = struck /\ checkouts' = checkouts /\ ~Checkout
  BY <1>5
<1> QED
  BY <1>2, <1>3, <1>4, <1>5, <1>1
     DEF Next, vars, TakeLock, OpenRecFile, UseMark, WriteBatch, WriteEnds, SyncBatch,
         ReaderBegins, ReaderStats, ReaderReads, ReaderTakesMark, ReaderTells, SaveVersion

LEMMA AckNext ==
  ASSUME BaseInv, AckInv, [Next]_vars
  PROVE  AckInv'
<1> SUFFICES ASSUME checkouts' = 0, NEW l \in Log
             PROVE  Begins(acked'[l], Replay(disk'[l]))
  BY DEF AckInv
<1>1. /\ acked[l] \in Seq(Record) /\ Replay(disk[l]) \in Seq(Record)
      /\ Replay(file[l]) \in Seq(Record)
  BY ReplayTyped DEF BaseInv
<1>2. Begins(acked[l], Replay(disk[l])) /\ ~Checkout
  BY HistoryGrows DEF AckInv, BaseInv
<1>3. CASE SyncBatch
  <2>1. /\ disk' = [disk EXCEPT ![holder.log] = file[holder.log]]
        /\ acked' = [acked EXCEPT ![holder.log] = Replay(file[holder.log])]
    BY <1>3 DEF SyncBatch
  <2>2. CASE l = holder.log
    <3>1. disk'[l] = file[l] /\ acked'[l] = Replay(file[l])
      BY <2>1, <2>2 DEF BaseInv, StateOK
    <3> QED
      BY <1>1, <3>1, BeginsSelf
  <2>3. CASE l # holder.log
    <3>1. disk'[l] = disk[l] /\ acked'[l] = acked[l]
      BY <2>1, <2>3 DEF BaseInv, StateOK
    <3> QED
      BY <1>2, <3>1
  <2> QED
    BY <2>2, <2>3
<1>4. CASE PowerLoss
  <2>1. disk'[l] \in File /\ Begins(Replay(disk[l]), Replay(disk'[l]))
    BY <1>4, PowerLossIs
  <2>2. acked' = acked
    BY <1>4 DEF PowerLoss
  <2> QED
    BY <1>1, <1>2, <2>1, <2>2, ReplayIs, BeginsAfter
<1>5. CASE disk' = disk /\ acked' = acked
  BY <1>2, <1>5
<1> QED
  BY <1>2, <1>3, <1>4, <1>5
     DEF Next, vars, TakeLock, OpenRecFile, UseMark, WriteBatch, WriteEnds, AfterAppend, Release,
         ReaderBegins, ReaderStats, ReaderReads, ReaderTakesMark, ReaderTells, SaveVersion, LoseStaging

\* The mark is not above what the files f replay to.
NotAbove(m, f) == m # NoMark => \A l \in Log : m[l] <= LastSeqOf(Replay(f[l]))

LEMMA NotAboveGrows ==
  ASSUME NEW m \in [Log -> Nat] \cup {NoMark}, NEW f \in [Log -> File], NEW g \in [Log -> File],
         NotAbove(m, f), \A l \in Log : Begins(Replay(f[l]), Replay(g[l])) /\ Growing(Replay(g[l]))
  PROVE  NotAbove(m, g)
<1> SUFFICES ASSUME m # NoMark, NEW l \in Log
             PROVE  m[l] <= LastSeqOf(Replay(g[l]))
  BY DEF NotAbove
<1>1. f[l] \in File /\ g[l] \in File /\ Replay(f[l]) \in Seq(Record) /\ Replay(g[l]) \in Seq(Record)
  BY ReplayIs
<1>2. LastSeqOf(Replay(f[l])) <= LastSeqOf(Replay(g[l]))
  BY <1>1, LastSeqGrows
<1>3. LastSeqOf(Replay(f[l])) \in Nat /\ LastSeqOf(Replay(g[l])) \in Nat
  BY <1>1, LastSeqType
<1>4. m[l] \in Nat /\ m[l] <= LastSeqOf(Replay(f[l]))
  BY DEF NotAbove
<1> QED
  BY <1>2, <1>3, <1>4

\* The steps that use or change the mark, or begin or end a command.
LEMMA MarkFileNext ==
  ASSUME BaseInv, MarkInv, [Next]_vars, checkouts' = 0, ~MarkMayLead', ~PowerLoss
  PROVE  NotAbove(mark', file')
<1>1. checkouts = 0 /\ ~Checkout /\ ~MarkMayLead
  BY HistoryGrows DEF MarkMayLead, BaseInv
<1>2. NotAbove(mark, file)
  BY <1>1 DEF MarkInv, NotAbove
<1>3. BaseInv'
  BY BaseNext
<1>4. NotAbove(mark, file')
  <2>1. \A l \in Log : Begins(Replay(file[l]), Replay(file'[l])) /\ Growing(Replay(file'[l]))
    BY <1>1, <1>3, FilesGrow DEF BaseInv, FilesInv
  <2>2. mark \in [Log -> Nat] \cup {NoMark} /\ file \in [Log -> File] /\ file' \in [Log -> File]
    BY <1>3 DEF BaseInv, StateOK
  <2> QED
    BY <1>2, <2>1, <2>2, NotAboveGrows
<1>5. CASE UseMark \/ AfterAppend
  <2>1. file' = file /\ (mark' = mark \/ mark' = holder.last)
    BY <1>5 DEF UseMark, AfterAppend
  <2>2. \A l \in Log : holder.last[l] = LastSeqOf(Replay(file[l])) /\ holder.last[l] \in Nat
    BY <1>5 DEF UseMark, AfterAppend, BaseInv, StateOK, HolderOK, HolderInv, Opened, InHand, Busy, At
  <2> QED
    BY <1>4, <2>1, <2>2 DEF NotAbove
<1>6. CASE LoseStaging
  BY <1>6 DEF LoseStaging, NotAbove
<1>7. CASE mark' = mark
  BY <1>4, <1>7
<1> QED
  BY <1>1, <1>5, <1>6, <1>7
     DEF Next, vars, TakeLock, OpenRecFile, WriteBatch, WriteEnds, SyncBatch, Release,
         ReaderBegins, ReaderStats, ReaderReads, ReaderTakesMark, ReaderTells, SaveVersion

Synced == \A l \in Log : InHand(l) \/ Replay(disk[l]) = Replay(file[l])

\* Until the first stop each log is on the disc, but for a batch in hand.
LEMMA SyncedNext ==
  ASSUME BaseInv, Synced, [Next]_vars, "stop" \notin struck', ~Checkout
  PROVE  Synced'
<1>1. CASE OpenRecFile
  <2>1. \A l \in Log : Replay(file'[l]) = Replay(file[l])
    BY <1>1, OpenIs
  <2>2. holder.at \in Log /\ disk' = disk
    BY <1>1 DEF OpenRecFile, At
  <2> QED
    BY <2>1, <2>2 DEF Synced, InHand, Busy, Log
<1>2. CASE WriteBatch
  <2>1. PICK l \in Log, n \in 1 .. 2, part \in BOOLEAN, f \in File, g \in File :
          /\ holder.at = "ready" /\ file' = [file EXCEPT ![l] = f]
          /\ holder' = [holder EXCEPT !.at = "write", !.log = l, !.new = g]
    BY <1>2, WriteIs
  <2>2. /\ holder'.at = "write" /\ holder'.log = l /\ disk' = disk
        /\ \A m \in Log : m # l => file'[m] = file[m]
    BY <1>2, <2>1 DEF WriteBatch, BaseInv, StateOK, HolderOK
  <2> QED
    BY <2>1, <2>2 DEF Synced, InHand, Busy
<1>3. CASE WriteEnds
  <2>1. /\ holder.at = "write" /\ holder'.at = "sync" /\ holder'.log = holder.log /\ disk' = disk
        /\ \A m \in Log : m # holder.log => file'[m] = file[m]
    BY <1>3 DEF WriteEnds, At, BaseInv, StateOK, HolderOK
  <2> QED
    BY <2>1 DEF Synced, InHand, Busy
<1>4. CASE SyncBatch
  <2>1. /\ holder.at = "sync" /\ file' = file
        /\ \A m \in Log : disk'[m] = IF m = holder.log THEN file[m] ELSE disk[m]
    BY <1>4 DEF SyncBatch, At, BaseInv, StateOK, HolderOK
  <2> QED
    BY <2>1 DEF Synced, InHand
<1>5. CASE PowerLoss
  BY <1>5, PowerLossIs DEF Synced
<1>6. CASE Release
  <2>1. holder.at \in {"ready", "refused"}
    BY <1>6 DEF Release
  <2> QED
    BY <1>6, <2>1 DEF Release, Synced, InHand, Busy
<1>7. CASE file' = file /\ disk' = disk /\ holder.at \notin Busy
  BY <1>7 DEF Synced, InHand
<1>8. CASE file' = file /\ disk' = disk /\ holder' = holder
  BY <1>8 DEF Synced, InHand
<1> QED
  BY <1>1, <1>2, <1>3, <1>4, <1>5, <1>6, <1>7, <1>8
     DEF Next, vars, TakeLock, UseMark, AfterAppend, At, Busy,
         ReaderBegins, ReaderStats, ReaderReads, ReaderTakesMark, ReaderTells, SaveVersion, LoseStaging

LEMMA MarkDiskNext ==
  ASSUME BaseInv, MarkInv, [Next]_vars, checkouts' = 0, "stop" \notin struck'
  PROVE  NotAbove(mark', disk') /\ Synced'
<1>1. checkouts = 0 /\ ~Checkout /\ "stop" \notin struck
  BY HistoryGrows DEF BaseInv
<1>2. NotAbove(mark, disk) /\ Synced
  BY <1>1 DEF MarkInv, NotAbove, Synced
<1>3. BaseInv'
  BY BaseNext
<1>4. \A l \in Log : Begins(Replay(disk[l]), Replay(disk'[l]))
  <2>1. \A l \in Log : Begins(Replay(disk[l]), Replay(disk[l])) /\ Begins(Replay(disk[l]), Replay(file[l]))
    BY ReplayTyped, BeginsSelf DEF BaseInv, FilesInv
  <2>2. CASE PowerLoss
    BY <2>2, PowerLossIs
  <2>3. CASE SyncBatch
    <3>1. \A m \in Log : disk'[m] = IF m = holder.log THEN file[m] ELSE disk[m]
      BY <2>3 DEF SyncBatch, BaseInv, StateOK
    <3> QED
      BY <2>1, <3>1
  <2>4. CASE disk' = disk
    BY <2>1, <2>4
  <2> QED
    BY <1>1, <2>2, <2>3, <2>4
       DEF Next, vars, TakeLock, OpenRecFile, UseMark, WriteBatch, WriteEnds, AfterAppend, Release,
           ReaderBegins, ReaderStats, ReaderReads, ReaderTakesMark, ReaderTells, SaveVersion, LoseStaging
<1>5. NotAbove(mark, disk')
  <2>1. \A l \in Log : Begins(Replay(disk[l]), Replay(disk'[l])) /\ Growing(Replay(disk'[l]))
    BY <1>3, <1>4 DEF BaseInv, FilesInv
  <2>2. mark \in [Log -> Nat] \cup {NoMark} /\ disk \in [Log -> File] /\ disk' \in [Log -> File]
    BY <1>3 DEF BaseInv, StateOK
  <2> QED
    BY <1>2, <2>1, <2>2, NotAboveGrows
<1>6. CASE UseMark \/ AfterAppend
  <2>1. disk' = disk /\ (mark' = mark \/ mark' = holder.last) /\ holder.at \notin Busy
    BY <1>6 DEF UseMark, AfterAppend, At, Busy
  <2>2. \A l \in Log : holder.last[l] = LastSeqOf(Replay(file[l])) /\ holder.last[l] \in Nat
    BY <1>6 DEF UseMark, AfterAppend, BaseInv, StateOK, HolderOK, HolderInv, Opened, InHand, Busy, At
  <2>3. \A l \in Log : Replay(disk[l]) = Replay(file[l])
    BY <1>2, <2>1 DEF Synced, InHand
  <2>4. NotAbove(mark', disk')
    BY <1>5, <2>1, <2>2, <2>3 DEF NotAbove
  <2> QED
    BY <1>1, <1>2, <2>4, SyncedNext
<1>7. CASE LoseStaging
  <2>1. NotAbove(mark', disk')
    BY <1>7 DEF LoseStaging, NotAbove
  <2> QED
    BY <1>1, <1>2, <2>1, SyncedNext
<1>8. CASE mark' = mark
  <2>1. NotAbove(mark', disk')
    BY <1>5, <1>8
  <2> QED
    BY <1>1, <1>2, <2>1, SyncedNext
<1> QED
  BY <1>1, <1>6, <1>7, <1>8
     DEF Next, vars, TakeLock, OpenRecFile, WriteBatch, WriteEnds, SyncBatch, Release, PowerLoss,
         ReaderBegins, ReaderStats, ReaderReads, ReaderTakesMark, ReaderTells, SaveVersion

LEMMA MarkNext ==
  ASSUME BaseInv, MarkInv, [Next]_vars
  PROVE  MarkInv'
<1> SUFFICES ASSUME checkouts' = 0
             PROVE  /\ ~MarkMayLead' => NotAbove(mark', file')
                    /\ "stop" \notin struck' => NotAbove(mark', disk') /\ Synced'
  BY DEF MarkInv, NotAbove, Synced
<1>1. "stop" \notin struck' => NotAbove(mark', disk') /\ Synced'
  BY MarkDiskNext
<1>2. CASE PowerLoss
  <2>1. "power" \in struck' /\ file' = disk'
    BY <1>2, PowerLossIs DEF PowerLoss
  <2>2. ~MarkMayLead' => "stop" \notin struck'
    BY <2>1 DEF MarkMayLead
  <2> QED
    BY <1>1, <2>1, <2>2
<1>3. CASE ~PowerLoss
  BY <1>1, <1>3, MarkFileNext
<1> QED
  BY <1>2, <1>3

--------------------------------------------------------------------------------
(* A command without the lock *)

LEMMA ReaderNext ==
  ASSUME BaseInv, ReaderInv, [Next]_vars
  PROVE  ReaderInv'
<1> SUFFICES ASSUME reader'.at # "none", NEW l \in Log
             PROVE  Begins(reader'.seen[l], Replay(file'[l]))
  BY DEF ReaderInv
<1>1. BaseInv'
  BY BaseNext
<1>2. /\ Replay(file[l]) \in Seq(Record) /\ Replay(file'[l]) \in Seq(Record)
      /\ reader.seen[l] \in Seq(Record)
  BY <1>1, ReplayTyped, ReplayIs DEF BaseInv, StateOK, ReaderOK
<1>3. CASE PowerLoss
  BY <1>3 DEF PowerLoss, NoReader
<1>4. CASE Checkout
  BY <1>4 DEF Checkout, Idle
<1>5. CASE ReaderBegins
  <2>1. reader' = [NoReader EXCEPT !.kind = reader'.kind, !.at = reader'.at]
    BY <1>5, ReaderBeginsIs DEF BaseInv
  <2>2. PICK k, a : reader' = [NoReader EXCEPT !.kind = k, !.at = a]
    BY <2>1, Zenon
  <2>3. reader'.seen[l] = << >>
    BY <2>2 DEF NoReader
  <2> QED
    BY <1>2, <2>3, BeginsEmpty
<1>6. CASE ReaderReads
  <2>1. PICK m \in Log :
          \/ \E told \in {"failed", "nothing"} : reader' = [reader EXCEPT !.at = "none", !.told = told]
          \/ ReadTakes(m)
    BY <1>6, ReaderReadsIs
  <2>2. reader.at # "none" /\ file' = file
    BY <1>6 DEF ReaderReads
  <2>3. ReadTakes(m)
    BY <2>1 DEF BaseInv, StateOK, ReaderOK
  <2>4. PICK seen \in Seq(Record), last \in Nat :
          /\ reader' = [reader EXCEPT !.at = After(m), !.seen[m] = seen, !.last[m] = last]
          /\ Begins(seen, Replay(file[m]))
    BY <2>3 DEF ReadTakes
  <2>5. reader'.seen[l] = IF l = m THEN seen ELSE reader.seen[l]
    BY <2>4 DEF BaseInv, StateOK, ReaderOK
  <2> QED
    BY <2>2, <2>4, <2>5 DEF ReaderInv
<1>7. CASE /\ reader'.seen = reader.seen /\ reader.at # "none"
           /\ ~PowerLoss /\ ~Checkout
  <2>1. Begins(reader.seen[l], Replay(file[l])) /\ Begins(Replay(file[l]), Replay(file'[l]))
    BY <1>7, FilesGrow DEF ReaderInv
  <2> QED
    BY <1>2, <1>7, <2>1, BeginsAfter
<1>8. CASE ReaderStats \/ ReaderTakesMark \/ ReaderTells
  <2>1. reader'.seen = reader.seen /\ reader.at # "none"
    BY <1>8 DEF ReaderStats, ReaderTakesMark, ReaderTells, BaseInv, StateOK, ReaderOK, Log
  <2> QED
    BY <1>3, <1>4, <1>7, <2>1
<1>9. CASE reader' = reader
  BY <1>3, <1>4, <1>7, <1>9
<1> QED
  BY <1>3, <1>4, <1>5, <1>6, <1>8, <1>9
     DEF Next, vars, TakeLock, OpenRecFile, UseMark, WriteBatch, WriteEnds, SyncBatch, AfterAppend,
         Release, SaveVersion, LoseStaging

\* What LsInv says of one log.
LsKnows(l) ==
  reader.mark[l] <= IF Passed(l) THEN reader.last[l]
                    ELSE IF Reading(l) THEN EndSeen(l)
                    ELSE LastSeqOf(Replay(file[l]))
LsSize(l) == Reading(l) => reader.size <= Len(Replay(file[l])) + 1

LEMMA EndSeenGrows ==
  ASSUME NEW s \in Seq(Record), NEW t \in Seq(Record), Begins(s, t), Growing(t), NEW n \in Nat
  PROVE  /\ SeqAt(s, IF n <= Len(s) THEN n ELSE Len(s)) \in Nat
         /\ SeqAt(t, IF n <= Len(t) THEN n ELSE Len(t)) \in Nat
         /\ SeqAt(s, IF n <= Len(s) THEN n ELSE Len(s)) <= SeqAt(t, IF n <= Len(t) THEN n ELSE Len(t))
<1>1. Len(s) \in Nat /\ Len(t) \in Nat /\ Len(s) <= Len(t)
  BY LenProperties DEF Begins
<1>2. PICK a, b : a = (IF n <= Len(s) THEN n ELSE Len(s)) /\ b = (IF n <= Len(t) THEN n ELSE Len(t))
  OBVIOUS
<1>3. a \in 0 .. Len(s) /\ b \in a .. Len(t)
  BY <1>1, <1>2
<1> QED
  BY <1>2, <1>3, SeqAtGrows

\* Other steps only add records to what ls reads.
LEMMA LsStays ==
  ASSUME BaseInv, BaseInv', LsInv, [Next]_vars, reader' = reader, ~PowerLoss, ~Checkout
  PROVE  LsInv'
<1> SUFFICES ASSUME checkouts' = 0, ~MarkMayLead', reader.at # "none", reader.kind = "ls", NEW l \in Log
             PROVE  LsSize(l)' /\ (reader.mark # NoMark => LsKnows(l)')
  BY DEF LsInv, LsSize, LsKnows
<1>1. checkouts = 0 /\ ~MarkMayLead
  BY HistoryGrows DEF MarkMayLead, BaseInv
<1>2. LsSize(l) /\ (reader.mark # NoMark => LsKnows(l))
  BY <1>1 DEF LsInv, LsSize, LsKnows
<1>3. PICK s, t : s = Replay(file[l]) /\ t = Replay(file'[l])
  OBVIOUS
<1>4. s \in Seq(Record) /\ t \in Seq(Record) /\ Begins(s, t) /\ Growing(t)
  BY <1>3, FilesGrow, ReplayTyped, ReplayIs DEF BaseInv, FilesInv, StateOK
<1>5. Len(s) \in Nat /\ Len(t) \in Nat /\ Len(s) <= Len(t)
  BY <1>4, LenProperties DEF Begins
<1>6. reader.size \in Nat /\ (reader.mark # NoMark => reader.mark[l] \in Nat)
  BY DEF BaseInv, StateOK, ReaderOK
<1>7. LsSize(l)'
  <2>1. SUFFICES ASSUME Reading(l)
                 PROVE  reader.size <= Len(t) + 1
    BY <1>3 DEF LsSize, Reading
  <2>2. reader.size <= Len(s) + 1
    BY <1>2, <1>3, <2>1 DEF LsSize
  <2> QED
    BY <1>5, <1>6, <2>2
<1>8. ASSUME reader.mark # NoMark
      PROVE  LsKnows(l)'
  <2>1. EndSeen(l) \in Nat /\ EndSeen(l)' \in Nat /\ EndSeen(l) <= EndSeen(l)'
    <3>1. PICK n : n = reader.size
      OBVIOUS
    <3>2. n \in Nat
      BY <1>6, <3>1
    <3>3. /\ EndSeen(l) = SeqAt(s, IF n <= Len(s) THEN n ELSE Len(s))
          /\ EndSeen(l)' = SeqAt(t, IF n <= Len(t) THEN n ELSE Len(t))
      BY <1>3, <3>1 DEF EndSeen
    <3> QED
      BY <1>4, <3>2, <3>3, EndSeenGrows
  <2>2. LastSeqOf(s) \in Nat /\ LastSeqOf(t) \in Nat /\ LastSeqOf(s) <= LastSeqOf(t)
    BY <1>4, LastSeqType, LastSeqGrows
  <2>3. (Passed(l)' <=> Passed(l)) /\ (Reading(l)' <=> Reading(l))
    BY DEF Passed, Reading
  <2>4. CASE Passed(l)
    BY <1>2, <1>8, <2>3, <2>4 DEF LsKnows
  <2>5. CASE ~Passed(l) /\ Reading(l)
    <3>1. reader.mark[l] <= EndSeen(l)
      BY <1>2, <1>8, <2>5 DEF LsKnows
    <3>2. reader.mark[l] <= EndSeen(l)'
      BY <1>6, <1>8, <2>1, <3>1
    <3> QED
      BY <2>3, <2>5, <3>2 DEF LsKnows
  <2>6. CASE ~Passed(l) /\ ~Reading(l)
    <3>1. reader.mark[l] <= LastSeqOf(s)
      BY <1>2, <1>3, <1>8, <2>6 DEF LsKnows
    <3>2. reader.mark[l] <= LastSeqOf(t)
      BY <1>6, <1>8, <2>2, <3>1
    <3> QED
      BY <1>3, <2>3, <2>6, <3>2 DEF LsKnows
  <2> QED
    BY <2>4, <2>5, <2>6
<1> QED
  BY <1>7, <1>8

LEMMA LsNext ==
  ASSUME BaseInv, MarkInv, LsInv, [Next]_vars
  PROVE  LsInv'
<1>1. BaseInv'
  BY BaseNext
<1>2. CASE PowerLoss
  BY <1>2 DEF PowerLoss, NoReader, LsInv
<1>3. CASE Checkout
  BY <1>3 DEF Checkout, Idle, LsInv
<1>4. CASE reader' = reader
  BY <1>1, <1>2, <1>3, <1>4, LsStays
<1>5. ASSUME ReaderBegins \/ ReaderStats \/ ReaderReads \/ ReaderTakesMark \/ ReaderTells
      PROVE  LsInv'
  <2> SUFFICES ASSUME checkouts' = 0, ~MarkMayLead', reader'.at # "none", reader'.kind = "ls", NEW l \in Log
               PROVE  LsSize(l)' /\ (reader'.mark # NoMark => LsKnows(l)')
    BY DEF LsInv, LsSize, LsKnows
  <2>1. file' = file /\ mark' = mark /\ checkouts' = checkouts /\ struck' = struck
    BY <1>5 DEF ReaderBegins, ReaderStats, ReaderReads, ReaderTakesMark, ReaderTells
  <2>2. checkouts = 0 /\ ~MarkMayLead
    BY <2>1 DEF MarkMayLead
  <2>3. /\ file[l] \in File /\ Replay(file[l]) \in Seq(Record) /\ Len(Replay(file[l])) \in Nat
        /\ Len(file[l].recs) \in Nat /\ Growing(Replay(file[l]))
    BY ReplayTyped, LenProperties DEF BaseInv, FilesInv, File
  <2>4. reader \in [kind : AllReaders,
              at : {"none", "items", "read items", "discs", "read discs", "mark", "end"},
              size : Nat, mark : [Log -> Nat] \cup {NoMark}, seen : [Log -> Seq(Record)],
              last : [Log -> Nat], told : {"nothing", "rollback", "failed"}]
    BY DEF BaseInv, StateOK, ReaderOK
  <2>5. ASSUME reader.at # "none", reader.kind = "ls"
        PROVE  LsSize(l) /\ (reader.mark # NoMark => LsKnows(l))
    BY <2>2, <2>5 DEF LsInv, LsSize, LsKnows
  <2>6. CASE ReaderBegins
    <3>1. reader' = [NoReader EXCEPT !.kind = reader'.kind, !.at = reader'.at] /\ reader'.at = "mark"
      BY <2>6, ReaderBeginsIs DEF BaseInv
    <3>2. PICK k, a : reader' = [NoReader EXCEPT !.kind = k, !.at = a]
      BY <3>1, Zenon
    <3>3. reader'.mark = NoMark
      BY <3>2 DEF NoReader
    <3> QED
      BY <3>1, <3>3 DEF LsSize, Reading
  <2>7. CASE ReaderStats
    <3>1. PICK m \in Log :
            /\ reader.at = m
            /\ reader' = [reader EXCEPT !.size = Len(file[m].recs),
                                        !.at = IF m = "items" THEN "read items" ELSE "read discs"]
      BY <2>7 DEF ReaderStats
    <3>2. /\ reader'.size = Len(file[m].recs) /\ reader'.kind = reader.kind
          /\ reader'.mark = reader.mark /\ reader'.last = reader.last
          /\ reader'.at = IF m = "items" THEN "read items" ELSE "read discs"
      BY <2>4, <3>1
    <3>3. Len(Replay(file[l])) <= Len(file[l].recs) /\ Len(file[l].recs) <= Len(Replay(file[l])) + 1
      BY <2>3, ReplayIs
    <3>6. (m = "items" /\ reader'.at = "read items") \/ (m = "discs" /\ reader'.at = "read discs")
      BY <3>2 DEF Log
    <3>9. reader.at = m /\ (l = "items" \/ l = "discs")
      BY <3>1 DEF Log
    <3>10. ASSUME m = "items"
          PROVE  /\ (Reading(l)' <=> l = m) /\ ~Reading(l)
                 /\ (Passed(l)' <=> Passed(l)) /\ (l = m => ~Passed(l))
      <4>1. reader.at = "items" /\ reader'.at = "read items"
        BY <3>6, <3>9, <3>10
      <4>2. CASE l = "items"
        BY <3>10, <4>1, <4>2 DEF Reading, Passed
      <4>3. CASE l = "discs"
        BY <3>10, <4>1, <4>3 DEF Reading, Passed
      <4> QED
        BY <3>9, <4>2, <4>3
    <3>11. ASSUME m = "discs"
          PROVE  /\ (Reading(l)' <=> l = m) /\ ~Reading(l)
                 /\ (Passed(l)' <=> Passed(l)) /\ (l = m => ~Passed(l))
      <4>1. reader.at = "discs" /\ reader'.at = "read discs"
        BY <3>6, <3>9, <3>11
      <4>2. CASE l = "items"
        BY <3>11, <4>1, <4>2 DEF Reading, Passed
      <4>3. CASE l = "discs"
        BY <3>11, <4>1, <4>3 DEF Reading, Passed
      <4> QED
        BY <3>9, <4>2, <4>3
    <3>7. (Reading(l)' <=> l = m) /\ ~Reading(l)
      BY <3>6, <3>10, <3>11
    <3>8. (Passed(l)' <=> Passed(l)) /\ (l = m => ~Passed(l))
      BY <3>6, <3>10, <3>11
    <3>4. LsSize(l)'
      BY <2>1, <3>2, <3>3, <3>7 DEF LsSize
    <3>5. ASSUME reader'.mark # NoMark
          PROVE  LsKnows(l)'
      <4>1. LsKnows(l)
        BY <2>5, <3>1, <3>2, <3>5 DEF Log
      <4>2. CASE l = m
        <5>1. EndSeen(l)' = SeqAt(Replay(file[l]), Len(Replay(file[l])))
          <6>1. PICK s : s = Replay(file[l])
            OBVIOUS
          <6>2. EndSeen(l)' = SeqAt(s, IF Len(file[l].recs) <= Len(s) THEN Len(file[l].recs) ELSE Len(s))
            BY <2>1, <3>2, <4>2, <6>1 DEF EndSeen
          <6>3. (IF Len(file[l].recs) <= Len(s) THEN Len(file[l].recs) ELSE Len(s)) = Len(s)
            BY <2>3, <3>3, <6>1
          <6> QED
            BY <6>1, <6>2, <6>3
        <5>2. EndSeen(l)' = LastSeqOf(Replay(file[l]))
          BY <2>3, <5>1, LastSeqType
        <5>3. ~Passed(l) /\ ~Reading(l) /\ ~Passed(l)' /\ Reading(l)'
          BY <3>7, <3>8, <4>2
        <5> QED
          BY <3>2, <4>1, <5>2, <5>3 DEF LsKnows
      <4>3. CASE l # m
        <5>1. (Passed(l)' <=> Passed(l)) /\ ~Reading(l)' /\ ~Reading(l)
          BY <3>7, <3>8, <4>3
        <5> QED
          BY <2>1, <3>2, <4>1, <5>1 DEF LsKnows
      <4> QED
        BY <4>2, <4>3
    <3> QED
      BY <3>4, <3>5
  <2>8. CASE ReaderReads
    <3>1. PICK m \in Log :
            /\ Reading(m)
            /\ \/ \E told \in {"failed", "nothing"} : reader' = [reader EXCEPT !.at = "none", !.told = told]
               \/ ReadTakes(m)
      BY <2>8, ReaderReadsIs
    <3>2. ReadTakes(m)
      BY <2>4, <3>1
    <3>3. PICK seen \in Seq(Record), last \in Nat :
            /\ reader' = [reader EXCEPT !.at = After(m), !.seen[m] = seen, !.last[m] = last]
            /\ reader.kind = "ls" => last = LastSequence(file[m], reader.size)
      BY <3>2 DEF ReadTakes
    <3>4. /\ reader'.kind = reader.kind /\ reader'.mark = reader.mark
          /\ reader'.at = After(m) /\ reader'.last[m] = last
          /\ l # m => reader'.last[l] = reader.last[l]
      BY <2>4, <3>3
    <3>5. reader'.at = IF m = "items" THEN "discs" ELSE "end"
      BY <3>4, AfterIs DEF BaseInv, Log
    <3>6. ~Reading(l)'
      BY <3>5 DEF Reading, Log
    <3>7. ASSUME reader'.mark # NoMark
          PROVE  LsKnows(l)'
      <4>1. LsKnows(l)
        BY <2>5, <3>1, <3>4, <3>7 DEF Reading, Log
      <4>2. CASE l = m
        <5>1. reader.size \in 0 .. Len(file[l].recs)
          <6>1. reader.size \in Nat
            BY <2>4
          <6>2. reader.size <= Len(file[l].recs)
            BY <3>2, <4>2, Zenon DEF ReadTakes
          <6> QED
            BY <2>3, <6>1, <6>2
        <5>2. last = EndSeen(l)
          BY <2>3, <3>3, <3>4, <4>2, <5>1, LastSequenceIs DEF EndSeen
        <5>3. ~Passed(l) /\ Reading(l) /\ Passed(l)'
          BY <3>1, <3>5, <4>2 DEF Passed, Reading, Log
        <5> QED
          BY <3>4, <4>1, <4>2, <5>2, <5>3 DEF LsKnows
      <4>3. CASE l # m
        <5>1. (Passed(l)' <=> Passed(l)) /\ ~Reading(l)
          BY <3>1, <3>5, <4>3 DEF Passed, Reading, Log
        <5> QED
          BY <2>1, <3>4, <3>6, <4>1, <4>3, <5>1 DEF LsKnows
      <4> QED
        BY <4>2, <4>3
    <3> QED
      BY <3>6, <3>7 DEF LsSize
  <2>9. CASE ReaderTakesMark
    <3>1. /\ reader.at = "mark" /\ reader'.mark = mark /\ reader'.kind = reader.kind /\ reader'.at = After("mark")
      BY <2>4, <2>9 DEF ReaderTakesMark
    <3>2. reader'.at = "items"
      BY <3>1, AfterIs DEF BaseInv
    <3>3. ~Reading(l)' /\ ~Passed(l)'
      BY <3>2 DEF Reading, Passed, Log
    <3>4. mark # NoMark => mark[l] <= LastSeqOf(Replay(file[l]))
      BY <2>2 DEF MarkInv
    <3> QED
      BY <2>1, <3>1, <3>3, <3>4 DEF LsSize, LsKnows
  <2>10. CASE ReaderTells
    BY <2>4, <2>10 DEF ReaderTells
  <2> QED
    BY <1>5, <2>6, <2>7, <2>8, <2>9, <2>10
<1> QED
  BY <1>2, <1>3, <1>4, <1>5
     DEF Next, vars, TakeLock, OpenRecFile, UseMark, WriteBatch, WriteEnds, SyncBatch, AfterAppend,
         Release, SaveVersion, LoseStaging

LEMMA WarningNext ==
  ASSUME BaseInv, LsInv, LsWarningTrue, [Next]_vars
  PROVE  LsWarningTrue'
<1> SUFFICES ASSUME reader'.kind = "ls", reader'.told = "rollback", checkouts' = 0, ~MarkMayLead'
             PROVE  FALSE
  <2>1. checkouts' \in Nat
    BY BaseNext DEF BaseInv, StateOK
  <2> QED
    BY <2>1 DEF LsWarningTrue
<1>1. checkouts = 0 /\ ~MarkMayLead
  BY HistoryGrows DEF MarkMayLead, BaseInv
<1>2. ~(reader.kind = "ls" /\ reader.told = "rollback")
  BY <1>1 DEF LsWarningTrue
<1>3. CASE ReaderTells
  <2>1. /\ reader.at = "end" /\ reader'.kind = reader.kind
        /\ reader'.told = IF Behind(reader.last, reader.mark) THEN "rollback" ELSE "nothing"
    BY <1>3 DEF ReaderTells, BaseInv, StateOK, ReaderOK
  <2>2. PICK l \in Log : reader.mark # NoMark /\ reader.last[l] < reader.mark[l]
    BY <2>1 DEF Behind
  <2>3. LsKnows(l) /\ Passed(l)
    BY <1>1, <2>1, <2>2 DEF LsInv, LsKnows, Passed
  <2>4. reader.mark[l] \in Nat /\ reader.last[l] \in Nat
    BY <2>2 DEF BaseInv, StateOK, ReaderOK
  <2> QED
    BY <2>2, <2>3, <2>4 DEF LsKnows
<1>4. CASE ReaderBegins
  <2>1. PICK k, a : reader' = [NoReader EXCEPT !.kind = k, !.at = a]
    BY <1>4 DEF ReaderBegins
  <2> QED
    BY <2>1 DEF NoReader
<1>5. CASE ReaderReads
  <2>1. PICK m \in Log :
          \/ \E told \in {"failed", "nothing"} : reader' = [reader EXCEPT !.at = "none", !.told = told]
          \/ ReadTakes(m)
    BY <1>5, ReaderReadsIs
  <2>2. ReadTakes(m)
    BY <2>1 DEF BaseInv, StateOK, ReaderOK
  <2> QED
    BY <1>2, <2>2 DEF ReadTakes, BaseInv, StateOK, ReaderOK
<1>6. CASE ReaderStats \/ ReaderTakesMark
  BY <1>2, <1>6 DEF ReaderStats, ReaderTakesMark, BaseInv, StateOK, ReaderOK
<1>7. CASE PowerLoss
  BY <1>7 DEF PowerLoss, NoReader
<1>8. CASE reader' = reader
  BY <1>2, <1>8
<1> QED
  BY <1>3, <1>4, <1>5, <1>6, <1>7, <1>8
     DEF Next, vars, TakeLock, OpenRecFile, UseMark, WriteBatch, WriteEnds, SyncBatch, AfterAppend,
         Release, SaveVersion, Checkout, LoseStaging

--------------------------------------------------------------------------------
(* The holder is not refused *)

LEMMA RefusedNext ==
  ASSUME BaseInv, MarkInv, HolderNotRefused, [Next]_vars
  PROVE  HolderNotRefused'
<1> SUFFICES ASSUME checkouts' = 0, ~MarkMayLead', holder'.at = "refused"
             PROVE  FALSE
  BY DEF HolderNotRefused, At
<1>1. checkouts = 0 /\ ~MarkMayLead
  BY HistoryGrows DEF MarkMayLead, BaseInv
<1>2. holder.at # "refused"
  BY <1>1 DEF HolderNotRefused, At
<1>3. CASE UseMark
  <2>1. holder.at = "mark" /\ Behind(holder.last, mark)
    BY <1>3 DEF UseMark, At, BaseInv, StateOK, HolderOK
  <2>2. PICK l \in Log : mark # NoMark /\ holder.last[l] < mark[l]
    BY <2>1 DEF Behind
  <2>3. holder.last[l] = LastSeqOf(Replay(file[l])) /\ holder.last[l] \in Nat /\ mark[l] \in Nat
    BY <2>1, <2>2 DEF BaseInv, StateOK, HolderOK, HolderInv, Opened, InHand, Busy, At
  <2>4. mark[l] <= LastSeqOf(Replay(file[l]))
    BY <1>1, <2>2 DEF MarkInv
  <2> QED
    BY <2>2, <2>3, <2>4
<1>4. CASE OpenRecFile
  <2>1. PICK l \in Log : holder' = [holder EXCEPT !.at = IF l = "items" THEN "discs" ELSE "mark",
                                                  !.last[l] = LastSeqOf(Replay(file[l]))]
    BY <1>4, OpenIs
  <2> QED
    BY <2>1 DEF BaseInv, StateOK, HolderOK
<1>5. CASE TakeLock \/ Release \/ PowerLoss
  BY <1>5 DEF TakeLock, Release, PowerLoss, NoHolder
<1>6. CASE WriteBatch
  <2>1. PICK l \in Log, n \in 1 .. 2, part \in BOOLEAN, f \in File, g \in File :
          holder' = [holder EXCEPT !.at = "write", !.log = l, !.new = g]
    BY <1>6, WriteIs
  <2> QED
    BY <2>1 DEF BaseInv, StateOK, HolderOK
<1>7. CASE WriteEnds \/ SyncBatch \/ AfterAppend
  BY <1>7 DEF WriteEnds, SyncBatch, AfterAppend, BaseInv, StateOK, HolderOK
<1>8. CASE holder' = holder
  BY <1>2, <1>8
<1> QED
  BY <1>3, <1>4, <1>5, <1>6, <1>7, <1>8
     DEF Next, vars, ReaderBegins, ReaderStats, ReaderReads, ReaderTakesMark, ReaderTells,
         SaveVersion, Checkout, LoseStaging

--------------------------------------------------------------------------------
(* Versions of state/ *)

MarkFits ==
  IF mark = NoMark THEN \A l \in Log : acked[l] = << >>
  ELSE \A l \in Log : mark[l] = LastSeqOf(acked[l])

Early == holder.at \in {"none", "items", "discs", "mark", "refused"}

\* VersionInv in a history of nothing but checkouts.
VersionsFit ==
  /\ \A l \in Log : Whole(saved[l]) /\ (Whole(file[l]) \/ (At("write") /\ l = holder.log))
  /\ FileIsNewest \/ SavedIsNewest
  /\ At("after") \/ MarkFits
  /\ mark = NoMark => Early

\* The second form of the invariant.
LEMMA VersionIs == VersionInv <=> (struck \subseteq {"checkout"} => VersionsFit)
  BY DEF VersionInv, VersionsFit, MarkFits, Early

LEMMA LastIsMark ==
  ASSUME NEW last \in [Log -> Nat]
  PROVE  last # NoMark
<1>1. DOMAIN last # {}
  BY DEF Log
<1>2. << >> \in Seq(Nat) /\ Len(<< >>) = 0 /\ DOMAIN << >> = 1 .. 0
  BY EmptySeq, LenProperties
<1> QED
  BY <1>1, <1>2 DEF NoMark

LEMMA WholeIs ==
  ASSUME StateOK, NEW l \in Log
  PROVE  /\ Whole(saved[l]) => Replay(saved[l]) = saved[l].recs
         /\ Whole(file[l]) => Replay(file[l]) = file[l].recs
  BY DEF Whole

\* A step of the holder that keeps what it has in hand.
LEMMA VersionsKept ==
  ASSUME BaseInv, VersionsFit, OpenRecFile \/ TakeLock \/ Release,
         struck' \subseteq {"checkout"}
  PROVE  VersionsFit'
<1>1. /\ \A l \in Log : Replay(file'[l]) = Replay(file[l]) /\ (Whole(file[l]) => Whole(file'[l]))
      /\ saved' = saved /\ acked' = acked /\ mark' = mark /\ checkouts' = checkouts
      /\ holder.at \in {"none", "items", "discs", "ready", "refused"}
      /\ holder'.at \in {"none", "items", "discs", "mark"}
  <2>1. CASE OpenRecFile
    <3>1. PICK l \in Log : holder' = [holder EXCEPT !.at = IF l = "items" THEN "discs" ELSE "mark",
                                                    !.last[l] = LastSeqOf(Replay(file[l]))]
      BY <2>1, OpenIs
    <3>2. holder'.at \in {"discs", "mark"} /\ holder.at \in Log
      BY <2>1, <3>1 DEF OpenRecFile, At, BaseInv, StateOK, HolderOK
    <3> QED
      BY <2>1, <3>2, OpenIs DEF OpenRecFile, Log
  <2>2. CASE TakeLock
    BY <2>2 DEF TakeLock, At, NoHolder
  <2>3. CASE Release
    BY <2>3 DEF Release, At, NoHolder
  <2> QED
    BY <2>1, <2>2, <2>3
<1>2. ~At("write") /\ ~At("write")' /\ ~At("after") /\ \A l \in Log : ~InHand(l) /\ ~InHand(l)'
  BY <1>1 DEF At, InHand, Busy
<1>3. \A l \in Log : Whole(saved'[l]) /\ Whole(file'[l])
  BY <1>1, <1>2 DEF VersionsFit
<1>4. FileIsNewest => FileIsNewest'
  BY <1>1, <1>2 DEF FileIsNewest
<1>5. SavedIsNewest => SavedIsNewest'
  BY <1>1 DEF SavedIsNewest
<1>6. MarkFits'
  BY <1>1, <1>2 DEF VersionsFit, MarkFits
<1>7. Early'
  BY <1>1 DEF Early
<1> QED
  BY <1>3, <1>4, <1>5, <1>6, <1>7 DEF VersionsFit

\* The mark refuses the older version.
LEMMA VersionsUseMark ==
  ASSUME BaseInv, VersionsFit, UseMark
  PROVE  VersionsFit'
<1>1. /\ file' = file /\ saved' = saved /\ acked' = acked /\ checkouts' = checkouts
      /\ holder.at = "mark" /\ ~At("after") /\ ~At("write")
  BY DEF UseMark, At
<1>2. \A l \in Log : /\ Whole(saved[l]) /\ Whole(file[l])
                     /\ holder.last[l] = LastSeqOf(Replay(file[l])) /\ holder.last[l] \in Nat
  BY <1>1 DEF VersionsFit, BaseInv, StateOK, HolderOK, HolderInv, Opened, At, InHand, Busy
<1>3. MarkFits
  BY <1>1 DEF VersionsFit
<1>4. CASE Behind(holder.last, mark)
  <2>1. mark' = mark /\ holder'.at = "refused"
    BY <1>4 DEF UseMark, BaseInv, StateOK, HolderOK
  <2>2. FileIsNewest => FileIsNewest'
    BY <1>1, <2>1 DEF FileIsNewest, InHand, Busy
  <2>3. SavedIsNewest => SavedIsNewest'
    BY <1>1, <2>1 DEF SavedIsNewest
  <2>4. MarkFits' /\ Early'
    BY <1>1, <1>3, <2>1 DEF MarkFits, Early
  <2> QED
    BY <1>1, <1>2, <2>2, <2>3, <2>4 DEF VersionsFit
<1>5. CASE ~Behind(holder.last, mark)
  <2>1. mark' = holder.last /\ holder'.at = "ready"
    BY <1>5 DEF UseMark, BaseInv, StateOK, HolderOK
  <2>2. CASE FileIsNewest
    <3>1. FileIsNewest' /\ \A l \in Log : acked[l] = Replay(file[l])
      BY <1>1, <2>1, <2>2 DEF FileIsNewest, InHand, Busy
    <3> QED
      BY <1>1, <1>2, <2>1, <3>1, LastIsMark DEF VersionsFit, MarkFits, Early, BaseInv, StateOK, HolderOK
  <2>3. CASE SavedIsNewest
    <3>1. ASSUME NEW l \in Log
          PROVE  Replay(file[l]) = saved[l].recs
      <4>1. /\ Replay(file[l]) \in Seq(Record) /\ saved[l].recs \in Seq(Record)
            /\ Growing(saved[l].recs) /\ Begins(Replay(file[l]), saved[l].recs)
            /\ acked[l] = saved[l].recs
        <5>1. Replay(saved[l]) = saved[l].recs
          BY <1>2, WholeIs DEF BaseInv
        <5> QED
          BY <2>3, <5>1, ReplayTyped DEF SavedIsNewest, BaseInv, FilesInv
      <4>2. CASE mark = NoMark
        <5>1. saved[l].recs = << >>
          BY <1>3, <4>1, <4>2 DEF MarkFits
        <5> QED
          BY <4>1, <5>1, BeginsEmpty
      <4>3. CASE mark # NoMark
        <5>1. mark[l] = LastSeqOf(saved[l].recs) /\ mark[l] \in Nat
          BY <1>3, <4>1, <4>3 DEF MarkFits, BaseInv, StateOK
        <5>2. ~(holder.last[l] < mark[l])
          BY <1>5, <4>3 DEF Behind
        <5>3. LastSeqOf(saved[l].recs) <= LastSeqOf(Replay(file[l]))
          BY <1>2, <5>1, <5>2
        <5> QED
          BY <4>1, <5>3, LastSeqSame
      <4> QED
        BY <4>2, <4>3
    <3>2. \A l \in Log : acked[l] = Replay(file[l]) /\ saved[l].recs = Replay(file[l])
      BY <2>3, <3>1 DEF SavedIsNewest
    <3>3. \A l \in Log : Begins(Replay(file[l]), Replay(file[l]))
      BY ReplayTyped, BeginsSelf DEF BaseInv
    <3>4. FileIsNewest'
      BY <1>1, <3>2, <3>3 DEF FileIsNewest
    <3> QED
      BY <1>1, <1>2, <2>1, <3>2, <3>4, LastIsMark
         DEF VersionsFit, MarkFits, BaseInv, StateOK, HolderOK
  <2> QED
    BY <2>2, <2>3 DEF VersionsFit
<1> QED
  BY <1>4, <1>5

\* An append goes on from the newest version.
LEMMA VersionsWrite ==
  ASSUME BaseInv, VersionsFit, WriteBatch \/ WriteEnds
  PROVE  VersionsFit'
<1>1. /\ saved' = saved /\ acked' = acked /\ mark' = mark /\ checkouts' = checkouts
      /\ holder.at \in {"ready", "write"}
  BY DEF WriteBatch, WriteEnds, At
<1>2. FileIsNewest /\ MarkFits /\ mark # NoMark
  BY <1>1 DEF VersionsFit, SavedIsNewest, At, Early
<1>3. PICK l \in Log : /\ holder'.at \in Busy /\ holder'.log = l
                       /\ \A m \in Log : m # l => file'[m] = file[m] /\ Whole(file[m]) /\ ~InHand(m)
                       /\ holder'.at = "write" \/ Whole(file'[l])
  <2>1. CASE WriteBatch
    <3>1. PICK l \in Log, n \in 1 .. 2, part \in BOOLEAN, f \in File, g \in File :
            /\ holder.at = "ready" /\ file' = [file EXCEPT ![l] = f]
            /\ holder' = [holder EXCEPT !.at = "write", !.log = l, !.new = g]
      BY <2>1, WriteIs
    <3>2. holder'.at = "write" /\ holder'.log = l
      BY <3>1 DEF BaseInv, StateOK, HolderOK
    <3>3. \A m \in Log : m # l => file'[m] = file[m]
      BY <3>1 DEF BaseInv, StateOK
    <3>4. \A m \in Log : Whole(file[m]) /\ ~InHand(m)
      BY <3>1 DEF VersionsFit, At, InHand, Busy
    <3> QED
      BY <3>2, <3>3, <3>4 DEF Busy
  <2>2. CASE WriteEnds
    <3>1. /\ holder.at = "write" /\ file' = [file EXCEPT ![holder.log] = holder.new]
          /\ Whole(holder.new) /\ holder.log \in Log
      BY <2>2 DEF WriteEnds, BaseInv, HolderInv, StateOK, HolderOK, At
    <3>2. holder'.at = "sync" /\ holder'.log = holder.log
      BY <2>2 DEF WriteEnds, BaseInv, StateOK, HolderOK
    <3>3. \A m \in Log : file'[m] = IF m = holder.log THEN holder.new ELSE file[m]
      BY <3>1 DEF BaseInv, StateOK
    <3>4. \A m \in Log : m # holder.log => Whole(file[m]) /\ ~InHand(m)
      BY DEF VersionsFit, InHand
    <3> QED
      BY <3>1, <3>2, <3>3, <3>4 DEF Busy
  <2> QED
    BY <2>1, <2>2
<1>4. ~PowerLoss /\ ~Checkout /\ [Next]_vars
  BY <1>1, <1>3 DEF PowerLoss, Checkout, Idle, At, Next, Busy, NoHolder
<1>5. BaseInv'
  BY <1>4, BaseNext
<1>6. ASSUME NEW m \in Log
      PROVE  Begins(saved[m].recs, Replay(file'[m])) /\ Begins(acked[m], Replay(file'[m]))
  <2>1. Begins(Replay(file[m]), Replay(file'[m]))
    BY <1>4, FilesGrow
  <2>2. /\ saved[m].recs \in Seq(Record) /\ acked[m] \in Seq(Record)
        /\ Replay(file[m]) \in Seq(Record) /\ Replay(file'[m]) \in Seq(Record)
    BY <1>5, ReplayTyped, ReplayIs DEF BaseInv, StateOK, File
  <2>3. Begins(saved[m].recs, Replay(file[m])) /\ Begins(acked[m], Replay(file[m]))
    BY <1>2 DEF FileIsNewest
  <2> QED
    BY <2>1, <2>2, <2>3, BeginsAfter
<1>7. \A m \in Log : InHand(m)' \/ acked[m] = Replay(file'[m])
  BY <1>2, <1>3 DEF FileIsNewest, InHand
<1>8. FileIsNewest'
  BY <1>1, <1>6, <1>7 DEF FileIsNewest
<1>9. \A m \in Log : Whole(saved'[m]) /\ (Whole(file'[m]) \/ (At("write")' /\ m = holder'.log))
  BY <1>1, <1>3 DEF VersionsFit, At
<1> QED
  BY <1>1, <1>2, <1>8, <1>9 DEF VersionsFit, MarkFits

LEMMA VersionsSync ==
  ASSUME BaseInv, VersionsFit, SyncBatch
  PROVE  VersionsFit'
<1>1. PICK l \in Log : l = holder.log
  BY DEF BaseInv, StateOK, HolderOK
<1>2. /\ saved' = saved /\ file' = file /\ mark' = mark /\ holder.at = "sync"
      /\ acked' = [acked EXCEPT ![l] = Replay(file[l])]
      /\ holder'.at = "after"
  BY <1>1 DEF SyncBatch, At, BaseInv, StateOK, HolderOK
<1>3. FileIsNewest /\ mark # NoMark
  BY <1>2 DEF VersionsFit, SavedIsNewest, Early
<1>4. \A m \in Log : acked'[m] = Replay(file[m])
  BY <1>1, <1>2, <1>3 DEF FileIsNewest, InHand, BaseInv, StateOK
<1>5. \A m \in Log : Begins(Replay(file[m]), Replay(file[m]))
  BY ReplayTyped, BeginsSelf DEF BaseInv
<1>6. FileIsNewest'
  BY <1>2, <1>3, <1>4, <1>5 DEF FileIsNewest
<1> QED
  BY <1>2, <1>3, <1>6 DEF VersionsFit, At

LEMMA VersionsAfter ==
  ASSUME BaseInv, VersionsFit, AfterAppend, struck' \subseteq {"checkout"}
  PROVE  VersionsFit'
<1>1. /\ saved' = saved /\ file' = file /\ acked' = acked /\ mark' = holder.last
      /\ holder.at = "after" /\ holder'.at = "ready"
  BY DEF AfterAppend, At, BaseInv, StateOK, HolderOK
<1>2. FileIsNewest /\ \A l \in Log : acked[l] = Replay(file[l])
  BY <1>1 DEF VersionsFit, SavedIsNewest, FileIsNewest, InHand, Busy
<1>3. FileIsNewest'
  BY <1>1, <1>2 DEF FileIsNewest
<1>4. holder.last \in [Log -> Nat] /\ \A l \in Log : holder.last[l] = LastSeqOf(Replay(file[l]))
  BY <1>1 DEF BaseInv, StateOK, HolderOK, HolderInv, Opened, InHand, Busy, At
<1>5. MarkFits' /\ mark' # NoMark
  BY <1>1, <1>2, <1>4, LastIsMark DEF MarkFits
<1> QED
  BY <1>1, <1>3, <1>5 DEF VersionsFit, At

\* The saved version and the present one change places.
LEMMA VersionsOutside ==
  ASSUME BaseInv, VersionsFit, SaveVersion \/ Checkout
  PROVE  VersionsFit'
<1>1. /\ acked' = acked /\ mark' = mark /\ holder' = holder /\ holder.at = "none" /\ saved' = file
  BY DEF SaveVersion, Checkout, Idle, At
<1>2. /\ \A l \in Log : /\ Whole(saved[l]) /\ Whole(file[l]) /\ ~InHand(l)
                        /\ Replay(saved[l]) = saved[l].recs /\ Replay(file[l]) = file[l].recs
      /\ MarkFits
  BY <1>1 DEF VersionsFit, InHand, Busy, At, Whole
<1>3. \A l \in Log : /\ Begins(file[l].recs, file[l].recs)
                     /\ Begins(saved[l].recs, saved[l].recs)
  BY BeginsSelf DEF BaseInv, StateOK, File
<1>4. MarkFits' /\ Early' /\ ~At("write")'
  BY <1>1, <1>2 DEF MarkFits, Early, At
<1>5. CASE SaveVersion
  <2>1. file' = file /\ FileIsNewest
    BY <1>5 DEF SaveVersion, VersionsFit, SavedIsNewest
  <2>2. FileIsNewest'
    BY <1>1, <1>2, <1>3, <2>1 DEF FileIsNewest
  <2> QED
    BY <1>1, <1>2, <1>4, <2>1, <2>2 DEF VersionsFit
<1>6. CASE Checkout
  <2>1. file' = saved /\ checkouts' > 0
    BY <1>6 DEF Checkout, BaseInv, StateOK
  <2>2. FileIsNewest => SavedIsNewest'
    BY <1>1, <1>2, <2>1 DEF FileIsNewest, SavedIsNewest
  <2>3. SavedIsNewest => FileIsNewest'
    BY <1>1, <1>2, <1>3, <2>1 DEF FileIsNewest, SavedIsNewest
  <2> QED
    BY <1>1, <1>2, <1>4, <2>1, <2>2, <2>3 DEF VersionsFit
<1> QED
  BY <1>5, <1>6

LEMMA VersionNext ==
  ASSUME BaseInv, VersionInv, [Next]_vars
  PROVE  VersionInv'
<1> SUFFICES ASSUME struck' \subseteq {"checkout"}
             PROVE  VersionsFit'
  BY DEF VersionInv, VersionsFit, MarkFits, Early
<1>1. VersionsFit
  BY HistoryGrows, VersionIs DEF BaseInv
<1>2. CASE PowerLoss \/ LoseStaging
  BY <1>2 DEF PowerLoss, LoseStaging
<1>3. CASE /\ file' = file /\ saved' = saved /\ acked' = acked /\ mark' = mark
           /\ holder' = holder /\ checkouts' = checkouts
  <2>1. /\ FileIsNewest' <=> FileIsNewest
        /\ SavedIsNewest' <=> SavedIsNewest
        /\ MarkFits' <=> MarkFits
        /\ Early' <=> Early
    BY <1>3 DEF FileIsNewest, SavedIsNewest, MarkFits, Early, InHand
  <2> QED
    BY <1>1, <1>3, <2>1 DEF VersionsFit, At
<1>4. CASE UNCHANGED vars
  BY <1>3, <1>4 DEF vars
<1>5. CASE ReaderBegins \/ ReaderStats \/ ReaderReads \/ ReaderTakesMark \/ ReaderTells
  <2>1. /\ file' = file /\ saved' = saved /\ acked' = acked /\ mark' = mark
        /\ holder' = holder /\ checkouts' = checkouts
    BY <1>5 DEF ReaderBegins, ReaderStats, ReaderReads, ReaderTakesMark, ReaderTells
  <2> QED
    BY <1>3, <2>1
<1> QED
  BY <1>1, <1>2, <1>4, <1>5, VersionsKept, VersionsUseMark, VersionsWrite, VersionsSync,
     VersionsAfter, VersionsOutside DEF Next

--------------------------------------------------------------------------------
(* The properties *)

HistoryInv == AckInv /\ MarkInv /\ VersionInv

LEMMA HistoryInit == Init => HistoryInv /\ HolderNotRefused
<1> SUFFICES ASSUME Init PROVE HistoryInv /\ HolderNotRefused
  OBVIOUS
<1>1. << >> \in Seq(Record) /\ Len(<< >>) = 0
  BY EmptySeq
<1>2. /\ holder.at = "none" /\ mark = NoMark /\ checkouts = 0
      /\ \A l \in Log : /\ file[l] = EmptyFile /\ disk[l] = EmptyFile /\ saved[l] = EmptyFile
                        /\ acked[l] = << >>
  BY DEF Init, NoHolder
<1>3. EmptyFile.recs = << >> /\ ~EmptyFile.part /\ Replay(EmptyFile) = << >>
  BY DEF EmptyFile, Replay
<1>4. Begins(<< >>, << >>) /\ Whole(EmptyFile)
  BY <1>1, <1>3, BeginsEmpty DEF Whole
<1>5. AckInv /\ MarkInv
  BY <1>2, <1>3, <1>4 DEF AckInv, MarkInv
<1>6. FileIsNewest
  BY <1>2, <1>3, <1>4 DEF FileIsNewest
<1>7. VersionInv
  BY <1>2, <1>4, <1>6 DEF VersionInv
<1>8. HolderNotRefused
  BY <1>2 DEF HolderNotRefused, At
<1> QED
  BY <1>5, <1>7, <1>8 DEF HistoryInv

LEMMA HistoryNext ==
  ASSUME BaseInv, HistoryInv, [Next]_vars
  PROVE  HistoryInv'
  BY AckNext, MarkNext, VersionNext DEF HistoryInv

LEMMA HistoryIsInvariant == Spec => [](BaseInv /\ HistoryInv)
<1>1. Init => BaseInv /\ HistoryInv
  BY BaseInit, HistoryInit
<1>2. BaseInv /\ HistoryInv /\ [Next]_vars => BaseInv' /\ HistoryInv'
  BY BaseNext, HistoryNext
<1> QED
  BY <1>1, <1>2, PTL DEF Spec

LEMMA KeptByHistory ==
  ASSUME BaseInv, HistoryInv
  PROVE  AckedKept
<1> SUFFICES ASSUME holder.at \in {"ready", "write", "sync", "after"},
                    checkouts = 0 \/ struck = {"checkout"}, NEW l \in Log
             PROVE  IsPrefix(acked[l], Replay(file[l]))
  BY DEF AckedKept
<1>1. /\ acked[l] \in Seq(Record) /\ Replay(disk[l]) \in Seq(Record)
      /\ Replay(file[l]) \in Seq(Record)
  BY ReplayTyped DEF BaseInv
<1>2. CASE checkouts = 0
  <2>1. Begins(acked[l], Replay(disk[l])) /\ Begins(Replay(disk[l]), Replay(file[l]))
    BY <1>2 DEF HistoryInv, AckInv, BaseInv, FilesInv
  <2> QED
    BY <1>1, <2>1, BeginsAfter, PrefixIsBegins
<1>3. CASE struck = {"checkout"}
  <2>1. FileIsNewest
    BY <1>3 DEF HistoryInv, VersionInv, SavedIsNewest
  <2> QED
    BY <1>1, <2>1, PrefixIsBegins DEF FileIsNewest
<1> QED
  BY <1>2, <1>3

\* A command with the lock works on logs with every record that an append
\* acknowledged, whatever stops before, and the mark refuses a version that
\* somebody put back as long as nothing else happened.
THEOREM AckedIsKept == Spec => []AckedKept
<1>1. BaseInv /\ HistoryInv => AckedKept
  BY KeptByHistory
<1> QED
  BY <1>1, HistoryIsInvariant, PTL

\* No stop, no failed write and no power loss makes a later open of the logs
\* fail, neither as damaged nor by the mark.
THEOREM HolderIsNotRefused == Spec => []HolderNotRefused
<1>1. Init => HolderNotRefused
  BY HistoryInit
<1>2. BaseInv /\ HistoryInv /\ HolderNotRefused /\ [Next]_vars => HolderNotRefused'
  BY RefusedNext DEF HistoryInv
<1> QED
  BY <1>1, <1>2, HistoryIsInvariant, PTL DEF Spec

\* A command without the lock shows a state that each log went through.
THEOREM ReadersSeePrefixes == Spec => []ReaderSeesPrefix
<1>1. Init => ReaderInv
  BY DEF Init, NoReader, ReaderInv
<1>2. BaseInv /\ ReaderInv /\ [Next]_vars => ReaderInv'
  BY ReaderNext
<1>3. BaseInv /\ ReaderInv => ReaderSeesPrefix
  <2> SUFFICES ASSUME BaseInv, ReaderInv, reader.at = "end", NEW l \in Log
               PROVE  IsPrefix(reader.seen[l], Replay(file[l]))
    BY DEF ReaderSeesPrefix
  <2>1. reader.seen[l] \in Seq(Record) /\ Replay(file[l]) \in Seq(Record)
    BY ReplayTyped DEF BaseInv, StateOK, ReaderOK
  <2>2. Begins(reader.seen[l], Replay(file[l]))
    BY DEF ReaderInv
  <2> QED
    BY <2>1, <2>2, PrefixIsBegins
<1> QED
  BY <1>1, <1>2, <1>3, RecordFilesReplay, PTL DEF Spec

\* A warning of ls or restore that state/ went back is true: the mark that it
\* read before the logs is not above what they end with.
THEOREM WarningsAreTrue == Spec => []LsWarningTrue
<1>1. Init => LsInv /\ LsWarningTrue
  BY DEF Init, NoReader, LsInv, LsWarningTrue
<1>2. BaseInv /\ HistoryInv /\ LsInv /\ LsWarningTrue /\ [Next]_vars => LsInv' /\ LsWarningTrue'
  BY LsNext, WarningNext DEF HistoryInv
<1> QED
  BY <1>1, <1>2, HistoryIsInvariant, PTL DEF Spec

--------------------------------------------------------------------------------
(* The files implement the append-only logs of AppendLog *)

Logs == [l \in Log |-> Replay(file[l])]
Kept == [l \in Log |-> IF checkouts = 0 THEN Len(acked[l]) ELSE 0]

LEMMA LogsAre ==
  ASSUME StateOK
  PROVE  /\ Logs \in [Log -> Seq(Record)]
         /\ \A l \in Log : Logs[l] = Replay(file[l]) /\ Len(Logs[l]) \in Nat
         /\ \A l \in Log : Kept[l] = IF checkouts = 0 THEN Len(acked[l]) ELSE 0
<1>1. \A l \in Log : Replay(file[l]) \in Seq(Record) /\ Len(Replay(file[l])) \in Nat
  BY ReplayTyped, LenProperties
<1> QED
  BY <1>1 DEF Logs, Kept

LEMMA PromiseInit == Init => Promise!Init
<1> SUFFICES ASSUME Init PROVE Promise!Init
  OBVIOUS
<1>1. << >> \in Seq(Record) /\ Len(<< >>) = 0
  BY EmptySeq
<1>2. checkouts = 0 /\ \A l \in Log : Replay(file[l]) = << >> /\ Len(acked[l]) = 0
  BY <1>1 DEF Init, EmptyFile, Replay
<1> QED
  BY <1>2 DEF Promise!Init

\* A log that grows by a write, and the other one that stays.
LEMMA PromiseExtend ==
  ASSUME BaseInv, BaseInv', NEW l \in Log, NEW f \in File, file' = [file EXCEPT ![l] = f],
         Begins(Replay(file[l]), Replay(f)), checkouts' = checkouts, acked' = acked
  PROVE  Promise!Extend \/ (Logs' = Logs /\ Kept' = Kept)
<1>1. /\ Kept' = Kept
      /\ \A m \in Log : file'[m] = IF m = l THEN f ELSE file[m]
  BY DEF Kept, BaseInv, StateOK
<1>2. /\ Logs' = [Logs EXCEPT ![l] = Replay(f)]
      /\ Logs[l] = Replay(file[l]) /\ Logs'[l] = Replay(f)
  <2>1. Logs' = [m \in Log |-> IF m = l THEN Replay(f) ELSE Replay(file[m])]
    BY <1>1 DEF Logs
  <2>2. [Logs EXCEPT ![l] = Replay(f)] = [m \in Log |-> IF m = l THEN Replay(f) ELSE Replay(file[m])]
    BY DEF Logs
  <2> QED
    BY <2>1, <2>2 DEF Logs
<1>3. /\ Replay(file[l]) \in Seq(Record) /\ Replay(f) \in Seq(Record)
      /\ Len(Replay(f)) \in Nat /\ DOMAIN Replay(f) = 1 .. Len(Replay(f))
  BY ReplayTyped, ReplayIs, LenProperties DEF BaseInv
<1>4. CASE Replay(f) = Replay(file[l])
  <2>1. Logs' = Logs
    BY <1>1, <1>4 DEF Logs
  <2> QED
    BY <1>1, <2>1
<1>5. CASE Replay(f) # Replay(file[l])
  <2>1. /\ Len(Replay(file[l])) <= Len(Replay(f))
        /\ SubSeq(Replay(f), 1, Len(Replay(file[l]))) = Replay(file[l])
    <3>1. IsPrefix(Replay(file[l]), Replay(f)) /\ SubSeq(Replay(file[l]), 1, Len(Replay(file[l]))) = Replay(file[l])
      BY <1>3, PrefixIsBegins, SubSeqFull
    <3> QED
      BY <3>1 DEF IsPrefix
  <2>2. \A i \in DOMAIN Replay(f) : Replay(f)[i] \in Record
    BY <1>3, ElementOfSeq
  <2>3. /\ Logs'[l] # Logs[l]
        /\ Len(Logs[l]) <= Len(Logs'[l]) /\ SubSeq(Logs'[l], 1, Len(Logs[l])) = Logs[l]
        /\ \A i \in DOMAIN Logs'[l] : Logs'[l][i] \in Record
        /\ Logs' = [Logs EXCEPT ![l] = Logs'[l]]
        /\ Kept' = Kept
    BY <1>1, <1>2, <1>5, <2>1, <2>2
  <2> QED
    BY <2>3 DEF Promise!Extend, Logs, Kept
<1> QED
  BY <1>4, <1>5

LEMMA PromiseSync ==
  ASSUME BaseInv, SyncBatch
  PROVE  Promise!Acknowledge \/ (Logs' = Logs /\ Kept' = Kept)
<1>1. PICK l \in Log : l = holder.log
  BY DEF BaseInv, StateOK, HolderOK
<1>2. /\ file' = file /\ checkouts' = checkouts
      /\ acked' = [acked EXCEPT ![l] = Replay(file[l])]
  BY <1>1 DEF SyncBatch
<1>3. Logs' = Logs /\ Logs[l] = Replay(file[l])
  BY <1>2 DEF Logs
<1>4. CASE checkouts = 0
  <2>1. \A m \in Log : acked'[m] = IF m = l THEN Replay(file[l]) ELSE acked[m]
    BY <1>2 DEF BaseInv, StateOK
  <2>2. Kept' = [m \in Log |-> IF m = l THEN Len(Replay(file[l])) ELSE Len(acked[m])]
    BY <1>2, <1>4, <2>1 DEF Kept
  <2>3. [Kept EXCEPT ![l] = Len(Replay(file[l]))]
          = [m \in Log |-> IF m = l THEN Len(Replay(file[l])) ELSE Len(acked[m])]
    BY <1>4 DEF Kept
  <2>4. Kept' = [Kept EXCEPT ![l] = Len(Logs[l])]
    BY <1>3, <2>2, <2>3
  <2> QED
    BY <1>3, <2>4 DEF Promise!Acknowledge, Logs, Kept
<1>5. CASE checkouts # 0
  <2>1. Kept' = Kept
    BY <1>2, <1>5 DEF Kept
  <2> QED
    BY <1>3, <2>1
<1> QED
  BY <1>4, <1>5

LEMMA PromisePowerLoss ==
  ASSUME BaseInv, AckInv, PowerLoss
  PROVE  Promise!Lose
<1> DEFINE k == [l \in Log |-> Len(Replay(file'[l]))]
<1>1. /\ file' = disk' /\ file' \in [Log -> File] /\ acked' = acked /\ checkouts' = checkouts
  BY PowerLossIs DEF PowerLoss
<1>2. ASSUME NEW l \in Log
      PROVE  /\ k[l] \in Kept[l] .. Len(Logs[l])
             /\ k[l] \in 0 .. Len(Logs[l])
             /\ Replay(file'[l]) = SubSeq(Logs[l], 1, k[l])
  <2>1. /\ Replay(file'[l]) \in Seq(Record) /\ Len(Replay(file'[l])) \in Nat
        /\ Replay(file[l]) \in Seq(Record) /\ Len(Replay(file[l])) \in Nat
        /\ Len(Replay(disk[l])) \in Nat /\ Len(acked[l]) \in Nat
    BY <1>1, ReplayIs, ReplayTyped, LenProperties DEF BaseInv
  <2>2. /\ Begins(Replay(disk[l]), Replay(file'[l]))
        /\ Begins(Replay(file'[l]), Replay(file[l]))
    BY PowerLossIs
  <2>3. Logs[l] = Replay(file[l]) /\ Kept[l] = IF checkouts = 0 THEN Len(acked[l]) ELSE 0
    BY LogsAre DEF BaseInv
  <2>4. checkouts = 0 => Len(acked[l]) <= Len(Replay(disk[l]))
    BY DEF AckInv, Begins
  <2>5. /\ Len(Replay(disk[l])) <= Len(Replay(file'[l]))
        /\ Len(Replay(file'[l])) <= Len(Replay(file[l]))
    BY <2>2 DEF Begins
  <2>6. Replay(file'[l]) = SubSeq(Replay(file[l]), 1, Len(Replay(file'[l])))
    <3>1. IsPrefix(Replay(file'[l]), Replay(file[l]))
      BY <2>1, <2>2, PrefixIsBegins
    <3>2. SubSeq(Replay(file'[l]), 1, Len(Replay(file'[l]))) = Replay(file'[l])
      BY <2>1, SubSeqFull
    <3> QED
      BY <3>1, <3>2 DEF IsPrefix
  <2> QED
    BY <2>1, <2>3, <2>4, <2>5, <2>6
<1>3. k \in [Log -> UNION {0 .. Len(Logs[l]) : l \in Log}]
  BY <1>2
<1>4. Logs' = [l \in Log |-> SubSeq(Logs[l], 1, k[l])]
  BY <1>2 DEF Logs
<1>5. Kept' = Kept
  BY <1>1 DEF Kept
<1> HIDE DEF k
<1> QED
  BY <1>2, <1>3, <1>4, <1>5 DEF Promise!Lose, Logs, Kept

LEMMA PromiseCheckout ==
  ASSUME BaseInv, Checkout
  PROVE  Promise!Replace
<1>1. BaseInv'
  BY CheckoutBase
<1>2. Logs' \in [Log -> Seq(Record)]
  BY <1>1, ReplayIs DEF Logs, BaseInv, StateOK
<1>3. checkouts' # 0
  BY DEF Checkout, BaseInv, StateOK
<1>4. Kept' = [l \in Log |-> 0]
  BY <1>3 DEF Kept
<1> QED
  BY <1>2, <1>4 DEF Promise!Replace, Logs, Kept

LEMMA PromiseNext ==
  ASSUME BaseInv, AckInv, [Next]_vars
  PROVE  Promise!Next \/ (Logs' = Logs /\ Kept' = Kept)
<1>1. BaseInv'
  BY BaseNext
<1>2. CASE OpenRecFile
  <2>1. (\A l \in Log : Replay(file'[l]) = Replay(file[l])) /\ acked' = acked /\ checkouts' = checkouts
    BY <1>2, OpenIs DEF OpenRecFile
  <2> QED
    BY <2>1 DEF Logs, Kept
<1>3. CASE WriteBatch
  <2>1. PICK l \in Log, n \in 1 .. 2, part \in BOOLEAN, f \in File, g \in File :
          file' = [file EXCEPT ![l] = f] /\ Begins(Replay(file[l]), Replay(f))
    BY <1>3, WriteIs
  <2>2. acked' = acked /\ checkouts' = checkouts
    BY <1>3 DEF WriteBatch
  <2> QED
    BY <1>1, <2>1, <2>2, PromiseExtend DEF Promise!Next
<1>4. CASE WriteEnds
  <2>1. PICK l \in Log, f \in File : l = holder.log /\ f = holder.new
    BY <1>4 DEF BaseInv, StateOK, HolderOK, HolderInv, WriteEnds, At
  <2>2. /\ file' = [file EXCEPT ![l] = f] /\ Begins(Replay(file[l]), Replay(f))
        /\ acked' = acked /\ checkouts' = checkouts
    BY <1>4, <2>1 DEF WriteEnds, BaseInv, HolderInv, Whole
  <2> QED
    BY <1>1, <2>1, <2>2, PromiseExtend DEF Promise!Next
<1>5. CASE SyncBatch
  BY <1>5, PromiseSync DEF Promise!Next
<1>6. CASE PowerLoss
  BY <1>6, PromisePowerLoss DEF Promise!Next
<1>7. CASE Checkout
  BY <1>7, PromiseCheckout DEF Promise!Next
<1>8. CASE file' = file /\ acked' = acked /\ checkouts' = checkouts
  BY <1>8 DEF Logs, Kept
<1> QED
  BY <1>2, <1>3, <1>4, <1>5, <1>6, <1>7, <1>8
     DEF Next, vars, TakeLock, UseMark, AfterAppend, Release, ReaderBegins, ReaderStats,
         ReaderReads, ReaderTakesMark, ReaderTells, SaveVersion, LoseStaging

\* The record files with their torn tails, cuts and lost writes are append-only
\* logs of which nothing that an append acknowledged goes away.
THEOREM LogsImplementAppendLog == Spec => ImplementsAppendLog
<1>1. Init => Promise!Init
  BY PromiseInit
<1>2. BaseInv /\ AckInv /\ [Next]_vars
        => [Promise!Next]_<<[l \in Log |-> Replay(file[l])],
                            [l \in Log |-> IF checkouts = 0 THEN Len(acked[l]) ELSE 0]>>
  BY PromiseNext DEF Logs, Kept
<1>3. Spec => [](BaseInv /\ AckInv)
  <2>1. BaseInv /\ HistoryInv => BaseInv /\ AckInv
    BY DEF HistoryInv
  <2> QED
    BY <2>1, HistoryIsInvariant, PTL
<1> QED
  BY <1>1, <1>2, <1>3, PTL DEF Spec, ImplementsAppendLog, Promise!Spec

================================================================================
