------------------------------- MODULE RecordLog -------------------------------
(* The record files of the two state logs (internal/stage/recfile.go), the    *)
(* sequence mark (mark.go) and the commands that open them: one holder of the *)
(* repository lock and one command without the lock at a time.                *)
EXTENDS Integers, SequencesExt, FiniteSetsExt

CONSTANTS
  MaxRecords,     \* bound: records that the commands write
  MaxCheckouts,   \* bound: checkouts of another version of state/
  Faults,         \* what may happen: a subset of AllFaults
  Readers         \* the commands without the lock: a subset of AllReaders

AllFaults == {"kill", "power", "error", "staging"}
AllReaders == {"status", "ls"}

ASSUME BoundAssumption == MaxRecords \in Nat /\ MaxCheckouts \in Nat
ASSUME KindAssumption == Faults \subseteq AllFaults /\ Readers \subseteq AllReaders

VARIABLES
  file,      \* what a command reads: the records and whether a part of one follows
  disk,      \* what a power loss leaves at least
  mark,      \* the sequence mark, or NoMark
  holder,    \* the command that holds the lock
  reader,    \* a command that takes no lock
  written,   \* number of records written: each record is another one
  saved,     \* the version of state/ that a checkout brings
  checkouts, \* number of checkouts
  struck,    \* history: the faults that happened
  acked      \* history: the records whose append returned no error

vars == <<file, disk, mark, holder, reader, written, saved, checkouts, struck, acked>>

Log == {"items", "discs"}
NoMark == << >>
Bad == [seq |-> 0, id |-> 0]        \* a whole record whose CRC is wrong
Record == [seq : Nat \ {0}, id : Nat \ {0}] \cup {Bad}
File == [recs : Seq(Record), part : BOOLEAN]

EmptyFile == [recs |-> << >>, part |-> FALSE]

--------------------------------------------------------------------------------
(* One record file *)

\* The open replays every record but a bad last one.
Replay(f) ==
  IF f.recs # << >> /\ Last(f.recs) = Bad THEN Front(f.recs) ELSE f.recs

LastSeqOf(recs) == IF recs = << >> THEN 0 ELSE Last(recs).seq

\* A bad record before the last one, or a sequence that does not grow.
Damaged(f) ==
  LET r == Replay(f)
  IN \E i \in DOMAIN r : \/ r[i] = Bad
                         \/ i > 1 /\ r[i].seq <= r[i - 1].seq

\* The slip that leaves the torn tail in the file.
CutNothing(f) == f

\* The slip that cuts the last good record with a part of a record.
CutOneTooMany(f) ==
  [recs |-> IF f.part /\ f.recs # << >> THEN Front(f.recs) ELSE Replay(f), part |-> FALSE]

\* A writable open cuts the file back to the last good record.
Cut(f) == [recs |-> Replay(f), part |-> FALSE]

\* After a part of a record, no later record begins at a record boundary.
Appended(f, new) == f.recs \o (IF f.part THEN [i \in DOMAIN new |-> Bad] ELSE new)

\* What a power loss may leave of a file: the synced version, or the bytes
\* that reached the disc; a torn tail is a part of a record or one bad record.
Surviving(d, f) ==
  LET same == {k \in 0 .. Min({Len(d.recs), Len(f.recs)}) :
                 SubSeq(d.recs, 1, k) = SubSeq(f.recs, 1, k)}
  IN {d, f} \cup
     {[recs |-> SubSeq(f.recs, 1, k) \o tail.recs, part |-> tail.part] :
        k \in Max(same) .. Len(f.recs) - 1,
        tail \in {EmptyFile, [EmptyFile EXCEPT !.part = TRUE],
                  [EmptyFile EXCEPT !.recs = <<Bad>>]}}

\* lastSequence looks at the last two whole records only.
LastSequence(f, size) ==
  LET good == {i \in {size - 1, size} : i > 0 /\ f.recs[i] # Bad}
  IN IF good = {} THEN 0 ELSE f.recs[Max(good)].seq

\* The slip that asks for a roll back of both logs.
BothBehind(last, m) == m # NoMark /\ \A l \in Log : last[l] < m[l]

\* A log whose last sequence is below the mark.
Behind(last, m) == m # NoMark /\ \E l \in Log : last[l] < m[l]

--------------------------------------------------------------------------------
(* A command with the lock *)

NoHolder == [at |-> "none", why |-> "ok", last |-> [l \in Log |-> 0],
             log |-> "items", new |-> << >>]

At(step) == holder.at = step

TakeLock ==
  /\ At("none")
  /\ holder' = [NoHolder EXCEPT !.at = "items"]
  /\ UNCHANGED <<file, disk, mark, reader, written, saved, checkouts, struck, acked>>

OpenRecFile ==
  \E l \in Log :
    /\ At(l)
    /\ IF Damaged(file[l])
       THEN /\ holder' = [holder EXCEPT !.at = "refused", !.why = "damaged"]
            /\ UNCHANGED file
       ELSE /\ file' = [file EXCEPT ![l] = Cut(@)]
            /\ holder' = [holder EXCEPT !.at = IF l = "items" THEN "discs" ELSE "mark",
                                        !.last[l] = LastSeqOf(Replay(file[l]))]
    /\ UNCHANGED <<disk, mark, reader, written, saved, checkouts, struck, acked>>

UseMark ==
  /\ At("mark")
  /\ IF Behind(holder.last, mark)
     THEN /\ holder' = [holder EXCEPT !.at = "refused", !.why = "rollback"]
          /\ UNCHANGED mark
     ELSE /\ mark' = holder.last
          /\ holder' = [holder EXCEPT !.at = "ready"]
  /\ UNCHANGED <<file, disk, reader, written, saved, checkouts, struck, acked>>

\* nextSeq, and one after it for each further record of the batch.
Batch(l, n) == [i \in 1 .. n |-> [seq |-> holder.last[l] + i, id |-> written + i]]

\* A batch of one or two records.  The write is one call that another process
\* sees in parts.
WriteBatch ==
  \E l \in Log, n \in 1 .. 2, j \in 0 .. 1, part \in BOOLEAN :
    /\ At("ready") /\ written + n <= MaxRecords /\ j < n
    /\ LET new == Batch(l, n)
       IN /\ file' = [file EXCEPT ![l] = [recs |-> Appended(@, SubSeq(new, 1, j)),
                                          part |-> @.part \/ part]]
          /\ holder' = [holder EXCEPT !.at = "write", !.log = l,
                          !.new = [recs |-> Appended(file[l], new), part |-> file[l].part]]
    /\ written' = written + n
    /\ UNCHANGED <<disk, mark, reader, saved, checkouts, struck, acked>>

\* The write call returns.
WriteEnds ==
  /\ At("write")
  /\ file' = [file EXCEPT ![holder.log] = holder.new]
  /\ holder' = [holder EXCEPT !.at = "sync"]
  /\ UNCHANGED <<disk, mark, reader, written, saved, checkouts, struck, acked>>

\* The slip that returns without a sync.
SyncBatchNothing ==
  /\ At("sync")
  /\ LET l == holder.log
     IN /\ acked' = [acked EXCEPT ![l] = Replay(file[l])]
        /\ holder' = [holder EXCEPT !.at = "after", !.new = << >>,
                                    !.last[l] = LastSeqOf(file[l].recs)]
  /\ UNCHANGED <<file, disk, mark, reader, written, saved, checkouts, struck>>

\* The append is durable, and the records count as written.
SyncBatch ==
  /\ At("sync")
  /\ LET l == holder.log
     IN /\ disk' = [disk EXCEPT ![l] = file[l]]
        /\ acked' = [acked EXCEPT ![l] = Replay(file[l])]
        /\ holder' = [holder EXCEPT !.at = "after", !.new = << >>,
                                    !.last[l] = LastSeqOf(file[l].recs)]
  /\ UNCHANGED <<file, mark, reader, written, saved, checkouts, struck>>

\* afterAppend writes the mark and ignores an error.
AfterAppend ==
  /\ At("after")
  /\ mark' \in {holder.last} \cup (IF "error" \in Faults THEN {mark} ELSE {})
  /\ struck' = IF mark' = holder.last THEN struck ELSE struck \cup {"error"}
  /\ holder' = [holder EXCEPT !.at = "ready"]
  /\ UNCHANGED <<file, disk, reader, written, saved, checkouts, acked>>

\* The end of the command; an error of a write or a sync ends it too.
Release ==
  /\ \/ holder.at \in {"ready", "refused"}
     \/ "error" \in Faults /\ holder.at \in {"mark", "write", "sync"}
     \/ "kill" \in Faults /\ ~At("none")
  /\ struck' = IF holder.at \in {"ready", "refused"} THEN struck ELSE struck \cup {"stop"}
  /\ holder' = NoHolder
  /\ UNCHANGED <<file, disk, mark, reader, written, saved, checkouts, acked>>

--------------------------------------------------------------------------------
(* A command without the lock: status replays both logs and then reads the    *)
(* mark (UseMark); ls and restore read the mark and then the end of each file *)
(* (MarkRollbacks).                                                           *)

NoReader == [kind |-> "status", at |-> "none", size |-> 0, mark |-> NoMark,
             seen |-> [l \in Log |-> << >>], last |-> [l \in Log |-> 0], told |-> "nothing"]

\* The slip that reads the mark after the logs in every command.
OrderMarkLast(kind) == <<"items", "discs", "mark", "end">>

\* The order of the reads.
Order(kind) ==
  IF kind = "status" THEN <<"items", "discs", "mark", "end">>
  ELSE <<"mark", "items", "discs", "end">>

After(step) ==
  LET order == Order(reader.kind)
  IN order[1 + CHOOSE i \in 1 .. 3 : order[i] = step]

ReaderBegins ==
  \E kind \in Readers :
    /\ reader.at = "none"
    /\ reader' = [NoReader EXCEPT !.kind = kind, !.at = Order(kind)[1]]
    /\ UNCHANGED <<file, disk, mark, holder, written, saved, checkouts, struck, acked>>

\* The open takes the size of the file before it reads the records.
ReaderStats ==
  \E l \in Log :
    /\ reader.at = l
    /\ reader' = [reader EXCEPT !.size = Len(file[l].recs),
                                !.at = IF l = "items" THEN "read items" ELSE "read discs"]
    /\ UNCHANGED <<file, disk, mark, holder, written, saved, checkouts, struck, acked>>

ReaderReads ==
  \E l \in Log :
    /\ reader.at = IF l = "items" THEN "read items" ELSE "read discs"
    /\ LET part == [file[l] EXCEPT !.recs = SubSeq(@, 1, reader.size)]
       IN reader' =
            IF reader.size > Len(file[l].recs) \/ (reader.kind = "status" /\ Damaged(part))
            THEN [reader EXCEPT !.at = "none",
                    !.told = IF reader.kind = "status" THEN "failed" ELSE "nothing"]
            ELSE [reader EXCEPT
                    !.at = After(l),
                    !.seen[l] = Replay(part),
                    !.last[l] = IF reader.kind = "status" THEN LastSeqOf(Replay(part))
                                ELSE LastSequence(file[l], reader.size)]
    /\ UNCHANGED <<file, disk, mark, holder, written, saved, checkouts, struck, acked>>

ReaderTakesMark ==
  /\ reader.at = "mark"
  /\ reader' = [reader EXCEPT !.mark = mark, !.at = After("mark")]
  /\ UNCHANGED <<file, disk, mark, holder, written, saved, checkouts, struck, acked>>

ReaderTells ==
  /\ reader.at = "end"
  /\ reader' = [reader EXCEPT !.at = "none",
                  !.told = IF Behind(reader.last, reader.mark) THEN "rollback" ELSE "nothing"]
  /\ UNCHANGED <<file, disk, mark, holder, written, saved, checkouts, struck, acked>>

--------------------------------------------------------------------------------
(* Outside *)

Idle == At("none") /\ reader.at = "none"

PowerLoss ==
  /\ "power" \in Faults
  /\ \E f \in [Log -> UNION {Surviving(disk[l], file[l]) : l \in Log}] :
       /\ \A l \in Log : f[l] \in Surviving(disk[l], file[l])
       /\ f # disk \/ f # file
       /\ file' = f
       /\ disk' = f
  /\ holder' = NoHolder
  /\ reader' = NoReader
  /\ struck' = struck \cup {"power"}
  /\ UNCHANGED <<mark, written, saved, checkouts, acked>>

\* The operator keeps a version of state/ in git, and exchanges it later with
\* the present one: back the first time, forward the second time.
SaveVersion ==
  /\ Idle /\ checkouts = 0 /\ MaxCheckouts > 0
  /\ saved' = file
  /\ saved' # saved
  /\ UNCHANGED <<file, disk, mark, holder, reader, written, checkouts, struck, acked>>

Checkout ==
  /\ Idle /\ checkouts < MaxCheckouts
  /\ saved' = file
  /\ file' = saved
  /\ disk' = saved
  /\ checkouts' = checkouts + 1
  /\ struck' = struck \cup {"checkout"}
  /\ UNCHANGED <<mark, holder, reader, written, acked>>

\* The staging directory is deleted and created again, or this is a new clone.
LoseStaging ==
  /\ "staging" \in Faults
  /\ Idle /\ mark # NoMark
  /\ mark' = NoMark
  /\ struck' = struck \cup {"staging"}
  /\ UNCHANGED <<file, disk, holder, reader, written, saved, checkouts, acked>>

--------------------------------------------------------------------------------

Init ==
  /\ file = [l \in Log |-> EmptyFile]
  /\ disk = file
  /\ mark = NoMark
  /\ holder = NoHolder
  /\ reader = NoReader
  /\ written = 0
  /\ saved = file
  /\ checkouts = 0
  /\ struck = {}
  /\ acked = [l \in Log |-> << >>]

Next ==
  \/ TakeLock \/ OpenRecFile \/ UseMark
  \/ WriteBatch \/ WriteEnds \/ SyncBatch \/ AfterAppend \/ Release
  \/ ReaderBegins \/ ReaderStats \/ ReaderReads \/ ReaderTakesMark \/ ReaderTells
  \/ PowerLoss \/ SaveVersion \/ Checkout \/ LoseStaging

Spec == Init /\ [][Next]_vars

\* Bound: at most two kinds of fault in one behaviour.
FewFaults == Cardinality(struck) <= 2

--------------------------------------------------------------------------------
(* Properties *)

\* The two files with their torn tails, cuts and lost writes are the append-only
\* logs of AppendLog: whatever stops, no acknowledged record goes away and none
\* changes, until somebody checks out another version.
Promise == INSTANCE AppendLog
  WITH log <- [l \in Log |-> Replay(file[l])],
       kept <- [l \in Log |-> IF checkouts = 0 THEN Len(acked[l]) ELSE 0]

ImplementsAppendLog == Promise!Spec

\* A mark may hold a record that a stopped command wrote and nobody synced: the
\* open of the next command marks it, and a power loss may then take it away.
MarkMayLead == {"stop", "power"} \subseteq struck

\* No stop, no failed write and no power loss makes a later command with the
\* lock refuse the logs, neither as damaged nor as rolled back.
HolderNotRefused == checkouts = 0 /\ ~MarkMayLead => ~At("refused")

\* A command with the lock that passed the open works on logs that hold every
\* record that an append acknowledged, in order and none replaced: the mark
\* refuses a version of state/ that somebody put back, unless a stop or the
\* loss of the staging directory kept the mark from the newest record.
AckedKept ==
  holder.at \in {"ready", "write", "sync", "after"} /\ (checkouts = 0 \/ struck = {"checkout"}) =>
    \A l \in Log : IsPrefix(acked[l], Replay(file[l]))

\* A command without the lock shows a state that each log went through,
\* whatever is being appended.
ReaderSeesPrefix ==
  reader.at = "end" /\ reader.kind = "status" =>
    \A l \in Log : IsPrefix(reader.seen[l], Replay(file[l]))

\* A warning of ls or restore that state/ went back is true, whatever a command
\* with the lock appends meanwhile.
LsWarningTrue ==
  reader.kind = "ls" /\ reader.told = "rollback" => checkouts > 0 \/ MarkMayLead

================================================================================
