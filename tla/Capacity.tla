------------------------------- MODULE Capacity -------------------------------
(* The sector budget of a disc (internal/image/capacity.go) and the selection *)
(* of the run that fills it (selectRun of internal/image/pack.go).            *)
EXTENDS Integers, Sequences, FiniteSets, FiniteSetsExt

SectorSize == 2048
RunFileLen == 512

\* sectorCount: the whole sectors that hold n bytes.
SectorCount(n) == (n + SectorSize - 1) \div SectorSize

SpaceBitmap(t) == SectorCount((t + 7) \div 8) * SectorSize

\* The directories of a tree of n files: the object directories by the first
\* byte of the content id, and four more.
DirCount(n) == (IF n < 256 THEN n ELSE 256) + 4

\* EstimateFilesystemOverhead of n files on a disc of t sectors, in bytes.
Overhead(n, t) ==
  SpaceBitmap(t) + 4194304 + n * 2 * SectorSize + DirCount(n) * 2 * SectorSize + (t * SectorSize) \div 1000

\* The slip that sets the overhead aside and no run header.
DataBudgetBare(t, n) ==
  LET reserved == SectorCount(Overhead(n, t)) IN IF reserved >= t THEN 0 ELSE t - reserved

\* DataBudgetSectors: the sectors for the files other than the two run headers.
DataBudget(t, n) ==
  LET reserved == SectorCount(Overhead(n, t) + 2 * RunFileLen)
  IN IF reserved >= t THEN 0 ELSE t - reserved

\* CheckCapacity of n files that take the given number of sectors.
CheckCapacity(sectors, n, t) ==
  /\ t # 0
  /\ sectors * SectorSize + 2 * RunFileLen + Overhead(n, t) <= t * SectorSize

IndexLen(n, objects, prereqs) == 56 + n * 48 + objects * 40 + prereqs * 48

--------------------------------------------------------------------------------
(* The selection: a candidate has a size in bytes and the ids of those of its *)
(* children that a disc holds.  `files' counts the files other than the       *)
(* selected objects and RUN2, `fixed' the sectors of those but the INDEX.     *)

Prereqs(cands, k) == UNION {cands[i].children : i \in 1 .. k}

PrefixSectors(cands) ==
  LET sum[k \in 0 .. Len(cands)] ==
        IF k = 0 THEN 0 ELSE sum[k - 1] + SectorCount(cands[k].size)
  IN sum

\* The sectors of the run of the first k candidates, as selectRun counts them:
\* its INDEX has a row for each selected object.
RunSectors(cands, k, fixed, files) ==
  fixed + SectorCount(IndexLen(files + k + 1, k, Cardinality(Prereqs(cands, k)))) + PrefixSectors(cands)[k]

Fits(cands, k, fixed, files, t) ==
  RunSectors(cands, k, fixed, files) <= DataBudget(t, files + k + 1)

\* selectRun: the number of candidates up to the first one that does not fit.
SelectRun(cands, fixed, files, t) ==
  Max({k \in 0 .. Len(cands) : \A j \in 1 .. k : Fits(cands, j, fixed, files, t)})

\* The sectors of the run that packRun lays out: its INDEX has also a row for
\* each carried snapshot.
LaidOut(cands, k, carried, fixed, files) ==
  fixed + SectorCount(IndexLen(files + k + 1, k + carried, Cardinality(Prereqs(cands, k))))
    + PrefixSectors(cands)[k]

================================================================================
