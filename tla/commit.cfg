\* Kills, failures and power losses of two commits of a source that changes.
SPECIFICATION Spec
CONSTANTS
  p1 = p1
  p2 = p2
  c1 = c1
  c2 = c2
  c3 = c3
  c4 = c4
  Path = {p1, p2}
  Chunk = {c1, c2, c3, c4}
  Walked <- BothPaths
  Version <- OneChange
  Known <- OldRepository
  Damaged = {c4}
  BatchMax = 2
  RetryUnstable = 1
  MaxSnapshots = 2
  MaxStops = 1
  MaxPower = 1
  PowerFirst = TRUE
  MaxErrors = 1
INVARIANTS
  CommittedIsWhole
  EntryIsOneVersion
  DroppedAreGone
PROPERTIES
  NeededFilesStay
\* The number of commits is bounded.
CHECK_DEADLOCK FALSE
