\* A repository recovered from two discs of three, and a commit that stops in its records.
SPECIFICATION Spec
CHECK_DEADLOCK FALSE
CONSTANTS
  Disc <- Discs
  NoDisc = 0
  Chunk = {2, 5}
  Blob = {3, 7, 9}
  Tree = {1, 6}
  Snapshot = {4, 8}
  Entries <- WithEmpty
  Time <- SharedTime
  Size <- LargeToo
  FixedSectors = 55
  Capacities = {30000}
  Starts <- OnlyRecovered
  MaxTorn = 1
  MaxFaults = 0
INVARIANTS
  SnapshotsAreWhole
