\* The second run fills its disc to the last sector and carries one snapshot.
SPECIFICATION Spec
CHECK_DEADLOCK FALSE
CONSTANTS
  Disc <- Discs
  NoDisc = 0
  Chunk <- Chunks
  Blob = {16}
  Tree = {17, 19}
  Snapshot = {18, 20}
  Entries <- Many
  Time <- ManyTime
  Size <- Small
  FixedSectors = 55
  Capacities = {2239}
  Starts <- OnlyNew
  MaxTorn = 0
  MaxFaults = 0
INVARIANTS
  SelectedFits
