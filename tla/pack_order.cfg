\* Two snapshots on three discs of four items each; lost discs, gc, bad files, torn records.
SPECIFICATION Spec
\* With no disc left and all committed the repository may rest.
CHECK_DEADLOCK FALSE
CONSTANTS
  Disc <- Discs
  NoDisc = 0
  Chunk = {2, 5}
  Blob = {3, 7}
  Tree = {1, 6}
  Snapshot = {4, 8}
  Entries <- Shared
  Time <- SharedTime
  Size <- Large
  FixedSectors = 55
  Capacities = {2765}
  Starts <- NewOrRecovered
  MaxTorn = 1
  MaxFaults = 1
INVARIANTS
  TakesEverySound
  PlacedIsClosed
  OlderFirst
  FitsWithoutCarried
