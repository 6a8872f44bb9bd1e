\* Runs with and without --overwrite from two discs and the staging store, with stops, power
\* losses, bad reads, gc and another program beside them, run again until all is restored.
SPECIFICATION FairSpec
CONSTANTS
  f1 = f1
  f2 = f2
  c1 = c1
  c2 = c2
  c3 = c3
  d1 = d1
  d2 = d2
  Hole = Hole
  Foreign = Foreign
  File = {f1, f2}
  Chunk = {c1, c2, c3}
  Disc = {d1, d2}
  Snapshots <- OneSnapshot
  Selected <- BothFiles
  On <- Apart
  Store = {c1}
  Losses <- NoneOrFirst
  DiscOrder <- Numbered
  NoLinks = {f2}
  Overwrite = {TRUE, FALSE}
  MaxStops = 2
  OverwriteStops = 0
  MaxErrors = 1
  MaxForeign = 1
  PowerLosses = TRUE
INVARIANTS
  NamedFileWhole
  CountIsOwed
  EveryFileAccounted
  FailedIsNotRestored
PROPERTIES
  NothingOverwritten
  EventuallyRestored
\* A restore that ended with exit code 0 is not run again.
CHECK_DEADLOCK FALSE
