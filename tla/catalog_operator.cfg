\* The operator gives the discs of a lost repository until all is complete.
SPECIFICATION FairSpec
CONSTANTS
  Name = {"N", "M"}
  Tree = {"t1", "t2", "t3"}
  Blob = {"b1", "b2", "b4"}
  Meta <- Reaches
  OldMedia <- TwoDiscs
  Copies <- BadData
  OldTaken <- TwoTimes
  NewSnapshots <- None
  MaxPacks = 0
  MaxStops = 2
  MaxRot = 1
  Rotting = {"b1"}
  Rots = {"head", "payload"}
INVARIANTS
  MarksFollowTheDiscs
PROPERTIES
  EventuallyComplete
