\* Three discs, good and damaged copies in any order; a commit, a pack, its undo and a kill.
SPECIFICATION Spec
CONSTANTS
  Name = {"N", "M"}
  Tree = {"t1", "t2", "t3"}
  Blob = {"b1", "b2", "b4"}
  Meta <- Reaches
  OldMedia <- ThreeDiscs
  Copies <- BadData3
  OldTaken <- Times
  NewSnapshots <- One
  MaxPacks = 1
  MaxStops = 1
  MaxRot = 0
  Rotting = {"b1"}
  Rots = {"head", "payload"}
INVARIANTS
  CompleteIsHeld
  NameNeverGoesBack
  CommitStaysResolved
  NewestDiscNamesEveryRef
  RecoveredIsRecorded
