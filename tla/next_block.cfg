\* Two discs, one snapshot of one chunk; a command may stop before each write; the
\* repository is new, or was lost after its newest disc or both were burned.
\* With nothing to do the operator may rest.
SPECIFICATION FollowSpec
CHECK_DEADLOCK FALSE
CONSTANTS
  d1 = d1
  d2 = d2
  Disc = {d1, d2}
  NoDisc = NoDisc
  FirstDisc = d1
  c1 = c1
  s1 = s1
  Chunk <- OneChunk
  Meta <- OneSnapshot
  Snapshot <- OneSnapshot
  Needs <- OneNeeds
  OldContent <- ChunkThenSnapshot
  OldNames <- EarlierNames
  OldNum <- EarlierNum
  OldBurnt <- NewestOrBoth
  TornBatches = FALSE
  Damage = FALSE
  EarlyBurn = FALSE
  Disasters = 1
INVARIANTS
  RestedIsOnDiscs
PROPERTIES
  EventuallyRests
