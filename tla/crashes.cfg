\* Two discs, one snapshot of one chunk; a command may stop before each write, and the
\* host may lose the repository once.
SPECIFICATION Spec
CONSTANTS
  d1 = d1
  d2 = d2
  Disc = {d1, d2}
  NoDisc = NoDisc
  c1 = c1
  s1 = s1
  Chunk <- OneChunk
  Meta <- OneSnapshot
  Snapshot <- OneSnapshot
  Needs <- OneNeeds
  TornBatches = FALSE
  Damage = FALSE
  EarlyBurn = FALSE
  Disasters = 1
SYMMETRY Symmetry
INVARIANTS
  TypeOK
  StagedDataKept
  EventsFollowed
  RepairsAreOwed
  VerifiedIsConfirmed
  NamedDiscsKnown
  DiscNumbersUnique
  UndoneNeverNamed
  PrerequisitesEarlier
