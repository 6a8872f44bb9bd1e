\* After a loss of the repository the copies that recover reads may be damaged, and a stop
\* may leave a part of a batch in a log.
SPECIFICATION Spec
CONSTANTS
  d1 = d1
  d2 = d2
  Disc = {d1, d2}
  NoDisc = NoDisc
  c1 = c1
  s1 = s1
  Chunk <- OneChunk
  Meta <- OneSnapshot
  Snapshot <- OneSnapshot
  Needs <- OneNeeds
  TornBatches = TRUE
  Damage = TRUE
  EarlyBurn = FALSE
  Disasters = 1
SYMMETRY Symmetry
CONSTRAINT LossComesFirst
INVARIANTS
  FreedIsProved
  RecordsNameHolder
