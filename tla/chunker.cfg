\* Every file of up to eight bytes of two values, in every pattern of reads; chunks of two
\* to four bytes.
SPECIFICATION Spec
\* The read of a file ends.
CHECK_DEADLOCK FALSE
CONSTANTS
  Gear <- TwoGears
  Word = 16
  MaskS = {2, 3}
  MaskL = {3}
  MinLen = 1
  AvgLen = 3
  MaxLen = 4
  Files <- ShortFiles
INVARIANTS
  CutsAreOfContent
