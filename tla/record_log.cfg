\* All faults, checkouts of another version of state/, and readers.
SPECIFICATION Spec
CONSTANTS
  MaxRecords = 2
  MaxCheckouts = 1
  Faults = {"kill", "error", "power", "staging"}
  Readers = {"status", "ls"}
CONSTRAINT FewFaults
INVARIANTS
  HolderNotRefused
  ReaderSeesPrefix
  AckedKept
  LsWarningTrue
PROPERTIES
  ImplementsAppendLog
