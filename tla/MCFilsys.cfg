SPECIFICATION Spec
CONSTANTS
  Procs = {p1, p2}
  Files = {f1, f2}
  NBLOCK = 3
  NICFREE = 2
  ND = 2
  MaxCalls = 4
  MaxSyncs = 2
  MaxCrash = 1
  Free = Free
  NoProc = NoProc
  NoFile = NoFile
  DATA = DATA
SYMMETRY Symmetry
INVARIANTS
  OneOwner
  FreeListSaved
  CleanWhenSerial
