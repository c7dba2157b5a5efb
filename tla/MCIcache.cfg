SPECIFICATION Spec
CONSTANTS
  Procs = {p1, p2}
  NINODE = 2
  NINO = 3
  NICINOD = 2
  MaxCalls = 7
  MaxVer = 1
  Free = Free
  NoProc = NoProc
SYMMETRY Symmetry
INVARIANTS
  OneSlot
  RefsCounted
  NamesRight
