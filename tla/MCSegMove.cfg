CONSTANTS
  p1 = p1
  p2 = p2
  p3 = p3
  Procs = {p1,p2,p3}
  Swapper = Swapper
  None = None
  NSEG = 7
  coretop = 6
  swaptop = 5
  MaxSize = 2
  MaxCalls = 4
  Starts <- MCStarts
  MSSIZE = 2
SPECIFICATION Spec
SYMMETRY Symmetry
CHECK_DEADLOCK FALSE
INVARIANTS
  TransfersSafe
