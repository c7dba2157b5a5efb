\* A line without echo: writes and drains return.
CONSTANTS
  p1 = p1
  p2 = p2
  None = None
  Procs = {p1, p2}
  OHILIM = 2
  OLOLIM = 0
  IHILIM = 2
  ITSLIM = 1
  ILOLIM = 0
  NCIB = 1
  MaxOut = 2
  Setups <- OutputOnly
SPECIFICATION LiveSpec
INVARIANTS
  DrainSleepsRightly
PROPERTIES
  OutputReturns
CHECK_DEADLOCK FALSE
