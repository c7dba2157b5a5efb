\* A line with modem control and echo, and a line in tandem mode.
CONSTANTS
  p1 = p1
  p2 = p2
  None = None
  Procs = {p1, p2}
  OHILIM = 1
  OLOLIM = 0
  IHILIM = 2
  ITSLIM = 1
  ILOLIM = 0
  NCIB = 1
  MaxOut = 1
  Setups <- TerminalAndTandem
SPECIFICATION Spec
SYMMETRY Symmetry
INVARIANTS
  SleepsRightly
  StopMeansFull
  TandemRemembered
CHECK_DEADLOCK FALSE
