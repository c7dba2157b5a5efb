CONSTANTS
  Readers = {r1, r2}
  Writers = {w1, w2}
  PIPSIZE = 2
  BSIZE = 2
  Values = {0, 1}
  MaxCount = 3
  Free = Free
SPECIFICATION Spec
SYMMETRY Symmetry
INVARIANTS
  RingOK
  SleepsRightly
  EofMeansClosed
PROPERTIES
  ImplementsFifo
CHECK_DEADLOCK FALSE
