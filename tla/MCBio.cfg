CONSTANTS
  Users = {u1, u2}
  Syncers = {s}
  NBUF = 2
  Blocks = {k1, k2}
  NODEV = NODEV
  Device = Device
  Free = Free
  NoProc = NoProc
  WriteErrors = FALSE
SPECIFICATION Spec
SYMMETRY Symmetry
INVARIANTS
  Unique
  Coherent
  Served
  BufneedWakes
  SyncDurable
