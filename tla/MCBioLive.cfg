CONSTANTS
  Users = {u1}
  Syncers = {s}
  NBUF = 2
  Blocks = {k1, k2}
  NODEV = NODEV
  Device = Device
  Free = Free
  NoProc = NoProc
  WriteErrors = FALSE
SPECIFICATION FairSpec
PROPERTIES
  CallsReturn
