CONSTANTS
  Procs = {p1, p2, p3}
  Gates = {ga, gb}
  Device = Device
  Idle = Idle
  Free = Free
  Wrap = 4
SPECIFICATION FairSpec
INVARIANTS
  MutualExclusion
  NoLostWakeup
PROPERTIES
  ImplementsMutex
  FreeGateIsTaken
