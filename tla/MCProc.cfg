CONSTANTS
  Slots = {Eve, s1, s2}
  Eve = Eve
  NPID = 4
  None = None
SPECIFICATION FairSpec
INVARIANTS
  PidsUnique
  ParentLives
  WaitNotLost
  RequestHasTarget
PROPERTIES
  ReapedByParent
  OrphansReaped
  StoppedNotStranded
  PtraceReturns
