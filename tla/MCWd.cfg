SPECIFICATION Spec
CONSTANTS
  Bufs = {b1, b2, b3}
  Requests <- MCRequests
  NDRIVES = 2
  NHDISKS = 1
  NFBLK = 3
  wdbtab <- MCwdbtab
  MAXBLKCNT = 2
  MaxRequests = 4
  NoRequest = NoRequest
INVARIANT QueuesAgree
PROPERTIES
  ImplementsDisk
  RequestsAnswered
