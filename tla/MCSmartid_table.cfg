\* Three connections over seven descriptors: the connection table.
SPECIFICATION Spec
CONSTANTS
  Conns = {c1, c2, c3}
  ListHead = head
  NULL = null
  Fds = {0, 1, 2, 3, 4, 5, 6}
  Tokens = {0}
  DeviceNames <- MCNames
  Discoveries <- MCBus
  SentLines = {}
  MaxLines = 1
  MaxOut = 1
SYMMETRY MCSymmetry
CHECK_DEADLOCK FALSE
INVARIANTS ListConsistent ListReachesAll FdOwnership CleanExit
