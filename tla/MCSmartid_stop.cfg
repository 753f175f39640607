\* A stop request while a transfer waits for a device that left.
SPECIFICATION FairSpec
CONSTANTS
  Conns = {c1}
  ListHead = head
  NULL = null
  Fds = {0, 1, 2}
  Tokens = {0, 1}
  DeviceNames <- MCNames
  Discoveries <- MCBus
  SentLines <- MCXfer
  MaxLines = 1
  MaxOut = 0
CHECK_DEADLOCK FALSE
PROPERTY StopExits
