\* One client, among its lines a word that is no command.
SPECIFICATION Spec
CONSTANTS
  Conns = {c1}
  ListHead = head
  NULL = null
  Fds = {0, 1, 2}
  Tokens = {0, 1}
  DeviceNames <- MCNames
  Discoveries <- MCBus
  SentLines <- MCEveryCommand
  MaxLines = 1
  MaxOut = 0
CHECK_DEADLOCK FALSE
PROPERTY EveryLineAnswered
