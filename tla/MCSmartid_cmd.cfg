\* One client, every command, lines sent ahead of the replies; the client
\* goes and stop requests come at any time.
SPECIFICATION FairSpec
CONSTANTS
  Conns = {c1}
  ListHead = head
  NULL = null
  Fds = {0, 1, 2}
  Tokens = {0, 1}
  DeviceNames <- MCNames
  Discoveries <- MCBus
  SentLines <- MCEveryCommand
  MaxLines = 2
  MaxOut = 0
CHECK_DEADLOCK FALSE
INVARIANTS TypeOK DeviceIsSettled NoLateAnswer
PROPERTIES  ClientGoneReleases StopEnds
