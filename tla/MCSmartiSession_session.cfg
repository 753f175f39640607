\* One session, every delay, cut, timeout and end of the daemon.
SPECIFICATION FairSpec
CONSTANTS
  NULL = null
  Tokens = {0, 1}
  DeviceNames <- MCNames
  SmartNames <- MCSmart
  Discoveries <- MCBus
CHECK_DEADLOCK FALSE
INVARIANTS TypeOK AnswersMatch TransferMatchesToken
PROPERTIES CallsReturn ServerReleased
