\* Files of all kinds.  The player can stop for good here (see
\* Session_abort): no deadlock check.
CONSTANTS
  Files <- AnyFile
  MaxPackets = 2
  FileLength = 1
  AudioQueueSize = 1
  UserActs <- AllActs
  ReadsTimeOut = TRUE
  MaxUserActs = 3
  MaxRepeats = 1
SPECIFICATION Spec
INVARIANTS
  TypeOK
  ReadHasCause
  WaitingHasCause
  WaveInFlight
  FlagsMatchState
PROPERTY CloseAlone
CHECK_DEADLOCK FALSE
