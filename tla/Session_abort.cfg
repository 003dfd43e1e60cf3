\* An abort of a music file, the audio queue never being full.
CONSTANTS
  Files <- Music
  MaxPackets = 2
  FileLength = 1
  AudioQueueSize = 3
  UserActs <- SeekingAndAborting
  ReadsTimeOut = FALSE
  MaxUserActs = 3
  MaxRepeats = 1
SPECIFICATION FairSpec
PROPERTY AbortEnds
CHECK_DEADLOCK FALSE
