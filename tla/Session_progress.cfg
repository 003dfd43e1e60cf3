\* Films without sound, with fairness.
CONSTANTS
  Files <- SilentFilms
  MaxPackets = 3
  FileLength = 1
  AudioQueueSize = 1
  UserActs <- SeekingAndAborting
  ReadsTimeOut = FALSE
  MaxUserActs = 3
  MaxRepeats = 1
SPECIFICATION FairSpec
PROPERTIES
  AbortEnds
  WaveEnds
