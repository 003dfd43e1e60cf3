\* Are all threads outside the decoder when an abort closes it?
CONSTANTS
  Files <- SilentFilms
  MaxPackets = 2
  FileLength = 1
  AudioQueueSize = 1
  UserActs <- SeekingAndAborting
  ReadsTimeOut = FALSE
  MaxUserActs = 3
  MaxRepeats = 1
SPECIFICATION Spec
PROPERTY AbortStopsAll
