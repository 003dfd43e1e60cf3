\* Is the end of the file announced only when all of it was read?
CONSTANTS
  Files <- SilentFilms
  MaxPackets = 2
  FileLength = 1
  AudioQueueSize = 1
  UserActs <- Seeking
  ReadsTimeOut = FALSE
  MaxUserActs = 2
  MaxRepeats = 1
SPECIFICATION Spec
PROPERTY FinishedMeansConsumed
