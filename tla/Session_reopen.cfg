\* Are all threads outside the decoder when a seek reopens it?
CONSTANTS
  Files <- SilentFilms
  MaxPackets = 2
  FileLength = 1
  AudioQueueSize = 1
  UserActs <- Seeking
  ReadsTimeOut = FALSE
  MaxUserActs = 3
  MaxRepeats = 1
SPECIFICATION Spec
INVARIANT ReopenAlone
