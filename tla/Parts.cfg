\* Every part comes to a stop at its bounds, or at its end: no deadlock check.
CONSTANTS
  CacheSize = 3
  MaxReads = 3
  MaxImages = 3
  MaxDelay = 1
  MaxPackets = 3
  Buffers = 3
  MaxTracks = 2
  MaxMade = 3
  MaxJumps = 1
  Threads = {t1, t2, t3}
  Plain = {m}
  Recursive = {r}
  Conds = {c}
  NoThread = NoThread
  MaxDepth = 2
  MaxLeaks = 1
  NumWorkers = 5
SPECIFICATION Spec
INVARIANTS
  PacketTypeOK
  SlotsApart
  ImageTypeOK
  PicturesApart
  FrameTypeOK
  NoTear
  SyncTypeOK
  RefCountsExact
  OwnerHolds
  NoSelfDeadlock
  LifeTypeOK
  NothingPulledAway
  WorkersStay
PROPERTIES
  PacketsInOrder
  ImagesInOrder
  HandoverKeepsPackets
  FramesInOrder
  NoStall
  RingsClearedAlone
  ScreenInOrder
  ExitEnds
CHECK_DEADLOCK FALSE
