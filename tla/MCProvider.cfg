SPECIFICATION FairSpec

CONSTANTS
  CHUNK_DATA_NUM = 6
  SLOW_START_INIT_WINDOW_SIZE = 1
  DEFAULT_SLOW_START_THRESHOLD = 5
  DUPLICATE_ACK_NUM = 3
  DEFAULT_RTT_MS = 2
  ACK_TIMEOUT = 1
  PEER_CRASH_TIMEOUT = 3
  MaxAge = 4
  c1 = c1
  Chunk <- MCChunk
  NoConnection = NoConnection

INVARIANTS
  TypeOK
  WindowRespected
  StatusMatchesThreshold

PROPERTIES
  InOrder
  WindowChanges
  GoBackNSender
  CrashedReceiverReleased
  LossRepaired
