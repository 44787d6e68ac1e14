SPECIFICATION FairSpec

CONSTANTS
  p1 = p1
  p2 = p2
  h1 = h1
  h2 = h2
  j1 = j1
  NoJob = NoJob
  NoConnection = NoConnection
  Peer <- OnePeer
  Hash <- MCHash
  Chunk <- MCHash
  JobId <- MCJobId
  HashOf <- OneChunk
  Owned <- OwnsAll
  MayCrash <- NoPeer
  MayRestart <- NoPeer
  MaxDelay = 0
  MaxFaults = 1
  CHUNK_DATA_NUM = 2
  SLOW_START_INIT_WINDOW_SIZE = 1
  DEFAULT_SLOW_START_THRESHOLD = 2
  DUPLICATE_ACK_NUM = 3
  DEFAULT_RTT_MS = 2
  ACK_TIMEOUT = 0
  MAX_HASH_LIST_NUM = 2
  GET_TIMEOUT = 2
  PEER_CRASH_TIMEOUT = 4
  WHOHAS_FLOOD_INTERVAL_MS = 1
  max_receiver_connection = 2
  MaxAge = 5

INVARIANTS
  OnlyTheCrashedTimeOut
