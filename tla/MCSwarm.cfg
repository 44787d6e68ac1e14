SPECIFICATION FairSpec

CONSTANTS
  p1 = p1
  p2 = p2
  h1 = h1
  h2 = h2
  j1 = j1
  NoJob = NoJob
  NoConnection = NoConnection
  Peer <- TwoPeers
  Hash <- MCHash
  Chunk <- MCHash
  JobId <- MCJobId
  HashOf <- TwoChunks
  Owned <- Overlap
  MayCrash <- OnePeer
  MayRestart <- OtherPeer
  MaxDelay = 1
  MaxFaults = 3
  CHUNK_DATA_NUM = 3
  SLOW_START_INIT_WINDOW_SIZE = 1
  DEFAULT_SLOW_START_THRESHOLD = 2
  DUPLICATE_ACK_NUM = 3
  DEFAULT_RTT_MS = 2
  ACK_TIMEOUT = 0
  MAX_HASH_LIST_NUM = 2
  GET_TIMEOUT = 1
  PEER_CRASH_TIMEOUT = 2
  WHOHAS_FLOOD_INTERVAL_MS = 0
  max_receiver_connection = 1
  MaxAge = 3

INVARIANTS
  TimeoutNeedsLoss
  ForeignDataNeedsLoss

PROPERTIES
  DownloadCompletes
