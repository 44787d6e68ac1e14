SPECIFICATION FairSpec

CONSTANTS
  p1 = p1
  p2 = p2
  p3 = p3
  a1 = a1
  a2 = a2
  a3 = a3
  c1 = c1
  NULL = NULL
  NoConnection = NoConnection
  Peer <- MCPeer
  Cell <- MCCell
  Chunk <- MCChunk
  MaxConn <- MCMaxConn
  CHUNK_DATA_NUM = 1
  SLOW_START_INIT_WINDOW_SIZE = 1
  DEFAULT_SLOW_START_THRESHOLD = 2
  DUPLICATE_ACK_NUM = 2
  DEFAULT_RTT_MS = 1
  ACK_TIMEOUT = 0
  PEER_CRASH_TIMEOUT = 1
  MaxAge = 2

INVARIANTS
  ListWellFormed

PROPERTIES
  SlotForEveryPeer
  PlacesComeFree
