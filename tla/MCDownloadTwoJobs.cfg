SPECIFICATION FairSpec

CONSTANTS
  p1 = p1
  p2 = p2
  h1 = h1
  h2 = h2
  h3 = h3
  j1 = j1
  j2 = j2
  NoJob = NoJob
  NoConnection = NoConnection
  Peer <- MCPeer
  Hash <- MCHash
  JobId <- TwoJobs
  HashOf <- TwoJobHashes
  IHave <- OneJobIHave
  CHUNK_DATA_NUM = 2
  MAX_HASH_LIST_NUM = 2
  GET_TIMEOUT = 0
  PEER_CRASH_TIMEOUT = 1
  WHOHAS_FLOOD_INTERVAL_MS = 0
  max_receiver_connection = 1
  MaxAge = 2
  MaxShortWrites = 1
  SaveFailure <- AllSaveFailures

INVARIANTS
  ChunkOwnership
  ConnectionsNeedJob
  FinishedIsSaved
  GotIsComplete

PROPERTIES
  CrashedProviderReleased
  ChunksAssigned
