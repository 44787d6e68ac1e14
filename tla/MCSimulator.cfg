SPECIFICATION FairSpec

CONSTANTS
  Undefined = Undefined
  N = 4
  Topology <- MCTopology
  Flow <- MCFlow
  Size <- MCSize
  Latency = 1
  QUEUEMAX = 2
  MaxPackets = 3

INVARIANTS
  NeverOversleeps

PROPERTIES
  ShortestWays
  KeepsOrder
  PacketsLeave
