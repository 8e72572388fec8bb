CONSTANTS p1 = p1  p2 = p2  Garbage = Garbage
CONSTANT Peers = {p1, p2}
CONSTANT Shares <- MCShares
CONSTANT Parent <- MCParent
CONSTANT PeerTip <- MCPeerTip
CONSTANT Invalid = {5}
CONSTANT GossipShares = {1, 2, 5}
CONSTANT MaxLocatorCount = 64
CONSTANT QueueCapacity = 1
CONSTANT ConnCapacity = 1
CONSTANT LimiterCapacity = 1
CONSTANT Burst = 1
CONSTANT MaxSyncBatchSize = 2
CONSTANT ClientMaxCount = 3
CONSTANT Size <- MCSize
CONSTANT MaxSyncMsgSize = 150
CONSTANT WriteOutcomes = {TRUE}
SPECIFICATION Spec
PROPERTY SyncRoundCatchesUp
