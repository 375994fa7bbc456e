SPECIFICATION MCSpec
CONSTANTS
  ChunkFacts = 1
  QueueBudget = 3
  MaxOps = 2
  MaxLate = 1
  Me = "me"
  Servers = {"s1", "s2"}
  Reports <- MCReports
  ClientOrder <- MCOrder
  PeerReports <- MCPeerReports
INVARIANTS NoLoss NeverRejected Settled PublishedKept
PROPERTIES EvidenceKept  StoresExports
CHECK_DEADLOCK FALSE
