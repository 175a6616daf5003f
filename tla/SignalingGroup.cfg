SPECIFICATION FairSpec
CONSTANTS
  c1 = c1
  c2 = c2
  c3 = c3
  Peers = {c1, c2, c3}
  Capacity = 1
  MaxConnections = 2
  MaxRequests = 3
  MaxSends <- OneTalker
  Kinds = {"Offer"}
INVARIANTS TypeOK ListsOfPeersAreRight
CHECK_DEADLOCK FALSE
PROPERTIES GoneIsRemoved
