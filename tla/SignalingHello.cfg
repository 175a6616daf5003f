SPECIFICATION ReadingSpec
CONSTANTS
  c1 = c1
  c2 = c2
  c3 = c3
  Peers = {c1, c2}
  Capacity = 4
  MaxConnections = 10
  MaxRequests = 1000
  MaxSends <- OneTalksTwice
  Kinds = {"Offer"}
PROPERTIES HelloArrives
CHECK_DEADLOCK FALSE
