SPECIFICATION FairSpec
CONSTANTS
  o1 = o1
  None = None
  Offers = {o1}
  Users <- BothUsers
  Room = 1
  MaxOthers = 3
  MaxEarly = 2
INVARIANTS
  TypeOK
  NothingIsLost
PROPERTIES
  WaitingEnds
CHECK_DEADLOCK FALSE
