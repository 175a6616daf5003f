SPECIFICATION FairSpec
CONSTANTS
  f1 = f1
  f2 = f2
  right = right
  wrong = wrong
  None = None
  Files = {f1, f2}
  MaxChunks = 2
  Pins = {right, wrong}
  Setups <- MCSetups
  MaxTries = 2
  Cap = 3
INVARIANTS
  TypeOK
  NothingLeaks
  FilesStayWhole
PROPERTIES
  BothUsersAreTold
CHECK_DEADLOCK FALSE
