SPECIFICATION Spec
CONSTANTS
  f1 = f1
  f2 = f2
  f3 = f3
  None = None
  Offer <- MCOffer
  NSessions = 2
  Files = {f1, f2, f3}
  Workers = 2
  Background = {2}
  MaxRetries = 2
INVARIANTS FinishedMeansSent
CHECK_DEADLOCK FALSE
