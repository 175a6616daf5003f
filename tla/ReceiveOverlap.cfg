SPECIFICATION FairSpec
CONSTANTS
  p1 = p1
  p2 = p2
  p3 = p3
  f1 = f1
  f2 = f2
  f3 = f3
  f4 = f4
  u1 = u1
  u2 = u2
  a = a
  b = b
  Offer <- MCOffer
  Ip <- MCIp
  None = None
  Prepares = {p1, p2, p3}
  Uploads = {u1, u2}
  Files = {f1, f2, f3, f4}
  V1Senders = {p2}
  Messages = {p3}
  QuickSave = {p1}
  Mobile = TRUE
INVARIANTS TypeOK FinishedIsStored WaitingIsAnswerable HungOnlyIfGone
PROPERTIES SeenCancelIsFinal ImplementsDelivery ReplyIsAnswered QuickSaveFrees
CHECK_DEADLOCK FALSE
