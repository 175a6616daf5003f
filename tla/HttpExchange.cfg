SPECIFICATION FairSpec
CONSTANTS
  c = c
  s = s
  p = p
  q = q
  x = x
  hc = hc
  hs = hs
  hp = hp
  hq = hq
  hx = hx
  s6 = s6
  c6 = c6
  None = None
  Devices = {c, s, p, q, x}
  Dart = {p, q}
  Tls = {s, p, q, x}
  Legacy = {s}
  Expired = {x}
  Hosts = {hc, hs, hp, hq, hx, s6, c6}
  V6 = {s6, c6}
  Home <- MCHome
  Setups <- MCSetups
  Capacity = 1
INVARIANTS
  TypeOK
  NoncesPaired
  NoncesAgree
  OkIsFromExpected
  NoListenerAlone
PROPERTIES
  AcceptedIsServed
CHECK_DEADLOCK FALSE
