SPECIFICATION FairSpec
CONSTANTS
  alice = alice
  bob = bob
  a1 = a1
  a2 = a2
  b1 = b1
  ka = ka
  kb = kb
  p1 = p1
  p2 = p2
  sa = sa
  sb = sb
  User = {alice, bob}
  Blocker = {bob}
  Request = {a1, a2, b1}
  Sender <- MCSender
  Key <- MCKey
  Impatient = {a1}
  Elusive = {a1}
  Replica = {p1, p2}
  Home <- MCHome
  Socket = {sb}
  Viewer <- MCViewer
  Host <- MCHost
  Mark = {k1, k2}
  Reader <- MCReader
  Capacity = 1
INVARIANTS
  TypeOK
  NothingSlipsBy
PROPERTIES
  KeptAndShownOnce
  ReadStaysRead
  MessagesArrive
CHECK_DEADLOCK FALSE
