SPECIFICATION FairSpec
CONSTANTS
  a1 = a1
  a2 = a2
  b1 = b1
  ka = ka
  kb = kb
  m1 = m1
  m2 = m2
  Request = {a1, a2, b1}
  Key = {ka, kb}
  KeyOf <- MCKeyOf
  Media = {m1, m2}
  Uses <- MCUses
  Limited = {ka}
  Alert = {ka}
  Addressed = {kb}
INVARIANTS
  TypeOK
  OnePostPerKey
  MediaUsedOnce
  ConsumedIsShown
  PostsAreFollowedUp
PROPERTIES
  RequestsAreAnswered
CHECK_DEADLOCK FALSE
