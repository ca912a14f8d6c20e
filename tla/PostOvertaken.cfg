SPECIFICATION Spec
CONSTANTS
  a1 = a1
  a2 = a2
  b1 = b1
  ka = ka
  kb = kb
  m1 = m1
  m2 = m2
  Request = {a1, a2, b1}
  Key = {ka, kb}
  KeyOf <- MCKeyOf
  Media = {m1, m2}
  Uses <- MCSameUses
  Limited = {}
  Alert = {ka}
  Addressed = {kb}
INVARIANTS
  OvertakenIsReplayed
CHECK_DEADLOCK FALSE
