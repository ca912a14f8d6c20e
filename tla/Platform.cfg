SPECIFICATION FairSpec
CONSTANTS
  d1 = d1
  d2 = d2
  d3 = d3
  front = front
  back = back
  k1 = k1
  k2 = k2
  e1 = e1
  e2 = e2
  e3 = e3
  i1 = i1
  i2 = i2
  i3 = i3
  i4 = i4
  Caller = {q1, q2, q3}
  Handler = {h1, h2}
  Reset = {r1}
  Original = original
  MaxTokens = 3
  Document = {d1, d2, d3}
  Kind = {front, back}
  KindOf <- MCKindOf
  Donation = {k1, k2}
  Event = {e1, e2, e3}
  About <- MCAbout
  Outcome <- MCOutcome
  MaxSessions = 2
  MaxTexts = 2
  Row = {i1, i2, i3, i4}
  RowKind <- MCRowKind
  Case = {c1, c2, c3}
  User = {u1}
  Specialist = {}
  Standard = 0
  Escalation = 1
  Short = 1
  Long = 2
  MaxShort = 1
  MaxLong = 1
  Horizon = 1
INVARIANTS
  TypeOK
  ResetEndsSessions
  
  VerifiedIsApproved
  LedgerAgrees
  CountsCatchUp
  NobodyIsFlooded
PROPERTIES
  RotatesOnce
  CompleteIsApproved
  ReviewedTextStays
  EndIsFollowedUp
CHECK_DEADLOCK FALSE
