SPECIFICATION FairSpec
CONSTANTS
  phone = phone
  Job = {j1, j2}
  Worker = {w1}
  Token = {phone}
  TokenOf <- MCTokenOf
  MaxAttempts = 2
  MaxClaims = 3
  MaxFaults = 1
  MaxRetries = 1
INVARIANTS
  TypeOK
  OneLiveMessage
  MessagesAreCounted
PROPERTIES
  DeliveredIsFinal
  JobsAreServed
