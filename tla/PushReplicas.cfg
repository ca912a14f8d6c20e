SPECIFICATION Spec
CONSTANTS
  phone = phone
  Job = {j1}
  Worker = {w1, w2}
  Token = {phone}
  TokenOf <- MCTokenOf
  MaxAttempts = 2
  MaxClaims = 4
  MaxFaults = 0
  MaxRetries = 0
INVARIANTS
  OneLiveMessage
