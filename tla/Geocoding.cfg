SPECIFICATION FairSpec
CONSTANTS
  Post = {dog, cat}
  Urgent = {dog}
  Worker = {w1}
  MaxAttempts = 3
  MaxFaults = 2
INVARIANTS
  TypeOK
  CompletedIsLocated
  PendingHasTries
  LocatedIsDispatched
  EndedStaysResolved
PROPERTIES
  JobsSettle
