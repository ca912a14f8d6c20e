SPECIFICATION LateSpec
CONSTANTS
  LastStandard = 2
  LastEscalation = 3
  ana = ana
  bia = bia
  ana1 = ana1
  ana2 = ana2
  User = {ana}
  Device <- MCDevice
  Owner <- MCOwner
  Handler = {h1}
  Worker = {w1, w2}
  MaxSession = 2
  MaxReplay = 0
INVARIANTS
  TypeOK
  OneAlertPerUser
  PhasesInOrder
  AtMostOnePhaseAfterGoing
  AtMostOnePhaseAfterResolved
SYMMETRY Symmetry
PROPERTIES
  ImplementsCaseDispatch
