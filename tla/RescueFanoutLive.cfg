SPECIFICATION FairSpec
CONSTANTS
  LastStandard = 1
  LastEscalation = 2
  ana = ana
  bia = bia
  ana1 = ana1
  ana2 = ana2
  User = {ana}
  Device = {ana1}
  Owner <- SoloOwner
  Handler = {h1}
  Worker = {w1, w2}
  MaxSession = 1
  MaxReplay = 1
PROPERTIES
  DispatchEnds
