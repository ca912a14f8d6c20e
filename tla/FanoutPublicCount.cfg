SPECIFICATION UninterruptedSpec
CONSTANTS
  LastStandard = 1
  LastEscalation = 2
  ana = ana
  bia = bia
  ana1 = ana1
  ana2 = ana2
  User <- MCUser
  Device = {ana1}
  Owner <- SoloOwner
  Handler = {h1, h2}
  Worker = {w1}
  MaxSession = 1
  MaxReplay = 0
INVARIANT PublicCountExact
