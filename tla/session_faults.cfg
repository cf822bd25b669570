SPECIFICATION FairSpec
CONSTANTS
  CommandLines <- AllLines
  Devices <- MCDevices
  Targets <- MCTargets
  FuseBytes <- MCFuseBytes
  LossyBus = TRUE
  MaxLost = 3
  MaxLate = 2
INVARIANTS TypeOK SignatureGate TargetReleased FirstCheckAccepts DocumentedEffects
PROPERTY Ends
CHECK_DEADLOCK FALSE
