SPECIFICATION Spec
CONSTANTS
  Options <- MCOptions
  MaxAddresses = 2
  Servers = 2
  MaxRotation = 2
  MaxEntries = 2
  Environment <- MCEnvironment
INVARIANTS
  TypeOK
  OneOutcome
  IdleIsForgotten
  NeverStranded
  RegisteredOnce
  WatchesItsDirection
PROPERTY EveryTransactionEnds
