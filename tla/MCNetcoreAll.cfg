SPECIFICATION Spec
CONSTANTS
  Options <- MCAllOptions
  MaxAddresses = 1
  Servers = 1
  MaxRotation = 2
  MaxEntries = 2
  Environment <- MCAllEnvironment
INVARIANTS
  NoTimeoutWhileKeptAlive
  RegisteredOnce
