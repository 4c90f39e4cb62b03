SPECIFICATION Spec
CONSTANTS
  Jobs = {j1}
  Rules <- ThreeRules
  Quiet <- NoQuiet
  Horizon = 3
  LowWater = 2
  PruneAge = 1
  MaxAttempts = 2
  Copies = 1
  MaxTime = 2
  MaxCrashes = 1
  MaxFaults = 0
  MaxEdits = 1
INVARIANTS LedgerInv AttemptOnRecord
PROPERTIES PickedOnce
