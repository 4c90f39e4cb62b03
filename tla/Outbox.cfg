SPECIFICATION Spec
CONSTANTS
  MaxAttempts = 3
  Cap = 2
  MaxItems = 2
  MaxParts = 2
  MaxCrashes = 0
  MaxLost = 0
  MaxFaults = 0
  MaxToggles = 0
INVARIANTS TypeOK TakenOnce
