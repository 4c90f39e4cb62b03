SPECIFICATION Spec
CONSTANTS
  Jobs = {j1}
  Rules <- OneRule
  Quiet <- NoQuiet
  Horizon = 3
  LowWater = 2
  PruneAge = 1
  MaxAttempts = 2
  Copies = 2
  MaxTime = 2
  MaxCrashes = 2
  MaxFaults = 0
  MaxEdits = 0
INVARIANTS TypeOK CopiesBounded NeverOvercounts
PROPERTIES ProvenNotResent
