SPECIFICATION FairSpec
CONSTANTS
  Jobs = {j1}
  Rules <- TwoRules
  Quiet <- NoQuiet
  Horizon = 3
  LowWater = 2
  PruneAge = 1
  MaxAttempts = 1
  Copies = 1
  MaxTime = 2
  MaxCrashes = 1
  MaxFaults = 1
  MaxEdits = 0
PROPERTIES DueIsServed RunsEnd
