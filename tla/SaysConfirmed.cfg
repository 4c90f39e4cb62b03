SPECIFICATION Spec
CONSTANTS
  Jobs = {j1}
  Rules <- OneRule
  Quiet <- NoQuiet
  Horizon = 3
  LowWater = 2
  PruneAge = 9
  MaxAttempts = 1
  Copies = 1
  MaxTime = 1
  MaxCrashes = 1
  MaxFaults = 0
  MaxEdits = 0
PROPERTIES ConfirmedStaysSent
