SPECIFICATION FairSpec
CONSTANTS
  MaxAttempts = 3
  Cap = 1
  MaxItems = 2
  MaxParts = 1
  MaxCrashes = 1
  MaxLost = 1
  MaxFaults = 1
  MaxToggles = 1
INVARIANTS SendingIsSent TriesBounded
PROPERTIES Settles
