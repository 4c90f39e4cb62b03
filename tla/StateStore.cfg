SPECIFICATION FairSpec
CONSTANTS
  MaxRounds = 3
  MaxEdits = 2
  MaxHides = 1
  MaxFaults = 2
INVARIANTS TypeOK QuitKeepsHanded
PROPERTIES KeepsItsPromise SavedOrSaid SlotIsServed
CHECK_DEADLOCK FALSE
