SPECIFICATION Spec
CONSTANTS
  r1 = r1  r2 = r2  j1 = j1  j2 = j2  day = day  None = None
  Requests = {r1}  Sends = {r1}  Callers = 1  MaxToggles = 1  MaxExits = 1  MaxFaults = 0
  Jobs = {j1}  Rules <- TwoRules  Days = {day}  Depth = 1  MaxTime = 2  MaxEdits = 2
  MaxAdopts = 1  MaxRestarts = 0  Horizon = 3  LowWater = 2
  MaxChanges = 1  MaxMoves = 2  MaxFailed = 1
INVARIANTS DesktopInv KnownIsCurrent NothingLost
PROPERTIES UndoLeadsBack RequestsSettle
CHECK_DEADLOCK FALSE
