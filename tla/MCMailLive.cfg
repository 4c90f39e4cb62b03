SPECIFICATION LiveSpec
CONSTANTS
  m1 = m1  m2 = m2  s1 = s1  s2 = s2  s3 = s3  w1 = w1  w2 = w2
  acc1 = acc1  acc2 = acc2  t1 = t1  t2 = t2  None = None
  Watchers = {w1, w2}  Slots = {s1, s2}  Rungs = 2  MaxActs = 2  MaxFaults = 1
  MaxVersions = 2  MaxPresses = 2  MaxLeaves = 0  Cap = 1
PROPERTIES ListedInTheEnd PushComesBack SettlesInTheEnd
CHECK_DEADLOCK FALSE
