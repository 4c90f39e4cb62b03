SPECIFICATION Spec
CONSTANTS
  d1 = d1  d2 = d2  i = i  j = j  j1 = j1  j2 = j2  a = a  b = b
INVARIANT NextPollResolves
CHECK_DEADLOCK FALSE
