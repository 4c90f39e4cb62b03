SPECIFICATION Spec
CONSTANTS
  d1 = d1  d2 = d2  i = i  j = j  j1 = j1  j2 = j2  a = a  b = b
INVARIANTS DevicesInv Agreed PhonePaysOnce
PROPERTIES RemovedByDeletion PairingEnds PaidAndReported
CHECK_DEADLOCK FALSE
