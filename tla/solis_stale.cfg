SPECIFICATION StaleSpec
CONSTANTS
  NumSlots = 2
  Windows = {w1, w2, w3}
  Off = Off
  MaxTries = 1
  Deadline = FALSE
INVARIANT NoStaleBesideNew
CHECK_DEADLOCK FALSE
