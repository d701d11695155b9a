CONSTANTS
  Opens = 3
  Closes = 24
SPECIFICATION VerdictSpec
PROPERTIES
  NoStaleVerdict
CHECK_DEADLOCK FALSE
