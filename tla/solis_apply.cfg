SPECIFICATION Spec
CONSTANTS
  NumSlots = 2
  Windows = {w1, w2}
  Off = Off
  MaxTries = 2
  Deadline = TRUE
SYMMETRY Symmetry
INVARIANTS
  ReportedIsProgrammed
  ForcedIsDelivered
PROPERTIES
  SwitchesAreIsolated
  ArmedOnlyAsPlanned
CHECK_DEADLOCK TRUE
