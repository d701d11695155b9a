SPECIFICATION SteadySpec
CONSTANTS
  Bays = {b1}
  Views = {{"ok", "fault", "ident"}}
  ReassertEvery = 4
  Faults = {"rejected"}
  MaxRestarts = 0
INVARIANT ErrorsAreRetried
CHECK_DEADLOCK FALSE
