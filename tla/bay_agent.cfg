SPECIFICATION FairSpec
CONSTANTS
  Bays = {b1}
  Views = {{"ok"}, {"fault"}, {"ident"}}
  ReassertEvery = 4
  Faults = {"rejected", "unsure", "nodevice"}
  MaxRestarts = 1
INVARIANTS
  NoLocateForgotten
PROPERTIES
  HealthyIsGreen
  FaultyBlinks
  LocateEnds
CHECK_DEADLOCK TRUE
