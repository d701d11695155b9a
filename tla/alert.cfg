CONSTANTS
  Keys = {k1, k2}
  MaxAlerts = 1
  MaxPending = 2
  MaxHistory = 1
  MaxCrashes = 1
SPECIFICATION FairSpec
INVARIANTS
  Durable
  StateFileLoads
  NoFalseRecovery
  FiringToldFirst
  RefusedCanDrain
PROPERTIES
  OnlineIsDurable
  DeliversAtLeastOnce
  IncidentTold
  RecoveryTold
