CONSTANTS
  Keys = {k1, k2}
  MaxAlerts = 2
  MaxPending = 4
  MaxHistory = 2
  MaxCrashes = 0
SPECIFICATION TagSpec
INVARIANT RetryReplacesNotice
