CONSTANTS
  PerDay = 4
  Days = 2
  Tariffs <- FewTariffs
  Sessions <- LateSession
  Skews <- NoSkew
  MaxSlots = 2
  ChargeWindow <- AllDay
  NoDay = NoDay
SPECIFICATION Spec
INVARIANTS
  SessionsKeepTheirDay
CHECK_DEADLOCK FALSE
