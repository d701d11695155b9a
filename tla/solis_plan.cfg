CONSTANTS
  PerDay = 4
  Days = 2
  Tariffs <- FewTariffs
  Sessions <- FewSessions
  Skews <- FewSkews
  MaxSlots = 2
  ChargeWindow <- AllDay
  NoDay = NoDay
SPECIFICATION Spec
INVARIANTS
  ChargesOnlyWanted
  CheapIsUsed
  NeverWraps
CHECK_DEADLOCK FALSE
