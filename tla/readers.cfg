SPECIFICATION Spec
CONSTANTS
  Pairs = {p, q}
  Malformed = Malformed
  Overflow = Overflow
  MaxPairs = 1
  Batch = 2
  MaxBatches = 2
  MaxRecords = 3
  MaxStarts = 2
  PerDay = 6
  Days = 2
  Horizon = 3
  Changeover = 7
  Tariffs <- OnePrice
  Nothing = Nothing
  Opens = 3
  Closes = 16
  BayNames = {b1, b2}
  Values = {v1, v2}
  Missing = Missing
  Buffer = 2
  Wire = 1
INVARIANTS CountedOnce ShownAndCapped BriefingIsRight LabelsDiffer DeadIsRewritten ViewConverges
CHECK_DEADLOCK FALSE
