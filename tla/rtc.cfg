SPECIFICATION FairSpec
CONSTANTS
  Requests = {r1, r2}
  Keys = {k1, k2}
  Cameras = {c1}
  Users = {u1, u2}
  Offers = {o1, o2}
  MaxSessions = 1
  NoRequest = NoRequest
INVARIANTS
  Capacity
  NoOrphanStream
  StoppedForGood
PROPERTIES
  AnswersAreLive
  DirectivesEnd
  SessionsEnd
CHECK_DEADLOCK FALSE
