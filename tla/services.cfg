SPECIFICATION FairSpec
CONSTANTS
  Entities = {a, b}
  MaxEvents = 3
  MaxSnapshots = 2
  MaxCrashes = 1
  NumSensors = 2
  Expire = 3
  Servers = {s1, s2}
  Levels = {20, 60}
  MinSamples = 1
  Window = 2
  MaxListed = 1
  MaxEpisodes = 2
  MaxReboots = 2
INVARIANTS ListedIsStored CapturedOnce OpenIsActive CycleIsShown
PROPERTIES EventIsListed FailsClosed Settles EpisodesEnd
CHECK_DEADLOCK FALSE
