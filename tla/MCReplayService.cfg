SPECIFICATION MCSpec
CONSTANTS
  Conn = {c1, c2}
  None = None
  At <- MCAt
  AtConnect = 3
  Rates = {1, 2}
  Targets = {1, 2}
  MaxElapsed = 2
  MaxControls = 3
  Swarm = {"s1", "s2"}
  Event = {"e1", "e2", "e3", "e4", "e5"}
  Nothing = Nothing
  Info <- MCInfo
  Batches <- MCBatches
  MaxPosts = 3
INVARIANTS
  PlaybackExact
  NothingSkipped
  CountersTrue
  EndIsAnEvents
PROPERTIES
  PlaybackStops
CHECK_DEADLOCK FALSE
