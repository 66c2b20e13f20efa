SPECIFICATION FairSpec
CONSTANTS
  p1 = p1
  p2 = p2
  NoPid = NoPid
  Pids = {p1, p2}
  MaxIterations = 2
  Signals = TRUE
CHECK_DEADLOCK FALSE
INVARIANTS
  CallsAccountedFor
PROPERTIES
  SamplesReachBackend
  ImplementsFeed
  InfoPrecedesSamples
