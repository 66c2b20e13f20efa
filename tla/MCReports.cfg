SPECIFICATION FairSpec
CONSTANTS
  p1 = p1
  p2 = p2
  Procs = {p1, p2}
  Bare = {p2}
  Sizes = {85, 6014}
  Starts = {0, 3}
  Gaps = {1, 3}
  Origin = 1
  MaxLog = 4
  MinPeak = 5000
  MaxCheckpoints = 3
  Rows = 2
  Readings <- SixReadings
  MaxFrames = 5
  LoadIds = {1, 2, 3}
  LastState = 3
  Listed <- TwoListed
  ReadyOf <- TwoReady
  NoWindow = 0
CHECK_DEADLOCK FALSE
INVARIANTS
  EverySampleIsStored
  ChartsAgree
  SeriesAddUp
  PhasesTellTheRun
  PageFollowsRun
PROPERTIES
  ShowsTheEnd
