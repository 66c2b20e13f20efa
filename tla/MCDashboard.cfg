SPECIFICATION FairSpec
CONSTANTS
  fa = fa
  fb = fb
  none = none
  r1 = r1
  r2 = r2
  r3 = r3
  Files = {fa, fb}
  LastFrame <- ReplayFrames
  Phases <- ReplayPhases
  NoFile = none
  MaxChains = 2
  Panels <- ThreePanels
  PresetOf <- ThreePresets
  Pages <- TwoPages
  Catalog <- FiveMetrics
  Overlay <- FourOverlays
  Runs = {r1, r2, r3}
  MetricsOf <- MetricsOfRuns
  NoRun = none
  CompareFiles = {fa, fb}
  LastOf <- CompareFrames
  NoSamples = none
  MaxDraws = 2
  MaxRunaways = 1
INVARIANTS
  OnePlayback
  ReplayShowsItsFile
  DeckAgrees
  StudioAgrees
  ComparisonAgrees
PROPERTIES
  RefinesPlayback
  PlaybackEnds
  ChoiceKept
  LayersDiffer
  ComparisonIsPlayback
