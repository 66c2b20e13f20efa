SPECIFICATION FairSpec
CONSTANTS
  MaxSamples = 2
  Jobs <- AnyJob
CHECK_DEADLOCK FALSE
INVARIANTS
  CleanupsExclude
  ArtifactsAgree
  LogIsFoundAndKept
  LocalRunsStayLocal
PROPERTIES
  RunGetsFinished
