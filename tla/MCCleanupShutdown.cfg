SPECIFICATION FairSpec
CONSTANTS
  MaxSamples = 2
  Jobs <- QuietJob
CHECK_DEADLOCK FALSE
PROPERTIES
  MonitorShutsDown
