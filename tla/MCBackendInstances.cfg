SPECIFICATION Spec
CONSTANTS
  i1 = i1
  i2 = i2
  w1 = w1
  w2 = w2
  s1 = s1
  s2 = s2
  p1 = p1
  p2 = p2
  NoSample = NoSample
  NoProc = NoProc
  Instances = {i1, i2}
  Workers = {w1, w2}
  InstanceOf <- TwoInstances
  Samples = {s1}
  Procs = {p1, p2}
  Windows = {}
  Observed = {}
  Elapsed <- MCElapsed
  SampleLists <- MCSampleLists
  Requests = {"ingest", "finish", "sweep"}
  Faults = {"firestore", "restart"}
INVARIANTS
  UpdatesKept
  ExpiryFollowsFinish
