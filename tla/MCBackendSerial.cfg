SPECIFICATION Spec
CONSTANTS
  i1 = i1
  i2 = i2
  w1 = w1
  w2 = w2
  s1 = s1
  s2 = s2
  p1 = p1
  p2 = p2
  NoSample = NoSample
  NoProc = NoProc
  Instances = {i1}
  Workers = {w1}
  InstanceOf <- OneInstance
  Samples = {s1, s2}
  Procs = {p1}
  Windows = {5, 30}
  Observed = {30, 40}
  Elapsed <- MCElapsed
  SampleLists <- MCSampleLists
  Requests = {"auth", "ingest", "view", "finish", "sweep"}
  Faults = {"bigquery"}
INVARIANTS
  ServedInTurn
PROPERTIES
  ReadyIsKept
