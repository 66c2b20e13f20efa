SPECIFICATION ExportSpec
CONSTANTS
  i1 = i1
  i2 = i2
  w1 = w1
  w2 = w2
  w3 = w3
  s1 = s1
  s2 = s2
  p1 = p1
  Instances = {i1, i2}
  Workers = {w1, w2, w3}
  InstanceOf <- MCInstanceOf
  Samples = {s1, s2}
  Procs = {p1}
  SampleLists <- MCSampleLists
INVARIANTS
  OneExportPerInstance
  MarkIsAccountedFor
PROPERTIES
  SamplesInsertedOncePerCall
  ImplementsExportMark
