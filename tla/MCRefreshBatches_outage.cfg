SPECIFICATION Spec
CONSTANTS
  Workers = {w1, w2}
  ForceWorkers = {w2}
  Conns = {k1}
  Corpora <- Loaded
  EmptyCorpus = "empty"
  CorpusNext <- LoadedNext
  FirstIds <- LoadedIds
  PointsCount <- LoadedCount
  SampleCap = 1
  RetainN = 3
  MaxBatches = 3
  MaxDepth = 2
  Faults = {"retention"}
  None = None
PROPERTIES NoOutage
