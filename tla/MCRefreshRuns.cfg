SPECIFICATION MCSpec
CONSTANTS
  k1 = k1
  Workers = {w1, w2}
  ForceWorkers = {w2}
  Conns = {k1, k2}
  Corpora <- Growing
  EmptyCorpus = "empty"
  CorpusNext <- GrowingNext
  FirstIds <- GrowingIds
  PointsCount <- GrowingCount
  SampleCap = 1
  RetainN = 1
  MaxBatches = 3
  MaxDepth = 2
  Faults = {"llm", "count", "sql", "unlock", "crash", "panic"}
  None = None
INVARIANTS OneRunInside
PROPERTIES PoolSpec RunEnds CatchesUp
