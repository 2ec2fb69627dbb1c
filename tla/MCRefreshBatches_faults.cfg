SPECIFICATION Spec
CONSTANTS
  Workers = {w1, w2}
  ForceWorkers = {}
  Conns = {k1}
  Corpora <- Loaded
  EmptyCorpus = "empty"
  CorpusNext <- LoadedNext
  FirstIds <- LoadedIds
  PointsCount <- LoadedCount
  SampleCap = 2
  RetainN = 1
  MaxBatches = 3
  MaxDepth = 2
  Faults = {"count", "llm", "sql", "commit_lost", "retention", "conn_loss", "unlock", "crash", "panic"}
  None = None
INVARIANTS AtMostOneActive ActivePoolComplete BuildUndisturbed
