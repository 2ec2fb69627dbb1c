SPECIFICATION FairSpec
CONSTANTS
  Records <- FourRecords
  RequestId <- RetriedRequest
  Capacity = 2
  BatchCap = 2
  Faults = {"sql", "commit_lost", "drop"}
INVARIANTS Conserved OrderKept FirstAnswerKept
PROPERTIES RecordsEnd
CHECK_DEADLOCK FALSE
