SPECIFICATION MCSpec
CONSTANTS
  q1 = "q1"
  MaxCount = 5
  Queries = {"q1", "q2"}
  Searches = {s1}
  Flushers = {f1, f2}
  MaxDay = 2
  WeekLen = 2
  DailyTtl = 1
  WeeklyTtl = 2
  TopLimit = 1
  Threshold = 2
  MaxScore = 3
  MaxFaults = 1
INVARIANTS RowsBacked WindowKeptWhole
PROPERTIES DailyMirrored
CHECK_DEADLOCK FALSE
