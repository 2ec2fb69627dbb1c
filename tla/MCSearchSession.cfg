SPECIFICATION FairSpec
CONSTANTS
  r1 = r1
  r2 = r2
  r3 = r3
  Requests = {r1, r2, r3}
  Streamed = {r1}
  Sessions <- MCSessions
  Remembered <- MCRemembered
  Assignments <- MCAssignments
  MaxOpen = 2
  MaxFaults = 1
  MaxDeltas = 2
  Capacity = 1
  MaxTurns = 2
  InjectTurns = 1
INVARIANTS SessionsApart FollowUpSeesAnswer DoneIsStored NothingOfFailed EventGrammar
PROPERTIES OnlyServicesHold
CHECK_DEADLOCK FALSE
