SPECIFICATION MCSpec
CONSTANTS
  Tenants = {acme, beta}
  SessionIds = {"device"}
  Usable = {"device"}
  MemoryTtl = 1
  Enabled = TRUE
  MaxClock = 2
  Shape <- MCShapes
  Capitalized <- MCCapitalized
  Completes <- MCCompletes
  Wild = {"%"}
  Questions <- MCQuestions
  Defaults <- MCDefaults
  Asks <- MCAsks
  Clients = {"client"}
  Threshold = 2
  MinCount = 2
  PoolCap = 2
  DayLen = 2
  MaxEvents = 3
  FeedbackKeys <- MCKeys
  Forms <- MCForms
  ReasonIds = {1}
  MaxClicks = 3
SYMMETRY MCTenants
INVARIANTS MemoryIsOwn CrowdFloor OneServedBatch LastWord
CHECK_DEADLOCK FALSE
