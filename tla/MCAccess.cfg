SPECIFICATION Spec
CONSTANTS
  Replicas = {r1}
  Tenants <- MCTenants
  Layers <- MCLayers
  Files <- MCFiles
  MaxStarts = 1
  Users = {"ann", "bob"}
  SeedAdmin <- MCSeedAdmin
  Public = "public"
  ValidTenants = {"public", "acme"}
  Callers = {c1, c2}
  Ips = {"ip"}
  Ops <- MCOps
  Issued <- MCIssued
  Ttl = 1
  Leeway = 0
  RequestTimeout = 1
  LoginBurst = 1
  MaxTokens = 2
  MaxClock = 3
INVARIANTS OneTierPerReplica DisabledRunsOut
PROPERTIES LockedOutStays
SYMMETRY Symmetry
CHECK_DEADLOCK FALSE
