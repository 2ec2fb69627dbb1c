SPECIFICATION Spec
CONSTANTS
  Anchors <- MCAnchors
  Entries <- MCEntries
  Text <- MCText
  Options <- MCDefaults
  MaxRuns = 2
  MaxFaults = 2
  MaxFrames = 3
INVARIANTS ContinuityPreserved
CHECK_DEADLOCK FALSE
