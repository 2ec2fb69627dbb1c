SPECIFICATION Spec
CONSTANTS
  Anchors <- MCAnchors
  Entries <- MCEntries
  Text <- MCText
  Options <- MCOptions
  MaxRuns = 2
  MaxFaults = 2
  MaxFrames = 3
INVARIANTS CrawlBounds ReportTrue OverlapCovers
CHECK_DEADLOCK FALSE
