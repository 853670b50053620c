\* Starts one after the other; crashes and takeovers.
CONSTANTS
  p1 = p1
  p2 = p2
  p3 = p3
  Pids <- MCPids
  Concurrent = 1
  Reuse = FALSE
  MaxCrashes = 3
SPECIFICATION LockFairSpec

  
  
PROPERTIES
  LeftoverIsRecovered
