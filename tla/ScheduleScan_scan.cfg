\* Two ticks at once, revisions, pauses and crashes.
CONSTANTS
  t1 = t1
  t2 = t2
  Threads <- MCThreads
  Fires <- MCSparse
  Catchup = 1
  PerScan = 2
  MaxNow = 4
  MaxRev = 2
  MaxPauses = 1
  MaxAborts = 1
SPECIFICATION FairSpec
CHECK_DEADLOCK FALSE
INVARIANTS
  PassedIsAccounted
  SkippedIsCounted
PROPERTIES
  DueIsWorkedOff
