\* Two ticks at once, one outside event, one fault.
CONSTANTS
  m1 = m1
  q1 = q1
  x1 = x1
  w1 = w1
  w2 = w2
  MandateIds <- MCOneMandate
  Requirements <- MCReq
  MaxRevision = 2
  MaxEvents = 2
  Outside <- MCOneOutside
  Threads <- MCThreads
  Limit = 1
  MaxTries = 2
  MaxFaults = 1
SPECIFICATION Spec
SYMMETRY MCSymmetry
CHECK_DEADLOCK FALSE
INVARIANTS
  PipelineTypeOK
  WatchersAreServed
PROPERTIES
  EachJobOnce
