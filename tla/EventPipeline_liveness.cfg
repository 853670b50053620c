\* Every mandate event gets out, whatever fails or crashes.
CONSTANTS
  m1 = m1
  q1 = q1
  x1 = x1
  w1 = w1
  w2 = w2
  MandateIds <- MCOneMandate
  Requirements <- MCNoReq
  MaxRevision = 1
  MaxEvents = 2
  Outside <- MCNoOutside
  Threads <- MCOneThread
  Limit = 2
  MaxTries = 2
  MaxFaults = 2
SPECIFICATION FairSpec
CHECK_DEADLOCK FALSE
PROPERTIES
  EveryEventSettles
