\* Three callers of one backend, two process identities in turn, three events.
CONSTANTS
  Caller = {c1, c2, c3}
  Proc = {p1, p2}
  None = None
  MaxEvents = 3
SPECIFICATION FairSpec
CHECK_DEADLOCK FALSE
INVARIANTS
  TypeOK
  OneProcess
  NotStoppedInUse
  NothingLeftRunning
PROPERTIES
  CallsEnd
