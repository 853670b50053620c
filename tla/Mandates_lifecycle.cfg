\* Concurrent commands, repeated by their clients, on one mandate.
CONSTANTS
  m1 = m1
  q1 = q1
  q2 = q2
  MandateIds <- MCOne
  Requirements <- MCReqs
  MaxRevision = 3
  MaxEvents = 6
  Keys <- MCKeys
  Bodies <- MCBodies
SPECIFICATION CSpec
SYMMETRY MCReqSymmetry
CHECK_DEADLOCK FALSE
INVARIANTS
  CommandsTypeOK
  WaitsForSomething
  OutboxTellsTheMandate
PROPERTIES
  
  AnsweredNeverActs
