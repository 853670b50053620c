\* Two messages of a person, two jobs, a budget of one wake.
CONSTANTS
  UserMsg = {u1, u2}
  Job = {j1, j2}
  Msg = {u1, u2, j1, j2}
  MaxActive = 2
  MaxWakes = 1
  MaxEvents = 2
SPECIFICATION FairSpec
CHECK_DEADLOCK FALSE
INVARIANTS
  EachMessageOnce
  IdleHasNoWork
PROPERTIES
  ToldOnce
  TeardownIsSilent
  InboxIsServed
  DisposalEnds
