\* Four policies, a command that may revise, pause or snooze, quiet hours, one
\* evaluation at a time.
CONSTANTS
  w1 = w1
  Policies <- MCPolicies
  Verdicts <- MCVerdicts
  QuietTimes <- MCQuiet
  Threads <- MCOneThread
  MaxJobs = 3
  MaxTime = 2
  MaxCommands = 1
SPECIFICATION Spec
CHECK_DEADLOCK FALSE
INVARIANTS
  
  CooldownKept
