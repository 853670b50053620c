\* The whole job queue: two jobs, two threads, three attempts.
SPECIFICATION FairSpec
CONSTANTS
    j1 = j1
    j2 = j2
    m1 = m1
    m2 = m2
    w1 = w1
    w2 = w2
    Jobs <- MCJobs
    Mandates <- MCMandates
    MandateOf <- MCMandateOf
    Threads <- MCThreads
    MaxAttempts = 3
    LeaseUnits = 2
    RetryUnits = 1
    ClaimLimit = 2
INVARIANTS
  OneResultFromLatestClaim
PROPERTIES
  ImplementsContract
  EveryJobSettles
