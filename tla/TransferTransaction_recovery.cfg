\* One operation at a time, with crashes, lost requests and restarts.
CONSTANTS
  core = core
  watch = watch
  Order <- MCOrder
  Audited <- MCAudited
  Txn <- MCOne
  Selections <- MCBoth
  MaxTogether = 1
  Amid = FALSE
  MaxCrashes = 2
  MaxFaults = 1
  MaxWrites = 1
  MaxVisits = 2
SPECIFICATION FairSpec
INVARIANTS
  TypeOK
  AllOrNothing
PROPERTIES
  
  AppliedOnSeen
  EverythingSettles
