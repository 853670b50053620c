\* A backup is made while an import is being applied.
CONSTANTS
  core = core
  watch = watch
  Order <- MCOrder
  Audited <- MCAudited
  Txn <- MCOne
  Selections <- MCBoth
  MaxTogether = 2
  Amid = FALSE
  MaxCrashes = 0
  MaxFaults = 0
  MaxWrites = 0
  MaxVisits = 2
SPECIFICATION Spec
INVARIANTS
  AllOrNothing
