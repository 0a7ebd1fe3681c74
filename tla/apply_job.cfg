CONSTANTS
  NRoles = 2
  NSteps = 2
  ShortRetries = 1
  MaxRecoveries = 1
  MaxAttempts = 2
  MayLag = FALSE
  MaxRuns = 2
SPECIFICATION Spec
INVARIANTS
  TakenOnce
  PartialIsMarked
  

  
