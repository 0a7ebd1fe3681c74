CONSTANTS
  Items = {i1}
  Target = i1
  Jobs = {b1, w1}
  Bulk = {b1}
  Moves = {"toggle"}
  MaxRev = 2
  MaxFails = 1
  MaxTimeouts = 0
SPECIFICATION FairSpec
INVARIANTS
  GuardOwnership

  
