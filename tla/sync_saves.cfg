CONSTANTS
  Items = {i1, i2}
  Target = i1
  Jobs = {w1}
  Bulk = {}
  Moves = {"toggle", "lose", "find"}
  MaxRev = 3
  MaxFails = 1
  MaxTimeouts = 1
SPECIFICATION Spec
INVARIANTS
  GuardedCandidateFull
PROPERTIES
  ImplementsPromise
