CONSTANTS
  None = None
  s1 = s1  p1 = p1  i1 = i1  b1 = b1  b2 = b2  e1 = e1
  h1 = h1  f1 = f1  c1 = c1  x1 = x1  k1 = k1  m1 = m1
  Tasks = {i1, h1, f1, k1, x1}
  Kind <- MCKind
  MaxSwitches = 1
  MayRevoke = FALSE
SPECIFICATION Spec
INVARIANTS
  IdleCloseSparesReads
