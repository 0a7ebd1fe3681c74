CONSTANTS
  None = None
  s1 = s1  p1 = p1  i1 = i1  b1 = b1  b2 = b2  e1 = e1
  h1 = h1  f1 = f1  c1 = c1  x1 = x1  k1 = k1  m1 = m1
  Tasks = {b1, s1, c1}
  Kind <- MCKind
  MaxSwitches = 1
  MayRevoke = FALSE
SPECIFICATION FairSpec
PROPERTIES
  CloseCompletes
  SnapshotYields
  LostLeaseReleased
