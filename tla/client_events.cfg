CONSTANTS
  s = s  r1 = r1  r2 = r2  c = c  a = a
  Kind <- MCKind
  Tasks = {s}
  Methods <- MCMethods
  MaxEvents = 3
SPECIFICATION Spec
INVARIANTS
  EventsInOrder
  EventsKept
