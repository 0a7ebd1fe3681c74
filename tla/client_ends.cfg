\* With DispatcherEnds in place of EndingEnds: the other instance of the README.
CONSTANTS
  s = s  r1 = r1  r2 = r2  c = c  a = a
  Kind <- MCKind
  Tasks = {s, c}
  Methods = {}
  MaxEvents = 0
SPECIFICATION FairSpec
PROPERTIES
  EndingEnds
