CONSTANTS
  s = s  r1 = r1  r2 = r2  c = c  a = a
  Kind <- MCKind
  Tasks = {s, r1, a}
  Methods = {}
  MaxEvents = 0
SPECIFICATION Spec
INVARIANTS
  AnswersOwn
  RepliesReachCallers
  CrashReleasesCalls
PROPERTIES
  ImplementsTable
