CONSTANTS
  a = a
  b = b
  Cols = {a, b}
  Databases <- MCDatabases
SPECIFICATION Spec
INVARIANT TypeOK
INVARIANT NoReadAfterAbort
INVARIANT AbsentFactsAreWarned
INVARIANT UniqueIsReal
PROPERTY PullEnds
