SPECIFICATION Spec
CONSTANTS
  Ids = {a, b}
  Versions = {v1, v2}
  a = a
  b = b
  v1 = v1
  v2 = v2
  Files <- AllFiles
  FirstFiles <- FirstAny
  Bad = Bad
  Clients = {c1, c2}
  NoEntry = NoEntry
  MaxLaunches = 3
SYMMETRY ClientSymmetry
INVARIANTS
  TypeOK
  ExecutionDiscipline
  LifecycleKept
PROPERTIES
  EntriesServed
CHECK_DEADLOCK FALSE
