SPECIFICATION Spec
CONSTANTS
  Ids = {a, b}
  Versions = {v1, v2}
  a = a
  b = b
  v1 = v1
  v2 = v2
  Files <- OneEntryFiles
  FirstFiles <- FirstBad
  Bad = Bad
  Clients = {}
  NoEntry = NoEntry
  MaxLaunches = 2
INVARIANTS
  NothingLeftRunning
CHECK_DEADLOCK FALSE
