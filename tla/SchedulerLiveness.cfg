SPECIFICATION FairSpec
CONSTANTS
  Ids = {a, b}
  Versions = {v1, v2}
  a = a
  b = b
  v1 = v1
  v2 = v2
  Files <- MovedFiles
  FirstFiles <- FirstAlone
  Bad = Bad
  Clients = {}
  NoEntry = NoEntry
  MaxLaunches = 2
PROPERTIES
  CallersReturn
CHECK_DEADLOCK FALSE
