SPECIFICATION MediaSpec
CONSTANTS
  a = a
  b = b
  Jobs = {a}
  MediaOf <- Films
  CallsOf <- MCCalls
  Resolving = {a}
  OldFiles <- NoFiles
  SlotOf <- OneSlot
  MaxTries = 2
  MaxFaults = 2
  MaxCrashes = 0
INVARIANT ReusedFilesAreOld
CHECK_DEADLOCK FALSE
