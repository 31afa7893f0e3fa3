SPECIFICATION MediaSpec
CONSTANTS
  a = a
  b = b
  Jobs = {a, b}
  MediaOf <- Photos
  CallsOf <- MCCalls
  Resolving = {a, b}
  OldFiles <- NoFiles
  SlotOf <- OneSlot
  MaxTries = 2
  MaxFaults = 2
  MaxCrashes = 0
INVARIANT CollisionFree
CHECK_DEADLOCK FALSE
