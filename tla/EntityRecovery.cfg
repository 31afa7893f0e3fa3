SPECIFICATION Spec
CONSTANTS
  Owners = {a, b}
  Names <- AllNames
  LegacyNames <- OldNames
  NoRow = NoRow
  Empty = Empty
  Platforms <- Both
  NoStage = NoStage
  MaxStages = 2
  MaxOps = 3
  MaxFaults = 2
  MaxCrashes = 2
SYMMETRY Symmetry
CONSTRAINT
  Budget
INVARIANTS
  TypeOK
  OneRecordPerDirectory
PROPERTIES
  MediaKept
  RemovalsFinish
CHECK_DEADLOCK FALSE
