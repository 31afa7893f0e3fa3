SPECIFICATION Spec
CONSTANTS
  Tasks = {t1, t2, t3}
  NoTask = NoTask
  Hanging = {}
  NoData = NoData
  alice = alice
  atAlice = atAlice
  bob = bob
  bad = bad
  invalid = invalid
  Wildcard = Wildcard
  Names <- MCNames
  RawNames <- MCRawNames
  Normal <- MCNormal
  Invalid = invalid
  Payloads <- NamedTasks
SYMMETRY TaskSymmetry
CONSTRAINTS
  Plain
  NoErrors
INVARIANTS
  RunsExcludeEachOther
  KeyDiscipline
PROPERTIES
  SameTargetFIFO
CHECK_DEADLOCK FALSE
