SPECIFICATION Spec
CONSTANTS
  Tasks = {t1, t2}
  NoTask = NoTask
  Hanging = {}
  NoData = NoData
  alice = alice
  atAlice = atAlice
  bob = bob
  bad = bad
  invalid = invalid
  Wildcard = Wildcard
  Names <- MCNames
  RawNames <- MCRawNames
  Normal <- MCNormal
  Invalid = invalid
  Payloads <- MixedTasks
SYMMETRY TaskSymmetry
CONSTRAINTS
  FewWakeups
  NoLateDeletion
INVARIANTS
  TypeOK
  TasksAreKept
  DrainedIsQuiet
PROPERTIES
  OutcomeIsFinal
  KeepsPromise
CHECK_DEADLOCK FALSE
