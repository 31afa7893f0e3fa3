SPECIFICATION Spec
CONSTANTS
  Tasks = {t1, t2}
  NoTask = NoTask
  Hanging = {}
  NoData = NoData
  alice = alice
  atAlice = atAlice
  bob = bob
  bad = bad
  invalid = invalid
  Wildcard = Wildcard
  Names <- MCNames
  RawNames <- MCRawNames
  Normal <- MCNormal
  Invalid = invalid
  Payloads <- AliceTasks
CONSTRAINTS
  NoShutdown
INVARIANTS
  FinishedIsTerminal
CHECK_DEADLOCK FALSE
