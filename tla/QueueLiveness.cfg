SPECIFICATION FairSpec
CONSTANTS
  Tasks = {t1, t2}
  NoTask = NoTask
  Hanging = {t1}
  NoData = NoData
  alice = alice
  atAlice = atAlice
  bob = bob
  bad = bad
  invalid = invalid
  Wildcard = Wildcard
  Names <- MCNames
  RawNames <- MCRawNames
  Normal <- MCNormal
  Invalid = invalid
  Payloads <- TwoAccounts
CONSTRAINTS
  Plain
PROPERTIES
  QueuedIsServed
  CancelledIsLeft
CHECK_DEADLOCK FALSE
