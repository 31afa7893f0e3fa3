SPECIFICATION Spec
CONSTANTS
  Publishers = {p1, p2}
  Server = Server
  Clients = {c1}
  Kinds <- TasksOnly
  NoEvent = NoEvent
  QueueLimit = 1
  ReplayLimit = 1
  Endings = {FALSE}
  MaxChanges = 2
  MaxSessions = 1
CONSTRAINTS
  NoShutdown
INVARIANTS
  ViewsAgree
CHECK_DEADLOCK FALSE
