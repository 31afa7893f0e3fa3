SPECIFICATION PartsSpec
CONSTANTS
  Parts = {"batch"}
  Away = Away
  g1 = g1
  g2 = g2
  u1 = u1
  u2 = u2
  u3 = u3
  l1 = l1
  i1 = i1
  a1 = a1
  Users = {u1, u2, u3}
  Lists = {l1}
  MembersOf <- MCMembers
  Requested <- MCThird
  Invisible = {}
  Priority = {u2}
  Media <- MCTweets
  MediaCount <- MCCount
  Exist <- MCExist
  PageSize = 2
  DepthLimit = 3
  Workers = {g1, g2}
  PoolSize = 2
  MaxFetchRetries = 1
  Upsets = {"cancel", "panic"}
  MaxBlocks = 1
  Requests = {g1, g2, r3}
  Additional = {}
  Master = m
  OfProtected = {}
  Windows = {1}
  NoHeaders = NoHeaders
  NoResponse = NoResponse
  MaxRetries = 1
  Runs = {g1, g2}
  RegularItems = {i1}
  JsonItems = {j1, j2}
  NoURLs = {j2}
  Account <- MCAccount
  Accidents = {"batch", "overlap", "crash", "disk", "clear"}
  Jobs = {g1, g2}
  MediaOf <- MCMedia
  OldFiles <- MCOld
  CallsOf <- MCCalls
  Resolving <- MCAll
  SlotOf <- MCSlots
  MaxTries = 2
  MaxFaults = 2
  MaxCrashes = 1
  ProfileWorkers = {g1, g2}
  Profiles = {1, 2, 3}
  Mishaps = {"panic", "nospace", "cancel"}
  Contents = {1, 2}
  VersionLimit = 2
  MaxClock = 2
  MaxUpdates = 4
  Spoilers = {"copy", "write", "size", "remove", "crash", "back"}
  Bots = {b1}
  Handlers = {stop}
  StopCall = stop
  Hitches = {"port", "deadline", "startdrain"}
  Outputs = {g1, g2}
  Viewers = {v1}
  Stoppers = {s1, s2}
  ClosingCalls = {s1}
  RingLimit = 2
  ViewerBuffer = 1
  MaxPrinted = 3
  PipeSize = 1
  Savers = {g1, g2}
  EnvEdit = 9
  BackupLimit = 2
  MaxSaves = 3
  Troubles = {"backup", "write", "reload", "crash", "clockback"}
  Rows = {"r1", "r2"}
  TableOf <- MCTables
  BackupNames <- MCBackups
  MaxStarts = 3
  MaxFailures = 2
  BotTasks = {t1}
  Changers = {g1, g2}
  ChatBots = {"telegram"}
  PushBots = {"gotify"}
  NoCopy = NoCopy
  NoteLimit = 1
  Publishers = {p1}
  Server = Server
  Clients = {c1}
  Kinds <- BothKinds
  NoEvent = NoEvent
  QueueLimit = 1
  ReplayLimit = 1
  Endings = {TRUE, FALSE}
  MaxChanges = 2
  MaxSessions = 2
SYMMETRY Goroutines
CONSTRAINTS
  OneTrouble
INVARIANT EveryUserOnce
CHECK_DEADLOCK FALSE
