SPECIFICATION FairParts
CONSTANTS
  Parts = {"batch", "limiter", "media", "profiles", "server", "log", "bus"}
  Away = Away
  g1 = g1
  g2 = g2
  u1 = u1
  u2 = u2
  u3 = u3
  l1 = l1
  i1 = i1
  a1 = a1
  Users = {u1, u2}
  Lists = {l1}
  MembersOf <- MCMembers
  Requested <- MCFirst
  Invisible = {}
  Priority = {u2}
  Media <- MCOneTweet
  MediaCount <- MCCount
  Exist <- MCExist
  PageSize = 2
  DepthLimit = 3
  Workers = {g1}
  PoolSize = 1
  MaxFetchRetries = 1
  Upsets = {"noclient", "nospace", "list"}
  MaxBlocks = 0
  Requests = {g1, g2}
  Additional = {c1}
  Master = m
  OfProtected = {g2}
  Windows = {0}
  NoHeaders = NoHeaders
  NoResponse = NoResponse
  MaxRetries = 0
  Runs = {g1, g2}
  RegularItems = {i1}
  JsonItems = {j1, j2}
  NoURLs = {j2}
  Account <- MCAccount
  Accidents = {"batch", "overlap", "crash", "disk", "clear"}
  Jobs = {g1, g2}
  MediaOf <- MCStill
  OldFiles <- MCOld
  CallsOf <- MCCalls
  Resolving <- MCAll
  SlotOf <- MCSlots
  MaxTries = 2
  MaxFaults = 1
  MaxCrashes = 0
  ProfileWorkers = {g1, g2}
  Profiles = {1, 2}
  Mishaps = {"panic", "nospace", "cancel"}
  Contents = {1, 2}
  VersionLimit = 2
  MaxClock = 2
  MaxUpdates = 4
  Spoilers = {"copy", "write", "size", "remove", "crash", "back"}
  Bots = {b1}
  Handlers = {stop}
  StopCall = stop
  Hitches = {"port"}
  Outputs = {g1}
  Viewers = {v1}
  Stoppers = {s1, s2}
  ClosingCalls = {s1}
  RingLimit = 2
  ViewerBuffer = 1
  MaxPrinted = 2
  PipeSize = 1
  Savers = {g1, g2}
  EnvEdit = 9
  BackupLimit = 2
  MaxSaves = 3
  Troubles = {"backup", "write", "reload", "crash", "clockback"}
  Rows = {"r1", "r2"}
  TableOf <- MCTables
  BackupNames <- MCBackups
  MaxStarts = 3
  MaxFailures = 3
  BotTasks = {t1}
  Changers = {g1, g2}
  ChatBots = {"telegram"}
  PushBots = {"gotify"}
  NoCopy = NoCopy
  NoteLimit = 1
  Publishers = {p1}
  Server = Server
  Clients = {c1}
  Kinds <- TasksOnly
  NoEvent = NoEvent
  QueueLimit = 1
  ReplayLimit = 1
  Endings = {TRUE}
  MaxChanges = 1
  MaxSessions = 1
CONSTRAINTS
  FirmLinks
INVARIANTS
  StreamsAreServed
PROPERTIES
  BatchReturns
  RequestsAnswered
  MediaSettled
  ProfilesEnd
  ServerExits
  LogStreamsEnd
  BusGoroutinesEnd
CHECK_DEADLOCK FALSE
