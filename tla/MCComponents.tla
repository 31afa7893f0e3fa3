---------------------------- MODULE MCComponents ----------------------------
(***************************************************************************)
(* The components that share no state with each other, for TLC: a          *)
(* behaviour is one of a single component, which part names, and the       *)
(* others stand still.  One run checks the safety properties of them all,  *)
(* another one the liveness.                                               *)
(*                                                                         *)
(* To keep states small a component that stands still is Away: its         *)
(* variables have no value of theirs; only the rate limiter and the files  *)
(* stay as they begin.  The goroutines and requests that are               *)
(* interchangeable are g1 and g2 everywhere.                               *)
(***************************************************************************)
EXTENDS BatchDownload, RateLimiter, ErrorLedger, MediaFiles, ProfileRun, ProfileFiles,
        ServerLifecycle, LogHub, ConfigFiles, SchemaMigration, BotNotifications, EventBus, TLC

CONSTANTS
  Parts,           \* the components of the run
  Away,
  g1, g2,
  u1, u2, u3, l1,  \* users and a list
  i1, a1           \* a failed tweet and its account

VARIABLE part

-----------------------------------------------------------------------------
(* Values of the constants.                                                *)

\* The first two users are members of the list; one of them has a tweet that is already known,
\* the other one two new ones.
MCMembers  == l1 :> <<u1, u2>>
MCFirst    == <<u1>>
MCThird    == <<u3>>
MCTweets   == [u \in Users |-> IF u = u2 THEN 2 ELSE 1]
MCOneTweet == [u \in Users |-> 1]
MCCount    == [u \in Users |-> IF u = u3 THEN 9 ELSE 2]
MCExist    == [u \in Users |-> IF u = u1 THEN 1 ELSE 0]

MCAccount  == i1 :> a1

\* One tweet in two imports and in one retry of what is left: two videos, the first of which an
\* earlier release stored as "L", and a photo.
Video   == [id |-> "c", base |-> "B", legacy |-> <<"B", "L">>, differs |-> TRUE]
Second  == [id |-> "d", base |-> "B", legacy |-> <<"B", "L">>, differs |-> TRUE]
Photo   == [id |-> "a", base |-> "A", legacy |-> <<"A">>, differs |-> FALSE]
MCMedia == [j \in {g1, g2} |-> <<Video, Second, Photo>>]
MCStill == [j \in {g1, g2} |-> <<Video, Photo>>]
MCCalls == [j \in {g1, g2} |-> <<j, "retry">>]
MCAll   == {g1, g2, "retry"}
MCOld   == <<"L", 1>> :> "c"
MCSlots == [b \in {"A", "B", "L"} |-> "slot"]

MCTables  == "r1" :> "users" @@ "r2" :> "lsts"
MCBackups == <<"backup.1", "backup.2", "backup.3">>

BothKinds == {"tasks", "schedules"}
TasksOnly == {"tasks"}

Goroutines == Permutations({g1, g2})

-----------------------------------------------------------------------------
(* Constraints.                                                            *)

\* A batch has one trouble: a fetch is held up or repeated, the batch is cancelled, or a user has
\* a second tweet under way.  One accident, hitch, trouble;
\* the shutdown gives up waiting for one phase at most.
OneTrouble ==
  /\ part = "batch"  => blocks + fetchTries[u1] + fetchTries[u2] + (IF Live THEN 0 ELSE 1)
                           + (IF sent[u2] = 2 THEN 1 ELSE 0) <= 1
  /\ part = "ledger" => Cardinality(accidents) <= 1
  /\ part = "server" => Cardinality(hitches) <= 1 /\ Cardinality(shutdown.timedOut) <= 1
  /\ part = "config" => Cardinality(troubles) <= 1

\* A client connects again only when its last stream is gone.
OneStream == \A s \in Sessions : s[2] < used[s[1]] => handler[s].at = "gone" /\ sub[s].run = "ended"

\* Nobody shuts the bus down; there are two changes, with notifications if they are of tasks
\* only, and after the second one no stream overlaps with another of its client.
QuietBus ==
  part = "bus" =>
    /\ pub[Server].at = "idle"
    /\ version["tasks"] + version["schedules"] <= 2
    /\ notes = {} \/ version["schedules"] = 0
    /\ OneStream \/ version["tasks"] + version["schedules"] <= 1

\* With a shutdown of the bus: no connection breaks from then on, and handlers have noticed the
\* earlier ones.
FirmLinks ==
  part = "bus" => \A s \in Sessions :
                    handler[s].at = "open" /\ ~Linked(s) => pub[Server].at = "idle"

-----------------------------------------------------------------------------
(* The components side by side.                                            *)

BatchAway ==
  /\ cause = Away /\ caller = Away /\ collected = Away /\ packaged = Away /\ syncState = Away
  /\ heap = Away /\ round = Away /\ prod = Away /\ fetchTries = Away /\ retryUsers = Away
  /\ blocks = Away /\ sent = Away /\ advanced = Away /\ tweetCh = Away /\ tweetClosed = Away
  /\ errCh = Away /\ errClosed = Away /\ worker = Away /\ saved = Away /\ fails = Away
  /\ usersDone = Away /\ completed = Away /\ lost = Away /\ openTweets = Away /\ totalUsers = Away /\ panics = Away

LedgerAway ==
  /\ ledgerFile = Away /\ ledgerRun = Away /\ handedOver = Away /\ settled = Away
  /\ recorded = Away /\ deleted = Away /\ accidents = Away

ProfilesAway ==
  /\ requests = Away /\ results = Away /\ fetcher = Away /\ profileCtx = Away /\ counts = Away
  /\ reported = Away /\ verdict = Away /\ mishaps = Away

ServerAway ==
  /\ main = Away /\ lifecycle = Away /\ startupDone = Away /\ http = Away /\ serving = Away
  /\ starter = Away /\ botState = Away /\ stopCaller = Away /\ shutdown = Away
  /\ deadline = Away /\ signals = Away /\ hitches = Away

LogAway ==
  /\ ring = Away /\ viewerSet = Away /\ viewer = Away /\ adder = Away /\ pipes = Away
  /\ capture = Away /\ starting = Away /\ stopper = Away /\ printed = Away /\ stored = Away

MigrationAway ==
  /\ disk = Away /\ forms = Away /\ start = Away /\ backup = Away /\ suffix = Away
  /\ starts = Away /\ failures = Away /\ parted = Away

BotsAway ==
  /\ table = Away /\ changes = Away /\ command = Away /\ posting = Away /\ feed = Away
  /\ loop = Away /\ marks = Away /\ told = Away /\ newest = Away /\ late = Away

BusAway ==
  /\ version = Away /\ nextEventID = Away /\ replayHistory = Away /\ subscribers = Away
  /\ busClosed = Away /\ pub = Away /\ sub = Away /\ handler = Away /\ linked = Away
  /\ used = Away /\ view = Away /\ lastEventID = Away /\ notes = Away /\ known = Away
  /\ base = Away

PartsInit ==
  /\ part \in Parts
  /\ LimiterInit /\ MediaInit /\ PFInit /\ ConfigInit
  /\ IF part = "batch"     THEN BatchInit     ELSE BatchAway
  /\ IF part = "ledger"    THEN LedgerInit    ELSE LedgerAway
  /\ IF part = "profiles"  THEN ProfileInit   ELSE ProfilesAway
  /\ IF part = "server"    THEN ServerInit    ELSE ServerAway
  /\ IF part = "log"       THEN LogInit       ELSE LogAway
  /\ IF part = "migration" THEN MigrationInit ELSE MigrationAway
  /\ IF part = "bots"      THEN BotInit       ELSE BotsAway
  /\ IF part = "bus"       THEN Init          ELSE BusAway

\* All but component p stand still.
Only(p) ==
  /\ part = p /\ UNCHANGED part
  /\ IF p = "batch"     THEN TRUE ELSE UNCHANGED batchVars
  /\ IF p = "limiter"   THEN TRUE ELSE UNCHANGED limiterVars
  /\ IF p = "ledger"    THEN TRUE ELSE UNCHANGED ledgerVars
  /\ IF p = "media"     THEN TRUE ELSE UNCHANGED mediaVars
  /\ IF p = "profiles"  THEN TRUE ELSE UNCHANGED profileVars
  /\ IF p = "versions"  THEN TRUE ELSE UNCHANGED profileFileVars
  /\ IF p = "server"    THEN TRUE ELSE UNCHANGED serverVars
  /\ IF p = "log"       THEN TRUE ELSE UNCHANGED logVars
  /\ IF p = "config"    THEN TRUE ELSE UNCHANGED configVars
  /\ IF p = "migration" THEN TRUE ELSE UNCHANGED migrationVars
  /\ IF p = "bots"      THEN TRUE ELSE UNCHANGED botVars
  /\ IF p = "bus"       THEN TRUE ELSE UNCHANGED vars

PartsNext ==
  \/ Only("batch")     /\ BatchNext
  \/ Only("limiter")   /\ LimiterNext
  \/ Only("ledger")    /\ LedgerNext
  \/ Only("media")     /\ MediaNext
  \/ Only("profiles")  /\ ProfileNext
  \/ Only("versions")  /\ PFNext
  \/ Only("server")    /\ ServerNext
  \/ Only("log")       /\ LogNext
  \/ Only("config")    /\ ConfigNext
  \/ Only("migration") /\ MigrationNext
  \/ Only("bots")      /\ BotNext
  \/ Only("bus")       /\ Next

partsVars == <<part, batchVars, limiterVars, ledgerVars, mediaVars, profileVars, profileFileVars,
               serverVars, logVars, configVars, migrationVars, botVars, vars>>

PartsSpec == PartsInit /\ [][PartsNext]_partsVars

-----------------------------------------------------------------------------
(* Safety: what the modules say of their components.                       *)

\* The variables of the component that runs have their types.
PartsTypeOK ==
  /\ part \in Parts
  /\ part = "batch"     => BatchTypeOK
  /\ part = "limiter"   => LimiterTypeOK
  /\ part = "media"     => MediaTypeOK
  /\ part = "versions"  => PFTypeOK
  /\ part = "config"    => ConfigTypeOK
  /\ part = "ledger"    => LedgerTypeOK
  /\ part = "profiles"  => ProfileTypeOK
  /\ part = "server"    => ServerTypeOK
  /\ part = "log"       => LogTypeOK
  /\ part = "migration" => MigrationTypeOK
  /\ part = "bots"      => BotTypeOK
  /\ part = "bus"       => TypeOK

\* A batch (batch_download.go) sends to no channel that is closed and fetches no user twice at
\* a time; what was handed over is on disk or reported, and the progress adds up.
BatchPromises ==
  part = "batch" => NoSendAfterClose /\ OneProducerPerUser /\ HandedOverKept /\ UsersAddUp

\* The error ledgers (download_service.go) hold exactly the tweets that are still missing.
LedgerPromises == part = "ledger" => LedgerExact

\* What a download reports as there is there, whole and as that medium, and only a stream that is
\* verified, a failed removal or a crash has a torn file under its final name (downloader.go).
MediaPromises == part = "media" => DownloadedIsThere /\ OneResolverOneName /\ TornFilesAreTaken

\* Each profile request gets one result and is counted once (profile/downloader.go).
ProfilePromises == part = "profiles" => EveryProfileAccounted

\* The shutdown waits for what it has to, in its order, before the database is closed (server.go).
ServerPromises == part = "server" => ShutdownIsComplete

\* Streams of the console log have no holes, and a closed hub captures nothing (hub.go).
LogPromises == part = "log" => StreamsHaveNoHoles /\ ClosedHubIsQuiet

\* No row is lost over failed and interrupted migrations (sqlite_migration.go).
MigrationPromises == part = "migration" => DatabaseKept

\* The end of a task is announced to the chat that began it, once (bot_commands.go).
BotPromises == part = "bots" => EndsAnnouncedOnce

\* Each open stream is given each notification once, the bus knows exactly the open streams, and a
\* shutdown ends them (event_bus.go).
StreamsAreServed == part = "bus" => DeliveredOnce /\ SubscribersMatchStreams /\ AnnouncedStreamsEnd

\* Clients that reconnect end up with the tasks and schedules as last announced, and have been given
\* every notification once (event_bus.go, sse_tasks.go).
ClientsAgree == part = "bus" => ViewsAgree /\ NoNoteSkipped /\ DeliveredOnce

\* Nothing of value is overwritten: whole media files stay, a profile's contents are kept as
\* versions, and what a save replaces is in a backup (file_writer.go, version_manager.go,
\* config/backup.go).
NothingOverwritten == WholeFilesStay /\ ContentsAreKept /\ ReplacedIsBackedUp

-----------------------------------------------------------------------------
(* Liveness.  What goroutines of the program do, they do unless they wait  *)
(* for another one; requests that arrive, users, signals, crashes and      *)
(* cancellations need not come.                                            *)

\* A batch: its caller, the scheduling goroutine, producers and workers.
BatchFairness ==
  /\ WF_batchVars(part = "batch" /\ Caller) /\ WF_batchVars(part = "batch" /\ Schedule)
  /\ \A u \in Users   : WF_batchVars(part = "batch" /\ Producer(u))
  /\ \A w \in Workers : WF_batchVars(part = "batch" /\ Worker(w))

\* Requests, the clock that ends windows and cool-downs, and a server that does not refuse every
\* request that it is sent.
LimiterFairness ==
  /\ \A r \in Requests :
       /\ WF_limiterVars(part = "limiter" /\ RequestStep(r))
       /\ SF_limiterVars(part = "limiter" /\ Finish(r) /\ request[r].cli \notin clientErrors)
  /\ \A c \in Accounts : /\ WF_limiterVars(part = "limiter" /\ CloseWindow(c))
                         /\ WF_limiterVars(part = "limiter" /\ EndCooldown(c))
  /\ WF_limiterVars(part = "limiter" /\ EndGlobalCooldown)

DownloadFairness ==
  /\ \A j \in Jobs : WF_mediaVars(part = "media" /\ MediaStep(j))
  /\ \A w \in ProfileWorkers : WF_profileVars(part = "profiles" /\ ProfileWorker(w))
  /\ WF_profileVars(part = "profiles" /\ ProfileReturn)

\* The server, with a deadline that passes; bots start and stop in the end.
ServerFairness ==
  /\ WF_serverVars(part = "server" /\ Main) /\ WF_serverVars(part = "server" /\ GracefulShutdown)
  /\ WF_serverVars(part = "server" /\ BeginBot) /\ WF_serverVars(part = "server" /\ EndStarter)
  /\ WF_serverVars(part = "server" /\ Listen) /\ WF_serverVars(part = "server" /\ ListenerDone)
  /\ WF_serverVars(part = "server" /\ DeadlinePasses)
  /\ \A h \in Handlers : WF_serverVars(part = "server" /\ (Gate(h) \/ LeaveGate(h)))
  /\ \A b \in Bots : /\ WF_serverVars(part = "server" /\ BotStarted(b))
                     /\ WF_serverVars(part = "server" /\ StopBot(b))

LogFairness ==
  /\ WF_logVars(part = "log" /\ StartCapture)
  /\ \A o \in Outputs  : WF_logVars(part = "log" /\ LogOutput(o))
  /\ \A v \in Viewers  : WF_logVars(part = "log" /\ LogViewer(v))
  /\ \A s \in Stoppers : WF_logVars(part = "log" /\ (CloseViewer(s) \/ StopCapture(s) \/ CaptureStopped(s)))

\* As in EventBus.
BusFairness ==
  /\ \A p \in Processes : WF_vars(part = "bus" /\ PublisherStep(p))
  /\ \A s \in Sessions  : /\ WF_vars(part = "bus" /\ RunnerStep(s))
                          /\ WF_vars(part = "bus" /\ HandlerCloses(s))

FairParts ==
  /\ PartsSpec
  /\ BatchFairness /\ LimiterFairness /\ DownloadFairness /\ ServerFairness /\ LogFairness /\ BusFairness

\* BatchUserDownload returns, whatever fails, however its pools and channels are filled.
BatchReturns == <>(part = "batch" => caller = "returned")

\* Every request is answered, or given up by its producer, unless it is about a protected user
\* and the main account was given up: then SelectClientMFQ finds the same account again and again.
RequestsAnswered ==
  \A r \in Requests :
    <>(part = "limiter" => request[r].at = "done" \/ (OfProtected # {} /\ Master \in clientErrors))

\* Every download of a tweet's media ends, although it waits for the lock of its file names.
MediaSettled == \A j \in Jobs : <>(part = "media" => job[j].at = "done")

\* The profile phase ends, after panics, full disks and cancellations.
ProfilesEnd == <>(part = "profiles" => verdict.is # "running")

\* A shutdown that was begun ends with the exit of main, whoever asked for it and whatever the
\* start was doing.
ServerExits == (part = "server" /\ lifecycle.shuttingDown) ~> main = "exited"

\* When the hub is closed the handlers of its streams end, and whoever waits for the goroutines
\* of the capture goes on.
LogStreamsEnd ==
  /\ \A v \in Viewers :
       (part = "log" /\ ring.closed) ~> (part = "log" => viewer[v].at \in {"none", "gone"})
  /\ \A s \in Stoppers :
       (part = "log" /\ stopper[s].at = "wait") ~> (part = "log" => stopper[s].at = "done")

\* Publishers do not wait for slow clients, and the goroutines of closed subscribers end.
BusGoroutinesEnd ==
  /\ \A p \in Publishers : (part = "bus" /\ pub[p].at # "idle") ~> (part = "bus" => pub[p].at = "idle")
  /\ \A s \in Sessions :
       (part = "bus" /\ sub[s].run # "none" /\ (sub[s].closed \/ busClosed))
         ~> (part = "bus" => sub[s].run = "ended")
=============================================================================
