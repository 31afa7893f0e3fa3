# Twitter media downloader: a TLA+ verification project

This directory holds TLA+ models of the download server and of what it drives: the task table
and queue, the scheduler, the event bus, the batch pipeline, the rate limiter, the writing of
media and profiles, the entity storage, the ledgers of failures, the configuration files, the
start of the database, the console log, the bots and the life of the process. With them come
the TLC configurations that check them and TLAPS proofs about them. Every definition is
translated from the Go source; `PROJECT.json` says which lines each one stands for.

## The system

The program is a server (and a command line over the same service) that
downloads the media of Twitter users, lists and followings. The parts that
keep state, and how they interact:

| Part | State | Operations | Interacts with |
|---|---|---|---|
| Task table, `api/task_manager.go` | tasks, contexts, progress, version, snapshot cache | create, retry, status, progress, result, cancel (one, queued, all), delete, hourly cleanup | publishes every change on the event bus; its contexts cancel runs |
| Download queue, `api/download_queue.go` | pending jobs, held target keys, detached runs, closed flag | enqueue, wakeup, worker loop, detach, release, close and wait | reads and writes the task table; starts run goroutines |
| Producers, `api/download_handlers.go`, `improvements.go`, `bot_commands.go`, `scheduler_download.go` | uploaded files | create and enqueue a task, reject it, clean up uploads | task table, queue |
| Event bus, `api/event_bus.go` | subscribers, history, last ID | publish, coalesced publish, subscribe with replay, unsubscribe, close | task table, scheduler, SSE handlers, bots |
| Scheduler, `scheduler/scheduler.go` | configuration, one status per entry, generation, started/stopped flags, loop goroutines | start, stop, reload, trigger, run loops | calls a producer; publishes its statuses |
| Server life cycle, `main.go`, `signal.go`, `api/server.go` | phase of the shutdown, mutation gate, running bots, signal subscription | start, admit a request, receive a signal, shut down, exit | all of the above |
| Download service, `service/download_service.go`, `downloading/dumper.go`, `retry.go` | errors.json, json_errors.json | run one task, retry failures, clear | batch pipeline, profile phase, entity storage, Twitter client |
| Batch pipeline, `downloading/batch_download.go` | heap of users, rounds, two channels, the context's cause | collect lists, fetch timelines, hand tweets to workers, give users back | Twitter client, media downloader, database |
| Media downloader, `downloading/tweet_download.go`, `downloader/` | names that are reserved, temporary files, media on disk | choose a name, download in one of two modes, replace, check the size, retry | written to by all workers of all batches |
| Profile phase, `downloading/profile/`, `downloader/version_manager.go` | requests and results, counts, versions of each file | download, archive a version, prune | a directory of the entity storage |
| Entity storage, `entity/`, `database/` | directories, rows, removal journal | create, rename, sync, remove, recover at startup | SQLite, file system; downloads write into the directories without its locks |
| Database start, `database/connect.go`, `sqlite_migration.go` | the main file and its log, the original and the backup of each | repair, validate, back up, copy, replace | SQLite |
| Twitter client, `twitter/client.go` | rate limits, one per endpoint and account; cool-downs; accounts given up | select an account, check, reset, try again | Twitter; the producers of a batch |
| Bots, `bot/`, `api/bot_commands.go`, `bot_notify.go` | tracked tasks, marks of what was announced | commands, notifications | task table, queue, event bus |
| Console log, `consolelog/hub.go`, `api/sse_logs.go` | ring buffer, subscribers, captured pipes | capture, add, subscribe, close | stdout and stderr of everything |
| Configuration, `config/`, `api/config_handlers.go`, `scheduler_handlers.go`, `cookie_handlers.go` | conf.yaml, schedules.yaml, additional_cookies.yaml, their backups, what is loaded | read, edit, back up, write, reload | handlers, scheduler |

What is hard here is concurrency inside one process and failure on its way to the disk. The
worker, the runs it left behind, the watchers of those runs, request handlers, bots, the
scheduler and the shutdown all touch the task table and the queue, each under a lock that does
not cover the other. A batch is a pipeline of goroutines with two bounded channels that may be
cancelled, run out of disk or panic at any step, while the release time that it stores for each
user says what will never be fetched again. On disk, directories and rows, files and their
former versions, a database and its log change one after the other, and each change may fail or
be the last before a crash. `PROJECT.json` lists the hazards at their lines, with the properties
that cover them.

What makes each part correct, in a sentence:

- Task table and queue: a task that was accepted is run at most once, or ends
  otherwise, and is never lost; two runs never work on one account at the same
  time, even when one was cancelled and left behind; a terminal status is final.
- Scheduler: an entry is executed by at most one goroutine, its status belongs
  to the entry it is shown with, a reload leaves the scheduler as it found it,
  and after the shutdown nothing runs.
- Event bus: a stream misses no notification and gets none twice, ends up with
  the present tasks, and never holds up those who publish.
- Batch: a tweet that the release time has moved past is on disk or handed back as failed;
  every user is completed once (see the exception under *Disagreements*); whatever happens, the
  batch returns.
- Rate limits: nobody sleeps on a limit that no one will reset.
- Media files: what was downloaded is there and whole; nothing whole is overwritten, unless two
  calls that know nothing of each other give out one name.
- Profiles: each request has a result; a content that was seen is kept until it is old.
- Error ledger: a failure that was recorded is kept until it has been made up for.
- Entity storage: no two rows share a directory; whatever fails or is
  interrupted, media stay where the row of their owner says, and a removal is
  finished or undone.
- Database start: no row is lost, and the next start finds them, wherever a migration was cut.
- Configuration: no saved edit is lost to another; what a save replaced can be restored.
- Console log: a stream shows every line once or ends; a closed hub captures nothing.
- Bots: the end of a task is announced once to the chat that began it.
- Server life cycle: no mutation is admitted after the shutdown began, every
  phase is waited for within one deadline, the database is closed last, and the process exits.

## Modules

| Module | What it is |
|---|---|
| `TaskManager` | the task table: one operator per operation under `tm.mu` |
| `DownloadTargets` | pure: a task's data to its accounts and target keys, and when keys conflict |
| `DownloadQueue` | composes the two with the worker, the runs, the watchers of detached runs, the producers, the cancellers and the closing of the queue |
| `ExclusiveRuns` | abstract: what the queue promises |
| `Scheduler` | the scheduler with the start and shutdown of the server, one request that reloads, manual triggers |
| `EventBus` | the bus, its publishers, its subscribers, the task streams and their clients |
| `BatchDownload` | one batch: lists, preprocessing, scheduling rounds, producers, workers, cancellation |
| `RateLimiter` | requests of the producers, the choice of an account, the limiter of each account |
| `ErrorLedger` | the runs that load, retry, save and clear the two ledgers of failed tweets |
| `MediaFiles` | the names and files of tweets' media, the two download modes, crashes |
| `ProfileRun` | the workers of the profile phase |
| `ProfileFiles` | one file of a profile and its versions |
| `EntityStorage` | entities of one storage parent: rows, directories, removal journal, the operations with their rollbacks, downloads, crashes and the recovery |
| `SchemaMigration` | the start of the database |
| `ConfigFiles` | the three files that are edited through the API |
| `LogHub` | the capture of the output, the hub and its streams |
| `BotNotifications` | what bots announce |
| `ServerLifecycle` | start, signals, admission, bots, shutdown and exit |
| `DownloadQueueProofs`, `SchedulerProofs`, `EntityStorageProofs` | theorems about the module each is named after |
| `BatchDownloadProofs` | theorems about `BatchDownload` and `RateLimiter` |
| `ServerLifecycleProofs` | theorems about `ServerLifecycle`, `SchemaMigration` and `LogHub` |
| `StreamProofs` | theorems about `EventBus` and `BotNotifications` |
| `FileProofs` | theorems about `ConfigFiles`, `ErrorLedger`, `MediaFiles` and `ProfileFiles` |
| `ComponentProofs` | theorems about `ProfileRun`, and about the components side by side |
| `MCDownloadQueue`, `MCScheduler`, `MCEventBus`, `MCEntityStorage` | constants and constraints for TLC |
| `MCComponents` | the components without a run of their own, side by side |
| `MCMediaFiles` | two instances of `MediaFiles` in which its comments' claims fail |

Definitions marked *(mistake: ...)* are no part of the models. Each is a
definition of the model with a plausible bug; `PROJECT.json` ("mutants") says
which one it replaces and which property then fails.

### Task table and download queue

`status`, `data`, `ctxDone` and `stage` are the fields of `Task` that matter to
others; "absent" and "deleted" stand for a task that is not in the table.
`pending`, `held`, `detached` and `closed` are the fields of `DownloadQueue` of
the same names. A critical section of `tm.mu` or `q.mu` is one step, with one
exception: the scan of `pending` (`nextRunnableLocked`) holds `q.mu` while it
looks tasks up under `tm.mu`, so it is a loop of steps during which tasks change
and other users of `q.mu` wait. `Signal` and `Broadcast` come after the unlock and are
steps of their own (`Wakeup`, a producer's last step).

The worker's position is `worker`: top, wait, scan, start, select (waiting for
the run or its context), grace (waiting once more for a cancelled run), handle
(recording the result), release. A run is `live`, has `reported` its completed
progress, or is what it returned: nil, an error, `Canceled`, `DeadlineExceeded`.
Its downloads are not modelled. Data is reduced to the raw screen names, whether
the task reaches every account, and whether it came with an upload.

`ExclusiveRuns` knows nothing of queues: tasks wait, run or have ended, and start
only when no task with a common account runs. `DownloadQueue` implements it under
the mapping `Promise`; a detached run is still active there.

### Scheduler

`entries`, `generation` and the four flags are fields of `Scheduler`;
`triggering`, `recorded` and `nextFrom` are what its statuses say, where a count
of failures or a time is replaced by the entry it was computed from. `lifecycle`
is the holder of `lifecycleMu`; critical sections of `sc.mu` are steps. Looking
an entry up, acquiring it, executing it, and releasing it are separate steps of
a manual trigger or a loop, so that a reload may fall between any two. The clock
is left out: a loop that waits may fire at any time. `loops` is a set of records,
so a loop of an earlier launch is a different one from its successor.

The request that writes or reloads schedules.yaml is one process because
`schedulesMu` makes those requests exclude each other. A request that was
admitted before the shutdown goes on during it.

### Event bus

A publisher is one goroutine that changes the tasks or schedules: change, copy,
publish under `b.mu`, send to one subscriber after another, remove those that
overflowed, then perhaps publish a notification. A session is one connection of
a client, with its subscriber, that subscriber's goroutine and the handler of
the request. A snapshot is the number of changes it shows. The client knows what
it was given (`view`, `known`) and sends the ID of the last event when it
connects again. A change of the schedules is one that the scheduler announces
(`updateStatus`, `releaseAndUpdateStatus`), copied in its own critical section; those it announces to nobody
are among the observations. `sub[s].closed` stands both for `closed` and for the closed
channel `done`, which are set together.

### Entity storage

`rows[o]` is the name in the row of an owner, `present` the directories on disk
and `media` who has media in which of them. A name is a record of its letters,
their case and its trailing dots; `Dir` is what `storedEntityPath` makes of it
on the platform (`goos`): Windows drops the dots and ignores case. Users and
lists are not told apart, as they share the checks for directories.

The operations hold the lock of their storage parent, so `op` is at most one.
Each of its steps is one call of the database or the file system: Create makes
the directory (`CreateBegins`) and inserts the row (`CreateCommits`); Rename
moves the directory, then updates the row; Remove moves the directory to a
staged name, journals that, deletes the row, destroys the directory and deletes
the journal entry. Every one of these may fail (`Fault`), and what the code does
then is a step as well (`Undo`, `RemoveRestores`, and their own failures).
Operations refused before they changed anything are no steps. Sync is Create,
Rename or `RenameInPlace`, by the row.

Not under the lock are downloads, which load a row (`held`) and later make its
directory again and write to it, and the requests that delete a user or a list:
those remove entities until they find none, then delete the rows that there are
by then.

`Crash` may follow any step; it leaves rows, journal and disk. The start that
follows (`CleanupStagedDirectories`) looks at each staged directory on its own.
It may crash or fail too, after which the server starts without it. `removals`
is history and no step looks at it: for each staged directory on disk, for whom
it was staged, whether that row has gone or was renamed since, and whether an
error that is logged excuses its being there.

### Batch, service and client

**BatchDownload.** One goroutine is one process: `caller` (BatchUserDownload and, before it, the
collecting and preprocessing), `round` (the scheduling goroutine with its `heap`), `prod` (one
producer per user, at most `PoolSize` at a time), `worker`. The two channels are `tweetCh` with
`tweetClosed` and `errCh` with `errClosed`, both bounded by the number of workers. `cause` is the
context's: nil, a cancellation, or the first fatal error. A producer that meets a limit, a locked
account or an error puts its user back into the heap, or counts it as done. `advanced` says how
far the release time of each user has moved, `saved` and `fails` where its tweets have ended.
Depths decide in which round a user goes, so `MediaCount` and `Exist` are constants. Looking at the
top of the heap and removing it are two steps (`Peek`, `Pop`), with producers that give users back in
between. `completed` and `lost` are history: how often each user was counted, and who was removed in
the place of another.

**RateLimiter.** `request` says where each GetMedias is. Selecting an account, the check under
the condition's lock, the flight and the reset that the HTTP client's hooks do after the response
are steps; so are the tries of the HTTP client and the second reset of `OnError`. An entry is
missing (`unset`), nil (`nolimit`), not ready (`pending`), or a window with a number of requests
left; the end of a window and of a cool-down may come at any time.

**ErrorLedger.** A run loads a copy, works with it and saves it, each under `dumperMu`, with other
runs in between. What a batch does is one step here, which `BatchDownload` justifies: each tweet
that was handed over is on disk or returned. `owed` tweets are those the release time has passed.

**MediaFiles.** A job is a worker's tweet. Its steps are the calls of the downloader and of the
writer: look for a file of an earlier release, choose a name, open a temporary file under the lock of
the name's slot, write, rename, compare the size, remove, try again. A file's
content is the medium it shows, its writer, and whether it is whole. A call is one of
`BatchDownloadTweet`, with a resolver of names and an index of the directory of its own
(`tweet_download.go:720-731`): each imported file or folder is one, and so is the retry after the
imports have returned (`Returned`), in which jobs of several imports meet under one resolver.
`CallsOf` says which calls process a job; a call of `BatchUserDownload` has no resolver and is not among
`Resolving`. `contested` is history: the media of each job whose name another job had as well.

**ProfileRun, ProfileFiles.** Workers empty a channel that is closed from the start; the end of
the context, a full disk and a panic each make a worker drain it. The versions of a file are
records of the time at which their name was reserved; the clock may be set back.

### Server, configuration and database

**ServerLifecycle.** `main` walks through `run` and `runServer`; `shutdown` is the one execution
of `GracefulShutdown`, with the set of phases that have ended and of those that timed out. The
queue's, the scheduler's and the bus's own part of the shutdown is in their modules; here a phase
is what it waits for. A provider's `Start` that outlasts the time `startBots` has for it goes on after its
`Stop`, which found nothing to stop, has returned (`hanging`), and may still get up (`late`).

**ConfigFiles.** A save has a handler (what it does to which file), holds the lock of its file
(the cookies have none), makes a backup, writes and publishes to what runs. Content is the set of
edits it is made of, which tells a lost edit from a kept one.

**SchemaMigration.** A database is two files, the main one and the log; three places hold one
each (the path, the original moved away, the backup), and the moves go file by file. A row is in
one of the files of a place. Every call may fail, and the process may die between any two.

**LogHub.** What is printed goes through a pipe per stream to a goroutine that stores a line under
the hub's lock and sends it after it. **BotNotifications.** Changers copy the task table and
publish the copy in two steps; a chat bot tracks what its users began, a push bot marks what it
has announced.

### Side by side

`MCComponents` extends the modules of the components that have no run of their own. A behaviour
belongs to one of them, which `part` names; the others stand still, and most of them have no
values at all (`Away`). The state space of the run is thus the sum, not the product, of those of
the components, and a safety property of each is checked in one run and its liveness in another.
Where the same constant serves several components (`g1`, `g2` are goroutines, workers, requests
or jobs) it is interchangeable in all of them, so that the symmetry is sound. A liveness property
of a component is stated for behaviours of its `part` only.

## What the runs show

Every passing run also fails for each of its properties when the mistake listed
for it is put in the place of the code.

| Run | Instance | Shows |
|---|---|---|
| `QueueTasks` | 2 tasks, on an account or an upload, shutdown included | `DownloadQueue` implements `ExclusiveRuns` (`KeepsPromise`); `TasksAreKept` (no task forgotten, uploads there when needed), `OutcomeIsFinal` (a result is recorded, statuses move legally, progress stops at the end), `DrainedIsQuiet` |
| `QueueTargets` | 3 tasks on `{@alice}` or `{alice, bob}` | `RunsExcludeEachOther`, `KeyDiscipline`, `SameTargetFIFO` with detached runs |
| `QueueLiveness` | 2 tasks on 2 accounts, one of which may hang | `QueuedIsServed`; `CancelledIsLeft`: a cancelled run frees the worker, and gives its keys back when it ends |
| `SchedulerReload` | 2 entries that are edited, disabled or moved, bad files, 2 manual triggers, 3 launches, shutdown | `ExecutionDiscipline`; `LifecycleKept` (a reload leaves it running, a stop is for good, the configuration changes while no loop runs); `EntriesServed` (a loop for each enabled entry, statuses of their own entries, starts that run once) |
| `SchedulerLiveness` | 2 loops, 2 launches | `CallersReturn`: Stop and Reload return |
| `EntityRecovery` | 2 owners; `foo`, `foo.`, `Foo` and `bar` on both platforms; older versions have left `foo` or `foo.` | `OneRecordPerDirectory`, `MediaKept`, `RemovalsFinish` |
| `ComponentSafety` | the twelve components below | one promise of each component, named after it; `NothingOverwritten` |
| `ComponentProgress` | seven of them | one liveness property of each, and `StreamsAreServed` with the shutdown of the bus |

The instances of `ComponentSafety`, and what the promise of each says:

| `part` | Instance | Promise |
|---|---|---|
| `batch` | 3 users, a list of 2 and one asked for by name, 2 workers, 2 producers at a time, a panic or cancellation, one block | no send on a closed channel, one producer per user, `HandedOverKept`, `UsersAddUp` |
| `limiter` | 3 requests, 1 account, a window of 1, one retry | `SleepersAreWoken` |
| `ledger` | 2 runs, 1 regular and 2 imported failures, each kind of accident | `LedgerExact` |
| `media` | one tweet in 2 imports, each with a resolver, and in one retry of what both left; two videos, the first stored by an earlier release, and a photo; 2 tries, 2 faults, a crash | `DownloadedIsThere`, `OneResolverOneName`, `TornFilesAreTaken`, `WholeFilesStay` |
| `profiles` | 3 profiles, 2 workers, each mishap | `EveryProfileAccounted` |
| `versions` | 2 contents, 2 versions, 4 updates, each spoiler | `ContentsAreKept` |
| `server` | 1 bot, the shutdown request, signals, a busy port, deadlines | `ShutdownIsComplete` |
| `log` | 2 captured streams, 1 viewer, Close and StopCapture, a ring of 2 lines, a buffer of 1 | `StreamsHaveNoHoles`, `ClosedHubIsQuiet` |
| `config` | 2 requests, 3 saves, 2 backups, each trouble | `EditsAddUp`, `ReplacedIsBackedUp` |
| `migration` | 2 rows in tables of two kinds, 3 starts, 2 failures | `DatabaseKept` |
| `bots` | 1 task, a chat bot and a push bot, 2 changers | `EndsAnnouncedOnce` |
| `bus` | 1 publisher, 2 announced changes of tasks or schedules, 2 connections that may overlap | `ViewsAgree`, `NoNoteSkipped`, `DeliveredOnce` |

Deadlock is not checked: a server that nobody uses, or that has shut down, stops, and so does a
batch that has returned. What must not stop early is said by liveness properties.

**Bounds.** Two tasks are enough for every interaction of one task with another
(holding and waiting, overtaking, retry of one as the other); three for a task
that waits between one that is detached and one that overtakes. Names have two
spellings so that keys are compared in their normal form. `MaxLaunches` bounds
the number of times a scheduler is launched (three: the first start, a reload,
and a reload during which something of the first is left). Queue and replay
history of the bus hold one event instead of 4096 and 256, so that overflow and
forgetting happen with two or three events. `MaxChanges` and `MaxSessions` bound
how often something changes and how often a client connects. In the entity
storage two owners are enough for every conflict over a directory, and the four
names are the least that differ in case, in dots and in letters. `MaxOps` (3),
`MaxFaults` and `MaxCrashes` (2 each) are spent together up to four, operations
and crashes up to three (`Budget`): enough for an operation that fails, another
operation, a restart and a failure in it, or for a crash during the recovery
from a crash. A failure among three operations happens on Windows only, where more names are one
directory. Two staged
directories of a name (`MaxStages`) are one that was left and one that is new.

In a batch three users are one that is in the list and finished, one with two tweets, and one too
deep for the first round; two workers fill both channels (their capacity is the number of
workers) and let one fail while the other sends. Three requests are one in flight, one woken and
one that still sleeps. Two runs of the service overlap in every way two copies of a ledger can.
Two jobs on one tweet want the same names, first with a resolver each, then, in the retry, with one
for both; two faults use up the tries of a stream, so that it
goes on in buffer mode, hit a try and its retry, or send both jobs to the retry (`ComponentProgress` has
two media and one fault). Three profiles are more than there are workers. Four updates are one
more than the file and its versions hold. A ring of two lines wraps with the third, and a buffer
of one overflows with the second that is not read. Three saves by two requests are two that
overlap and one that prunes. Three starts are the one that is cut short, the one that repairs and
is cut short again, and the one that must find everything.

**Constraints.** They leave behaviours out of one run that another has:
`Plain` and `NoErrors` in the runs of three tasks and of liveness (shutdown,
deletion, progress, wakeups and errors are in `QueueTasks`); `FewWakeups` bounds
the pending calls of `Wakeup` by one, and by none once the shutdown has begun (a
wakeup only takes the worker from waiting to its next scan, as a signal does);
`NoLateDeletion` in `QueueTasks`: no task is deleted while the queue closes. Owners are
symmetric in the entity storage. In `ComponentSafety`, `OneTrouble` allows one rare event per
behaviour of a batch, a ledger, the server or the configuration, at any of its steps, and
`QuietBus` keeps the shutdown of the bus out (the shutdown is a second publisher: see
`BusStaleView`) and the connections of a client apart after the second change; the bus is shut
down in `ComponentProgress`, where `FirmLinks` lets no connection break once the shutdown was
announced (a handler that reads no longer is among its behaviours, as nothing obliges one to read). In the runs of
liveness properties a constraint only cuts steps that users take, which nothing
obliges them to, and reports of progress; it never cuts a step that fairness demands.

**Fairness.** Weak fairness of goroutines that can go on: the worker, watchers,
producers that have begun, pending calls of `Wakeup`, the steps of the shutdown,
requests that were admitted, publishers and subscribers' goroutines; of the pipeline the caller,
the scheduling goroutine, producers and workers; jobs, profile workers, the goroutines of the log
and the handlers of its streams. The Go
scheduler is preemptive and none of them waits for the clock without a bound.
None is assumed of users: nobody has to create, cancel, connect or shut down.
In the queue a run returns one day unless it is one of the `Hanging` tasks, of
which nothing is assumed. `QueuedIsServed` therefore excuses a task that such a
run blocks for ever: because it was not cancelled and has the worker, or because
it holds a conflicting key. A task that is blocked for a while only must be served.
A loop of the scheduler that waits may see its timer or its cancellation first;
strong fairness of the latter says that it does not lose this race for ever.
Handlers of streams are not fair, except that `unsubscribe` gets from its first
lock to its second, and that the handler of a log stream reads what it is sent. Windows and
cool-downs end, since their time passes; an account that is not given up answers a request one
day with something else than an error, however often it is tried (strong fairness of `Finish`).
The deadline of a shutdown passes; bots start and stop one day, as nothing in the program bounds
them (see the observations).

## Disagreements between the code and what is said of it

Four runs are expected to fail; `PROJECT.json` quotes the lines.

- `QueueTimeoutResult`: a run that returns `DeadlineExceeded` leaves its task
  "running" for ever, because the worker takes it for a cancellation.
  `OutcomeRecorded` is stated for the other results.
- `SchedulerLateInstall`: a scheduler installed by a request that was admitted
  before the shutdown may be started after the shutdown found none.
  `StoppedForGood` is stated for a shutdown that found one.
- `BusStaleView`: of two publishers the one with the older copy of the tasks may
  publish last. `ViewsAgree` is therefore checked with one publisher.
- `EntityRenamedAway`: the journal names a path and not a row. A removal whose
  DELETE fails, and whose rollback finds that a download has made the directory
  again, leaves its staged directory and its entry. When the entity is renamed
  and the server restarts, no row has that path, and the staged media are
  destroyed although their row is there. `RemovalsFinish` says that
  nothing else leads to this.

Three further claims fail on instances that are kept here but are no part of `PROJECT.json`. Each is one
invariant; `tlc -config BatchUsersLost.cfg MCComponents`, and the other two with `MCMediaFiles`, finds a
behaviour that violates it in a few seconds.

- `BatchUsersLost.cfg` (`EveryUserOnce`): `popNextBatchEntity` looks at the top of the heap, finds a user too
  deep for any round, removes the top, and counts the user it looked at (`batch_download.go:596-609`). When a
  producer gives its user back above that one in between (`:358`), this user is the one removed: it is never
  fetched nor counted, the too deep one stays and is counted again, and the batch returns with the right
  total and without an error. `batch_download_test.go:177` fails if a user who was not selected has left the
  heap, "deferred entity was removed from heap". `UsersAddUp` says that nothing else loses a user or counts
  one twice: without a user that is too deep nobody is lost, and only users within the limit are.
- `MediaTwoImports.cfg` (`CollisionFree`): each import has a resolver of its own (`tweet_download.go:727`), so
  when a tweet is in two files that are imported at the same time both jobs can be given one name, although
  `tweet_naming.go:139` says "returns a collision-free path". The second replaces the first one's file,
  or, when its stream comes short, removes it (`downloader.go:394`). `WholeFilesStay` and
  `DownloadedIsThere` say that this is the only way in which a whole file goes.
- `MediaTwoVideos.cfg` (`ReusedFilesAreOld`): of two videos of one tweet whose superseded URLs differ from the
  present ones, the second takes the file just downloaded for the first as its own of an earlier release, and is
  counted and never downloaded; `tweet_download.go:542` says "looks only for names written by an earlier naming
  policy". `DownloadedIsThere` is therefore about media that were downloaded and not about those for which a
  file was found.

**Observations.** The models show these as well, which no run records. Where one of them would
break a property, the property says so as an exception, with the event that causes it.

*Queue, scheduler, bus*

- A task created after `CancelAllTasks` and before the queue is closed is started
  during the shutdown and is not cancelled.
- When the queue is closed and the scan then drops the last, cancelled, jobs, the
  worker waits on the condition variable and is not woken; the drain times out.
- An uploaded task cancelled in the queue keeps its files.
- A reload just after the start makes entries with `run_on_start` miss it.
- With two publishers Last-Event-ID may skip a notification: the one with the
  greater ID may be sent first. `NoNoteSkipped` holds with one, before a shutdown.
- A stream that begins after the shutdown was announced does not end before the
  bus is closed. Those that were there before do (`AnnouncedStreamsEnd`).
- Not every change of the schedules is announced: that an execution begins is not (`scheduler.go:597`
  sets `Triggering` without a notification), nor are the next times and the flag that a first start or a stop
  sets (`scheduler.go:189-219`); a request that starts the scheduler after its reload copies the
  statuses later, in another critical section (`scheduler_handlers.go:536,564`), as a reload does. A
  client shows these with the next change that is announced; `ViewsAgree` is about those.
- Event IDs begin again at 1 when the server does (`event_bus.go:257`): a client that
  reconnects with a greater Last-Event-ID is replayed nothing, and is given the present state only.

*Batch, client, ledgers*

- A crash after the media of a tweet were written and before the release time moves makes the
  next run download them again, under names with a suffix.
- A protected user whose main account was given up keeps its producer in a loop
  (`client.go:622`, `batch_download.go:362-377`); `RequestsAnswered` excuses it.
- Tweets that a cancelled or failed batch hands back are not written to the ledger
  (`download_service.go:449`), and the release time has moved past them; `LedgerExact` excuses
  the accident "batch". readme.md:53 says of failures "失败项记录到 errors.json".
- Two runs that overlap overwrite each other's ledger (`download_service.go:427`): the accident
  "overlap". So does clearing it during a run.
- The ledger of imports keeps a tweet once per source; when it is in two, a successful retry
  removes it from one.
- In the timeline code, which is not modelled: a page whose tweets all fail to parse ends the
  paging, a missing cursor fetches the first page again, and tweets of the same second as the
  newest one are not fetched by the next run.

*Media and profiles*

- A video whose superseded URL differs from the present one is also looked for under its present name. When
  another import downloads the same tweet at the time, or a crash left a stream short, the
  torn file is taken for it (`tweet_download.go:317`; a stream is verified only after it has its final
  name, `downloader.go:382`).
- Of several photos whose earlier files have one base, the first is stored, say, and the second is not.
  When the lookup of the first fails, or the second has failed and is retried (`usedLegacyPaths` is
  made anew, `tweet_download.go:300`), the second takes the first one's file and is never downloaded.
  These two are further cases of what `MediaTwoVideos.cfg` shows; `DownloadedIsThere` excuses a medium for
  which a file was found.
- `BatchDownloadTweet` gives its workers a path resolver, `BatchUserDownload` does not
  (`Resolving`): without it names are only protected by the workers' locks, and two jobs may be given one
  name within one call.
- Each run makes a file writer of its own (`download_service.go:388-393`), so two runs that
  refresh one profile at the same time are not kept apart and may lose a version; `ProfileFiles`
  has runs one after the other.
- `reportProgress` of the profile phase is called after the lock was released
  (`profile/downloader.go:425`): the count it shows may go back.
- readme.md:1511 says that the last failed attempt of a stream does not fall back to the buffer;
  `downloadStream` does (`downloader.go:294-303`), so a medium of any size may be read into memory.
  The instance reaches it with two faults. The branch at `downloader.go:319-322` is never taken.

*Storage and files*

- After a crash between the two halves of a rename the media lie under the new
  name and the row has the old one; another owner may then create an entity of
  the new name, whose directory it takes over. `OperationsKeepMedia` does not
  speak of operations cut off by a crash.
- A download that still holds the name from before a rename makes the old
  directory again, and writes there.
- A migration whose original is being moved back after a passing failure to open it, and that
  dies between the main file and the log, leaves them apart; the next start opens the database
  without the rows of the log, contrary to `sqlite_migration.go:183-186`. It takes three failures;
  `MaxFailures` is 2 in the run, and an instance with 3 shows it (`parted`).
- cookies are read, edited and written without a lock (`cookie_handlers.go:141`), so of two
  saves one is lost; schedules.yaml is written in place; saving conf.yaml as text drops what
  environment variables set from memory until the next start. After the clock was put back
  before a restart a backup may be pruned as soon as it is made, though `backup.go:20,29-31`
  promises increasing stamps; `ReplacedIsBackedUp` excuses that.

*Bots, log, exit*

- The event loop of a bot does not subscribe again after an overflow (`bot_notify.go:29`),
  unlike that of its log: it announces nothing from then on.
- A task that is deleted before the bot has seen its end stays in the bot's tracker. A stale copy
  that is published late may hide an end, or make a push bot announce it twice.
- A bot whose start takes longer than its time may get up after its `Stop` returned, and runs until the
  process ends (`server.go:460-476`); `ShutdownIsComplete` excuses this one.
- The Telegram client has no timeout once it runs: a message that hangs can hold its `Stop`
  until the deadline of the shutdown.
- Lines that are in the pipe when the capture stops are lost. The statistics of the log count
  lines that cannot be parsed as "info", which its filter leaves out.

## What is proved

TLAPS proves, for every value of the constants that satisfies the assumptions:

| Module | Theorems |
|---|---|
| `DownloadQueue` | `QueueTypes`; `QueueInvariant` and from it `QueueExclusion` (`RunsExcludeEachOther`); `QueueCustody` and from it `QueueKeepsTasks` (`TasksAreKept`), `QueueDrains` (`DrainedIsQuiet`), `QueueOutcomes` (`OutcomeIsFinal`), `QueueOrder` (`SameTargetFIFO`); `QueueKeepsPromise`: it implements `ExclusiveRuns` |
| `Scheduler` | `SchedulerTypes`; `SchedulerDiscipline` and from it `FlagIsExact`, `ExecutionsAreSingle`; `SchedulerService` and from it `LifecycleIsKept`, `EntriesAreServed` |
| `EntityStorage` | `EntityTypes`; `RecordsApart` (`OneRecordPerDirectory`); `RemovalsAreFinished` (`RemovalsFinish`); `MediaIsKept` (`MediaKept`) |
| `BatchDownload` | `BatchIsInOrder` and from it `NobodySendsAfterClose`, `OneProducerEach`, `HandedOverIsKept`, `BatchUsersAddUp` |
| `RateLimiter` | `LimiterInvariant` and from it `SleepersWoken` |
| `ServerLifecycle` | `ServerInvariant` and from it `ShutdownCompletes` |
| `EventBus` | `BusInvariant` and from it `BusTypeCorrect`, `StreamsMatch` (`SubscribersMatchStreams`), `NotesDeliveredOnce` (`DeliveredOnce`), `FarewellsReachStreams` (`AnnouncedStreamsEnd`); `ClientsEndUpRight` (`ViewsAgree`, `NoNoteSkipped`), if publishers take turns |
| `LogHub` | `LogInvariant` and from it `LogTypeCorrect`, `NoHolesInStreams` (`StreamsHaveNoHoles`), `ClosedHubsAreQuiet` (`ClosedHubIsQuiet`) |
| `SchemaMigration` | `MigrationInvariant` and from it `MigrationTypeCorrect`, `DatabaseIsKept` (`DatabaseKept`) |
| `BotNotifications` | `BotInvariant` and from it `BotTypeCorrect`, `EndsAreAnnouncedOnce` (`EndsAnnouncedOnce`) |
| `ConfigFiles` | `SavesAddUp` (`EditsAddUp`), `SavesAreBackedUp` (`ReplacedIsBackedUp`), `BackupsAreFew` (`ConfigTypeOK`) |
| `ErrorLedger` | `LedgersAreExact` |
| `MediaFiles` | `TornFilesAreKnown` (`TornFilesAreTaken`), `ResolversGiveOneName` (`OneResolverOneName`), `FilesStay` (`WholeFilesStay`), `DownloadsAreThere` (`DownloadedIsThere`) |
| `ProfileFiles` | `VersionsKeepContents` (`ContentsAreKept`) |
| `ProfileRun` | `ProfilesAreAccounted` |
| `MCComponents` | `PartsSleepersAreWoken`, `PartsEditsAddUp`, `PartsShutdownCompletes`, `PartsProfilesAccounted`, `PartsBatchPromises`, `PartsLedgersExact`, `PartsMediaKept`, `PartsLogHasNoHoles`, `PartsDatabaseKept`, `PartsEndsAnnounced`, `PartsStreamsServed`, `PartsClientsAgree`, `PartsTypesHold` (`PartsTypeOK`), `PartsOverwriteNothing`: the same as the run of all components checks them |

The inductive invariants were checked by TLC on the instances of the runs before they were proved.

*Assumptions.* `TargetsAssumption` (spellings are mapped to names, `Invalid` and
the wildcard are no names), `QueueAssumption` (payloads are data of a task),
`SchedulerAssumption` (entries of a file have IDs of their own, which
`NormalizeEntries` sees to; `Bad` is no file), `EntityAssumption` (names have the
three fields and are closed under trimming and folding; the marks for no row and
for an empty name are no names), `LimiterAssumption` (the marks for no headers and no response
are no windows), `BatchAssumption` (how many tweets and members there are), `ConfigAssumption`
and `LedgerAssumption` (limits; the marks for nobody and for a torn file are no requests and no
items), `MediaAssumption` (a tweet that is downloaded has media, each with a list of superseded
names; a directory has finitely many files, whose suffixes are numbers), `ProfileFilesAssumption`
(limits), `EventBusAssumption` (limits; the shutdown is no other publisher, the mark for no event is
none), `LogHubAssumption` (limits), `MigrationAssumption` (there is a backup name for each start, and
none is the database's), `BotAssumption` (a limit; a bot is a chat bot or a push bot; the marks for
no copy and no bot are none). The server's proof uses none. Only
`ClientsEndUpRight` and `PartsClientsAgree` have a hypothesis beyond these: publishers take turns.

*The queue.* `RunsExcludeEachOther` is not inductive: it says nothing of a job
that was picked and not started, nor of who will give the keys back. `KeyDiscipline`
adds that: a task that has not started has no run; the worker has a job exactly
in the steps that execute one, and holds its keys until it releases or
detaches; every live run is waited for by the worker or by its watcher and holds
all its keys; keys held by different tasks do not conflict. The scan preserves
the last part because it picks a job only when none of its keys conflicts with
a held one, and detaching because the keys stay with the task. Exclusion follows
by `CommonAccountConflicts`: tasks with a common account have conflicting keys.
The operations of the task table enter the proof through one fact (`Onward`):
they keep a task's data, and never bring a started task back into the queue.

What becomes of a task needs three more parts. `Recorded` says who has yet to
record the result of a run that returned, and which results may stand beside which statuses:
`OutcomeIsFinal` speaks of two states only and cannot know that the second recorder, if there is
one, is a watcher whose task was cancelled. `Custody` says who has a task in hand at each moment
(its producer, the queue, the worker, its watcher), who gives a key back, and when the worker and
the shutdown may stop; `TasksAreKept` and `DrainedIsQuiet` follow, the latter because the worker
leaves only when nothing is pending and no watcher is at work. `PassedConflict` says of the jobs
that the scan has passed over that each waits for a key that somebody else holds: from it follows
`SameTargetFIFO`, for had the keys of an older job been among those of the picked one, then the
picked one would have been passed over as well. The refinement has one lemma per kind of step:
all but a start, an end and an enqueueing leave `Phased` and `Reached` as they are.

*The scheduler.* `TriggeringIsExact` needs `OneExecution`, since an execution
that ends clears the flag for all, and `OneExecution` needs `TriggeringIsExact`,
since the flag is what keeps a second one out; both need that no execution is of
a later generation (`PastGenerations`), for a reload makes a new generation in
which nobody executes, and that nothing runs before a scheduler is installed,
for an installation replaces the statuses without a new generation. Most steps
change none of this (`Undisturbed`); the rest are an acquisition, a release, a
new generation and a start. Starts, stops and reloads have an invariant of their own,
`ServiceKept`: who holds `lifecycleMu` in which phase, that no loop is left when a configuration
is read (`LifecycleHeld`), that a scheduler which runs, or is being reloaded and will, is kept
so until the shutdown (`KeptRunning`), that each enabled slot has its loop and no other has any
(`LoopsServe`), and that the loops which have yet to run an entry at its start are of the first
launch (`FirstRuns`).

*The entity storage.* The type invariant says of each step of an operation what
it has to do with (`OperationSound`): an operation that deletes or restores has
an old name, one that has staged has a staged directory. `OneRecordPerDirectory`
alone is not inductive, as Rename looks for another owner of the directory
before it moves anything and writes the row later. `RenameApart` adds that while
a rename is under way nobody else owns its new name: no other Create or Rename
has the lock, and the deletions that have no lock only remove rows
(`FewerRowsApart`). Create looks in the step before its insertion, and nobody
can take the name in between for the same reason (`TakenNameApart`). `RemovalsHeld` says who
answers for each staged directory: the operation that has it in hand, a journal line on the
disk, or a logged reason; a removal whose row is neither gone nor renamed belongs to a row that
still names the directory (`RowHeld` keeps what an operation has read true). `MediaHeld`
follows the media that an operation found in place through its moves and its rollbacks.

*The batch.* Whether anyone sends after a close depends on where everybody else is: `ClosesInOrder`
ties the two channels to the place of the scheduling goroutine, to producers and to workers, and
`BeforeStart` says that until they are launched nothing has moved. The numbers need sets: a user
is still to be done as long as it is not fetched or has open tweets (`UsersCount`), and its open
tweets are those to be sent, in the channel and with a worker (`TweetsCount`), each in one of
these places only (`TweetsApart`). Who is counted is another matter (`Counted`): each user that was put
on the heap is still to be done, counted, or lost, and one that was peeked at and is too deep is on the heap
although it may have been counted before, if somebody was lost in its place. Without a panic whatever was sent is held by someone
(`NothingDropped`).

*The rate limiter.* `SleepersAreWoken` does not say of an entry that is not ready and on which
nobody sleeps yet that it has a request in flight, which the first one to lie down needs.
`Served` adds that, account by account. Most steps keep it because they move no request that is
in flight or before its check (`Undisturbed`); a check either goes ahead itself or lies down
beside a request in flight (`CheckServes`); a reset empties the set of sleepers or sends one of
them to the check of an entry that is missing (`ResetServes`), also the second reset of a request
whose tries are spent, by when the entry may be another one's.

*The life of the server.* That bots, requests and the listener are gone when the database is
closed has to hold from the moment their phase ended, so nothing may bring them back
(`PhasesHold`): admissions and bots' starts look at the flag, which was set before
(`FlagFirst`), and a server that was not started by then is never going to listen. That
`startupDone` is closed once needs to know by whom (`StartupOpen`). A bot is starting after the starter has
gone, and so may be hanging when it is stopped, only if the starter gave up waiting (`StartsWaited`).

*The files.* For `EditsAddUp` the request that holds a lock has in hand what the file says, with
its own edit (`ConfInStep`, `SchedulesInStep`), and nobody else is between reading and writing
(`LocksHeld`); for `ReplacedIsBackedUp` the backup a request has made is the newest one, which
nobody prunes (`BackupsInStep`). In a ledger the copy of a run is exactly what is owed
of its kind as long as runs follow one another and nothing went wrong (`CopiesExact`), and what was
recorded is in the file as well as in the copy that will replace it (`RecordsStand`), so that the
deferred save loses nothing. A resolver knows the names that it gave out
(`NamesReserved`), so jobs that have one name have it from different calls or without a resolver, and
it counts as contested for both (`NamesContested`). At a name that a job alone has stands no whole file
until it has put one there, and at none that was given out stands one of an earlier release
(`NamesFree`); that a free name is always found, in as many tries as there are names and one more, is a
lemma (`FirstFreeIsFree`), and so
are the free stamps of backups (`FreeStamp`) and of versions (`FreeTime`). A version that is
pruned was one of more than the limit because `Stale` has exactly as many elements as there are
too many: a finite set of numbers has its first k (`FirstOnes`).

*The profile phase.* A request without a result is in the channel, with one worker, or was lost
to a mishap, and only one of these (`HeldOnce`).

*What counts as downloaded.* It is not enough that a whole file is there when a medium is settled, as a
job that has its name may still replace or remove it. `DownloadsRest` adds that nobody has this name any
more, which holds when the only job that had it leaves it, and is kept since a name where a file stands is
given to nobody. That each medium is settled once, in one of three ways, is `Going`.

*The event bus.* A session's notifications are counted without counting (`SomewhereOnce`): each that
its handler owes its client is heard, or still to be replayed, or queued, or in the hand of the
subscriber's goroutine, or in that of a publisher that has yet to send it, and at one of these places
only. For a step not to put a second copy anywhere, IDs must be of one event each: publishers hold
different ones (`PublishersPlaced`), and the history and what is to be replayed are increasing
(`EventsPublished`). A subscriber goes to sleep only with an empty queue (`RunnersPlaced`), and whoever
took the farewell has left (`FarewellEnds`): with `DeliveredOnce` it follows that a stream that the
shutdown met does not rest. That the registry has exactly the open streams is nearly inductive; it
needs to know that a connection that was not made yet has left no trace (`FreshSessions`) and that a
closed bus has announced its end (`Registered`).

*What clients end up with.* `ClientsEndUpRight` is about behaviours in which publishers take turns
(`TakingTurns`: between a change and the end of its publication nobody else changes anything or publishes);
the code does not make them, and `BusStaleView` is what happens when two do not. A run with one
publisher and no shutdown is such a behaviour (`OneTakesTurns`). Then a snapshot that is published
shows the present state (`Truthful`), and of each open stream and kind either a snapshot is still
to be sent, or the newest one that the subscriber holds, or that the handler has yet to write at the
start, or that was shown last, is of the present version (`ViewsFollow`): a snapshot replaces an older one
that waits (coalescing), and overtakes nothing of its kind. For Last-Event-ID the order counts: of
the notes that a client is owed, those earlier than an event have reached it or are replayed,
offered or queued before that event (`InTurn`), and a coalesced snapshot, which notes may
overtake but which is taken only when the queue is empty, is later than none that is not before it
(`NotesInOrder`).

*The console log.* The ring holds the end of the log, slot by slot (`RingHolds`; the steps that store
a line and that overwrite the oldest one have lemmas of their own). What a stream is due is the set
of lines stored since it began, and it is the disjoint union of what it has and what is on its way
to it (`StreamsWhole`), though lines are sent outside the lock and two outputs overtake each other,
since printed lines are all different and each is in one pipe, in one hand or stored (`LinesPlaced`).
That a closed hub captures nothing needs to know where the start and each stop of the capture are
(`CapturePlaced`, `StoppersPlaced`).

*The migration.* `AllKept` says for each place of a start where the rows are: at home, halfway aside,
all aside, on their way back, or copied to a complete target; each step takes one of these to the
next, and a crash leaves one that the next start recognises. The backup is complete before the target
is begun, and the target before anything is moved.

*The bots.* Copies of the task table are ordered by the time they were made, and a status is never
taken back (`CopiesInOrder`), so whatever is on its way tells of the end or will be followed by a copy
that does (`CopyComes`). A chat bot's task is in the tracker, in the hand of who drains it, or
announced (`ChatOnce`); a push bot keeps its mark as long as it may see the end again (`PushOnce`).
The proof corrected the model's property: with three tasks and a feed of one, a bot whose stream had
been closed by an overflow counted as having heard everything (`Heard`).

*The types.* Some of them say more than what kind of value a variable has, and need an induction of
their own. That there are never more backups of a file than the limit (`BackupsCounted`) holds because
their stamps differ, also from those of copies under way, so that of the newest ones there are as
many as pruning counts (`PrunedAreFew`). Of the versions there is one more than the limit while a
write has reserved its own, and another one for good after a removal that failed or a crash
(`VersionsCounted`, with `StaleOnes` for how many are pruned). The channels of a batch stay within their
capacity although `SafeSend` and `Report` add to them from several workers (`BatchBounded`), and the
number of counted profiles is that of results less the workers that have yet to count. The proof
corrected the model's type of the ledgers: a crash in the middle of a write leaves a torn file also
where no full disk was admitted among the accidents (`AccidentsKnown`).

*Side by side.* A step of the composition is one of the component that runs and of no other
(`OnePartMoves`), so the invariant of each is kept (`PartsInv`). Every component has its part of it.

*Only model-checked.* Liveness under fairness, and with it everything that says that something
must happen (`QueuedIsServed`, `CallersReturn`, `BatchReturns` and the other temporal properties of
`ComponentProgress`): neither fairness nor ENABLED is within the prover's reach. What a recursive
definition computes. None of the invariants that the runs check is left out: the theorems are about
all of them, with the hypotheses that are named above (`ClientsAgree` only where publishers take
turns, of which the run's one publisher is an instance).

## What is not modelled

`PROJECT.json` lists every part. Left out for good:

- HTTP routing and authentication, the web console, the command line's argument parsing: they
  keep no state that a step of another actor could change.
- SQL queries and the handlers of the database browser: each is one statement or transaction,
  and SQLite serialises them. Where rows must agree with something else they are in
  `EntityStorage` and `SchemaMigration`.
- Text processing: names and paths, parsing of responses, configuration fields, schedule times,
  log lines and messages. The JSON sources and the resolution of targets are sequential code whose
  results are constants here.
- Development tools.

Inside modelled parts: the contents of events, tasks' results and the clock (deadlines, windows
and schedules pass at any step); the heartbeats of streams; a restart of the server, over which
neither tasks nor events are kept; the metadata files that are written beside a tweet's media;
`NormalizeLegacyTimestamps`, an update that is repeated at each start until it succeeds; the
platforms' clients of the bots and WeChat's login. These two components are listed as partly
modelled: the download service, whose callbacks and marking of users as downloaded are left out,
and the bots.

Hazards without a property: the worker of a closed queue that waits for a signal nobody sends
(`download_queue.go:147`; the drain's deadline bounds it), and those named above under
*Observations* that come from outside the models (event IDs after a restart, the deaf bot).

## Plan

1. Every invariant that a run checks has a theorem. What could still be proved: `ViewsAgree` for
   publishers that overlap, once the code gives a change its event in the order of the changes;
   `CollisionFree`, once imports that run together share a resolver; `EveryUserOnce`, once the pop
   takes the user that was peeked at.
2. Larger instances: the refinement mapping for the shutdown with three tasks; a batch with two
   troubles; a migration with three failures, once its last property excuses `parted`.
3. An abstract specification of the batch (tweets to be fetched, handed over, settled) that
   `BatchDownload` implements and `ErrorLedger` uses in the place of its one step.
