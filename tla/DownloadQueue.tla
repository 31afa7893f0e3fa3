--------------------------- MODULE DownloadQueue ---------------------------
(***************************************************************************)
(* The download queue of the API server (internal/api/download_queue.go)   *)
(* together with the task table it drives (module TaskManager), the        *)
(* producers and cancellers that call into both (HTTP handlers, bots, the  *)
(* scheduler) and the part of the graceful shutdown that closes the queue. *)
(*                                                                         *)
(* One worker goroutine takes jobs from pending in order, skipping those   *)
(* whose target keys conflict with a held key, and waits for the job's run *)
(* goroutine.  When the task's context is cancelled and the run has not    *)
(* returned within the grace period, the worker detaches it: the run goes  *)
(* on by itself and keeps its keys, and the worker takes the next job.     *)
(*                                                                         *)
(* q.mu is held by the worker from WorkerTop to the end of the scan, which *)
(* is not one step because the scan reads the task table without tm.mu;    *)
(* every other critical section of q.mu is one step, enabled when the      *)
(* worker is not scanning.  The worker is the only one that ever waits on  *)
(* q.cond, so Signal and Broadcast are the same; both are called after the *)
(* unlock, hence steps of their own.                                       *)
(***************************************************************************)
EXTENDS TaskManager, DownloadTargets, Sequences, FiniteSets

CONSTANTS
  NoTask,
  Hanging    \* the tasks whose run may hang for ever (fairness only)

ASSUME QueueAssumption ==
  /\ Payloads \subseteq Data
  /\ NoData \notin Payloads
  /\ NoTask \notin Tasks
  /\ Hanging \subseteq Tasks

VARIABLES
  pending,    \* q.pending: the jobs (by task) that wait, in order
  held,       \* q.heldTargets: the task that owns a key, or NoTask
  detached,   \* q.detached: the tasks whose run was left behind
  closed,     \* q.closed
  worker,     \* where the worker goroutine is
  job,        \* the job it works on, or NoTask
  scanAt,     \* the index of its scan of pending
  run,        \* what the run goroutine of a task is doing, or what it returned
  watcher,    \* where the goroutine that waits for a detached run is
  producer,   \* where the goroutine that creates and enqueues a task is
  wakeups,    \* how many cancellers have still to call Wakeup
  closer,     \* where the graceful shutdown is
  uploads     \* the tasks whose upload directory exists

workerVars == <<worker, job, scanAt>>
queueVars  == <<pending, held, detached, closed>>
vars == <<tmVars, queueVars, workerVars, run, watcher, producer, wakeups, closer, uploads>>

-----------------------------------------------------------------------------
\* What a run may return: nil, an error of its own (or a panic), an error that
\* is context.Canceled, an error that is context.DeadlineExceeded.
Results == {"nil", "error", "canceled", "deadline"}

\* The run goroutine of t is still executing downloads.
Live(t) == run[t] \in {"live", "reported"}

KeysOf(t) == TaskTargetKeys(data[t])

TypeOK ==
  /\ TMTypeOK
  /\ pending  \in Seq(Tasks)
  /\ held     \in [Keys -> Tasks \cup {NoTask}]
  /\ detached \in SUBSET Tasks
  /\ closed   \in BOOLEAN
  /\ worker   \in {"top", "scan", "waiting", "start", "select", "grace",
                   "handle", "release", "exited"}
  /\ job      \in Tasks \cup {NoTask}
  /\ scanAt   \in Nat \ {0}
  /\ run      \in [Tasks -> {"none", "live", "reported"} \cup Results]
  /\ watcher  \in [Tasks -> {"none", "await", "handle", "unregister",
                             "release", "broadcast", "done"}]
  /\ producer \in [Tasks -> {"idle", "created", "appended", "rejected", "done"}]
  /\ wakeups  \in Nat
  /\ closer   \in {"open", "cancelled", "closing", "draining", "drained", "timedOut"}
  /\ uploads  \in SUBSET Tasks

Init ==
  /\ TMInit
  /\ pending  = <<>>
  /\ held     = [k \in Keys |-> NoTask]
  /\ detached = {}
  /\ closed   = FALSE
  /\ worker   = "top" /\ job = NoTask /\ scanAt = 1
  /\ run      = [t \in Tasks |-> "none"]
  /\ watcher  = [t \in Tasks |-> "none"]
  /\ producer = [t \in Tasks |-> "idle"]
  /\ wakeups  = 0
  /\ closer   = "open"
  /\ uploads  = {}

-----------------------------------------------------------------------------
(* Helpers on the queue's state. *)

Unlocked == worker # "scan"

\* q.cond.Signal() or q.cond.Broadcast(): lost when the worker is not asleep.
Wake == worker' = IF worker = "waiting" THEN "top" ELSE worker

\* (mistake: the removal also takes the next job)
WithoutTwo(s, i) == SubSeq(s, 1, i - 1) \o SubSeq(s, i + 2, Len(s))

Without(s, i) == SubSeq(s, 1, i - 1) \o SubSeq(s, i + 1, Len(s))

Conflicts(t) ==
  \E k \in KeysOf(t), h \in Keys : held[h] # NoTask /\ TargetsConflict(k, h)

\* (mistake: detached runs are forgotten)
StaleOnceEnded(t) == status[t] \notin Active

\* cleanupStaleTargetsLocked: a key outlives its task only for a detached run.
Stale(t) == t \notin detached /\ status[t] \notin Active

CleanedTargets ==
  [k \in Keys |-> IF held[k] \in Tasks /\ Stale(held[k]) THEN NoTask ELSE held[k]]

ReleasedTargets(t) == [k \in Keys |-> IF held[k] = t THEN NoTask ELSE held[k]]

\* (mistake: a batch holds only one of its keys)
TakenOneTarget(t) == [held EXCEPT ![CHOOSE k \in KeysOf(t) : TRUE] = t]

TakenTargets(t) == [k \in Keys |-> IF k \in KeysOf(t) THEN t ELSE held[k]]

\* (mistake: the worker drops what the run returned)
DropRunResult(t) == UNCHANGED tmVars

\* handleRunResult: a context error is taken for a cancellation.
HandleRunResult(t) ==
  IF run[t] = "error" THEN SetTaskError(t) ELSE UNCHANGED tmVars

-----------------------------------------------------------------------------
(* Producers: an HTTP handler, a bot command or the scheduler creates a    *)
(* task and enqueues it.  buildTaskRunFunc, called in between, accepts all *)
(* the data that these producers make.                                     *)

Create(t, d) ==
  /\ producer[t] = "idle" /\ ~d.upload
  /\ CreateTask(t, d)
  /\ producer' = [producer EXCEPT ![t] = "created"]
  /\ UNCHANGED <<queueVars, workerVars, run, watcher, wakeups, closer, uploads>>

\* The upload handlers save the files before they create the task.
CreateUpload(t, d) ==
  /\ producer[t] = "idle" /\ d.upload
  /\ CreateTask(t, d)
  /\ producer' = [producer EXCEPT ![t] = "created"]
  /\ uploads'  = uploads \cup {t}
  /\ UNCHANGED <<queueVars, workerVars, run, watcher, wakeups, closer>>

\* (mistake: an uploaded task can be retried)
RetryUploaded(old, t) ==
  /\ producer[t] = "idle"
  /\ RetryTask(old, t)
  /\ producer' = [producer EXCEPT ![t] = "created"]
  /\ UNCHANGED <<queueVars, workerVars, run, watcher, wakeups, closer, uploads>>

Retry(old, t) ==
  /\ producer[t] = "idle"
  /\ RetryTask(old, t) /\ ~data[old].upload
  /\ producer' = [producer EXCEPT ![t] = "created"]
  /\ UNCHANGED <<queueVars, workerVars, run, watcher, wakeups, closer, uploads>>

Enqueue(t) ==
  /\ producer[t] = "created" /\ Unlocked
  /\ IF closed
       THEN /\ producer' = [producer EXCEPT ![t] = "rejected"]
            /\ UNCHANGED pending
       ELSE /\ producer' = [producer EXCEPT ![t] = "appended"]
            /\ pending'  = Append(pending, t)
  /\ UNCHANGED <<tmVars, held, detached, closed, workerVars, run, watcher, wakeups, closer, uploads>>

\* (mistake: Enqueue does not wake the worker)
EnqueuedSilently(t) ==
  /\ producer[t] = "appended"
  /\ producer' = [producer EXCEPT ![t] = "done"]
  /\ UNCHANGED <<tmVars, queueVars, workerVars, run, watcher, wakeups, closer, uploads>>

SignalEnqueued(t) ==
  /\ producer[t] = "appended"
  /\ producer' = [producer EXCEPT ![t] = "done"]
  /\ Wake
  /\ UNCHANGED <<tmVars, queueVars, job, scanAt, run, watcher, wakeups, closer, uploads>>

\* ErrQueueClosed: the producer fails the task and removes what was uploaded.
Reject(t) ==
  /\ producer[t] = "rejected"
  /\ producer' = [producer EXCEPT ![t] = "done"]
  /\ SetTaskError(t)
  /\ uploads' = uploads \ {t}
  /\ UNCHANGED <<queueVars, workerVars, run, watcher, wakeups, closer>>

-----------------------------------------------------------------------------
(* Cancellation and deletion.  An HTTP canceller wakes the worker after it *)
(* cancelled the task, the /cancel command of a bot does not.              *)

CancelByRequest(t) ==
  /\ CancelTask(t)
  /\ wakeups' = wakeups + 1
  /\ UNCHANGED <<queueVars, workerVars, run, watcher, producer, closer, uploads>>

CancelByBot(t) ==
  /\ CancelTask(t)
  /\ UNCHANGED <<queueVars, workerVars, run, watcher, producer, wakeups, closer, uploads>>

CancelQueued ==
  /\ CancelQueuedTasks
  /\ wakeups' = wakeups + 1
  /\ UNCHANGED <<queueVars, workerVars, run, watcher, producer, closer, uploads>>

Wakeup ==
  /\ wakeups > 0
  /\ wakeups' = wakeups - 1
  /\ Wake
  /\ UNCHANGED <<tmVars, queueVars, job, scanAt, run, watcher, producer, closer, uploads>>

Delete(t) ==
  /\ DeleteTask(t)
  /\ UNCHANGED <<queueVars, workerVars, run, watcher, producer, wakeups, closer, uploads>>

\* The cleanup loop ends when the shutdown closes the task manager.
CleanupOld ==
  /\ closer \in {"open", "cancelled"}
  /\ Cleanup
  /\ UNCHANGED <<queueVars, workerVars, run, watcher, producer, wakeups, closer, uploads>>

-----------------------------------------------------------------------------
(* The worker: nextJob, with the scan of nextRunnableLocked one job at a   *)
(* time, and executeJob.                                                   *)

WorkerTop ==
  /\ worker = "top"
  /\ IF closed /\ pending = <<>>
       THEN worker' = "exited" /\ UNCHANGED <<held, scanAt>>
       ELSE worker' = "scan" /\ scanAt' = 1 /\ held' = CleanedTargets
  /\ UNCHANGED <<tmVars, pending, detached, closed, job, run, watcher, producer, wakeups, closer, uploads>>

Scanned == pending[scanAt]
Scanning == worker = "scan" /\ scanAt <= Len(pending)

\* (mistake: the index moves on although a job was removed)
ScanDropSkips ==
  /\ Scanning /\ status[Scanned] # "queued"
  /\ pending' = Without(pending, scanAt)
  /\ scanAt' = scanAt + 1
  /\ UNCHANGED <<tmVars, held, detached, closed, worker, job, run, watcher, producer, wakeups, closer, uploads>>

ScanDrop ==
  /\ Scanning /\ status[Scanned] # "queued"
  /\ pending' = Without(pending, scanAt)
  /\ UNCHANGED <<tmVars, held, detached, closed, workerVars, run, watcher, producer, wakeups, closer, uploads>>

ScanSkip ==
  /\ Scanning /\ status[Scanned] = "queued" /\ Conflicts(Scanned)
  /\ scanAt' = scanAt + 1
  /\ UNCHANGED <<tmVars, queueVars, worker, job, run, watcher, producer, wakeups, closer, uploads>>

ScanPick ==
  /\ Scanning /\ status[Scanned] = "queued" /\ ~Conflicts(Scanned)
  /\ job' = Scanned /\ worker' = "start" /\ scanAt' = 1
  /\ pending' = Without(pending, scanAt)
  /\ held' = TakenTargets(Scanned)
  /\ UNCHANGED <<tmVars, detached, closed, run, watcher, producer, wakeups, closer, uploads>>

ScanEnd ==
  /\ worker = "scan" /\ scanAt > Len(pending)
  /\ worker' = "waiting" /\ scanAt' = 1
  /\ UNCHANGED <<tmVars, queueVars, job, run, watcher, producer, wakeups, closer, uploads>>

\* (mistake: executeJob ignores that the status update was refused)
StartJobAnyway ==
  /\ worker = "start"
  /\ IF StatusAccepted(job, "running") THEN UpdateTaskStatus(job, "running") ELSE UNCHANGED tmVars
  /\ run' = [run EXCEPT ![job] = "live"]
  /\ worker' = "select"
  /\ UNCHANGED <<queueVars, job, scanAt, watcher, producer, wakeups, closer, uploads>>

StartJob ==
  /\ worker = "start"
  /\ IF StatusAccepted(job, "running")
       THEN /\ UpdateTaskStatus(job, "running")
            /\ run' = [run EXCEPT ![job] = "live"]
            /\ worker' = "select"
       ELSE worker' = "release" /\ UNCHANGED <<tmVars, run>>
  /\ UNCHANGED <<queueVars, job, scanAt, watcher, producer, wakeups, closer, uploads>>

\* The two selects on done, and the cases in which they take the other branch.
TakeResult ==
  /\ worker \in {"select", "grace"} /\ run[job] \in Results
  /\ worker' = "handle"
  /\ UNCHANGED <<tmVars, queueVars, job, scanAt, run, watcher, producer, wakeups, closer, uploads>>

\* (mistake: the context is looked at only when the run has returned)
SeeCancelledLate ==
  /\ worker = "select" /\ job \in ctxDone /\ run[job] \in Results
  /\ worker' = "grace"
  /\ UNCHANGED <<tmVars, queueVars, job, scanAt, run, watcher, producer, wakeups, closer, uploads>>

SeeCancelled ==
  /\ worker = "select" /\ job \in ctxDone
  /\ worker' = "grace"
  /\ UNCHANGED <<tmVars, queueVars, job, scanAt, run, watcher, producer, wakeups, closer, uploads>>

\* The grace period is over: the run keeps its keys and gets a watcher.
DetachJob ==
  /\ worker = "grace"
  /\ detached' = detached \cup {job}
  /\ watcher'  = [watcher EXCEPT ![job] = "await"]
  /\ worker' = "top" /\ job' = NoTask
  /\ UNCHANGED <<tmVars, pending, held, closed, scanAt, run, producer, wakeups, closer, uploads>>

HandleResult ==
  /\ worker = "handle"
  /\ HandleRunResult(job)
  /\ worker' = "release"
  /\ UNCHANGED <<queueVars, job, scanAt, run, watcher, producer, wakeups, closer, uploads>>

Release ==
  /\ worker = "release"
  /\ held' = ReleasedTargets(job)
  /\ worker' = "top" /\ job' = NoTask
  /\ UNCHANGED <<tmVars, pending, detached, closed, scanAt, run, watcher, producer, wakeups, closer, uploads>>

WorkerNext ==
  \/ WorkerTop \/ ScanDrop \/ ScanSkip \/ ScanPick \/ ScanEnd
  \/ StartJob \/ TakeResult \/ SeeCancelled \/ DetachJob \/ HandleResult \/ Release

-----------------------------------------------------------------------------
(* The goroutine that waits for a detached run.  Once the queue is closed  *)
(* it drops the result.                                                    *)

WatcherSeesResult(t) ==
  /\ watcher[t] = "await" /\ run[t] \in Results /\ Unlocked
  /\ IF closed
       THEN /\ detached' = detached \ {t}
            /\ watcher'  = [watcher EXCEPT ![t] = "release"]
       ELSE /\ watcher'  = [watcher EXCEPT ![t] = "handle"]
            /\ UNCHANGED detached
  /\ UNCHANGED <<tmVars, pending, held, closed, workerVars, run, producer, wakeups, closer, uploads>>

WatcherHandles(t) ==
  /\ watcher[t] = "handle"
  /\ HandleRunResult(t)
  /\ watcher' = [watcher EXCEPT ![t] = "unregister"]
  /\ UNCHANGED <<queueVars, workerVars, run, producer, wakeups, closer, uploads>>

\* (mistake: the watcher does not release the keys)
WatcherForgetsKeys(t) ==
  /\ watcher[t] = "unregister" /\ Unlocked
  /\ detached' = detached \ {t}
  /\ watcher'  = [watcher EXCEPT ![t] = "broadcast"]
  /\ UNCHANGED <<tmVars, pending, held, closed, workerVars, run, producer, wakeups, closer, uploads>>

WatcherUnregisters(t) ==
  /\ watcher[t] = "unregister" /\ Unlocked
  /\ detached' = detached \ {t}
  /\ watcher'  = [watcher EXCEPT ![t] = "release"]
  /\ UNCHANGED <<tmVars, pending, held, closed, workerVars, run, producer, wakeups, closer, uploads>>

WatcherReleases(t) ==
  /\ watcher[t] = "release" /\ Unlocked
  /\ held'    = ReleasedTargets(t)
  /\ watcher' = [watcher EXCEPT ![t] = "broadcast"]
  /\ UNCHANGED <<tmVars, pending, detached, closed, workerVars, run, producer, wakeups, closer, uploads>>

WatcherBroadcasts(t) ==
  /\ watcher[t] = "broadcast"
  /\ Wake
  /\ watcher' = [watcher EXCEPT ![t] = "done"]
  /\ UNCHANGED <<tmVars, queueVars, job, scanAt, run, producer, wakeups, closer, uploads>>

WatcherNext(t) ==
  \/ WatcherSeesResult(t) \/ WatcherHandles(t) \/ WatcherUnregisters(t)
  \/ WatcherReleases(t) \/ WatcherBroadcasts(t)

-----------------------------------------------------------------------------
(* The run goroutine of a task, as the download service behaves: it        *)
(* reports progress, completes the task just before it returns nil, and    *)
(* otherwise returns an error without a report.                            *)

RunProgress(t) ==
  /\ run[t] = "live"
  /\ UpdateTaskProgress(t)
  /\ UNCHANGED <<queueVars, workerVars, run, watcher, producer, wakeups, closer, uploads>>

RunReports(t) ==
  /\ run[t] = "live"
  /\ CompleteTask(t)
  /\ run' = [run EXCEPT ![t] = "reported"]
  /\ UNCHANGED <<queueVars, workerVars, watcher, producer, wakeups, closer, uploads>>

\* What a run may return in its present state.  A request to the platform that
\* times out ends the run with DeadlineExceeded, cancelled or not.
MayReturn(t) ==
  CASE run[t] = "reported" -> {"nil", "error"}
    [] run[t] = "live"     -> {"error", "deadline"} \cup
                              (IF t \in ctxDone THEN {"canceled"} ELSE {})
    [] OTHER               -> {}

\* cleanupUploadDirAfterTask removes the uploaded files on the way out.
RunReturns(t) ==
  \E r \in MayReturn(t) :
    /\ run' = [run EXCEPT ![t] = r]
    /\ uploads' = uploads \ {t}
    /\ UNCHANGED <<tmVars, queueVars, workerVars, watcher, producer, wakeups, closer>>

-----------------------------------------------------------------------------
(* The part of GracefulShutdown that concerns the queue: CancelAllTasks,   *)
(* then CloseAndWait.  Its timeout may expire at any time.                 *)

ShutdownCancels ==
  /\ closer = "open"
  /\ closer' = "cancelled"
  /\ CancelAllTasks
  /\ UNCHANGED <<queueVars, workerVars, run, watcher, producer, wakeups, uploads>>

CloseQueue ==
  /\ closer = "cancelled" /\ Unlocked
  /\ closed' = TRUE
  /\ closer' = "closing"
  /\ UNCHANGED <<tmVars, pending, held, detached, workerVars, run, watcher, producer, wakeups, uploads>>

BroadcastClosed ==
  /\ closer = "closing"
  /\ Wake
  /\ closer' = "draining"
  /\ UNCHANGED <<tmVars, queueVars, job, scanAt, run, watcher, producer, wakeups, uploads>>

\* (mistake: detached runs are not waited for)
DrainedWorker ==
  /\ closer = "draining" /\ worker = "exited"
  /\ closer' = "drained"
  /\ UNCHANGED <<tmVars, queueVars, workerVars, run, watcher, producer, wakeups, uploads>>

Drained ==
  /\ closer = "draining" /\ worker = "exited"
  /\ \A t \in Tasks : watcher[t] \in {"none", "done"}
  /\ closer' = "drained"
  /\ UNCHANGED <<tmVars, queueVars, workerVars, run, watcher, producer, wakeups, uploads>>

DrainTimesOut ==
  /\ closer = "draining"
  /\ closer' = "timedOut"
  /\ UNCHANGED <<tmVars, queueVars, workerVars, run, watcher, producer, wakeups, uploads>>

-----------------------------------------------------------------------------
ProducerStep(t) == Enqueue(t) \/ SignalEnqueued(t) \/ Reject(t)

TaskNext(t) ==
  \/ \E d \in Payloads : Create(t, d) \/ CreateUpload(t, d)
  \/ \E old \in Tasks : Retry(old, t)
  \/ ProducerStep(t)
  \/ CancelByRequest(t) \/ CancelByBot(t) \/ Delete(t)
  \/ WatcherNext(t)
  \/ RunProgress(t) \/ RunReports(t) \/ RunReturns(t)

CloserStep == CloseQueue \/ BroadcastClosed \/ Drained

Next ==
  \/ \E t \in Tasks : TaskNext(t)
  \/ CancelQueued \/ Wakeup \/ CleanupOld
  \/ WorkerNext
  \/ ShutdownCancels \/ CloserStep \/ DrainTimesOut

\* What the Go scheduler runs goes on, and a run that does not hang returns one
\* day.  Nothing is assumed of users (that they create, cancel or delete) or of
\* the shutdown.
Fairness ==
  /\ WF_vars(WorkerNext)
  /\ WF_vars(Wakeup)
  /\ \A t \in Tasks : WF_vars(ProducerStep(t)) /\ WF_vars(WatcherNext(t))
  /\ \A t \in Tasks \ Hanging : WF_vars(RunReturns(t))

Spec == Init /\ [][Next]_vars
FairSpec == Spec /\ Fairness

-----------------------------------------------------------------------------
(* Safety.                                                                 *)

\* The goroutine that took charge of t's run has finished with it.
Settled(t) == run[t] \in Results /\ job # t /\ watcher[t] \in {"none", "done"}

\* Two runs that execute at the same time never download into the same
\* account, even when one of them was cancelled and left behind: that is what
\* heldTargets and detached are for.
RunsExcludeEachOther ==
  \A s, t \in Tasks :
    s # t /\ Live(s) /\ Live(t) => Accounts(data[s]) \cap Accounts(data[t]) = {}

\* A task that is queued, and whose enqueueing succeeded, is either still in
\* the queue or in the worker's hands: the removals from pending by index and
\* the early returns of the worker lose no task.
NeverForgotten ==
  \A t \in Tasks :
    status[t] = "queued" /\ producer[t] \in {"appended", "done"}
      => job = t \/ \E i \in DOMAIN pending : pending[i] = t

\* Once the worker or the watcher is done with a run that returned nil, an
\* error of its own or a cancellation, its task is not left active.
OutcomeRecorded ==
  \A t \in Tasks :
    Settled(t) /\ run[t] \in {"nil", "error", "canceled"} => status[t] \notin Active

\* The final progress of a task stays what the terminal status made it, while
\* its run, cancelled or detached, goes on reporting progress.
ProgressFrozen ==
  \A t \in Tasks : status[t] \in Terminal => stage[t] = TerminalStage(status[t])

\* A run that reads uploaded files finds them: neither a rejection, nor the
\* end of another run, nor a retry leaves it without its directory.
UploadAvailable ==
  \A t \in Tasks : Live(t) /\ data[t].upload => t \in uploads

\* Nothing that a task needs gets lost on its way through the queue: neither the
\* task itself nor the files that were uploaded for it.
TasksAreKept == NeverForgotten /\ UploadAvailable

\* CloseAndWait returned before its timeout: no run is executing, no key is
\* held, and no task will be started.
DrainedIsQuiet ==
  closer = "drained" =>
    /\ pending = <<>> /\ detached = {}
    /\ \A t \in Tasks : ~Live(t)
    /\ \A k \in Keys : held[k] = NoTask

(* Why RunsExcludeEachOther holds: an inductive invariant.                 *)

\* A task in the table has one of the producers' data; one that the worker
\* has not started has no run.
NotStarted ==
  \A t \in Tasks :
    /\ status[t] # "absent" => data[t] \in Payloads
    /\ status[t] \in {"absent", "queued"} => run[t] = "none"
    /\ watcher[t] # "none" => run[t] # "none" /\ job # t

\* The worker has a job exactly while it executes it, and holds its keys.
JobHeld ==
  /\ job \in Tasks <=> worker \in {"start", "select", "grace", "handle", "release"}
  /\ job \in Tasks => status[job] # "absent"
  /\ worker \in {"select", "grace", "handle"} => run[job] # "none"
  /\ worker \in {"start", "select", "grace", "handle"} => \A k \in KeysOf(job) : held[k] = job

\* A run that executes is waited for, by the worker or by its watcher, and
\* holds all the keys of its task.
LiveHeld ==
  \A t \in Tasks : Live(t) =>
    /\ \/ job = t /\ worker \in {"select", "grace"}
       \/ t \in detached /\ watcher[t] = "await"
    /\ \A k \in KeysOf(t) : held[k] = t

\* Keys held by different tasks do not conflict.
HeldCompatible ==
  \A k, h \in Keys :
    held[k] # NoTask /\ held[h] # NoTask /\ TargetsConflict(k, h) => held[k] = held[h]

\* The keys are held the way that excludes conflicting runs: from the pick in
\* the scan, over cancellation and detachment, to the release.
KeyDiscipline == NotStarted /\ JobHeld /\ LiveHeld /\ HeldCompatible

(* What a step may never do.                                               *)

\* A task's status moves along the transitions of canTransitionStatus, and
\* leaves a terminal status only by deletion, whichever of the worker, the
\* watcher, the run and the cancellers come first.
LegalTransitions ==
  [][\A t \in Tasks :
       status'[t] # status[t] =>
         \/ status[t] = "absent" /\ status'[t] = "queued"
         \/ status[t] \in Terminal /\ status'[t] = "deleted"
         \/ CanTransitionStatus(status[t], status'[t])]_vars

\* The outcome of a run reaches the task table, once: it is recorded when the run
\* is done with, and neither late results nor late progress change it afterwards.
OutcomeIsFinal == LegalTransitions /\ [](OutcomeRecorded /\ ProgressFrozen)

\* The worker never takes a job before an older one that is still queued and
\* works on targets of that job only: tasks for one account run in the order
\* in which they were enqueued.
SameTargetFIFO ==
  [][\A i \in DOMAIN pending :
       (worker = "scan" /\ job' # job /\ i < scanAt /\ status[pending[i]] = "queued")
         => ~(KeysOf(pending[i]) \subseteq KeysOf(job'))]_vars

-----------------------------------------------------------------------------
(* The promise of the queue, as an abstract specification.                 *)

\* Where a task is in its life, for one who sees only whether it runs.
Phase(t) ==
  CASE Live(t)                                     -> "active"
    [] status[t] = "absent"                        -> "absent"
    [] status[t] = "queued" /\ run[t] = "none"     -> "waiting"
    [] OTHER                                       -> "ended"

Promise == INSTANCE ExclusiveRuns WITH
  phase <- [t \in Tasks |-> Phase(t)],
  reach <- [t \in Tasks |-> IF status[t] = "absent" THEN {} ELSE Accounts(data[t])]

\* Every step of the queue, its producers, its runs and the shutdown is a step
\* of ExclusiveRuns: no task runs twice or after it was cancelled while it
\* waited, and no run starts beside another one with an account in common.
KeepsPromise == Promise!Spec

-----------------------------------------------------------------------------
(* Liveness.                                                               *)

\* A run that may hang keeps task t from its turn: it has the worker, because
\* nobody cancelled it, or it holds keys of targets that t shares.
Blocked(t) ==
  \E s \in Hanging \ {t} :
    \/ job = s /\ s \notin ctxDone
    \/ /\ status[t] = "queued"
       /\ \E k \in KeysOf(t), h \in Keys : held[h] = s /\ TargetsConflict(k, h)

\* No wakeup that matters is lost, and a run that hangs takes only its own
\* targets with it: an enqueued task is served or cancelled, unless a hanging
\* run blocks it for ever.
QueuedIsServed ==
  \A t \in Tasks :
    []<>~Blocked(t) => ((status[t] = "queued" /\ producer[t] = "done") ~> (status[t] # "queued"))

\* The keys of a detached run that returns come back.
DetachedKeysReturned ==
  \A t \in Tasks \ Hanging : (t \in detached) ~> (\A k \in Keys : held[k] # t)

\* A cancelled run that hangs does not hang the worker.
CancelFreesWorker ==
  \A t \in Tasks : (job = t /\ t \in ctxDone) ~> (job # t)

\* A cancelled run is left behind: the worker goes on without it, and its keys
\* come back when it returns.
CancelledIsLeft == CancelFreesWorker /\ DetachedKeysReturned

-----------------------------------------------------------------------------
(* What the documentation says and the code does not do.                   *)

\* API_DOCUMENTATION.md: a task ends as completed or failed.  A run that ended
\* with a timed-out request leaves its task running.
FinishedIsTerminal ==
  \A t \in Tasks : Settled(t) => status[t] \notin Active
=============================================================================
