------------------------ MODULE DownloadQueueProofs ------------------------
(***************************************************************************)
(* Theorems about DownloadQueue, for any tasks, payloads and accounts.     *)
(***************************************************************************)
EXTENDS DownloadQueue, SequenceTheorems, TLAPS

-----------------------------------------------------------------------------
(* Facts about the target keys.                                            *)

\* The keys of a task's data are keys.
LEMMA KeysTyped == ASSUME NEW d \in Data PROVE TaskTargetKeys(d) \subseteq Keys
  BY TargetsAssumption DEF Data, TaskTargetKeys, Keys

\* Two tasks that work on a common account have conflicting keys.
LEMMA CommonAccountConflicts ==
  ASSUME NEW c \in Data, NEW d \in Data, Accounts(c) \cap Accounts(d) # {}
  PROVE  \E k \in TaskTargetKeys(c), h \in TaskTargetKeys(d) : TargetsConflict(k, h)
<1>1. PICK a : a \in Accounts(c) /\ a \in Accounts(d)
  OBVIOUS
<1>2. ASSUME NEW e \in Data, a \in Accounts(e)
      PROVE  Wildcard \in TaskTargetKeys(e) \/ a \in TaskTargetKeys(e)
  <2>1. CASE e.wide
    BY <2>1 DEF TaskTargetKeys
  <2>2. CASE ~e.wide
    BY <1>2, <2>2 DEF TaskTargetKeys, Accounts
  <2> QED BY <2>1, <2>2
<1>3. \E h \in TaskTargetKeys(d) : h = Wildcard \/ h = a
  BY <1>1, <1>2
<1>4. \E k \in TaskTargetKeys(c) : k = Wildcard \/ k = a
  BY <1>1, <1>2
<1> QED BY <1>3, <1>4 DEF TargetsConflict

\* Conflict is reflexive and symmetric.
LEMMA ConflictSymmetric ==
  \A k, h : /\ TargetsConflict(k, k)
            /\ TargetsConflict(k, h) <=> TargetsConflict(h, k)
  BY DEF TargetsConflict

-----------------------------------------------------------------------------
(* Facts about the helpers.                                                *)

\* Taking one job out of pending leaves a sequence of tasks.
LEMMA WithoutTyped ==
  ASSUME NEW s \in Seq(Tasks), NEW i \in 1 .. Len(s)
  PROVE  Without(s, i) \in Seq(Tasks)
<1>1. SubSeq(s, 1, i - 1) \in Seq(Tasks) /\ SubSeq(s, i + 1, Len(s)) \in Seq(Tasks)
  BY SMT
<1> QED BY <1>1 DEF Without

-----------------------------------------------------------------------------
(* The task table.                                                         *)

\* What every operation on the table but CreateTask does to the tasks: the
\* same ones are there or gone, with the same data, and none is queued again.
Onward ==
  /\ data' = data
  /\ \A t \in Tasks : /\ status'[t] = "absent" <=> status[t] = "absent"
                      /\ status'[t] = "queued" => status[t] = "queued"

\* Finish, applied to active tasks.
LEMMA FinishOnward ==
  ASSUME TMTypeOK, NEW S \in SUBSET Tasks, \A t \in S : status[t] \in Active,
         NEW s \in Terminal, Finish(S, s)
  PROVE  TMTypeOK' /\ Onward
<1>1. status' \in [Tasks -> Status \cup {"absent", "deleted"}]
  BY DEF TMTypeOK, Finish, Status
<1>2. stage' \in [Tasks -> Stages]
  BY DEF TMTypeOK, Finish, TerminalStage, Stages
<1>3. TMTypeOK'
  BY <1>1, <1>2 DEF TMTypeOK, Finish
<1>4. Onward
  BY DEF TMTypeOK, Finish, Onward, Active, Terminal
<1> QED BY <1>3, <1>4

\* The operations on tasks that exist.
LEMMA OperationsOnward ==
  ASSUME TMTypeOK, NEW t \in Tasks
  PROVE  /\ SetTaskError(t)       => TMTypeOK' /\ Onward
         /\ CompleteTask(t)       => TMTypeOK' /\ Onward
         /\ UpdateTaskProgress(t) => TMTypeOK' /\ Onward
         /\ CancelTask(t)         => TMTypeOK' /\ Onward
         /\ CancelAllTasks        => TMTypeOK' /\ Onward
         /\ CancelQueuedTasks     => TMTypeOK' /\ Onward
         /\ DeleteTask(t)         => TMTypeOK' /\ Onward
         /\ Cleanup               => TMTypeOK' /\ Onward
         /\ HandleRunResult(t)    => TMTypeOK' /\ Onward
         /\ UNCHANGED tmVars      => TMTypeOK' /\ Onward
<1>0. UNCHANGED tmVars => TMTypeOK' /\ Onward
  BY DEF tmVars, TMTypeOK, Onward
<1>1. SetTaskError(t) => TMTypeOK' /\ Onward
  BY <1>0, FinishOnward DEF SetTaskError, Terminal
<1>2. CompleteTask(t) => TMTypeOK' /\ Onward
  <2>1. StatusAccepted(t, "completed") => status[t] \in Active
    BY DEF StatusAccepted, Known, CanTransitionStatus, Active, Terminal, Status
  <2> QED BY <1>0, <2>1, FinishOnward DEF CompleteTask, Terminal
<1>3. UpdateTaskProgress(t) => TMTypeOK' /\ Onward
  BY <1>0 DEF UpdateTaskProgress, TMTypeOK, Stages, Onward
<1>4. CancelTask(t) => TMTypeOK' /\ Onward
  BY FinishOnward DEF CancelTask, Terminal
<1>5. CancelAllTasks => TMTypeOK' /\ Onward
  BY FinishOnward DEF CancelAllTasks, Terminal
<1>6. CancelQueuedTasks => TMTypeOK' /\ Onward
  BY FinishOnward DEF CancelQueuedTasks, QueuedTasks, Active, Terminal
<1>7. ASSUME NEW S, Remove(S) PROVE TMTypeOK' /\ Onward
  BY <1>7 DEF Remove, TMTypeOK, Terminal, Status, Onward
<1>8. (DeleteTask(t) => TMTypeOK' /\ Onward) /\ (Cleanup => TMTypeOK' /\ Onward)
  BY <1>7 DEF DeleteTask, Cleanup
<1>9. HandleRunResult(t) => TMTypeOK' /\ Onward
  BY <1>0, <1>1 DEF HandleRunResult
<1> QED BY <1>0, <1>1, <1>2, <1>3, <1>4, <1>5, <1>6, <1>8, <1>9

-----------------------------------------------------------------------------
(* Type correctness.                                                       *)

\* The table stays well typed, given that the worker handles results of tasks.
LEMMA TMTypeOKStep ==
  ASSUME TypeOK, JobHeld, [Next]_vars PROVE TMTypeOK'
<1> USE DEF TypeOK
<1>1. ASSUME NEW t \in Tasks, NEW d \in Payloads, CreateTask(t, d) PROVE TMTypeOK'
  BY <1>1 DEF CreateTask, TMTypeOK, Status, Active
<1>2. ASSUME NEW t \in Tasks, TaskNext(t) PROVE TMTypeOK'
  <2>1. ASSUME NEW d \in Payloads, Create(t, d) \/ CreateUpload(t, d) PROVE TMTypeOK'
    BY <1>1, <2>1 DEF Create, CreateUpload
  <2>2. ASSUME NEW old \in Tasks, Retry(old, t) PROVE TMTypeOK'
    BY <2>2 DEF Retry, RetryTask, CreateTask, TMTypeOK, Status, Active
  <2>3. CASE ProducerStep(t)
    BY <2>3, OperationsOnward DEF ProducerStep, Enqueue, SignalEnqueued, Reject
  <2>4. CASE CancelByRequest(t) \/ CancelByBot(t) \/ Delete(t)
    BY <2>4, OperationsOnward DEF CancelByRequest, CancelByBot, Delete
  <2>5. CASE WatcherNext(t)
    BY <2>5, OperationsOnward
    DEF WatcherNext, WatcherSeesResult, WatcherHandles, WatcherUnregisters,
        WatcherReleases, WatcherBroadcasts
  <2>6. CASE RunProgress(t) \/ RunReports(t) \/ RunReturns(t)
    BY <2>6, OperationsOnward DEF RunProgress, RunReports, RunReturns
  <2> QED BY <1>2, <2>1, <2>2, <2>3, <2>4, <2>5, <2>6 DEF TaskNext
<1>3. CASE CancelQueued \/ Wakeup \/ CleanupOld
  <2>1. CASE Tasks = {}
    BY <2>1, <1>3 DEF CancelQueued, CancelQueuedTasks, QueuedTasks, CleanupOld, Cleanup,
                      Remove, Wakeup, tmVars, TMTypeOK
  <2>2. CASE Tasks # {}
    BY <2>2, <1>3, OperationsOnward DEF CancelQueued, Wakeup, CleanupOld
  <2> QED BY <2>1, <2>2
<1>4. CASE WorkerNext
  <2>1. CASE StartJob
    BY <2>1 DEF StartJob, JobHeld, UpdateTaskStatus, TMTypeOK, tmVars, Status, Active, Terminal
  <2>2. CASE HandleResult
    BY <2>2, OperationsOnward DEF HandleResult, JobHeld
  <2>3. CASE ~StartJob /\ ~HandleResult
    BY <1>4, <2>3
    DEF WorkerNext, WorkerTop, ScanDrop, ScanSkip, ScanPick, ScanEnd, TakeResult,
        SeeCancelled, DetachJob, Release, tmVars, TMTypeOK
  <2> QED BY <2>1, <2>2, <2>3
<1>5. CASE ShutdownCancels \/ CloserStep \/ DrainTimesOut
  <2>1. CASE ShutdownCancels
    BY <2>1, FinishOnward DEF ShutdownCancels, CancelAllTasks, Terminal
  <2>2. CASE CloserStep \/ DrainTimesOut
    BY <2>2
    DEF CloserStep, CloseQueue, BroadcastClosed, Drained, DrainTimesOut, tmVars, TMTypeOK
  <2> QED BY <1>5, <2>1, <2>2
<1>6. CASE UNCHANGED vars
  BY <1>6 DEF vars, tmVars, TMTypeOK
<1> QED BY <1>2, <1>3, <1>4, <1>5, <1>6 DEF Next

\* Wake only moves the worker out of its sleep.
LEMMA WakeMoves ==
  ASSUME Wake PROVE worker' = worker \/ (worker = "waiting" /\ worker' = "top")
  BY DEF Wake

\* And so do the queue, the worker, the runs, their watchers and the shutdown.
LEMMA TypeOKStep ==
  ASSUME TypeOK, JobHeld, [Next]_vars PROVE TypeOK'
<1> USE DEF TypeOK
<1>0. TMTypeOK'
  BY TMTypeOKStep
<1>1. ASSUME NEW t \in Tasks,
             \/ ProducerStep(t)
             \/ \E d \in Payloads : Create(t, d) \/ CreateUpload(t, d)
             \/ \E old \in Tasks : Retry(old, t)
      PROVE  TypeOK'
  <2>1. CASE Enqueue(t)
    <3>1. pending' \in Seq(Tasks)
      BY <2>1 DEF Enqueue
    <3>2. producer' \in [Tasks -> {"idle", "created", "appended", "rejected", "done"}]
      BY <2>1 DEF Enqueue
    <3> QED BY <1>0, <2>1, <3>1, <3>2 DEF Enqueue, workerVars
  <2>2. CASE SignalEnqueued(t)
    BY <1>0, <2>2, WakeMoves DEF SignalEnqueued, queueVars
  <2>3. CASE Reject(t)
    BY <1>0, <2>3 DEF Reject, queueVars, workerVars
  <2>4. ASSUME NEW d \in Payloads, Create(t, d) \/ CreateUpload(t, d) PROVE TypeOK'
    BY <1>0, <2>4 DEF Create, CreateUpload, queueVars, workerVars
  <2>5. ASSUME NEW old \in Tasks, Retry(old, t) PROVE TypeOK'
    BY <1>0, <2>5 DEF Retry, queueVars, workerVars
  <2> QED BY <1>1, <2>1, <2>2, <2>3, <2>4, <2>5 DEF ProducerStep
<1>2. ASSUME NEW t \in Tasks, CancelByRequest(t) \/ CancelByBot(t) \/ Delete(t)
      PROVE  TypeOK'
  BY <1>0, <1>2 DEF CancelByRequest, CancelByBot, Delete, queueVars, workerVars
<1>3. ASSUME NEW t \in Tasks, WatcherNext(t) PROVE TypeOK'
  BY <1>0, <1>3, WakeMoves
  DEF WatcherNext, WatcherSeesResult, WatcherHandles, WatcherUnregisters, WatcherReleases,
      WatcherBroadcasts, ReleasedTargets, queueVars, workerVars
<1>4. ASSUME NEW t \in Tasks, RunProgress(t) \/ RunReports(t) \/ RunReturns(t)
      PROVE  TypeOK'
  BY <1>0, <1>4
  DEF RunProgress, RunReports, RunReturns, MayReturn, Results, queueVars, workerVars
<1>5. CASE CancelQueued \/ Wakeup \/ CleanupOld
  BY <1>0, <1>5, WakeMoves DEF CancelQueued, Wakeup, CleanupOld, queueVars, workerVars
<1>6. CASE WorkerNext
  <2>1. CASE WorkerTop
    BY <1>0, <2>1 DEF WorkerTop, CleanedTargets
  <2>2. ASSUME Scanning PROVE Scanned \in Tasks /\ Without(pending, scanAt) \in Seq(Tasks)
    BY <2>2, WithoutTyped DEF Scanning, Scanned
  <2>3. CASE ScanDrop \/ ScanSkip \/ ScanPick \/ ScanEnd
    BY <1>0, <2>2, <2>3
    DEF ScanDrop, ScanSkip, ScanPick, ScanEnd, TakenTargets, queueVars, workerVars
  <2>4. CASE StartJob
    BY <1>0, <2>4 DEF StartJob, JobHeld, queueVars
  <2>5. CASE TakeResult \/ SeeCancelled \/ DetachJob \/ HandleResult \/ Release
    BY <1>0, <2>5
    DEF TakeResult, SeeCancelled, DetachJob, HandleResult, Release, ReleasedTargets,
        JobHeld, queueVars
  <2> QED BY <1>6, <2>1, <2>3, <2>4, <2>5 DEF WorkerNext
<1>7. CASE ShutdownCancels \/ CloserStep \/ DrainTimesOut
  BY <1>0, <1>7, WakeMoves
  DEF ShutdownCancels, CloserStep, CloseQueue, BroadcastClosed, Drained, DrainTimesOut,
      queueVars, workerVars
<1>8. CASE UNCHANGED vars
  BY <1>0, <1>8 DEF vars, queueVars, workerVars
<1> QED BY <1>1, <1>2, <1>3, <1>4, <1>5, <1>6, <1>7, <1>8 DEF Next, TaskNext

-----------------------------------------------------------------------------
(* The key discipline is preserved.                                        *)

Idle == {"top", "scan", "waiting", "exited"}

\* A step that takes no job, hands none over and leaves the keys alone keeps
\* the discipline, whatever it does to the task table but create.
LEMMA KeyFrame ==
  ASSUME TypeOK, KeyDiscipline, Onward,
         held' = held, detached' = detached, job' = job, watcher' = watcher,
         \A t \in Tasks : (run'[t] = "none" <=> run[t] = "none") /\ (Live(t)' => Live(t)),
         worker' = worker \/ (worker \in Idle /\ worker' \in Idle)
  PROVE  KeyDiscipline'
<1> USE DEF KeyDiscipline, Onward
<1>1. NotStarted'
  BY DEF NotStarted
<1>2. JobHeld'
  BY QueueAssumption DEF JobHeld, KeysOf, Idle, TypeOK
<1>3. LiveHeld'
  BY DEF LiveHeld, KeysOf, Idle
<1>4. HeldCompatible'
  BY DEF HeldCompatible
<1> QED BY <1>1, <1>2, <1>3, <1>4

\* A new task: its data is set, and no job or run has anything to do with it.
LEMMA KeyCreate ==
  ASSUME TypeOK, KeyDiscipline, NEW t \in Tasks, NEW d \in Payloads, CreateTask(t, d),
         UNCHANGED <<queueVars, workerVars, run, watcher>>
  PROVE  KeyDiscipline'
<1> USE DEF KeyDiscipline, CreateTask, queueVars, workerVars
<1>1. status'[t] = "queued" /\ data'[t] = d /\ status[t] = "absent"
  BY DEF TypeOK, TMTypeOK
<1>2. \A s \in Tasks \ {t} : status'[s] = status[s] /\ data'[s] = data[s]
  BY DEF TypeOK, TMTypeOK
<1>3. NotStarted'
  BY <1>1, <1>2 DEF NotStarted
<1>4. job # t /\ ~Live(t)
  BY <1>1 DEF JobHeld, NotStarted, Live
<1>5. JobHeld'
  BY <1>2, <1>4, QueueAssumption DEF JobHeld, KeysOf, TypeOK
<1>6. LiveHeld'
  BY <1>2, <1>4 DEF LiveHeld, KeysOf, Live
<1>7. HeldCompatible'
  BY DEF HeldCompatible
<1> QED BY <1>3, <1>5, <1>6, <1>7

\* A step that leaves the task table alone.
LEMMA TableSame == ASSUME UNCHANGED tmVars PROVE Onward
  BY DEF tmVars, Onward

\* The keys of a task in the table are keys.
LEMMA KeysTypedOf ==
  ASSUME NotStarted
  PROVE  \A t \in Tasks : status[t] # "absent" => KeysOf(t) \subseteq Keys
  BY KeysTyped, QueueAssumption DEF NotStarted, KeysOf

\* Releasing the keys of a task without an executing run, whatever becomes of
\* the worker and of that task's watcher.
LEMMA KeyRelease ==
  ASSUME TypeOK, KeyDiscipline, NEW t \in Tasks, ~Live(t), held' = ReleasedTargets(t),
         UNCHANGED <<tmVars, detached, run>>,
         \A s \in Tasks \ {t} : watcher'[s] = watcher[s],
         (job' = job /\ worker' = worker) \/ worker = "release"
  PROVE  LiveHeld' /\ HeldCompatible'
<1> USE DEF KeyDiscipline
<1>1. \A k \in Keys : held'[k] = IF held[k] = t THEN NoTask ELSE held[k]
  BY DEF ReleasedTargets
<1>2. HeldCompatible'
  BY <1>1 DEF HeldCompatible
<1>3. LiveHeld'
  <2> SUFFICES ASSUME NEW s \in Tasks, Live(s)'
               PROVE  /\ \/ job' = s /\ worker' \in {"select", "grace"}
                         \/ s \in detached' /\ watcher'[s] = "await"
                      /\ \A k \in KeysOf(s)' : held'[k] = s
    BY DEF LiveHeld
  <2>1. Live(s) /\ s # t /\ KeysOf(s)' = KeysOf(s) /\ KeysOf(s) \subseteq Keys
    BY KeysTypedOf DEF Live, KeysOf, tmVars, NotStarted
  <2>2. /\ \/ job = s /\ worker \in {"select", "grace"}
           \/ s \in detached /\ watcher[s] = "await"
        /\ \A k \in KeysOf(s) : held[k] = s
    BY <2>1 DEF LiveHeld
  <2> QED BY <1>1, <2>1, <2>2
<1> QED BY <1>2, <1>3

\* Stale keys: an executing run without a job is detached, so it keeps them.
LEMMA KeyWorkerTop ==
  ASSUME TypeOK, KeyDiscipline, WorkerTop PROVE KeyDiscipline'
<1> USE DEF KeyDiscipline, WorkerTop
<1>1. CASE worker' = "exited"
  BY <1>1, KeyFrame, TableSame DEF Idle, Live
<1>2. CASE worker' = "scan"
  <2>1. held' = CleanedTargets /\ job \notin Tasks
    BY <1>2 DEF JobHeld
  <2>2. \A k \in Keys : held'[k] = held[k] \/ held'[k] = NoTask
    BY <2>1 DEF CleanedTargets
  <2>3. \A t \in Tasks, k \in Keys : t \in detached /\ held[k] = t => held'[k] = t
    BY <2>1 DEF CleanedTargets, Stale
  <2>4. NotStarted' /\ JobHeld'
    BY <1>2 DEF NotStarted, JobHeld, tmVars
  <2>5. LiveHeld'
    <3> SUFFICES ASSUME NEW t \in Tasks, Live(t)'
                 PROVE  /\ t \in detached /\ watcher[t] = "await"
                        /\ \A k \in KeysOf(t)' : held'[k] = t
      BY DEF LiveHeld
    <3>1. Live(t) /\ KeysOf(t)' = KeysOf(t)
      BY DEF Live, KeysOf, tmVars
    <3>2. t \in detached /\ watcher[t] = "await" /\ \A k \in KeysOf(t) : held[k] = t
      BY <2>1, <3>1 DEF LiveHeld
    <3>3. KeysOf(t) \subseteq Keys
      <4>1. status[t] # "absent"
        BY <3>1 DEF NotStarted, Live
      <4>2. data[t] \in Data
        BY <4>1, QueueAssumption DEF NotStarted
      <4> QED BY <4>2, KeysTyped DEF KeysOf
    <3> QED BY <2>3, <3>1, <3>2, <3>3
  <2>6. HeldCompatible'
    BY <2>2 DEF HeldCompatible
  <2> QED BY <2>4, <2>5, <2>6
<1> QED BY <1>1, <1>2

\* The pick takes only keys that conflict with no held key, so it takes none
\* from an executing run.
LEMMA KeyScanPick ==
  ASSUME TypeOK, KeyDiscipline, ScanPick PROVE KeyDiscipline'
<1> DEFINE p == Scanned
<1> USE DEF KeyDiscipline
<1>1. /\ p \in Tasks /\ status[p] = "queued" /\ ~Conflicts(p)
      /\ worker = "scan" /\ worker' = "start" /\ job' = p /\ held' = TakenTargets(p)
      /\ UNCHANGED <<status, data, ctxDone, stage, detached, run, watcher>>
  BY DEF ScanPick, Scanning, Scanned, TypeOK, tmVars
<1> HIDE DEF p
<1>2. run[p] = "none" /\ watcher[p] = "none"
  BY <1>1 DEF NotStarted
<1>3. KeysOf(p) \subseteq Keys
  BY <1>1, KeysTyped, QueueAssumption DEF NotStarted, KeysOf
<1>4. /\ \A k \in KeysOf(p) : held'[k] = p
      /\ \A k \in Keys \ KeysOf(p) : held'[k] = held[k]
  BY <1>1, <1>3 DEF TakenTargets
<1>5. \A k \in KeysOf(p), h \in Keys : held[h] # NoTask => ~TargetsConflict(k, h)
  BY <1>1 DEF Conflicts
<1>6. NotStarted'
  BY <1>1, <1>2 DEF NotStarted
<1>7. JobHeld'
  BY <1>1, <1>4 DEF JobHeld, KeysOf
<1>8. LiveHeld'
  <2> SUFFICES ASSUME NEW t \in Tasks, Live(t)'
               PROVE  /\ t \in detached /\ watcher[t] = "await"
                      /\ \A k \in KeysOf(t)' : held'[k] = t
    BY <1>1 DEF LiveHeld
  <2>1. Live(t) /\ KeysOf(t)' = KeysOf(t)
    BY <1>1 DEF Live, KeysOf
  <2>2. t \in detached /\ watcher[t] = "await" /\ \A k \in KeysOf(t) : held[k] = t
    BY <1>1, <2>1 DEF LiveHeld
  <2>3. KeysOf(t) \subseteq Keys
    <3>1. data[t] \in Data
      BY <2>1, QueueAssumption DEF NotStarted, Live
    <3> QED BY <3>1, KeysTyped DEF KeysOf
  <2>4. \A k \in KeysOf(t) : k \notin KeysOf(p)
    BY <1>5, <2>2, <2>3, ConflictSymmetric, QueueAssumption
  <2> QED BY <1>4, <2>1, <2>2, <2>3, <2>4
<1>9. HeldCompatible'
  <2> SUFFICES ASSUME NEW k \in Keys, NEW h \in Keys, held'[k] # NoTask, held'[h] # NoTask,
                      TargetsConflict(k, h)
               PROVE  held'[k] = held'[h]
    BY DEF HeldCompatible
  <2>1. CASE k \in KeysOf(p) /\ h \notin KeysOf(p)
    BY <1>4, <1>5, <2>1
  <2>2. CASE k \notin KeysOf(p) /\ h \in KeysOf(p)
    BY <1>4, <1>5, <2>2, ConflictSymmetric
  <2>3. CASE k \in KeysOf(p) /\ h \in KeysOf(p)
    BY <1>4, <2>3
  <2>4. CASE k \notin KeysOf(p) /\ h \notin KeysOf(p)
    BY <1>4, <2>4 DEF HeldCompatible
  <2> QED BY <2>1, <2>2, <2>3, <2>4
<1> QED BY <1>6, <1>7, <1>8, <1>9

\* The run that starts is that of a task queued until now, whose keys are held.
LEMMA KeyStartJob ==
  ASSUME TypeOK, KeyDiscipline, StartJob PROVE KeyDiscipline'
<1> USE DEF KeyDiscipline
<1>1. job \in Tasks /\ worker = "start" /\ UNCHANGED <<queueVars, job, watcher>>
  BY DEF StartJob, JobHeld
<1>2. CASE StatusAccepted(job, "running")
  <2>1. /\ status[job] \in Active
        /\ status' = [status EXCEPT ![job] = "running"] /\ data' = data
        /\ run' = [run EXCEPT ![job] = "live"] /\ worker' = "select"
    BY <1>2 DEF StartJob, UpdateTaskStatus, StatusAccepted, CanTransitionStatus, Active, Terminal
  <2>2. watcher[job] = "none"
    BY <1>1 DEF NotStarted
  <2>3. \A t \in Tasks \ {job} : Live(t)' <=> Live(t)
    BY <2>1 DEF Live, TypeOK
  <2>4. NotStarted'
    BY <1>1, <2>1, <2>2 DEF NotStarted, TypeOK, TMTypeOK, Active
  <2>5. JobHeld'
    BY <1>1, <2>1 DEF JobHeld, KeysOf, queueVars, TypeOK, TMTypeOK, Active
  <2>6. LiveHeld'
    BY <1>1, <2>1, <2>3 DEF LiveHeld, JobHeld, KeysOf, queueVars
  <2>7. HeldCompatible'
    BY <1>1 DEF HeldCompatible, queueVars
  <2> QED BY <2>4, <2>5, <2>6, <2>7
<1>3. CASE ~StatusAccepted(job, "running")
  BY <1>1, <1>3 DEF StartJob, NotStarted, JobHeld, LiveHeld, HeldCompatible, KeysOf, Live,
                    tmVars, queueVars
<1> QED BY <1>2, <1>3

\* The worker's other steps with a job: the run it leaves has returned, or goes
\* on detached, and only the keys of a returned run are released.
LEMMA KeyJobSteps ==
  ASSUME TypeOK, KeyDiscipline, TakeResult \/ SeeCancelled \/ DetachJob \/ HandleResult \/ Release
  PROVE  KeyDiscipline'
<1> USE DEF KeyDiscipline
<1>1. CASE TakeResult \/ SeeCancelled
  BY <1>1
  DEF TakeResult, SeeCancelled, NotStarted, JobHeld, LiveHeld, HeldCompatible, KeysOf, Live,
      Results, tmVars, queueVars
<1>2. CASE DetachJob
  <2>1. /\ job \in Tasks /\ run[job] # "none" /\ job' = NoTask /\ worker' = "top"
        /\ detached' = detached \cup {job} /\ watcher' = [watcher EXCEPT ![job] = "await"]
        /\ UNCHANGED <<tmVars, held, run>>
    BY <1>2 DEF DetachJob, JobHeld
  <2>2. NotStarted'
    BY <2>1, QueueAssumption DEF NotStarted, TypeOK, tmVars
  <2>3. JobHeld'
    BY <2>1, QueueAssumption DEF JobHeld
  <2>4. LiveHeld'
    BY <2>1 DEF LiveHeld, Live, KeysOf, TypeOK, tmVars
  <2>5. HeldCompatible'
    BY <2>1 DEF HeldCompatible
  <2> QED BY <2>2, <2>3, <2>4, <2>5
<1>3. CASE HandleResult
  <2>1. job \in Tasks /\ ~Live(job) /\ worker' = "release" /\ UNCHANGED <<queueVars, job, run, watcher>>
    BY <1>3 DEF HandleResult, JobHeld, LiveHeld, NotStarted, Live
  <2>2. Onward
    BY <1>3, <2>1, OperationsOnward DEF HandleResult, TypeOK
  <2>3. NotStarted'
    BY <2>1, <2>2 DEF NotStarted, Onward
  <2>4. JobHeld'
    BY <2>1, <2>2 DEF JobHeld, Onward
  <2>5. LiveHeld'
    BY <2>1, <2>2 DEF LiveHeld, Live, KeysOf, Onward, queueVars
  <2>6. HeldCompatible'
    BY <2>1 DEF HeldCompatible, queueVars
  <2> QED BY <2>3, <2>4, <2>5, <2>6
<1>4. CASE Release
  <2>1. /\ job \in Tasks /\ ~Live(job) /\ job' = NoTask
        /\ worker = "release" /\ worker' = "top"
        /\ held' = ReleasedTargets(job) /\ UNCHANGED <<tmVars, detached, run, watcher>>
    BY <1>4 DEF Release, JobHeld, LiveHeld, NotStarted, Live
  <2>2. NotStarted' /\ JobHeld'
    BY <2>1, QueueAssumption DEF NotStarted, JobHeld, tmVars
  <2>3. LiveHeld' /\ HeldCompatible'
    BY <2>1, KeyRelease
  <2> QED BY <2>2, <2>3
<1> QED BY <1>1, <1>2, <1>3, <1>4

\* The steps of the goroutine that waits for a detached run.
LEMMA KeyWatcher ==
  ASSUME TypeOK, KeyDiscipline, NEW t \in Tasks, WatcherNext(t) PROVE KeyDiscipline'
<1> USE DEF KeyDiscipline
<1>1. CASE WatcherSeesResult(t)
  <2>1. ~Live(t) /\ watcher[t] = "await"
    BY <1>1 DEF WatcherSeesResult, Live, Results
  <2>2. /\ \A s \in Tasks \ {t} : watcher'[s] = watcher[s] /\ (s \in detached' <=> s \in detached)
        /\ UNCHANGED <<tmVars, held, worker, job, run>>
    BY <1>1 DEF WatcherSeesResult, workerVars, TypeOK
  <2>3. NotStarted' /\ JobHeld' /\ HeldCompatible'
    BY <2>1, <2>2 DEF NotStarted, JobHeld, HeldCompatible, KeysOf, tmVars
  <2>4. LiveHeld'
    BY <2>1, <2>2 DEF LiveHeld, Live, KeysOf, tmVars
  <2> QED BY <2>3, <2>4
<1>2. CASE WatcherHandles(t)
  <2>1. ~Live(t) /\ watcher[t] = "handle"
    BY <1>2 DEF WatcherHandles, LiveHeld, NotStarted
  <2>2. /\ \A s \in Tasks \ {t} : watcher'[s] = watcher[s]
        /\ UNCHANGED <<queueVars, workerVars, run>>
    BY <1>2 DEF WatcherHandles, TypeOK
  <2>3. Onward
    BY <1>2, OperationsOnward DEF WatcherHandles, TypeOK
  <2>4. NotStarted' /\ HeldCompatible'
    BY <2>1, <2>2, <2>3 DEF NotStarted, HeldCompatible, Onward, queueVars, workerVars
  <2>5. JobHeld'
    BY <2>2, <2>3, QueueAssumption DEF JobHeld, KeysOf, Onward, queueVars, workerVars
  <2>6. LiveHeld'
    BY <2>1, <2>2, <2>3 DEF LiveHeld, Live, KeysOf, Onward, queueVars, workerVars
  <2> QED BY <2>4, <2>5, <2>6
<1>3. CASE WatcherUnregisters(t)
  <2>1. ~Live(t) /\ watcher[t] = "unregister"
    BY <1>3 DEF WatcherUnregisters, LiveHeld, NotStarted
  <2>2. /\ \A s \in Tasks \ {t} : watcher'[s] = watcher[s] /\ (s \in detached' <=> s \in detached)
        /\ UNCHANGED <<tmVars, held, worker, job, run>>
    BY <1>3 DEF WatcherUnregisters, workerVars, TypeOK
  <2>3. NotStarted' /\ JobHeld' /\ HeldCompatible'
    BY <2>1, <2>2 DEF NotStarted, JobHeld, HeldCompatible, KeysOf, tmVars
  <2>4. LiveHeld'
    BY <2>1, <2>2 DEF LiveHeld, Live, KeysOf, tmVars
  <2> QED BY <2>3, <2>4
<1>4. CASE WatcherReleases(t)
  <2>1. ~Live(t) /\ watcher[t] = "release" /\ job # t
    BY <1>4 DEF WatcherReleases, LiveHeld, NotStarted
  <2>2. /\ \A s \in Tasks \ {t} : watcher'[s] = watcher[s]
        /\ held' = ReleasedTargets(t) /\ UNCHANGED <<tmVars, detached, worker, job, run>>
    BY <1>4 DEF WatcherReleases, workerVars, TypeOK
  <2>3. NotStarted'
    BY <2>1, <2>2 DEF NotStarted, tmVars
  <2>4. JobHeld'
    BY <2>1, <2>2, KeysTypedOf DEF JobHeld, KeysOf, ReleasedTargets, tmVars
  <2>5. LiveHeld' /\ HeldCompatible'
    BY <2>1, <2>2, KeyRelease
  <2> QED BY <2>3, <2>4, <2>5
<1>5. CASE WatcherBroadcasts(t)
  <2>1. ~Live(t) /\ watcher[t] = "broadcast"
    BY <1>5 DEF WatcherBroadcasts, LiveHeld, NotStarted
  <2>2. /\ \A s \in Tasks \ {t} : watcher'[s] = watcher[s]
        /\ UNCHANGED <<tmVars, queueVars, job, run>>
        /\ worker' = worker \/ (worker = "waiting" /\ worker' = "top")
    BY <1>5, WakeMoves DEF WatcherBroadcasts, TypeOK
  <2>3. NotStarted' /\ HeldCompatible'
    BY <2>1, <2>2 DEF NotStarted, HeldCompatible, tmVars, queueVars
  <2>4. JobHeld'
    BY <2>2 DEF JobHeld, KeysOf, tmVars, queueVars
  <2>5. LiveHeld'
    BY <2>1, <2>2 DEF LiveHeld, Live, KeysOf, tmVars, queueVars
  <2> QED BY <2>3, <2>4, <2>5
<1> QED BY <1>1, <1>2, <1>3, <1>4, <1>5 DEF WatcherNext

\* All steps together.
LEMMA KeyDisciplineStep ==
  ASSUME TypeOK, KeyDiscipline, [Next]_vars PROVE KeyDiscipline'
<1>1. ASSUME NEW t \in Tasks, TaskNext(t) PROVE KeyDiscipline'
  <2>1. ASSUME NEW d \in Payloads, Create(t, d) \/ CreateUpload(t, d) PROVE KeyDiscipline'
    BY <2>1, KeyCreate DEF Create, CreateUpload
  <2>2. ASSUME NEW old \in Tasks, Retry(old, t) PROVE KeyDiscipline'
    <3>1. data[old] \in Payloads
      BY <2>2 DEF Retry, RetryTask, KeyDiscipline, NotStarted
    <3> QED BY <2>2, <3>1, KeyCreate DEF Retry, RetryTask
  <2>3. CASE ProducerStep(t)
    <3>1. CASE Enqueue(t)
      BY <3>1, KeyFrame, TableSame DEF Enqueue, workerVars, Live
    <3>2. CASE SignalEnqueued(t)
      BY <3>2, KeyFrame, TableSame, WakeMoves DEF SignalEnqueued, queueVars, Live, Idle
    <3>3. CASE Reject(t)
      BY <3>3, KeyFrame, OperationsOnward DEF Reject, queueVars, workerVars, Live, TypeOK
    <3> QED BY <2>3, <3>1, <3>2, <3>3 DEF ProducerStep
  <2>4. CASE CancelByRequest(t) \/ CancelByBot(t) \/ Delete(t)
    BY <2>4, KeyFrame, OperationsOnward
    DEF CancelByRequest, CancelByBot, Delete, queueVars, workerVars, Live, TypeOK
  <2>5. CASE WatcherNext(t)
    BY <2>5, KeyWatcher
  <2>6. CASE RunProgress(t)
    BY <2>6, KeyFrame, OperationsOnward DEF RunProgress, queueVars, workerVars, Live, TypeOK
  <2>7. CASE RunReports(t)
    <3>1. \A s \in Tasks : (run'[s] = "none" <=> run[s] = "none") /\ (Live(s)' => Live(s))
      BY <2>7 DEF RunReports, Live, TypeOK
    <3> QED BY <2>7, <3>1, KeyFrame, OperationsOnward DEF RunReports, queueVars, workerVars, TypeOK
  <2>8. CASE RunReturns(t)
    <3>1. \A s \in Tasks : (run'[s] = "none" <=> run[s] = "none") /\ (Live(s)' => Live(s))
      BY <2>8 DEF RunReturns, MayReturn, Live, TypeOK
    <3> QED BY <2>8, <3>1, KeyFrame, TableSame DEF RunReturns, queueVars, workerVars
  <2> QED BY <1>1, <2>1, <2>2, <2>3, <2>4, <2>5, <2>6, <2>7, <2>8 DEF TaskNext
<1>2. CASE CancelQueued \/ CleanupOld
  <2>1. Onward
    <3>1. CASE CancelQueued
      BY <3>1, FinishOnward
      DEF CancelQueued, CancelQueuedTasks, QueuedTasks, Active, Terminal, TypeOK
    <3>2. CASE CleanupOld
      BY <3>2 DEF CleanupOld, Cleanup, Remove, Onward, Terminal, TypeOK, TMTypeOK
    <3> QED BY <1>2, <3>1, <3>2
  <2> QED BY <1>2, <2>1, KeyFrame DEF CancelQueued, CleanupOld, queueVars, workerVars, Live
<1>3. CASE Wakeup
  BY <1>3, KeyFrame, TableSame, WakeMoves DEF Wakeup, queueVars, Live, Idle
<1>4. CASE WorkerNext
  <2>1. CASE ScanDrop \/ ScanSkip \/ ScanEnd
    BY <2>1, KeyFrame, TableSame
    DEF ScanDrop, ScanSkip, ScanEnd, workerVars, queueVars, Live, Idle
  <2> QED BY <1>4, <2>1, KeyWorkerTop, KeyScanPick, KeyStartJob, KeyJobSteps DEF WorkerNext
<1>5. CASE ShutdownCancels
  <2>1. Onward
    BY <1>5, FinishOnward DEF ShutdownCancels, CancelAllTasks, Terminal, TypeOK
  <2> QED BY <1>5, <2>1, KeyFrame DEF ShutdownCancels, queueVars, workerVars, Live
<1>6. CASE CloserStep \/ DrainTimesOut
  <2>1. CASE BroadcastClosed
    BY <2>1, KeyFrame, TableSame, WakeMoves DEF BroadcastClosed, queueVars, Live, Idle
  <2>2. CASE CloseQueue \/ Drained \/ DrainTimesOut
    BY <2>2, KeyFrame, TableSame
    DEF CloseQueue, Drained, DrainTimesOut, queueVars, workerVars, Live
  <2> QED BY <1>6, <2>1, <2>2 DEF CloserStep
<1>7. CASE UNCHANGED vars
  BY <1>7, KeyFrame, TableSame DEF vars, queueVars, workerVars, Live
<1> QED BY <1>1, <1>2, <1>3, <1>4, <1>5, <1>6, <1>7 DEF Next

-----------------------------------------------------------------------------
(* The theorems.                                                           *)

\* The invariant holds initially.
LEMMA InitialState == Init => TypeOK /\ KeyDiscipline
<1> SUFFICES ASSUME Init PROVE TypeOK /\ KeyDiscipline
  OBVIOUS
<1>1. TypeOK
  <2>1. TMTypeOK
    BY DEF Init, TMInit, TMTypeOK, Stages
  <2>2. pending \in Seq(Tasks) /\ held \in [Keys -> Tasks \cup {NoTask}]
    BY DEF Init
  <2>3. /\ run \in [Tasks -> {"none", "live", "reported"} \cup Results]
        /\ watcher \in [Tasks -> {"none", "await", "handle", "unregister",
                                  "release", "broadcast", "done"}]
        /\ producer \in [Tasks -> {"idle", "created", "appended", "rejected", "done"}]
    BY DEF Init
  <2>4. closed \in BOOLEAN /\ detached \in SUBSET Tasks /\ uploads \in SUBSET Tasks
    BY DEF Init
  <2>5. /\ worker \in {"top", "scan", "waiting", "start", "select", "grace",
                      "handle", "release", "exited"}
        /\ job \in Tasks \cup {NoTask} /\ scanAt \in Nat \ {0} /\ wakeups \in Nat
        /\ closer \in {"open", "cancelled", "closing", "draining", "drained", "timedOut"}
    BY DEF Init
  <2> QED BY <2>1, <2>2, <2>3, <2>4, <2>5 DEF TypeOK
<1>2. KeyDiscipline
  BY QueueAssumption
  DEF Init, TMInit, KeyDiscipline, NotStarted, JobHeld, LiveHeld, HeldCompatible, Live
<1> QED BY <1>1, <1>2

\* The variables keep their types and the keys of the queue are held the way
\* KeyDiscipline says, whatever producers, cancellers, runs and the shutdown do.
THEOREM QueueInvariant == Spec => [](TypeOK /\ KeyDiscipline)
<1>1. TypeOK /\ KeyDiscipline /\ [Next]_vars => (TypeOK /\ KeyDiscipline)'
  BY TypeOKStep, KeyDisciplineStep DEF KeyDiscipline
<1> QED BY <1>1, InitialState, PTL DEF Spec

\* The discipline is what keeps two executing runs out of one account.
LEMMA DisciplineExcludes == TypeOK /\ KeyDiscipline => RunsExcludeEachOther
<1> SUFFICES ASSUME TypeOK, KeyDiscipline, NEW s \in Tasks, NEW t \in Tasks,
                    Live(s), Live(t), Accounts(data[s]) \cap Accounts(data[t]) # {}
             PROVE  s = t
  BY DEF RunsExcludeEachOther
<1> USE DEF KeyDiscipline
<1>1. status[s] # "absent" /\ status[t] # "absent"
  BY DEF NotStarted, Live
<1>2. data[s] \in Data /\ data[t] \in Data
  BY <1>1, QueueAssumption DEF NotStarted
<1>3. PICK k \in KeysOf(s), h \in KeysOf(t) : TargetsConflict(k, h)
  BY <1>2, CommonAccountConflicts DEF KeysOf
<1>4. k \in Keys /\ h \in Keys
  BY <1>1, KeysTypedOf
<1>5. held[k] = s /\ held[h] = t
  BY DEF LiveHeld
<1> QED BY <1>3, <1>4, <1>5, QueueAssumption DEF HeldCompatible

\* Two runs that execute at the same time never download into one account.
THEOREM QueueExclusion == Spec => []RunsExcludeEachOther
  BY QueueInvariant, DisciplineExcludes, PTL

-----------------------------------------------------------------------------
(* The fates of tasks: which status goes with which result.                *)

\* A run that has returned, with the worker or the watcher that is to record
\* its result.  A watcher's task was cancelled, so its result changes nothing.
Recorded ==
  /\ \A t \in Tasks :
       /\ t \in ctxDone => status[t] \notin Active \cup {"absent"}
       /\ run[t] \in {"reported", "nil", "canceled"} => status[t] \notin Active
       /\ run[t] = "error" =>
            status[t] \notin Active \/ (job = t /\ worker \in {"select", "grace", "handle"})
       /\ status[t] = "running" => run[t] # "none"
       /\ watcher[t] # "none" => t \in ctxDone
  /\ worker = "start" => run[job] = "none"
  /\ worker = "grace" => job \in ctxDone
  /\ worker = "release" => status[job] # "queued"

\* Who has a task in hand: its producer before it is in the queue, then the
\* queue, the worker, the watcher; who gives a key back; and when the worker
\* and the shutdown may stop.
Custody ==
  /\ \A t \in Tasks :
       /\ status[t] = "absent" <=> producer[t] = "idle"
       /\ run[t] # "none" \/ job = t => producer[t] \in {"appended", "done"}
  /\ \A i \in DOMAIN pending : producer[pending[i]] \in {"appended", "done"}
  /\ detached = {t \in Tasks : watcher[t] \in {"await", "handle", "unregister"}}
  /\ \A k \in Keys : held[k] # NoTask =>
       job = held[k] \/ watcher[held[k]] \in {"await", "handle", "unregister", "release"}
  /\ closer \in {"closing", "draining", "drained", "timedOut"} => closed
  /\ worker = "exited" => closed /\ pending = <<>>
  /\ closer = "drained" =>
       worker = "exited" /\ \A t \in Tasks : watcher[t] \in {"none", "done"}

\* The files of an uploaded task are there as long as it may run.
UploadsKept ==
  \A t \in Tasks : (status[t] = "queued" \/ Live(t)) /\ data[t].upload => t \in uploads

\* What is kept of the tasks: the hands they are in and the files they need.
Kept == Custody /\ UploadsKept /\ NeverForgotten

\* What the scan has passed over waits for the keys of others.
PassedConflict ==
  worker = "scan" =>
    \A i \in DOMAIN pending :
      i < scanAt /\ status[pending[i]] = "queued" => Conflicts(pending[i])

\* What every operation on the table but CreateTask and the start of a run does
\* to the fate of tasks: it is settled or stays what it is, never for the worse.
Settling ==
  /\ Onward
  /\ ctxDone \subseteq ctxDone'
  /\ \A t \in Tasks :
       /\ status'[t] \in Active => status'[t] = status[t]
       /\ t \in ctxDone' =>
            t \in ctxDone \/ (status[t] # "absent" /\ status'[t] \notin Active)

\* What any operation does to one task's status and progress.
LegalMove(t) ==
  status'[t] # status[t] =>
    \/ status[t] = "absent" /\ status'[t] = "queued"
    \/ status[t] \in Terminal /\ status'[t] = "deleted"
    \/ CanTransitionStatus(status[t], status'[t])

FrozenMove(t) ==
  /\ status'[t] \in Terminal /\ status'[t] # status[t] => stage'[t] = TerminalStage(status'[t])
  /\ status'[t] \in Terminal /\ status'[t] = status[t] => stage'[t] = stage[t]

\* The same for all tasks.
Moves == \A t \in Tasks : LegalMove(t) /\ FrozenMove(t)

\* Finish, applied to active tasks, settles them.
LEMMA FinishSettles ==
  ASSUME TMTypeOK, NEW S \in SUBSET Tasks, \A t \in S : status[t] \in Active,
         NEW s \in Terminal, Finish(S, s)
  PROVE  Settling /\ Moves
<1>1. /\ \A t \in S : status'[t] = s /\ stage'[t] = TerminalStage(s)
      /\ \A t \in Tasks \ S : status'[t] = status[t] /\ stage'[t] = stage[t]
      /\ ctxDone' = ctxDone \cup S
  BY DEF Finish
<1>2. s \notin Active /\ s # "absent" /\ s # "deleted"
  BY DEF Terminal, Active
<1>3. Settling
  BY <1>1, <1>2, FinishOnward DEF Settling, Active
<1>4. Moves
  BY <1>1, <1>2
  DEF Moves, LegalMove, FrozenMove, CanTransitionStatus, Active, Terminal
<1> QED BY <1>3, <1>4

\* So does doing nothing.
LEMMA TableSameSettles == ASSUME UNCHANGED tmVars PROVE Settling /\ Moves
  BY TableSame DEF tmVars, Settling, Moves, LegalMove, FrozenMove

\* The operations on tasks that exist.
LEMMA OperationsSettle ==
  ASSUME TMTypeOK, NEW t \in Tasks
  PROVE  /\ SetTaskError(t)       => Settling /\ Moves /\ status'[t] \notin Active
         /\ CompleteTask(t)       => Settling /\ Moves /\ status'[t] \notin Active
         /\ UpdateTaskProgress(t) => Settling /\ Moves
         /\ CancelTask(t)         => Settling /\ Moves
         /\ CancelAllTasks        => Settling /\ Moves
         /\ CancelQueuedTasks     => Settling /\ Moves
         /\ DeleteTask(t)         => Settling /\ Moves
         /\ Cleanup               => Settling /\ Moves
         /\ HandleRunResult(t)    => Settling /\ Moves /\ (run[t] = "error" => status'[t] \notin Active)
<1>1. SetTaskError(t) => Settling /\ Moves /\ status'[t] \notin Active
  <2>1. CASE status[t] \in Active
    BY <2>1, FinishSettles DEF SetTaskError, Terminal, Finish, Active
  <2>2. CASE status[t] \notin Active
    BY <2>2, TableSameSettles DEF SetTaskError, tmVars
  <2> QED BY <2>1, <2>2
<1>2. CompleteTask(t) => Settling /\ Moves /\ status'[t] \notin Active
  <2>1. CASE StatusAccepted(t, "completed")
    <3>1. status[t] \in Active
      BY <2>1 DEF StatusAccepted, Known, CanTransitionStatus, Active, Terminal, Status
    <3> QED BY <2>1, <3>1, FinishSettles DEF CompleteTask, Terminal, Finish, Active
  <2>2. CASE ~StatusAccepted(t, "completed")
    <3>1. status[t] \notin Active
      BY <2>2 DEF StatusAccepted, Known, CanTransitionStatus, Active, Terminal, Status
    <3> QED BY <2>2, <3>1, TableSameSettles DEF CompleteTask, tmVars
  <2> QED BY <2>1, <2>2
<1>3. UpdateTaskProgress(t) => Settling /\ Moves
  <2>1. CASE status[t] \in Active
    BY <2>1, OperationsOnward
    DEF UpdateTaskProgress, TMTypeOK, Settling, Moves, LegalMove, FrozenMove, Active, Terminal
  <2>2. CASE status[t] \notin Active
    BY <2>2, TableSameSettles DEF UpdateTaskProgress
  <2> QED BY <2>1, <2>2
<1>4. CancelTask(t) => Settling /\ Moves
  BY FinishSettles DEF CancelTask, Terminal
<1>5. CancelAllTasks => Settling /\ Moves
  BY FinishSettles DEF CancelAllTasks, Terminal
<1>6. CancelQueuedTasks => Settling /\ Moves
  BY FinishSettles DEF CancelQueuedTasks, QueuedTasks, Active, Terminal
<1>7. ASSUME NEW S, Remove(S) PROVE Settling /\ Moves
  <2>1. Settling
    BY <1>7 DEF Remove, TMTypeOK, Terminal, Active, Settling, Onward
  <2>2. Moves
    BY <1>7 DEF Remove, TMTypeOK, Terminal, Moves, LegalMove, FrozenMove
  <2> QED BY <2>1, <2>2
<1>8. (DeleteTask(t) => Settling /\ Moves) /\ (Cleanup => Settling /\ Moves)
  BY <1>7 DEF DeleteTask, Cleanup
<1>9. HandleRunResult(t) => Settling /\ Moves /\ (run[t] = "error" => status'[t] \notin Active)
  BY <1>1, TableSameSettles DEF HandleRunResult
<1> QED BY <1>1, <1>2, <1>3, <1>4, <1>5, <1>6, <1>8, <1>9

\* The operations on the whole table, even if it is empty.
LEMMA TableSettles ==
  ASSUME TMTypeOK, CancelAllTasks \/ CancelQueuedTasks \/ Cleanup
  PROVE  Settling /\ Moves
<1>1. CASE CancelAllTasks
  BY <1>1, FinishSettles DEF CancelAllTasks, Terminal
<1>2. CASE CancelQueuedTasks
  BY <1>2, FinishSettles DEF CancelQueuedTasks, QueuedTasks, Active, Terminal
<1>3. CASE Cleanup
  <2>1. PICK S \in SUBSET Tasks : Remove(S)
    BY <1>3 DEF Cleanup
  <2>2. Settling
    BY <2>1 DEF Remove, TMTypeOK, Terminal, Active, Settling, Onward
  <2>3. Moves
    BY <2>1 DEF Remove, TMTypeOK, Terminal, Moves, LegalMove, FrozenMove
  <2> QED BY <2>2, <2>3
<1> QED BY <1>1, <1>2, <1>3

\* A step that moves no run, no watcher and not the worker's job.
LEMMA RecordedFrame ==
  ASSUME TypeOK, KeyDiscipline, Recorded, Settling, UNCHANGED <<job, run, watcher>>,
         worker' = worker \/ (worker \in Idle /\ worker' \in Idle)
  PROVE  Recorded'
<1>1. \A t \in Tasks : status'[t] \in Active \cup {"absent"} => status'[t] = status[t]
  BY DEF Settling, Onward
<1>2. ASSUME NEW t \in Tasks
      PROVE  /\ t \in ctxDone' => status'[t] \notin Active \cup {"absent"}
             /\ run'[t] \in {"reported", "nil", "canceled"} => status'[t] \notin Active
             /\ run'[t] = "error" =>
                  status'[t] \notin Active \/ (job' = t /\ worker' \in {"select", "grace", "handle"})
             /\ status'[t] = "running" => run'[t] # "none"
             /\ watcher'[t] # "none" => t \in ctxDone'
  BY <1>1 DEF Recorded, Settling, Onward, Active, Idle
<1>3. worker' \in {"start", "grace", "release"} => worker' = worker /\ job \in Tasks
  BY DEF Idle, KeyDiscipline, JobHeld
<1>4. /\ worker' = "start" => run'[job'] = "none"
      /\ worker' = "grace" => job' \in ctxDone'
      /\ worker' = "release" => status'[job'] # "queued"
  BY <1>3 DEF Recorded, Settling, Onward
<1> QED BY <1>2, <1>4 DEF Recorded

\* A new task has neither a run nor a watcher.
LEMMA RecordedCreate ==
  ASSUME TypeOK, KeyDiscipline, Recorded, NEW t \in Tasks, NEW d, CreateTask(t, d),
         UNCHANGED <<workerVars, run, watcher>>
  PROVE  Recorded'
<1>1. /\ status[t] = "absent" /\ status'[t] = "queued" /\ ctxDone' = ctxDone
      /\ \A s \in Tasks \ {t} : status'[s] = status[s]
  BY DEF CreateTask, TypeOK, TMTypeOK
<1>2. run[t] = "none" /\ t \notin ctxDone /\ watcher[t] = "none" /\ job # t
  BY <1>1 DEF KeyDiscipline, NotStarted, JobHeld, Recorded
<1>3. job' = job /\ worker' = worker /\ run' = run /\ watcher' = watcher
  BY DEF workerVars
<1>4. worker = "release" => job \in Tasks
  BY DEF KeyDiscipline, JobHeld
<1> QED BY <1>1, <1>2, <1>3, <1>4 DEF Recorded, Active

\* The steps of a run: it reports before it returns nil, and an error reaches
\* the one who waits for the run.
LEMMA RecordedRun ==
  ASSUME TypeOK, KeyDiscipline, Recorded, NEW t \in Tasks,
         RunProgress(t) \/ RunReports(t) \/ RunReturns(t)
  PROVE  Recorded'
<1>1. CASE RunProgress(t)
  BY <1>1, RecordedFrame, OperationsSettle DEF RunProgress, workerVars, TypeOK
<1>2. CASE RunReports(t)
  <2>1. Settling /\ status'[t] \notin Active
    BY <1>2, OperationsSettle DEF RunReports, TypeOK
  <2>2. /\ run[t] = "live" /\ run'[t] = "reported" /\ \A s \in Tasks \ {t} : run'[s] = run[s]
        /\ job' = job /\ worker' = worker /\ watcher' = watcher
    BY <1>2 DEF RunReports, TypeOK, workerVars
  <2>3. \A s \in Tasks : status'[s] \in Active \cup {"absent"} => status'[s] = status[s]
    BY <2>1 DEF Settling, Onward
  <2>4. worker \in {"start", "grace", "release"} => job \in Tasks
    BY DEF KeyDiscipline, JobHeld
  <2> QED BY <2>1, <2>2, <2>3, <2>4 DEF Recorded, Settling, Onward, Active
<1>3. CASE RunReturns(t)
  <2>1. PICK r \in MayReturn(t) : run' = [run EXCEPT ![t] = r]
    BY <1>3 DEF RunReturns
  <2>2. /\ run'[t] = r /\ \A s \in Tasks \ {t} : run'[s] = run[s]
        /\ UNCHANGED <<tmVars, workerVars, watcher>>
    BY <1>3, <2>1 DEF RunReturns, TypeOK
  <2>3. Live(t) /\ r \in Results /\ (r = "nil" => run[t] = "reported")
        /\ (r = "canceled" => t \in ctxDone)
    BY <2>1 DEF MayReturn, Live, Results
  <2>4. worker # "start" \/ job # t
    BY <2>3 DEF Recorded, Live
  <2>5. r = "error" =>
          status[t] \notin Active \/ (job = t /\ worker \in {"select", "grace", "handle"})
    BY <2>3 DEF KeyDiscipline, LiveHeld, Recorded, Live
  <2>6. worker = "start" => job \in Tasks
    BY DEF KeyDiscipline, JobHeld
  <2> QED BY <2>2, <2>3, <2>4, <2>5, <2>6 DEF Recorded, tmVars, workerVars, Results
<1> QED BY <1>1, <1>2, <1>3

\* A watcher handles the result of a task that was cancelled.
LEMMA RecordedWatcher ==
  ASSUME TypeOK, KeyDiscipline, Recorded, NEW t \in Tasks, WatcherNext(t)
  PROVE  Recorded'
<1>1. watcher[t] # "none" /\ \A s \in Tasks \ {t} : watcher'[s] = watcher[s]
  BY DEF WatcherNext, WatcherSeesResult, WatcherHandles, WatcherUnregisters,
         WatcherReleases, WatcherBroadcasts, TypeOK
<1>2. UNCHANGED <<job, run>>
  BY DEF WatcherNext, WatcherSeesResult, WatcherHandles, WatcherUnregisters,
         WatcherReleases, WatcherBroadcasts, workerVars
<1>3. worker' = worker \/ (worker \in Idle /\ worker' \in Idle)
  BY WakeMoves DEF WatcherNext, WatcherSeesResult, WatcherHandles, WatcherUnregisters,
         WatcherReleases, WatcherBroadcasts, workerVars, Idle
<1>4. Settling
  <2>1. CASE WatcherHandles(t)
    BY <2>1, OperationsSettle DEF WatcherHandles, TypeOK
  <2>2. CASE ~WatcherHandles(t)
    BY <2>2, TableSameSettles
    DEF WatcherNext, WatcherSeesResult, WatcherUnregisters, WatcherReleases, WatcherBroadcasts
  <2> QED BY <2>1, <2>2
<1>5. \A s \in Tasks : status'[s] \in Active \cup {"absent"} => status'[s] = status[s]
  BY <1>4 DEF Settling, Onward
<1>6. \A s \in Tasks : watcher'[s] # "none" => s \in ctxDone'
  BY <1>1, <1>4 DEF Recorded, Settling
<1>7. worker' \in {"start", "grace", "release"} => worker' = worker /\ job \in Tasks
  BY <1>3 DEF Idle, KeyDiscipline, JobHeld
<1>8. /\ worker' = "start" => run'[job'] = "none"
      /\ worker' = "grace" => job' \in ctxDone'
      /\ worker' = "release" => status'[job'] # "queued"
  BY <1>2, <1>4, <1>7 DEF Recorded, Settling, Onward
<1> QED BY <1>2, <1>3, <1>4, <1>5, <1>6, <1>8 DEF Recorded, Settling, Active, Idle

\* The worker: it takes a task that has no run, and lets no error go by.
LEMMA RecordedWorker ==
  ASSUME TypeOK, KeyDiscipline, Recorded, WorkerNext
  PROVE  Recorded'
<1> USE DEF Recorded
<1>1. CASE WorkerTop \/ ScanDrop \/ ScanSkip \/ ScanEnd
  BY <1>1, RecordedFrame, TableSameSettles
  DEF WorkerTop, ScanDrop, ScanSkip, ScanEnd, Idle, workerVars
<1>2. CASE ScanPick
  <2>1. /\ job' \in Tasks /\ status[job'] = "queued" /\ worker' = "start" /\ job \notin Tasks
        /\ UNCHANGED <<tmVars, run, watcher>> /\ worker = "scan"
    BY <1>2 DEF ScanPick, Scanning, Scanned, TypeOK, KeyDiscipline, JobHeld
  <2>2. run[job'] = "none"
    BY <2>1 DEF KeyDiscipline, NotStarted
  <2> QED BY <2>1, <2>2 DEF tmVars
<1>3. CASE StartJob
  <2>1. job \in Tasks /\ run[job] = "none" /\ worker = "start" /\ job' = job /\ watcher' = watcher
    BY <1>3 DEF StartJob, KeyDiscipline, JobHeld
  <2>2. CASE StatusAccepted(job, "running")
    <3>1. /\ status[job] \in Active /\ status' = [status EXCEPT ![job] = "running"]
          /\ run' = [run EXCEPT ![job] = "live"] /\ worker' = "select" /\ ctxDone' = ctxDone
      BY <1>3, <2>2
      DEF StartJob, UpdateTaskStatus, StatusAccepted, CanTransitionStatus, Active, Terminal
    <3>2. job \notin ctxDone
      BY <2>1, <3>1
    <3> QED BY <2>1, <3>1, <3>2 DEF TypeOK, TMTypeOK, Active
  <2>3. CASE ~StatusAccepted(job, "running")
    <3>1. status[job] # "queued"
      BY <2>3 DEF StatusAccepted, CanTransitionStatus, Known, Status, Active
    <3>2. worker' = "release" /\ UNCHANGED <<tmVars, run>>
      BY <1>3, <2>3 DEF StartJob
    <3> QED BY <2>1, <3>1, <3>2 DEF tmVars
  <2> QED BY <2>2, <2>3
<1>4. CASE TakeResult \/ SeeCancelled
  <2>1. /\ UNCHANGED <<tmVars, job, run, watcher>> /\ worker \in {"select", "grace"}
        /\ worker' = "handle" \/ (worker' = "grace" /\ job \in ctxDone)
    BY <1>4 DEF TakeResult, SeeCancelled
  <2> QED BY <2>1 DEF tmVars
<1>5. CASE DetachJob
  <2>1. /\ job \in Tasks /\ job \in ctxDone /\ job' = NoTask /\ worker' = "top"
        /\ watcher' = [watcher EXCEPT ![job] = "await"] /\ UNCHANGED <<tmVars, run>>
    BY <1>5 DEF DetachJob, KeyDiscipline, JobHeld
  <2> QED BY <2>1 DEF tmVars, TypeOK
<1>6. CASE HandleResult
  <2>1. job \in Tasks /\ run[job] # "none" /\ worker' = "release" /\ UNCHANGED <<job, run, watcher>>
    BY <1>6 DEF HandleResult, KeyDiscipline, JobHeld
  <2>2. Settling /\ (run[job] = "error" => status'[job] \notin Active)
    BY <1>6, <2>1, OperationsSettle DEF HandleResult, TypeOK
  <2>3. \A s \in Tasks : status'[s] \in Active \cup {"absent"} => status'[s] = status[s]
    BY <2>2 DEF Settling, Onward
  <2>4. status'[job] # "queued"
    BY <2>1, <2>3 DEF KeyDiscipline, NotStarted, Active
  <2> QED BY <2>1, <2>2, <2>3, <2>4 DEF Settling, Active
<1>7. CASE Release
  <2>1. /\ job \in Tasks /\ worker = "release" /\ job' = NoTask /\ worker' = "top"
        /\ UNCHANGED <<tmVars, run, watcher>>
    BY <1>7 DEF Release, KeyDiscipline, JobHeld
  <2> QED BY <2>1 DEF tmVars
<1> QED BY <1>1, <1>2, <1>3, <1>4, <1>5, <1>6, <1>7 DEF WorkerNext

\* Each step keeps the record.
LEMMA RecordedStep ==
  ASSUME TypeOK, KeyDiscipline, Recorded, [Next]_vars PROVE Recorded'
<1>1. ASSUME NEW t \in Tasks, TaskNext(t) PROVE Recorded'
  <2>1. ASSUME NEW d \in Payloads, Create(t, d) \/ CreateUpload(t, d) PROVE Recorded'
    BY <2>1, RecordedCreate DEF Create, CreateUpload
  <2>2. ASSUME NEW old \in Tasks, Retry(old, t) PROVE Recorded'
    BY <2>2, RecordedCreate DEF Retry, RetryTask
  <2>3. CASE ProducerStep(t)
    <3>1. CASE Enqueue(t)
      BY <3>1, RecordedFrame, TableSameSettles DEF Enqueue, workerVars
    <3>2. CASE SignalEnqueued(t)
      BY <3>2, RecordedFrame, TableSameSettles, WakeMoves DEF SignalEnqueued, Idle
    <3>3. CASE Reject(t)
      BY <3>3, RecordedFrame, OperationsSettle DEF Reject, workerVars, TypeOK
    <3> QED BY <2>3, <3>1, <3>2, <3>3 DEF ProducerStep
  <2>4. CASE CancelByRequest(t) \/ CancelByBot(t) \/ Delete(t)
    BY <2>4, RecordedFrame, OperationsSettle
    DEF CancelByRequest, CancelByBot, Delete, workerVars, TypeOK
  <2> QED BY <1>1, <2>1, <2>2, <2>3, <2>4, RecordedWatcher, RecordedRun DEF TaskNext
<1>2. CASE CancelQueued \/ CleanupOld \/ ShutdownCancels
  <2>1. Settling
    BY <1>2, TableSettles DEF CancelQueued, CleanupOld, ShutdownCancels, TypeOK
  <2> QED BY <1>2, <2>1, RecordedFrame DEF CancelQueued, CleanupOld, ShutdownCancels, workerVars
<1>3. CASE Wakeup \/ CloserStep \/ DrainTimesOut
  BY <1>3, RecordedFrame, TableSameSettles, WakeMoves
  DEF Wakeup, CloserStep, CloseQueue, BroadcastClosed, Drained, DrainTimesOut, workerVars, Idle
<1>4. CASE UNCHANGED vars
  BY <1>4, RecordedFrame, TableSameSettles DEF vars, workerVars
<1> QED BY <1>1, <1>2, <1>3, <1>4, RecordedWorker DEF Next

-----------------------------------------------------------------------------
(* Custody: nothing is lost between producer, queue, worker and watcher.   *)

\* What taking out one job leaves.
LEMMA WithoutLeaves ==
  ASSUME NEW s \in Seq(Tasks), NEW i \in 1 .. Len(s)
  PROVE  /\ Without(s, i) \in Seq(Tasks) /\ Len(Without(s, i)) = Len(s) - 1
         /\ \A j \in 1 .. Len(s) - 1 : Without(s, i)[j] = IF j < i THEN s[j] ELSE s[j + 1]
<1> DEFINE a == SubSeq(s, 1, i - 1)
           b == SubSeq(s, i + 1, Len(s))
<1>1. Len(s) \in Nat /\ i \in Nat /\ 1 <= i /\ i <= Len(s)
  OBVIOUS
<1>2. a \in Seq(Tasks) /\ b \in Seq(Tasks)
  BY SMT
<1>3. Len(a) = i - 1 /\ Len(b) = Len(s) - i
  BY SMT
<1>4. \A j \in 1 .. i - 1 : a[j] = s[j]
  BY SMT
<1>5. \A j \in 1 .. Len(s) - i : b[j] = s[i + j]
  BY SMT
<1>6. Without(s, i) = a \o b
  BY DEF Without
<1> HIDE DEF a, b
<1>7. /\ Len(a \o b) = Len(a) + Len(b)
      /\ \A j \in 1 .. Len(a) + Len(b) : (a \o b)[j] = IF j <= Len(a) THEN a[j] ELSE b[j - Len(a)]
  BY <1>2, ConcatProperties, Zenon
<1>8. Len(Without(s, i)) = Len(s) - 1
  BY <1>1, <1>3, <1>6, <1>7
<1>9. ASSUME NEW j \in 1 .. Len(s) - 1
      PROVE  Without(s, i)[j] = IF j < i THEN s[j] ELSE s[j + 1]
  <2>1. j \in 1 .. Len(a) + Len(b)
    BY <1>1, <1>3
  <2>2. (a \o b)[j] = IF j <= Len(a) THEN a[j] ELSE b[j - Len(a)]
    BY <1>7, <2>1
  <2>3. CASE j < i
    <3>1. j <= Len(a) /\ j \in 1 .. i - 1
      BY <1>1, <1>3, <2>3
    <3> QED BY <1>4, <1>6, <2>2, <2>3, <3>1
  <2>4. CASE ~(j < i)
    <3>1. ~(j <= Len(a)) /\ j - Len(a) \in 1 .. Len(s) - i /\ i + (j - Len(a)) = j + 1
      BY <1>1, <1>3, <2>4
    <3> QED BY <1>5, <1>6, <2>2, <2>4, <3>1
  <2> QED BY <2>3, <2>4
<1> QED BY <1>8, <1>9, WithoutTyped

\* Its members are members of s, and each member of s stays, except the one at i.
LEMMA WithoutMembers ==
  ASSUME NEW s \in Seq(Tasks), NEW i \in 1 .. Len(s)
  PROVE  /\ \A j \in DOMAIN Without(s, i) : \E l \in DOMAIN s : Without(s, i)[j] = s[l]
         /\ \A l \in DOMAIN s \ {i} : \E j \in DOMAIN Without(s, i) : Without(s, i)[j] = s[l]
<1> DEFINE w == Without(s, i)
<1>1. /\ w \in Seq(Tasks) /\ Len(w) = Len(s) - 1
      /\ \A j \in 1 .. Len(s) - 1 : w[j] = IF j < i THEN s[j] ELSE s[j + 1]
  BY WithoutLeaves
<1> HIDE DEF w
<1>2. DOMAIN w = 1 .. Len(s) - 1 /\ DOMAIN s = 1 .. Len(s) /\ Len(s) \in Nat
  BY <1>1
<1>3. ASSUME NEW j \in DOMAIN w PROVE \E l \in DOMAIN s : w[j] = s[l]
  <2>1. j \in DOMAIN s /\ j + 1 \in DOMAIN s
    BY <1>2
  <2> QED BY <1>1, <1>2, <2>1
<1>4. ASSUME NEW l \in DOMAIN s \ {i} PROVE \E j \in DOMAIN w : w[j] = s[l]
  <2>1. CASE l < i
    <3>1. l \in 1 .. Len(s) - 1
      BY <1>2, <2>1
    <3> QED BY <1>1, <1>2, <2>1, <3>1
  <2>2. CASE l > i
    <3>1. l - 1 \in 1 .. Len(s) - 1 /\ ~(l - 1 < i) /\ (l - 1) + 1 = l
      BY <1>2, <2>2
    <3>2. w[l - 1] = s[l]
      BY <1>1, <3>1
    <3> QED BY <1>2, <3>1, <3>2
  <2> QED BY <1>2, <2>1, <2>2
<1> QED BY <1>3, <1>4 DEF w

\* Steps that leave the queue, the keys and the watchers alone, and hand no task over.
LEMMA KeptFrame ==
  ASSUME TypeOK, KeyDiscipline, Kept, Onward,
         UNCHANGED <<pending, held, detached, closed, job, watcher, producer>>,
         \A t \in Tasks : /\ run'[t] = "none" <=> run[t] = "none"
                          /\ Live(t)' => Live(t)
                          /\ (status'[t] = "queued" \/ Live(t)') /\ t \in uploads => t \in uploads',
         worker' = worker \/ (worker = "waiting" /\ worker' = "top"),
         \/ closer' = closer
         \/ closer = "open" /\ closer' = "cancelled"
         \/ closer = "closing" /\ closer' = "draining"
         \/ closer = "draining" /\ closer' = "timedOut"
  PROVE  Kept'
<1> USE DEF Kept, Onward
<1>1. Custody'
  BY DEF Custody
<1>2. UploadsKept'
  BY DEF UploadsKept
<1>3. NeverForgotten'
  BY DEF NeverForgotten
<1> QED BY <1>1, <1>2, <1>3

\* A new task is in the hands of its producer, and its files are there.
LEMMA KeptCreate ==
  ASSUME TypeOK, KeyDiscipline, Kept, NEW t \in Tasks, NEW d \in Payloads, CreateTask(t, d),
         producer[t] = "idle", producer' = [producer EXCEPT ![t] = "created"],
         UNCHANGED <<queueVars, workerVars, run, watcher, closer>>,
         uploads \subseteq uploads', d.upload => t \in uploads'
  PROVE  Kept'
<1> USE DEF Kept, CreateTask, queueVars, workerVars
<1>1. /\ status[t] = "absent" /\ status'[t] = "queued" /\ data'[t] = d /\ producer'[t] = "created"
      /\ \A s \in Tasks \ {t} :
           status'[s] = status[s] /\ data'[s] = data[s] /\ producer'[s] = producer[s]
  BY DEF TypeOK, TMTypeOK
<1>2. run[t] = "none" /\ job # t
  BY <1>1 DEF KeyDiscipline, NotStarted, JobHeld
<1>3. Custody'
  <2>1. \A s \in Tasks : status'[s] = "absent" <=> producer'[s] = "idle"
    BY <1>1 DEF Custody
  <2>2. \A s \in Tasks : run'[s] # "none" \/ job' = s => producer'[s] \in {"appended", "done"}
    BY <1>1, <1>2 DEF Custody
  <2>3. \A i \in DOMAIN pending' : producer'[pending'[i]] \in {"appended", "done"}
    BY <1>1 DEF Custody, TypeOK
  <2> QED BY <2>1, <2>2, <2>3 DEF Custody
<1>4. UploadsKept'
  BY <1>1, <1>2 DEF UploadsKept, Live
<1>5. NeverForgotten'
  BY <1>1 DEF NeverForgotten
<1> QED BY <1>3, <1>4, <1>5

\* The producer hands its task to the queue or drops it.
LEMMA KeptProducer ==
  ASSUME TypeOK, KeyDiscipline, Kept, NEW t \in Tasks, ProducerStep(t)
  PROVE  Kept'
<1> USE DEF Kept
<1>1. CASE Enqueue(t)
  <2>1. UNCHANGED <<tmVars, held, detached, closed, workerVars, run, watcher, closer, uploads>>
    BY <1>1 DEF Enqueue
  <2>2. \A s \in Tasks \ {t} : producer'[s] = producer[s]
    BY <1>1 DEF Enqueue, TypeOK
  <2>3. producer[t] = "created" /\ producer'[t] \in {"appended", "rejected"}
    BY <1>1 DEF Enqueue, TypeOK
  <2>4. run[t] = "none" /\ job # t
    BY <2>3 DEF Custody
  <2>5. CASE closed
    <3>1. pending' = pending /\ producer'[t] = "rejected"
      BY <1>1, <2>5 DEF Enqueue, TypeOK
    <3>2. \A i \in DOMAIN pending' : producer'[pending'[i]] \in {"appended", "done"}
      BY <2>2, <2>3, <3>1 DEF Custody, TypeOK
    <3>3. Custody'
      BY <2>1, <2>2, <2>3, <2>4, <3>1, <3>2 DEF Custody, tmVars, workerVars
    <3>4. UploadsKept' /\ NeverForgotten'
      BY <2>1, <2>2, <3>1 DEF UploadsKept, NeverForgotten, Live, tmVars, workerVars
    <3> QED BY <3>3, <3>4
  <2>6. CASE ~closed
    <3>1. pending' = Append(pending, t) /\ producer'[t] = "appended"
      BY <1>1, <2>6 DEF Enqueue, TypeOK
    <3>2. /\ DOMAIN pending' = 1 .. Len(pending) + 1 /\ pending'[Len(pending) + 1] = t
          /\ \A i \in DOMAIN pending : pending'[i] = pending[i] /\ i \in DOMAIN pending'
          /\ \A i \in DOMAIN pending' : i \in DOMAIN pending \/ pending'[i] = t
      BY <3>1 DEF TypeOK
    <3>3. \A i \in DOMAIN pending' : producer'[pending'[i]] \in {"appended", "done"}
      BY <2>2, <2>3, <3>1, <3>2 DEF Custody, TypeOK
    <3>4. worker # "exited"
      BY <2>6 DEF Custody
    <3>5. Custody'
      BY <2>1, <2>2, <2>3, <2>4, <3>1, <3>3, <3>4 DEF Custody, tmVars, workerVars
    <3>6. UploadsKept'
      BY <2>1 DEF UploadsKept, Live, tmVars
    <3>7. NeverForgotten'
      <4> SUFFICES ASSUME NEW s \in Tasks, status'[s] = "queued",
                          producer'[s] \in {"appended", "done"}, job' # s
                   PROVE  \E i \in DOMAIN pending' : pending'[i] = s
        BY DEF NeverForgotten
      <4>1. CASE s = t
        BY <3>2, <4>1 DEF TypeOK
      <4>2. CASE s # t
        BY <2>1, <2>2, <3>2, <4>2 DEF NeverForgotten, tmVars, workerVars
      <4> QED BY <4>1, <4>2
    <3> QED BY <3>5, <3>6, <3>7
  <2> QED BY <2>5, <2>6
<1>2. CASE SignalEnqueued(t)
  <2>1. /\ UNCHANGED <<tmVars, queueVars, job, run, watcher, closer, uploads>>
        /\ worker' = worker \/ (worker = "waiting" /\ worker' = "top")
    BY <1>2, WakeMoves DEF SignalEnqueued
  <2>2. \A s \in Tasks : /\ s # t => producer'[s] = producer[s]
                         /\ producer[t] = "appended" /\ producer'[t] = "done"
    BY <1>2 DEF SignalEnqueued, TypeOK
  <2>3. \A i \in DOMAIN pending : producer'[pending[i]] \in {"appended", "done"}
    BY <2>2 DEF Custody, TypeOK
  <2>4. Custody'
    BY <2>1, <2>2, <2>3 DEF Custody, tmVars, queueVars
  <2>5. UploadsKept' /\ NeverForgotten'
    BY <2>1, <2>2 DEF UploadsKept, NeverForgotten, Live, tmVars, queueVars
  <2> QED BY <2>4, <2>5
<1>3. CASE Reject(t)
  <2>1. /\ UNCHANGED <<queueVars, workerVars, run, watcher, closer>> /\ uploads' = uploads \ {t}
        /\ producer[t] = "rejected" /\ producer'[t] = "done"
        /\ \A s \in Tasks \ {t} : producer'[s] = producer[s]
    BY <1>3 DEF Reject, TypeOK
  <2>2. Onward /\ status'[t] \notin Active
    BY <1>3, OperationsOnward, OperationsSettle DEF Reject, TypeOK
  <2>3. run[t] = "none" /\ job # t
    BY <2>1 DEF Custody
  <2>4. \A i \in DOMAIN pending : producer'[pending[i]] \in {"appended", "done"}
    BY <2>1 DEF Custody, TypeOK
  <2>5. Custody'
    BY <2>1, <2>2, <2>3, <2>4 DEF Custody, Onward, queueVars, workerVars
  <2>6. UploadsKept' /\ NeverForgotten'
    BY <2>1, <2>2, <2>3
    DEF UploadsKept, NeverForgotten, Live, Onward, Active, queueVars, workerVars
  <2> QED BY <2>5, <2>6
<1> QED BY <1>1, <1>2, <1>3 DEF ProducerStep

\* The watcher of a detached run gives its keys back.
LEMMA KeptWatcher ==
  ASSUME TypeOK, KeyDiscipline, Kept, NEW t \in Tasks, WatcherNext(t)
  PROVE  Kept'
<1> USE DEF Kept
<1>1. /\ UNCHANGED <<pending, closed, job, run, producer, closer, uploads>>
      /\ worker' = worker \/ (worker = "waiting" /\ worker' = "top")
  BY WakeMoves DEF WatcherNext, WatcherSeesResult, WatcherHandles, WatcherUnregisters,
                   WatcherReleases, WatcherBroadcasts, workerVars, queueVars
<1>2. Onward
  <2>1. CASE WatcherHandles(t)
    BY <2>1, OperationsOnward DEF WatcherHandles, TypeOK
  <2>2. CASE ~WatcherHandles(t)
    BY <2>2, TableSame
    DEF WatcherNext, WatcherSeesResult, WatcherUnregisters, WatcherReleases, WatcherBroadcasts
  <2> QED BY <2>1, <2>2
<1>3. /\ \A s \in Tasks \ {t} : watcher'[s] = watcher[s]
      /\ watcher[t] \in {"await", "handle", "unregister", "release", "broadcast"}
      /\ job # t
  BY DEF WatcherNext, WatcherSeesResult, WatcherHandles, WatcherUnregisters,
         WatcherReleases, WatcherBroadcasts, TypeOK, KeyDiscipline, NotStarted
<1>4. detached' = {s \in Tasks : watcher'[s] \in {"await", "handle", "unregister"}}
  BY <1>3 DEF WatcherNext, WatcherSeesResult, WatcherHandles, WatcherUnregisters,
         WatcherReleases, WatcherBroadcasts, Custody, queueVars, TypeOK
<1>5. ASSUME NEW k \in Keys, held'[k] # NoTask
      PROVE  job' = held'[k] \/ watcher'[held'[k]] \in {"await", "handle", "unregister", "release"}
  <2>1. CASE WatcherReleases(t)
    BY <1>1, <1>3, <1>5, <2>1 DEF WatcherReleases, ReleasedTargets, Custody, TypeOK
  <2>2. CASE ~WatcherReleases(t)
    <3>1. held' = held
      BY <2>2 DEF WatcherNext, WatcherSeesResult, WatcherHandles, WatcherUnregisters,
                  WatcherBroadcasts, queueVars
    <3>2. held[k] = t => watcher'[t] \in {"await", "handle", "unregister", "release"}
      BY <1>3, <1>5, <2>2, <3>1
      DEF WatcherNext, WatcherSeesResult, WatcherHandles, WatcherUnregisters,
          WatcherBroadcasts, Custody, TypeOK
    <3> QED BY <1>1, <1>3, <1>5, <3>1, <3>2 DEF Custody, TypeOK
  <2> QED BY <2>1, <2>2
<1>6. worker = "exited" /\ closer = "drained" => watcher[t] \in {"none", "done"}
  BY DEF Custody
<1>7. Custody'
  BY <1>1, <1>2, <1>3, <1>4, <1>5, <1>6 DEF Custody, Onward
<1>8. UploadsKept' /\ NeverForgotten'
  BY <1>1, <1>2 DEF UploadsKept, NeverForgotten, Live, Onward
<1> QED BY <1>7, <1>8

\* The worker hands each key it takes to the job that it has next, and drops
\* only jobs that wait no longer.
LEMMA KeptWorker ==
  ASSUME TypeOK, KeyDiscipline, Recorded, Kept, WorkerNext
  PROVE  Kept'
<1> USE DEF Kept
<1>0. UNCHANGED <<closed, producer, closer, uploads>>
  BY DEF WorkerNext, WorkerTop, ScanDrop, ScanSkip, ScanPick, ScanEnd, StartJob,
         TakeResult, SeeCancelled, DetachJob, HandleResult, Release, queueVars
<1>1. CASE WorkerTop
  <2>1. UNCHANGED <<tmVars, pending, detached, job, run, watcher>> /\ worker = "top"
        /\ (worker' = "exited" => closed /\ pending = <<>>)
        /\ (worker' = "exited" \/ worker' = "scan")
    BY <1>1 DEF WorkerTop
  <2>2. \A k \in Keys : held'[k] = held[k] \/ held'[k] = NoTask
    BY <1>1 DEF WorkerTop, CleanedTargets
  <2>3. closer # "drained"
    BY <2>1 DEF Custody
  <2>4. Custody'
    BY <1>0, <2>1, <2>2, <2>3 DEF Custody, tmVars
  <2>5. UploadsKept' /\ NeverForgotten'
    BY <1>0, <2>1 DEF UploadsKept, NeverForgotten, Live, tmVars
  <2> QED BY <2>4, <2>5
<1>2. CASE ScanDrop \/ ScanPick
  <2> DEFINE p == Scanned
  <2>1. /\ Scanning /\ scanAt \in 1 .. Len(pending) /\ pending' = Without(pending, scanAt)
        /\ p = pending[scanAt] /\ p \in Tasks
        /\ UNCHANGED <<tmVars, detached, run, watcher>>
        /\ worker = "scan" /\ job \notin Tasks /\ worker' \in {"scan", "start"}
    BY <1>2 DEF ScanDrop, ScanPick, Scanning, Scanned, TypeOK, KeyDiscipline, JobHeld, workerVars
  <2>2. /\ \A j \in DOMAIN pending' : \E l \in DOMAIN pending : pending'[j] = pending[l]
        /\ \A l \in DOMAIN pending \ {scanAt} : \E j \in DOMAIN pending' : pending'[j] = pending[l]
    BY <2>1, WithoutMembers DEF TypeOK
  <2>3. \/ status[p] # "queued" /\ job' = job /\ held' = held
        \/ job' = p /\ status[p] = "queued" /\ \A k \in Keys : held'[k] = held[k] \/ held'[k] = job'
    BY <1>2 DEF ScanDrop, ScanPick, workerVars, TakenTargets
  <2>4. producer[p] \in {"appended", "done"}
    BY <2>1 DEF Custody, TypeOK
  <2>5. \A i \in DOMAIN pending' : producer'[pending'[i]] \in {"appended", "done"}
    BY <1>0, <2>2 DEF Custody
  <2>6. \A k \in Keys : held'[k] # NoTask =>
          job' = held'[k] \/ watcher'[held'[k]] \in {"await", "handle", "unregister", "release"}
    BY <2>1, <2>3, QueueAssumption DEF Custody, TypeOK
  <2>7. closer # "drained"
    BY <2>1 DEF Custody
  <2> HIDE DEF p
  <2>8. Custody'
    BY <1>0, <2>1, <2>3, <2>4, <2>5, <2>6, <2>7 DEF Custody, tmVars
  <2>9. UploadsKept'
    BY <1>0, <2>1 DEF UploadsKept, Live, tmVars
  <2>10. NeverForgotten'
    <3> SUFFICES ASSUME NEW t \in Tasks, status[t] = "queued", producer[t] \in {"appended", "done"},
                        job' # t
                 PROVE  \E j \in DOMAIN pending' : pending'[j] = t
      BY <1>0, <2>1 DEF NeverForgotten, tmVars
    <3>1. PICK l \in DOMAIN pending : pending[l] = t
      BY <2>1 DEF NeverForgotten
    <3>2. l # scanAt
      BY <2>1, <2>3, <3>1
    <3> QED BY <2>2, <3>1, <3>2
  <2> QED BY <2>8, <2>9, <2>10
<1>3. CASE ScanSkip \/ ScanEnd
  <2>1. /\ UNCHANGED <<tmVars, queueVars, job, run, watcher>>
        /\ worker = "scan" /\ worker' \in {"scan", "waiting"}
    BY <1>3 DEF ScanSkip, ScanEnd, Scanning
  <2>2. Custody'
    BY <1>0, <2>1 DEF Custody, tmVars, queueVars
  <2>3. UploadsKept' /\ NeverForgotten'
    BY <1>0, <2>1 DEF UploadsKept, NeverForgotten, Live, tmVars, queueVars
  <2> QED BY <2>2, <2>3
<1>4. CASE StartJob
  <2>1. /\ job \in Tasks /\ run[job] = "none" /\ worker = "start"
        /\ UNCHANGED <<queueVars, job, watcher>> /\ worker' \in {"select", "release"}
    BY <1>4 DEF StartJob, KeyDiscipline, JobHeld, Recorded
  <2>2. \A t \in Tasks : (status'[t] = "absent" <=> status[t] = "absent") /\ data' = data
                         /\ (status'[t] = "queued" => status[t] = "queued")
    BY <1>4, <2>1 DEF StartJob, UpdateTaskStatus, StatusAccepted, Known, Status, Active, Terminal,
                      TypeOK, TMTypeOK, tmVars
  <2>3. \A t \in Tasks : t # job => run'[t] = run[t]
    BY <1>4 DEF StartJob, TypeOK
  <2>4. Live(job)' => status[job] = "queued"
    BY <1>4, <2>1
    DEF StartJob, StatusAccepted, CanTransitionStatus, Recorded, Live, Terminal
  <2>5. producer[job] \in {"appended", "done"}
    BY <2>1 DEF Custody
  <2>6. Custody'
    BY <1>0, <2>1, <2>2, <2>3, <2>5 DEF Custody, queueVars
  <2>7. UploadsKept'
    BY <1>0, <2>1, <2>2, <2>3, <2>4 DEF UploadsKept, Live
  <2>8. NeverForgotten'
    BY <1>0, <2>1, <2>2 DEF NeverForgotten, queueVars
  <2> QED BY <2>6, <2>7, <2>8
<1>5. CASE TakeResult \/ SeeCancelled
  <2>1. /\ UNCHANGED <<tmVars, queueVars, job, run, watcher>>
        /\ worker \in {"select", "grace"} /\ worker' \in {"handle", "grace"}
    BY <1>5 DEF TakeResult, SeeCancelled
  <2>2. Custody'
    BY <1>0, <2>1 DEF Custody, tmVars, queueVars
  <2>3. UploadsKept' /\ NeverForgotten'
    BY <1>0, <2>1 DEF UploadsKept, NeverForgotten, Live, tmVars, queueVars
  <2> QED BY <2>2, <2>3
<1>6. CASE DetachJob
  <2>1. /\ job \in Tasks /\ run[job] # "none" /\ job' = NoTask /\ worker = "grace" /\ worker' = "top"
        /\ detached' = detached \cup {job} /\ UNCHANGED <<tmVars, pending, held, run>>
    BY <1>6 DEF DetachJob, KeyDiscipline, JobHeld
  <2>2. watcher'[job] = "await" /\ \A t \in Tasks \ {job} : watcher'[t] = watcher[t]
    BY <1>6, <2>1 DEF DetachJob, TypeOK
  <2>3. Custody'
    BY <1>0, <2>1, <2>2, QueueAssumption DEF Custody, tmVars, TypeOK
  <2>4. status[job] # "queued"
    BY <2>1 DEF KeyDiscipline, NotStarted
  <2>5. UploadsKept' /\ NeverForgotten'
    BY <1>0, <2>1, <2>4 DEF UploadsKept, NeverForgotten, Live, tmVars
  <2> QED BY <2>3, <2>5
<1>7. CASE HandleResult
  <2>1. /\ job \in Tasks /\ UNCHANGED <<queueVars, job, run, watcher>>
        /\ worker = "handle" /\ worker' = "release"
    BY <1>7 DEF HandleResult, KeyDiscipline, JobHeld
  <2>2. Onward
    BY <1>7, <2>1, OperationsOnward DEF HandleResult, TypeOK
  <2>3. Custody'
    BY <1>0, <2>1, <2>2 DEF Custody, Onward, queueVars
  <2>4. UploadsKept' /\ NeverForgotten'
    BY <1>0, <2>1, <2>2 DEF UploadsKept, NeverForgotten, Live, Onward, queueVars
  <2> QED BY <2>3, <2>4
<1>8. CASE Release
  <2>1. /\ job \in Tasks /\ status[job] # "queued" /\ job' = NoTask
        /\ worker = "release" /\ worker' = "top"
        /\ UNCHANGED <<tmVars, pending, detached, run, watcher>>
    BY <1>8 DEF Release, KeyDiscipline, JobHeld, Recorded
  <2>2. \A k \in Keys : held'[k] = IF held[k] = job THEN NoTask ELSE held[k]
    BY <1>8 DEF Release, ReleasedTargets
  <2>3. Custody'
    BY <1>0, <2>1, <2>2, QueueAssumption DEF Custody, tmVars, TypeOK
  <2>4. UploadsKept' /\ NeverForgotten'
    BY <1>0, <2>1 DEF UploadsKept, NeverForgotten, Live, tmVars
  <2> QED BY <2>3, <2>4
<1> QED BY <1>1, <1>2, <1>3, <1>4, <1>5, <1>6, <1>7, <1>8 DEF WorkerNext

\* A run that returns removes the files of its task, which runs no more.
LEMMA KeptRun ==
  ASSUME TypeOK, KeyDiscipline, Kept, NEW t \in Tasks,
         RunProgress(t) \/ RunReports(t) \/ RunReturns(t)
  PROVE  Kept'
<1>1. CASE RunProgress(t)
  BY <1>1, KeptFrame, OperationsOnward DEF RunProgress, queueVars, workerVars, TypeOK, Live
<1>2. CASE RunReports(t)
  <2>1. \A s \in Tasks : (run'[s] = "none" <=> run[s] = "none") /\ (Live(s)' => Live(s))
    BY <1>2 DEF RunReports, Live, TypeOK
  <2> QED BY <1>2, <2>1, KeptFrame, OperationsOnward DEF RunReports, queueVars, workerVars, TypeOK
<1>3. CASE RunReturns(t)
  <2>1. \A s \in Tasks : (run'[s] = "none" <=> run[s] = "none") /\ (Live(s)' => Live(s))
    BY <1>3 DEF RunReturns, MayReturn, Live, TypeOK
  <2>2. ~Live(t)' /\ status[t] # "queued" /\ uploads' = uploads \ {t}
    BY <1>3 DEF RunReturns, MayReturn, Live, TypeOK, KeyDiscipline, NotStarted
  <2> QED BY <1>3, <2>1, <2>2, KeptFrame, TableSame DEF RunReturns, queueVars, workerVars, tmVars
<1> QED BY <1>1, <1>2, <1>3

\* Each step keeps the tasks.
LEMMA KeptStep ==
  ASSUME TypeOK, KeyDiscipline, Recorded, Kept, [Next]_vars PROVE Kept'
<1>1. ASSUME NEW t \in Tasks, TaskNext(t) PROVE Kept'
  <2>1. ASSUME NEW d \in Payloads, Create(t, d) \/ CreateUpload(t, d) PROVE Kept'
    BY <2>1, KeptCreate DEF Create, CreateUpload
  <2>2. ASSUME NEW old \in Tasks, Retry(old, t) PROVE Kept'
    <3>1. data[old] \in Payloads
      BY <2>2 DEF Retry, RetryTask, KeyDiscipline, NotStarted
    <3> QED BY <2>2, <3>1, KeptCreate DEF Retry, RetryTask
  <2>3. CASE CancelByRequest(t) \/ CancelByBot(t) \/ Delete(t)
    BY <2>3, KeptFrame, OperationsOnward
    DEF CancelByRequest, CancelByBot, Delete, queueVars, workerVars, Live, TypeOK
  <2> QED BY <1>1, <2>1, <2>2, <2>3, KeptProducer, KeptWatcher, KeptRun DEF TaskNext
<1>2. CASE CancelQueued \/ CleanupOld \/ ShutdownCancels
  <2>1. Onward
    BY <1>2, TableSettles DEF CancelQueued, CleanupOld, ShutdownCancels, TypeOK, Settling
  <2> QED BY <1>2, <2>1, KeptFrame
          DEF CancelQueued, CleanupOld, ShutdownCancels, queueVars, workerVars, Live
<1>3. CASE Wakeup \/ BroadcastClosed \/ DrainTimesOut
  BY <1>3, KeptFrame, TableSame, WakeMoves
  DEF Wakeup, BroadcastClosed, DrainTimesOut, queueVars, workerVars, Live
<1>4. CASE CloseQueue
  <2>1. /\ UNCHANGED <<tmVars, pending, held, detached, workerVars, run, watcher, producer, uploads>>
        /\ closed' = TRUE /\ closer' = "closing"
    BY <1>4 DEF CloseQueue
  <2> QED BY <2>1
          DEF Kept, Custody, UploadsKept, NeverForgotten, Live, tmVars, workerVars
<1>5. CASE Drained
  <2>1. /\ UNCHANGED <<tmVars, queueVars, workerVars, run, watcher, producer, uploads>>
        /\ closer = "draining" /\ worker = "exited" /\ \A t \in Tasks : watcher[t] \in {"none", "done"}
        /\ closer' = "drained"
    BY <1>5 DEF Drained
  <2> QED BY <2>1
          DEF Kept, Custody, UploadsKept, NeverForgotten, Live, tmVars, queueVars, workerVars
<1>6. CASE UNCHANGED vars
  BY <1>6, KeptFrame, TableSame DEF vars, queueVars, workerVars, Live
<1> QED BY <1>1, <1>2, <1>3, <1>4, <1>5, <1>6, KeptWorker DEF Next, CloserStep

-----------------------------------------------------------------------------
(* The order of the scan.                                                  *)

\* What the scan has passed over keeps its conflict: no key is given back and
\* no task gets new data while q.mu is held.
LEMMA PassedConflictStep ==
  ASSUME TypeOK, KeyDiscipline, Custody, PassedConflict, [Next]_vars PROVE PassedConflict'
<1> USE DEF PassedConflict
<1>1. ASSUME UNCHANGED <<pending, held>>, scanAt' = scanAt, worker' = "scan" => worker = "scan",
             \A i \in DOMAIN pending : /\ data'[pending[i]] = data[pending[i]]
                                       /\ status'[pending[i]] = "queued" => status[pending[i]] = "queued"
      PROVE  PassedConflict'
  BY <1>1 DEF Conflicts, KeysOf
<1>2. ASSUME UNCHANGED <<pending, held, scanAt>>, Onward, worker' = "scan" => worker = "scan"
      PROVE  PassedConflict'
  BY <1>1, <1>2 DEF Onward, TypeOK
<1>3. ASSUME NEW t \in Tasks, NEW d, CreateTask(t, d), UNCHANGED <<pending, held, scanAt, worker>>
      PROVE  PassedConflict'
  <2>1. \A i \in DOMAIN pending : pending[i] # t
    BY <1>3 DEF CreateTask, Custody
  <2> QED BY <1>1, <1>3, <2>1 DEF CreateTask, TypeOK, TMTypeOK
<1>4. ASSUME NEW t \in Tasks, TaskNext(t) PROVE PassedConflict'
  <2>1. CASE \/ \E d \in Payloads : Create(t, d) \/ CreateUpload(t, d)
             \/ \E old \in Tasks : Retry(old, t)
    BY <2>1, <1>3 DEF Create, CreateUpload, Retry, RetryTask, queueVars, workerVars
  <2>2. CASE Enqueue(t)
    BY <2>2 DEF Enqueue, Unlocked, workerVars
  <2>3. CASE SignalEnqueued(t)
    BY <2>3, <1>2, TableSame, WakeMoves DEF SignalEnqueued, queueVars
  <2>4. CASE Reject(t)
    BY <2>4, <1>2, OperationsOnward DEF Reject, TypeOK, queueVars, workerVars
  <2>5. CASE CancelByRequest(t) \/ CancelByBot(t) \/ Delete(t)
    BY <2>5, <1>2, OperationsOnward
    DEF CancelByRequest, CancelByBot, Delete, TypeOK, queueVars, workerVars
  <2>6. CASE WatcherReleases(t)
    BY <2>6 DEF WatcherReleases, Unlocked, workerVars
  <2>7. CASE WatcherHandles(t)
    BY <2>7, <1>2, OperationsOnward DEF WatcherHandles, TypeOK, queueVars, workerVars
  <2>8. CASE WatcherSeesResult(t) \/ WatcherUnregisters(t) \/ WatcherBroadcasts(t)
    BY <2>8, <1>2, TableSame, WakeMoves
    DEF WatcherSeesResult, WatcherUnregisters, WatcherBroadcasts, queueVars, workerVars
  <2>9. CASE RunProgress(t) \/ RunReports(t) \/ RunReturns(t)
    BY <2>9, <1>2, OperationsOnward
    DEF RunProgress, RunReports, RunReturns, TypeOK, queueVars, workerVars
  <2> QED BY <1>4, <2>1, <2>2, <2>3, <2>4, <2>5, <2>6, <2>7, <2>8, <2>9
          DEF TaskNext, ProducerStep, WatcherNext
<1>5. CASE CancelQueued \/ CleanupOld \/ ShutdownCancels
  <2>1. Onward
    BY <1>5, TableSettles DEF CancelQueued, CleanupOld, ShutdownCancels, TypeOK, Settling
  <2> QED BY <1>2, <1>5, <2>1 DEF CancelQueued, CleanupOld, ShutdownCancels, queueVars, workerVars
<1>6. CASE Wakeup \/ CloserStep \/ DrainTimesOut
  BY <1>2, <1>6, TableSame, WakeMoves
  DEF Wakeup, CloserStep, CloseQueue, BroadcastClosed, Drained, DrainTimesOut, queueVars, workerVars
<1>7. CASE WorkerNext
  <2>1. CASE WorkerTop
    BY <2>1 DEF WorkerTop, TypeOK
  <2>2. CASE ScanDrop
    <3>1. /\ scanAt \in 1 .. Len(pending) /\ pending' = Without(pending, scanAt)
          /\ UNCHANGED <<tmVars, held, scanAt>> /\ worker = "scan"
      BY <2>2 DEF ScanDrop, Scanning, TypeOK, workerVars
    <3>2. \A j \in 1 .. Len(pending) - 1 : j < scanAt => pending'[j] = pending[j]
      BY <3>1, WithoutLeaves DEF TypeOK
    <3>3. DOMAIN pending' = 1 .. Len(pending) - 1
      BY <3>1, WithoutLeaves DEF TypeOK
    <3>4. ASSUME NEW i \in DOMAIN pending', i < scanAt, status[pending'[i]] = "queued"
          PROVE  Conflicts(pending'[i])
      <4>1. i \in DOMAIN pending /\ pending'[i] = pending[i]
        BY <3>2, <3>3, <3>4 DEF TypeOK
      <4> QED BY <3>1, <3>4, <4>1
    <3>5. \A t : Conflicts(t)' <=> Conflicts(t)
      BY <3>1 DEF Conflicts, KeysOf, tmVars
    <3> QED BY <3>1, <3>4, <3>5 DEF tmVars
  <2>3. CASE ScanSkip
    <3>1. /\ scanAt \in 1 .. Len(pending) /\ scanAt' = scanAt + 1
          /\ UNCHANGED <<tmVars, pending, held>> /\ worker = "scan" /\ Conflicts(pending[scanAt])
      BY <2>3 DEF ScanSkip, Scanning, Scanned, TypeOK, queueVars
    <3>2. ASSUME NEW i \in DOMAIN pending, i < scanAt', status[pending[i]] = "queued"
          PROVE  Conflicts(pending[i])
      <4>1. i < scanAt \/ i = scanAt
        BY <3>1, <3>2 DEF TypeOK
      <4> QED BY <3>1, <3>2, <4>1
    <3>3. \A t : Conflicts(t)' <=> Conflicts(t)
      BY <3>1 DEF Conflicts, KeysOf, tmVars
    <3> QED BY <3>1, <3>2, <3>3 DEF tmVars
  <2>4. CASE ScanPick \/ ScanEnd \/ Release \/ DetachJob \/ StartJob \/ TakeResult \/ SeeCancelled
               \/ HandleResult
    BY <2>4
    DEF ScanPick, ScanEnd, Release, DetachJob, StartJob, TakeResult, SeeCancelled, HandleResult
  <2> QED BY <1>7, <2>1, <2>2, <2>3, <2>4 DEF WorkerNext
<1>8. CASE UNCHANGED vars
  BY <1>2, <1>8, TableSame DEF vars, queueVars, workerVars
<1> QED BY <1>4, <1>5, <1>6, <1>7, <1>8 DEF Next

\* Only the pick of a job gives the worker another one while it scans, and the
\* picked one conflicts with nobody.
LEMMA PicksOldestStep ==
  ASSUME TypeOK, KeyDiscipline, PassedConflict, [Next]_vars,
         NEW i \in DOMAIN pending, worker = "scan", job' # job, i < scanAt,
         status[pending[i]] = "queued"
  PROVE  ~(KeysOf(pending[i]) \subseteq KeysOf(job'))
<1>1. ScanPick
  BY DEF Next, TaskNext, ProducerStep, WatcherNext, WorkerNext, CloserStep,
         Create, CreateUpload, Retry, Enqueue, SignalEnqueued, Reject, CancelByRequest,
         CancelByBot, Delete, WatcherSeesResult, WatcherHandles, WatcherUnregisters,
         WatcherReleases, WatcherBroadcasts, RunProgress, RunReports, RunReturns, CancelQueued,
         Wakeup, CleanupOld, WorkerTop, ScanDrop, ScanSkip, ScanEnd, StartJob, TakeResult,
         SeeCancelled, DetachJob, HandleResult, Release, ShutdownCancels, CloseQueue,
         BroadcastClosed, Drained, DrainTimesOut, vars, workerVars, queueVars
<1>2. job' = Scanned /\ ~Conflicts(Scanned)
  BY <1>1 DEF ScanPick
<1>3. Conflicts(pending[i])
  BY DEF PassedConflict
<1> QED BY <1>2, <1>3 DEF Conflicts

-----------------------------------------------------------------------------
(* The moves of a task.                                                    *)

\* Each step takes each task along a legal transition and freezes its progress
\* with a terminal status.
LEMMA MovesStep ==
  ASSUME TypeOK, KeyDiscipline, [Next]_vars PROVE Moves
<1>1. ASSUME NEW t \in Tasks, NEW d, CreateTask(t, d) PROVE Moves
  BY <1>1 DEF CreateTask, TypeOK, TMTypeOK, Moves, LegalMove, FrozenMove, Terminal
<1>2. ASSUME NEW t \in Tasks, TaskNext(t) PROVE Moves
  <2>1. CASE \/ \E d \in Payloads : Create(t, d) \/ CreateUpload(t, d)
             \/ \E old \in Tasks : Retry(old, t)
    BY <2>1, <1>1 DEF Create, CreateUpload, Retry, RetryTask
  <2>2. CASE ProducerStep(t) \/ WatcherNext(t)
    BY <2>2, OperationsSettle, TableSameSettles
    DEF ProducerStep, Enqueue, SignalEnqueued, Reject, WatcherNext, WatcherSeesResult,
        WatcherHandles, WatcherUnregisters, WatcherReleases, WatcherBroadcasts, TypeOK
  <2>3. CASE CancelByRequest(t) \/ CancelByBot(t) \/ Delete(t)
    BY <2>3, OperationsSettle DEF CancelByRequest, CancelByBot, Delete, TypeOK
  <2>4. CASE RunProgress(t) \/ RunReports(t) \/ RunReturns(t)
    BY <2>4, OperationsSettle, TableSameSettles DEF RunProgress, RunReports, RunReturns, TypeOK
  <2> QED BY <1>2, <2>1, <2>2, <2>3, <2>4 DEF TaskNext
<1>3. CASE CancelQueued \/ CleanupOld \/ ShutdownCancels
  BY <1>3, TableSettles DEF CancelQueued, CleanupOld, ShutdownCancels, TypeOK
<1>4. CASE Wakeup \/ CloserStep \/ DrainTimesOut
  BY <1>4, TableSameSettles
  DEF Wakeup, CloserStep, CloseQueue, BroadcastClosed, Drained, DrainTimesOut
<1>5. CASE WorkerNext
  <2>1. CASE StartJob
    <3>1. CASE StatusAccepted(job, "running")
      <4>1. /\ status' = [status EXCEPT ![job] = "running"] /\ stage' = stage
            /\ CanTransitionStatus(status[job], "running")
        BY <2>1, <3>1 DEF StartJob, UpdateTaskStatus, StatusAccepted, Terminal
      <4> QED BY <4>1 DEF TypeOK, TMTypeOK, Moves, LegalMove, FrozenMove, Terminal
    <3>2. CASE ~StatusAccepted(job, "running")
      BY <2>1, <3>2, TableSameSettles DEF StartJob
    <3> QED BY <3>1, <3>2
  <2>2. CASE HandleResult
    BY <2>2, OperationsSettle DEF HandleResult, KeyDiscipline, JobHeld, TypeOK
  <2>3. CASE ~StartJob /\ ~HandleResult
    BY <1>5, <2>3, TableSameSettles
    DEF WorkerNext, WorkerTop, ScanDrop, ScanSkip, ScanPick, ScanEnd, TakeResult,
        SeeCancelled, DetachJob, Release
  <2> QED BY <2>1, <2>2, <2>3
<1>6. CASE UNCHANGED vars
  BY <1>6, TableSameSettles DEF vars
<1> QED BY <1>2, <1>3, <1>4, <1>5, <1>6 DEF Next

-----------------------------------------------------------------------------
(* What follows from them.                                                 *)

\* Initially nobody has anything in hand.
LEMMA InitialCustody == Init => Recorded /\ Kept /\ PassedConflict /\ ProgressFrozen
<1> SUFFICES ASSUME Init PROVE Recorded /\ Kept /\ PassedConflict /\ ProgressFrozen
  OBVIOUS
<1>1. /\ \A t \in Tasks : status[t] = "absent" /\ run[t] = "none" /\ watcher[t] = "none"
                          /\ producer[t] = "idle" /\ data[t] = NoData
      /\ pending = <<>> /\ detached = {} /\ ctxDone = {} /\ job = NoTask
      /\ worker = "top" /\ closer = "open" /\ \A k \in Keys : held[k] = NoTask
  BY DEF Init, TMInit
<1>2. Recorded
  BY <1>1 DEF Recorded, Active
<1>3. Custody
  BY <1>1, QueueAssumption DEF Custody
<1>4. UploadsKept /\ NeverForgotten
  BY <1>1 DEF UploadsKept, NeverForgotten, Live
<1>5. PassedConflict /\ ProgressFrozen
  BY <1>1 DEF PassedConflict, ProgressFrozen, Terminal
<1> QED BY <1>2, <1>3, <1>4, <1>5 DEF Kept

\* The final progress stays what the terminal status made it.
LEMMA FrozenStep == ProgressFrozen /\ Moves => ProgressFrozen'
  BY DEF ProgressFrozen, Moves, FrozenMove

\* Somebody has each task, each key and each result in hand at any time.
THEOREM QueueCustody == Spec => [](Recorded /\ Kept /\ PassedConflict)
<1> DEFINE Q == Recorded /\ Kept /\ PassedConflict
<1>1. TypeOK /\ KeyDiscipline /\ Q /\ [Next]_vars => Q'
  BY RecordedStep, KeptStep, PassedConflictStep DEF Kept
<1>2. Init => Q
  BY InitialCustody
<1> QED BY <1>1, <1>2, QueueInvariant, PTL DEF Spec

\* The variables keep their types.
THEOREM QueueTypes == Spec => []TypeOK
  BY QueueInvariant, PTL

\* An enqueued task is in the queue or with the worker until it is run or
\* cancelled, and the files uploaded for it are there as long as its run needs them.
THEOREM QueueKeepsTasks == Spec => []TasksAreKept
<1>1. Kept => TasksAreKept
  BY DEF Kept, UploadsKept, TasksAreKept, UploadAvailable
<1> QED BY <1>1, QueueCustody, PTL

\* A queue that has drained executes nothing, holds nothing and starts nothing.
LEMMA CustodyDrained == TypeOK /\ KeyDiscipline /\ Kept => DrainedIsQuiet
<1> SUFFICES ASSUME TypeOK, JobHeld, LiveHeld, Custody, closer = "drained"
             PROVE  /\ pending = <<>> /\ detached = {}
                    /\ \A t \in Tasks : ~Live(t)
                    /\ \A k \in Keys : held[k] = NoTask
  BY DEF DrainedIsQuiet, KeyDiscipline, Kept
<1>1. worker = "exited" /\ job \notin Tasks /\ \A t \in Tasks : watcher[t] \in {"none", "done"}
  BY DEF Custody, JobHeld
<1>2. pending = <<>> /\ detached = {}
  BY <1>1 DEF Custody
<1>3. \A t \in Tasks : ~Live(t)
  BY <1>1, <1>2 DEF LiveHeld
<1>4. ASSUME NEW k \in Keys, held[k] # NoTask PROVE FALSE
  <2>1. held[k] \in Tasks
    BY <1>4 DEF TypeOK
  <2> QED BY <1>1, <1>4, <2>1 DEF Custody
<1> QED BY <1>2, <1>3, <1>4

\* When CloseAndWait returns in time, no run executes and no key is held.
THEOREM QueueDrains == Spec => []DrainedIsQuiet
  BY QueueInvariant, QueueCustody, CustodyDrained, PTL

\* What is recorded of results is what a user is told in the end.
LEMMA RecordedOutcome == Recorded => OutcomeRecorded
  BY DEF Recorded, OutcomeRecorded, Settled

\* A task's status follows the transitions of the table, its outcome is recorded
\* once its run is done with, and its final progress stays.
THEOREM QueueOutcomes == Spec => OutcomeIsFinal
<1> DEFINE Step == \A t \in Tasks :
       status'[t] # status[t] =>
         \/ status[t] = "absent" /\ status'[t] = "queued"
         \/ status[t] \in Terminal /\ status'[t] = "deleted"
         \/ CanTransitionStatus(status[t], status'[t])
<1>1. TypeOK /\ KeyDiscipline /\ [Next]_vars => [Step]_vars
  BY MovesStep DEF Moves, LegalMove
<1>2. Spec => LegalTransitions
  BY <1>1, QueueInvariant, PTL DEF Spec, LegalTransitions
<1>3. TypeOK /\ KeyDiscipline /\ ProgressFrozen /\ [Next]_vars => ProgressFrozen'
  BY MovesStep, FrozenStep
<1>4. Init => ProgressFrozen
  BY InitialCustody
<1>5. Spec => []ProgressFrozen
  BY <1>3, <1>4, QueueInvariant, PTL DEF Spec
<1> QED BY <1>2, <1>5, QueueCustody, RecordedOutcome, PTL DEF OutcomeIsFinal

\* Tasks for one account run in the order in which they were enqueued.
THEOREM QueueOrder == Spec => SameTargetFIFO
<1> DEFINE Step == \A i \in DOMAIN pending :
       (worker = "scan" /\ job' # job /\ i < scanAt /\ status[pending[i]] = "queued")
         => ~(KeysOf(pending[i]) \subseteq KeysOf(job'))
<1>1. TypeOK /\ KeyDiscipline /\ PassedConflict /\ [Next]_vars => [Step]_vars
  BY PicksOldestStep
<1> QED BY <1>1, QueueInvariant, QueueCustody, PTL DEF Spec, SameTargetFIFO

-----------------------------------------------------------------------------
(* The queue implements ExclusiveRuns.                                     *)

Phased  == [t \in Tasks |-> Phase(t)]
Reached == [t \in Tasks |-> IF status[t] = "absent" THEN {} ELSE Accounts(data[t])]

\* What the phases stand for.
LEMMA PhasesRead ==
  ASSUME KeyDiscipline, NEW t \in Tasks
  PROVE  /\ Phase(t) = "active"  <=> Live(t)
         /\ Phase(t) = "absent"  <=> status[t] = "absent"
         /\ Phase(t) = "waiting" <=> status[t] = "queued"
         /\ Phase(t) \in {"absent", "waiting", "active", "ended"}
<1>1. status[t] \in {"absent", "queued"} => run[t] = "none" /\ ~Live(t)
  BY DEF KeyDiscipline, NotStarted, Live
<1> QED BY <1>1 DEF Phase

\* Steps that start and end no run and create no task drop the queued tasks
\* that they settle.
LEMMA PromiseDrops ==
  ASSUME KeyDiscipline, KeyDiscipline', Onward, \A t \in Tasks : Live(t)' <=> Live(t)
  PROVE  [Promise!Next]_<<Phased, Reached>>
<1> DEFINE S == {t \in Tasks : status[t] = "queued" /\ status'[t] # "queued"}
<1>1. Reached' = Reached
  BY DEF Reached, Onward
<1>2. ASSUME NEW t \in Tasks PROVE Phase(t)' = IF t \in S THEN "ended" ELSE Phase(t)
  <2>1. /\ Phase(t)' = "active"  <=> Live(t)'
        /\ Phase(t)' = "absent"  <=> status'[t] = "absent"
        /\ Phase(t)' = "waiting" <=> status'[t] = "queued"
        /\ Phase(t)' \in {"absent", "waiting", "active", "ended"}
    <3>1. status'[t] \in {"absent", "queued"} => run'[t] = "none" /\ ~Live(t)'
      BY DEF KeyDiscipline, NotStarted, Live
    <3> QED BY <3>1 DEF Phase
  <2>2. t \in S => ~Live(t)
    BY DEF KeyDiscipline, NotStarted, Live
  <2> QED BY <2>1, <2>2, PhasesRead DEF Onward
<1>3. CASE S = {}
  BY <1>1, <1>2, <1>3 DEF Phased
<1>4. CASE S # {}
  <2>1. Phased' = [t \in Tasks |-> IF t \in S THEN "ended" ELSE Phased[t]]
    BY <1>2 DEF Phased
  <2>2. \A t \in S : Phased[t] = "waiting"
    BY PhasesRead DEF Phased
  <2>3. S \in SUBSET Tasks
    OBVIOUS
  <2> HIDE DEF S
  <2> QED BY <1>1, <1>4, <2>1, <2>2, <2>3 DEF Promise!Next, Promise!Drop, Phased, Reached
<1> QED BY <1>3, <1>4

\* A new task is admitted with the accounts of its data.
LEMMA PromiseAdmits ==
  ASSUME TypeOK, KeyDiscipline, NEW t \in Tasks, NEW d \in Payloads, CreateTask(t, d), run' = run
  PROVE  Promise!Next
<1>1. /\ status[t] = "absent" /\ status'[t] = "queued" /\ data'[t] = d /\ run[t] = "none"
      /\ \A s \in Tasks \ {t} : status'[s] = status[s] /\ data'[s] = data[s]
  BY DEF CreateTask, TypeOK, TMTypeOK, KeyDiscipline, NotStarted
<1>2. Phased[t] = "absent" /\ Phase(t)' = "waiting"
      /\ \A s \in Tasks \ {t} : Phase(s)' = Phase(s)
  BY <1>1 DEF Phased, Phase, Live
<1>3. Phased' = [Phased EXCEPT ![t] = "waiting"]
  BY <1>2 DEF Phased
<1>4. Reached' = [Reached EXCEPT ![t] = Accounts(d)]
  BY <1>1 DEF Reached
<1>5. Accounts(d) \in SUBSET Names
  BY QueueAssumption, TargetsAssumption DEF Accounts, Data
<1>6. \E A \in SUBSET Names : Reached' = [Reached EXCEPT ![t] = A]
  BY <1>4, <1>5
<1> QED BY <1>2, <1>3, <1>6 DEF Promise!Next, Promise!Admit, Phased, Reached

\* The worker starts a run of a task that waited, and beside no run that has an
\* account in common with it.
LEMMA PromiseStarts ==
  ASSUME TypeOK, KeyDiscipline, Recorded, RunsExcludeEachOther', StartJob
  PROVE  [Promise!Next]_<<Phased, Reached>>
<1>0. PICK t \in Tasks : t = job
  BY DEF StartJob, KeyDiscipline, JobHeld
<1>1. run[t] = "none" /\ ~Live(t)
  BY <1>0 DEF StartJob, KeyDiscipline, JobHeld, Recorded, Live
<1>2. CASE StatusAccepted(t, "running")
  <2>1. /\ status[t] = "queued" /\ status'[t] = "running" /\ run'[t] = "live"
        /\ data' = data
        /\ \A s \in Tasks \ {t} : status'[s] = status[s] /\ run'[s] = run[s]
    <3>1. status[t] = "queued"
      BY <1>1, <1>2 DEF StatusAccepted, CanTransitionStatus, Recorded, Terminal
    <3>2. /\ status' = [status EXCEPT ![t] = "running"] /\ run' = [run EXCEPT ![t] = "live"]
          /\ data' = data
      BY <1>0, <1>2 DEF StartJob, UpdateTaskStatus, Terminal
    <3> QED BY <1>1, <3>1, <3>2 DEF TypeOK, TMTypeOK
  <2>2. Phased[t] = "waiting" /\ Phase(t)' = "active"
        /\ \A s \in Tasks \ {t} : Phase(s)' = Phase(s)
    BY <1>1, <2>1 DEF Phased, Phase, Live
  <2>3. Phased' = [Phased EXCEPT ![t] = "active"]
    BY <1>1, <2>2 DEF Phased
  <2>4. Reached' = Reached
    BY <2>1 DEF Reached
  <2>5. ASSUME NEW s \in Tasks, Phased[s] = "active" PROVE Reached[s] \cap Reached[t] = {}
    <3>1. Live(s) /\ s # t /\ status[s] # "absent"
      BY <1>1, <2>5, PhasesRead DEF Phased, Phase
    <3>2. Live(s)' /\ Live(t)'
      BY <2>1, <3>1 DEF Live
    <3>3. Accounts(data[s]) \cap Accounts(data[t]) = {}
      BY <1>1, <2>1, <3>1, <3>2 DEF RunsExcludeEachOther
    <3> QED BY <1>1, <2>1, <3>1, <3>3 DEF Reached
  <2> QED BY <1>1, <2>2, <2>3, <2>4, <2>5 DEF Promise!Next, Promise!Start, Phased, Reached
<1>3. CASE ~StatusAccepted(t, "running")
  <2>1. UNCHANGED <<status, data, run>>
    BY <1>0, <1>3 DEF StartJob, tmVars
  <2> QED BY <2>1 DEF Phased, Reached, Phase, Live
<1> QED BY <1>2, <1>3

\* A run that returns ends its task.
LEMMA PromiseFinishes ==
  ASSUME TypeOK, KeyDiscipline, NEW t \in Tasks, RunReturns(t)
  PROVE  Promise!Next
<1>1. /\ Live(t) /\ run'[t] \in Results /\ UNCHANGED <<status, data>>
      /\ \A s \in Tasks \ {t} : run'[s] = run[s]
  BY DEF RunReturns, MayReturn, Live, Results, TypeOK, tmVars
<1>2. status[t] \notin {"absent", "queued"}
  BY <1>1 DEF KeyDiscipline, NotStarted, Live
<1>3. Phased[t] = "active" /\ Phase(t)' = "ended" /\ \A s \in Tasks \ {t} : Phase(s)' = Phase(s)
  BY <1>1, <1>2 DEF Phased, Phase, Live, Results
<1>4. Phased' = [Phased EXCEPT ![t] = "ended"]
  BY <1>3 DEF Phased
<1>5. Reached' = Reached
  BY <1>1 DEF Reached
<1> QED BY <1>3, <1>4, <1>5 DEF Promise!Next, Promise!Finish, Phased, Reached

\* Each step of the queue is a step of ExclusiveRuns or changes nothing there.
LEMMA PromiseStep ==
  ASSUME TypeOK, KeyDiscipline, Recorded, KeyDiscipline', RunsExcludeEachOther',
         [Next]_vars
  PROVE  [Promise!Next]_<<Phased, Reached>>
<1>1. ASSUME Onward, UNCHANGED run PROVE [Promise!Next]_<<Phased, Reached>>
  BY <1>1, PromiseDrops DEF Live
<1>2. ASSUME NEW t \in Tasks, TaskNext(t) PROVE [Promise!Next]_<<Phased, Reached>>
  <2>1. CASE \/ \E d \in Payloads : Create(t, d) \/ CreateUpload(t, d)
             \/ \E old \in Tasks : Retry(old, t)
    <3>1. \E d \in Payloads : CreateTask(t, d) /\ run' = run
      BY <2>1 DEF Create, CreateUpload, Retry, RetryTask, KeyDiscipline, NotStarted
    <3> QED BY <3>1, PromiseAdmits
  <2>2. CASE ProducerStep(t) \/ WatcherNext(t)
    BY <1>1, <2>2, OperationsOnward
    DEF ProducerStep, Enqueue, SignalEnqueued, Reject, WatcherNext, WatcherSeesResult,
        WatcherHandles, WatcherUnregisters, WatcherReleases, WatcherBroadcasts, TypeOK
  <2>3. CASE CancelByRequest(t) \/ CancelByBot(t) \/ Delete(t) \/ RunProgress(t)
    BY <1>1, <2>3, OperationsOnward DEF CancelByRequest, CancelByBot, Delete, RunProgress, TypeOK
  <2>4. CASE RunReports(t)
    <3>1. \A s \in Tasks : Live(s)' <=> Live(s)
      BY <2>4 DEF RunReports, Live, TypeOK
    <3> QED BY <2>4, <3>1, OperationsOnward, PromiseDrops DEF RunReports, TypeOK
  <2>5. CASE RunReturns(t)
    BY <2>5, PromiseFinishes
  <2> QED BY <1>2, <2>1, <2>2, <2>3, <2>4, <2>5 DEF TaskNext
<1>3. CASE CancelQueued \/ CleanupOld \/ ShutdownCancels
  BY <1>1, <1>3, TableSettles DEF CancelQueued, CleanupOld, ShutdownCancels, TypeOK, Settling
<1>4. CASE Wakeup \/ CloserStep \/ DrainTimesOut
  BY <1>1, <1>4, TableSame
  DEF Wakeup, CloserStep, CloseQueue, BroadcastClosed, Drained, DrainTimesOut
<1>5. CASE WorkerNext
  <2>1. CASE StartJob
    BY <2>1, PromiseStarts
  <2>2. CASE HandleResult
    BY <1>1, <2>2, OperationsOnward DEF HandleResult, KeyDiscipline, JobHeld, TypeOK
  <2>3. CASE ~StartJob /\ ~HandleResult
    BY <1>1, <1>5, <2>3, TableSame
    DEF WorkerNext, WorkerTop, ScanDrop, ScanSkip, ScanPick, ScanEnd, TakeResult,
        SeeCancelled, DetachJob, Release
  <2> QED BY <2>1, <2>2, <2>3
<1>6. CASE UNCHANGED vars
  BY <1>1, <1>6, TableSame DEF vars
<1> QED BY <1>2, <1>3, <1>4, <1>5, <1>6 DEF Next

\* Whoever looks at the runs only, and at the accounts they work on, sees
\* ExclusiveRuns: each task runs at most once, none after it was cancelled while it
\* waited, and none beside another one with an account in common.
THEOREM QueueKeepsPromise == Spec => KeepsPromise
<1>1. Init => Promise!Init
  <2> SUFFICES ASSUME Init PROVE Promise!Init
    OBVIOUS
  <2>1. \A t \in Tasks : status[t] = "absent" /\ ~Live(t)
    BY DEF Init, TMInit, Live
  <2>2. \A t \in Tasks : Phase(t) = "absent"
    BY <2>1 DEF Phase
  <2> QED BY <2>1, <2>2 DEF Promise!Init
<1>2. TypeOK /\ KeyDiscipline /\ Recorded /\ (KeyDiscipline /\ RunsExcludeEachOther)'
          /\ [Next]_vars
        => [Promise!Next]_<<[t \in Tasks |-> Phase(t)],
              [t \in Tasks |-> IF status[t] = "absent" THEN {} ELSE Accounts(data[t])]>>
  BY PromiseStep DEF Phased, Reached
<1> QED BY <1>1, <1>2, QueueInvariant, QueueExclusion, QueueCustody, PTL
        DEF Spec, KeepsPromise, Promise!Spec

=============================================================================
