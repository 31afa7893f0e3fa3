---------------------------- MODULE TaskManager ----------------------------
(***************************************************************************)
(* The task table of the API server (internal/api/task_manager.go).        *)
(*                                                                         *)
(* Every operation below is one critical section of tm.mu, so each is one  *)
(* step.  A task's identity is its ID, which is a fresh UUID and is never  *)
(* used again, so a task is "absent" before CreateTask and "deleted" after *)
(* it left the table; GetTask finds it exactly in the states of Status.    *)
(* Publishing the change (publishTasks, PublishNotification) happens after *)
(* the unlock and changes nothing here: module EventBus models it.         *)
(***************************************************************************)
EXTENDS Naturals

CONSTANTS Tasks,     \* the task IDs that may ever be generated
          Payloads,  \* what a task may carry as Data
          NoData     \* the Data of a task that does not exist yet

VARIABLES status,    \* task.Status, with "absent" and "deleted" added
          data,      \* task.Data; kept once the task is deleted, for the history
          ctxDone,   \* the tasks whose context has been cancelled
          stage      \* what task.Progress says: "", "working", "completed"

tmVars == <<status, data, ctxDone, stage>>

Active   == {"queued", "running"}
Terminal == {"completed", "failed", "cancelled"}
Status   == Active \cup Terminal

Stages   == {"", "working", "completed"}

\* GetTask's second result.
Known(t) == status[t] \in Status

TMTypeOK ==
  /\ status  \in [Tasks -> Status \cup {"absent", "deleted"}]
  /\ data    \in [Tasks -> Payloads \cup {NoData}]
  /\ ctxDone \in SUBSET Tasks
  /\ stage   \in [Tasks -> Stages]

TMInit ==
  /\ status  = [t \in Tasks |-> "absent"]
  /\ data    = [t \in Tasks |-> NoData]
  /\ ctxDone = {}
  /\ stage   = [t \in Tasks |-> ""]

-----------------------------------------------------------------------------
(* The transition rules. *)

CanTransitionStatus(from, to) ==
  \/ from = to        /\ from \notin Terminal
  \/ from = "queued"  /\ to \in {"running"} \cup Terminal
  \/ from = "running" /\ to \in Terminal

\* (mistake: the stage takes the name of the status)
StageNamed(s) == s

\* applyTerminalProgress: a terminal status overwrites the progress stage.
TerminalStage(s) == IF s = "completed" THEN "completed" ELSE ""

\* Move every task of S to the terminal status s and cancel its context.
Finish(S, s) ==
  /\ status'  = [t \in Tasks |-> IF t \in S THEN s ELSE status[t]]
  /\ stage'   = [t \in Tasks |-> IF t \in S THEN TerminalStage(s) ELSE stage[t]]
  /\ ctxDone' = ctxDone \cup S
  /\ UNCHANGED data

-----------------------------------------------------------------------------
(* The operations. *)

CreateTask(t, d) ==
  /\ status[t] = "absent"
  /\ status' = [status EXCEPT ![t] = "queued"]
  /\ data'   = [data EXCEPT ![t] = d]
  /\ UNCHANGED <<ctxDone, stage>>

\* RetryTask makes a new task with the data of a failed or cancelled one; the
\* old task stays as it is.
RetryTask(old, t) ==
  /\ status[old] \in {"failed", "cancelled"}
  /\ CreateTask(t, data[old])

\* UpdateTaskStatus with a terminal status cancels the context; the download
\* queue calls it with "running" only.  It is refused when the task is unknown
\* or the transition is not allowed.
StatusAccepted(t, s) == Known(t) /\ CanTransitionStatus(status[t], s)

UpdateTaskStatus(t, s) ==
  /\ StatusAccepted(t, s)
  /\ IF s \in Terminal
       THEN Finish({t}, s)
       ELSE /\ status' = [status EXCEPT ![t] = s]
            /\ UNCHANGED <<data, ctxDone, stage>>

\* (mistake: the terminal status is not respected)
SetTaskErrorAlways(t) ==
  IF Known(t) THEN Finish({t}, "failed") ELSE UNCHANGED tmVars

\* The two ways a task gets its result.  Both are silently refused once the
\* task is terminal or gone.
SetTaskError(t) ==
  IF status[t] \in Active THEN Finish({t}, "failed") ELSE UNCHANGED tmVars

CompleteTask(t) ==
  IF StatusAccepted(t, "completed") THEN Finish({t}, "completed") ELSE UNCHANGED tmVars

\* (mistake: progress is stored whatever the status)
UpdateTaskProgressAlways(t) ==
  IF Known(t)
    THEN /\ stage' = [stage EXCEPT ![t] = "working"]
         /\ UNCHANGED <<status, data, ctxDone>>
    ELSE UNCHANGED tmVars

UpdateTaskProgress(t) ==
  IF status[t] \in Active
    THEN /\ stage' = [stage EXCEPT ![t] = "working"]
         /\ UNCHANGED <<status, data, ctxDone>>
    ELSE UNCHANGED tmVars

CancelTask(t) == status[t] \in Active /\ Finish({t}, "cancelled")

CancelAllTasks == Finish({t \in Tasks : status[t] \in Active}, "cancelled")

QueuedTasks == {t \in Tasks : status[t] = "queued"}

CancelQueuedTasks == QueuedTasks # {} /\ Finish(QueuedTasks, "cancelled")

\* DeleteTask takes one terminal task out of the table, the hourly cleanup any
\* set of terminal tasks (those that ended more than 24 hours ago; the clock
\* is not modelled, so it may be any of them).
Remove(S) ==
  /\ S # {} /\ S \subseteq {t \in Tasks : status[t] \in Terminal}
  /\ status' = [t \in Tasks |-> IF t \in S THEN "deleted" ELSE status[t]]
  /\ UNCHANGED <<data, ctxDone, stage>>

DeleteTask(t) == Remove({t})

Cleanup == \E S \in SUBSET Tasks : Remove(S)
=============================================================================
