-------------------------- MODULE BotNotifications --------------------------
(***************************************************************************)
(* What bots tell their users of tasks (internal/bot and its platforms,    *)
(* bot_commands.go and bot_notify.go of internal/api).                     *)
(*                                                                         *)
(* A chat bot keeps a tracker of the tasks its users began, and announces  *)
(* their end to them; a push bot announces the end of every task, and      *)
(* keeps which it has.  Both learn of ends from the copies of the task     *)
(* table that the event bus gives them, and a chat bot looks once more     *)
(* when it has begun to track a task.                                      *)
(*                                                                         *)
(* Whoever changes a task copies the table and publishes the copy, in two  *)
(* steps; the bus keeps the last copy for a subscriber that is busy, and   *)
(* drops one whose queue of notifications is full.  (EventBus has the bus  *)
(* itself, and TaskManager the table.)                                     *)
(***************************************************************************)
EXTENDS Integers, FiniteSets

CONSTANTS
  BotTasks,
  ChatBots,     \* Telegram, Discord, Feishu, WeChat
  PushBots,     \* Gotify, Pushover
  Changers,     \* the worker, and requests that cancel or delete a task
  NoCopy,
  NoteLimit     \* eventBusSubscriberBuffer

Statuses == {"none", "queued", "ended", "cancelled", "deleted"}
TableCopy == [of : [BotTasks -> Statuses], at : Nat]
NoBot    == "nobody"

ASSUME BotAssumption ==
  /\ NoteLimit \in Nat \ {0} /\ ChatBots \cap PushBots = {} /\ Changers \cap BotTasks = {}
  /\ NoCopy \notin TableCopy /\ NoBot \notin ChatBots

VARIABLES
  table,     \* the status of each task
  changes,   \* how often the table has changed
  command,   \* the /dl command that began each task: where it is, and the bot it was given to
  posting,       \* what each command and each changer has to publish
  feed,      \* the subscriber of each bot
  loop,      \* the event loop of each bot, and what it is about to announce
  marks,     \* a chat bot's tracker, a push bot's notifiedTasks
  told,      \* history: how often each bot announced each task, up to 2
  newest,    \* history: the newest copy that was published
  late       \* history: a copy was published after a newer one

botTableVars == <<table, changes>>
botFeedVars  == <<feed, newest, late>>
botVars      == <<botTableVars, command, posting, botFeedVars, loop, marks, told>>

ListenBots == ChatBots \cup PushBots
NoPub    == [at |-> "idle", copy |-> NoCopy, note |-> FALSE]
EndStatuses == {"ended", "cancelled"}      \* completed and failed are "ended" alike

BotInit ==
  /\ table = [t \in BotTasks |-> "none"] /\ changes = 0
  /\ command = [t \in BotTasks |-> [at |-> "none", bot |-> NoBot]]
  /\ posting = [p \in BotTasks \cup Changers |-> NoPub]
  /\ feed = [b \in ListenBots |-> [latest |-> NoCopy, queue |-> 0, hand |-> NoCopy, open |-> TRUE]]
  /\ loop = [b \in ListenBots |-> [at |-> "wait", left |-> {}]]
  /\ marks = [b \in ListenBots |-> {}] /\ told = [b \in ListenBots |-> [t \in BotTasks |-> 0]]
  /\ newest = 0 /\ late = FALSE

\* Actor p gives task t another status, and has the table to publish, and perhaps a notification.
ChangeTask(p, t, status, note) ==
  /\ table' = [table EXCEPT ![t] = status] /\ changes' = changes + 1
  /\ posting' = [posting EXCEPT ![p] = [at |-> "copy", copy |-> NoCopy, note |-> note]]

CommandAt(t, at) == command' = [command EXCEPT ![t].at = at]
Told(b, S) == told' = [told EXCEPT ![b] = [t \in BotTasks |-> IF t \in S /\ @[t] < 2 THEN @[t] + 1 ELSE @[t]]]

-----------------------------------------------------------------------------
(* publishTasks.                                                           *)

\* snapshotForPublish.
CopyTasks(p) ==
  /\ posting[p].at = "copy" /\ posting' = [posting EXCEPT ![p].at = "send", ![p].copy = [of |-> table, at |-> changes]]
  /\ UNCHANGED <<botTableVars, command, botFeedVars, loop, marks, told>>

\* A subscriber that is still there has the copy instead of the one before.
PublishTasks(p) ==
  /\ posting[p].at = "send"
  /\ feed' = [b \in ListenBots |-> IF feed[b].open THEN [feed[b] EXCEPT !.latest = posting[p].copy] ELSE feed[b]]
  /\ late' = (late \/ posting[p].copy.at < newest)
  /\ newest' = IF posting[p].copy.at > newest THEN posting[p].copy.at ELSE newest
  /\ posting' = [posting EXCEPT ![p] = [NoPub EXCEPT !.at = IF posting[p].note THEN "note" ELSE "idle"]]
  /\ UNCHANGED <<botTableVars, command, loop, marks, told>>

\* PublishNotification: a queue that is full closes its subscriber.
PublishNote(p) ==
  /\ posting[p].at = "note" /\ posting' = [posting EXCEPT ![p] = NoPub]
  /\ feed' = [b \in ListenBots |->
                IF ~feed[b].open THEN feed[b]
                ELSE IF feed[b].queue = NoteLimit THEN [feed[b] EXCEPT !.open = FALSE]
                ELSE [feed[b] EXCEPT !.queue = @ + 1]]
  /\ UNCHANGED <<botTableVars, command, newest, late, loop, marks, told>>

\* The worker completes a task or fails it, a request cancels or deletes one.
ChangeStatus(p) ==
  /\ posting[p].at = "idle"
  /\ \E t \in BotTasks :
       \/ table[t] = "queued" /\ command[t].at # "create" /\ ChangeTask(p, t, "ended", TRUE)
       \/ table[t] = "queued" /\ ChangeTask(p, t, "cancelled", TRUE)
       \/ table[t] \in EndStatuses /\ ChangeTask(p, t, "deleted", FALSE)
  /\ UNCHANGED <<command, botFeedVars, loop, marks, told>>

-----------------------------------------------------------------------------
(* A command.  (A task that no bot began is that of bot NoBot.)            *)

\* StartBotDownload creates the task, which publishes the table, ...
BeginDownload(t) ==
  /\ command[t].at = "none" /\ table[t] = "none"
  /\ \E b \in ChatBots \cup {NoBot} : command' = [command EXCEPT ![t] = [at |-> "create", bot |-> b]]
  /\ ChangeTask(t, t, "queued", FALSE)
  /\ UNCHANGED <<botFeedVars, loop, marks, told>>

\* ... and puts it in the queue; if it is refused the task fails, and the user is told so.
EnqueueTask(t) ==
  /\ command[t].at = "create" /\ posting[t].at = "idle"
  /\ \/ CommandAt(t, IF command[t].bot = NoBot THEN "done" ELSE "track") /\ UNCHANGED <<botTableVars, posting>>
     \/ /\ CommandAt(t, "refused")
        /\ IF table[t] = "queued" THEN ChangeTask(t, t, "ended", TRUE) ELSE UNCHANGED <<botTableVars, posting>>
  /\ UNCHANGED <<botFeedVars, loop, marks, told>>

\* TaskTracker.Track.
Track(t) ==
  /\ command[t].at = "track" /\ CommandAt(t, "check")
  /\ marks' = [marks EXCEPT ![command[t].bot] = @ \cup {t}]
  /\ UNCHANGED <<botTableVars, posting, botFeedVars, loop, told>>

\* (mistake: the command does not look whether the task has ended before it was tracked)
NotifyLater(t) ==
  /\ command[t].at = "check" /\ CommandAt(t, "done")
  /\ UNCHANGED <<botTableVars, posting, botFeedVars, loop, marks, told>>

\* NotifyIfTerminal: GetTask, ...
NotifyIfTerminal(t) ==
  /\ command[t].at = "check"
  /\ CommandAt(t, CASE table[t] = "ended" -> "announce" [] table[t] = "cancelled" -> "forget" [] OTHER -> "done")
  /\ UNCHANGED <<botTableVars, posting, botFeedVars, loop, marks, told>>

\* ... and notifyTaskChanges with that task alone, which another goroutine may have drained.
DrainOwn(t) ==
  LET b == command[t].bot IN
  /\ command[t].at \in {"announce", "forget"} /\ CommandAt(t, "done")
  /\ marks' = [marks EXCEPT ![b] = @ \ {t}]
  /\ IF command[t].at = "announce" /\ t \in marks[b] THEN Told(b, {t}) ELSE UNCHANGED told
  /\ UNCHANGED <<botTableVars, posting, botFeedVars, loop>>

-----------------------------------------------------------------------------
(* The event loop of a bot.                                                *)

\* The subscriber's goroutine offers the next event: notifications first.
OfferNext(b) ==
  /\ feed[b].open /\ feed[b].hand = NoCopy /\ feed[b].queue + (IF feed[b].latest = NoCopy THEN 0 ELSE 1) > 0
  /\ feed' = IF feed[b].queue > 0 THEN [feed EXCEPT ![b].queue = @ - 1]
             ELSE [feed EXCEPT ![b].hand = feed[b].latest, ![b].latest = NoCopy]
  /\ feed[b].queue > 0 => loop[b].at = "wait"      \* a notification is skipped
  /\ UNCHANGED <<botTableVars, command, posting, newest, late, loop, marks, told>>

Showing(copy, S) == {t \in BotTasks : copy.of[t] \in S}

\* notifyTaskChanges of a chat bot: every task that ended is drained, and announced unless it was
\* cancelled.
Drained(b, copy) ==
  /\ marks' = [marks EXCEPT ![b] = @ \ Showing(copy, EndStatuses)]
  /\ loop' = [loop EXCEPT ![b] = [at |-> "tell", left |-> marks[b] \cap Showing(copy, {"ended"})]]

\* notifyTaskChanges of a push bot: marks of tasks that are gone are dropped, and what ended and has
\* none is marked and announced.
Notified(b, copy) ==
  LET kept == marks[b] \cap Showing(copy, {"queued", "ended", "cancelled"})
      due  == Showing(copy, {"ended"}) \ kept IN
  marks' = [marks EXCEPT ![b] = kept \cup due] /\ loop' = [loop EXCEPT ![b] = [at |-> "tell", left |-> due]]

\* A copy of the table is taken.  One that was in hand when the subscriber was closed may be lost.
TakeTasks(b) ==
  /\ loop[b].at = "wait" /\ feed[b].hand # NoCopy
  /\ IF b \in ChatBots THEN Drained(b, feed[b].hand) ELSE Notified(b, feed[b].hand)
  /\ feed' = [feed EXCEPT ![b].hand = NoCopy]
  /\ UNCHANGED <<botTableVars, command, posting, newest, late, told>>

\* The announcements are sent one by one, and however long that takes; a failure is only logged.
Announce(b) ==
  /\ loop[b].at = "tell" /\ loop' = [loop EXCEPT ![b] = [at |-> "wait", left |-> {}]] /\ Told(b, loop[b].left)
  /\ UNCHANGED <<botTableVars, command, posting, botFeedVars, marks>>

\* RunBotEventLoop returns when its subscriber was closed, and does not subscribe again.
GoDeaf(b) ==
  /\ loop[b].at = "wait" /\ ~feed[b].open /\ loop' = [loop EXCEPT ![b].at = "deaf"]
  /\ feed' = [feed EXCEPT ![b] = [latest |-> NoCopy, queue |-> 0, hand |-> NoCopy, open |-> FALSE]]
  /\ UNCHANGED <<botTableVars, command, posting, newest, late, marks, told>>

BotNext ==
  \/ \E p \in BotTasks \cup Changers : CopyTasks(p) \/ PublishTasks(p) \/ PublishNote(p)
  \/ \E p \in Changers : ChangeStatus(p)
  \/ \E t \in BotTasks : BeginDownload(t) \/ EnqueueTask(t) \/ Track(t) \/ NotifyIfTerminal(t) \/ DrainOwn(t)
  \/ \E b \in ListenBots : OfferNext(b) \/ TakeTasks(b) \/ Announce(b) \/ GoDeaf(b)

BotSpec == BotInit /\ [][BotNext]_botVars

-----------------------------------------------------------------------------
(* Properties.                                                             *)

\* The types of the variables.
BotTypeOK ==
  /\ table \in [BotTasks -> Statuses] /\ changes \in Nat
  /\ command \in [BotTasks -> [at : {"none", "create", "track", "check", "announce", "forget", "done", "refused"},
                               bot : ChatBots \cup {NoBot}]]
  /\ \A p \in BotTasks \cup Changers :
       posting[p].at \in {"idle", "copy", "send", "note"} /\ (posting[p].at = "send" => posting[p].copy \in TableCopy)
  /\ \A b \in ListenBots :
       /\ feed[b].latest = NoCopy \/ feed[b].latest \in TableCopy
       /\ feed[b].hand = NoCopy \/ feed[b].hand \in TableCopy
       /\ feed[b].queue \in 0..NoteLimit /\ feed[b].open \in BOOLEAN
       /\ loop[b].at \in {"wait", "tell", "deaf"} /\ loop[b].left \subseteq BotTasks
  /\ marks \in [ListenBots -> SUBSET BotTasks] /\ told \in [ListenBots -> [BotTasks -> 0..2]]
  /\ newest \in Nat /\ late \in BOOLEAN

\* Bot b is still listening, and nothing is on its way to it.
Heard(b) ==
  /\ feed[b].open
  /\ \A p \in BotTasks \cup Changers : posting[p].at = "idle"
  /\ \A t \in BotTasks : command[t].at \in {"none", "done", "refused"}
  /\ loop[b].at = "wait" /\ feed[b].latest = NoCopy /\ feed[b].hand = NoCopy

\* The users of a bot are told of a task's end once: never twice, although the command and the event
\* loop both look for it; and in the end they were told, although the task may have ended before it
\* was tracked.  Nothing is tracked for ever.  A bot whose event loop was cut off hears nothing more,
\* a task that was deleted may be gone before the bot saw its end, and a copy that was published
\* after a newer one may hide an end, or have a push bot announce it again.
EndsAnnouncedOnce ==
  \A b \in ListenBots, t \in BotTasks :
    /\ told[b][t] <= 1 \/ (b \in PushBots /\ late)
    /\ Heard(b) /\ ~late =>
         /\ table[t] = "ended" /\ (b \in ChatBots => command[t] = [at |-> "done", bot |-> b]) => told[b][t] = 1
         /\ b \in ChatBots /\ t \in marks[b] => table[t] \in {"queued", "deleted"}

=============================================================================
