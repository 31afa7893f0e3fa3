--------------------------- MODULE ServerLifecycle ---------------------------
(***************************************************************************)
(* The life of the server: main's run and runServer (main.go), the signal  *)
(* subscription (signal.go), Start, startBots and GracefulShutdown         *)
(* (internal/api/server.go).                                               *)
(*                                                                         *)
(* GracefulShutdown may be called by a signal, by a request and, twice, by *)
(* main; a sync.Once lets one caller do it and the others wait.  It sets   *)
(* shuttingDown, launches five phases and waits for each until a deadline. *)
(* The queue's and the scheduler's part of it are in DownloadQueue and     *)
(* Scheduler, the streams' in EventBus: here a phase is what it waits for. *)
(***************************************************************************)
EXTENDS Naturals, Sequences, FiniteSets

CONSTANTS
  Bots,       \* the configured bots
  Handlers,   \* requests that change something
  StopCall,   \* one of them: POST /api/v1/server/shutdown
  Hitches     \* bound: which of "port", "deadline", "startdrain" may happen

ASSUME ServerAssumption ==
  StopCall \in Handlers /\ Hitches \subseteq {"port", "deadline", "startdrain"}

VARIABLES
  main,         \* where main is
  lifecycle,    \* lifecycleMu's fields: started, shuttingDown, whether startupDone and httpServer are set
  startupDone,  \* how often the channel has been closed
  http,         \* "idle", "listening" or "closed"
  serving,      \* each request: "none", "gate", "active" or "over"
  starter,      \* startBots: "none", "loop", "wait" or "gone"
  botState,     \* each bot: "idle", "starting", "up", "failed" or "stopped"; "hanging" if its Start goes on
                \* after its Stop, "late" if it has got up since
  stopCaller,   \* calls of GracefulShutdown: "none", "called" or "returned"
  shutdown,     \* the one execution: its step, what it saw, the phases that have ended or timed out
  deadline,     \* whether it has passed
  signals,      \* the subscription: a signal is buffered, who has claimed it, the listener is done
  hitches       \* history

serverVars == <<main, lifecycle, startupDone, http, serving, starter, botState, stopCaller, shutdown,
                deadline, signals, hitches>>

PhaseNames == <<"mutations", "queue", "scheduler", "bots", "http">>
Phases     == {PhaseNames[i] : i \in 1..Len(PhaseNames)}
Callers    == {"signal", "request", "closed", "exit"}

ServerInit ==
  /\ main = "start"
  /\ lifecycle = [started |-> FALSE, shuttingDown |-> FALSE]
  /\ startupDone = 0 /\ http = "idle"
  /\ serving = [h \in Handlers |-> "none"]
  /\ starter = "none" /\ botState = [b \in Bots |-> "idle"]
  /\ stopCaller = [c \in Callers |-> "none"]
  /\ shutdown = [at |-> "none", sawStart |-> FALSE, ended |-> {}, timedOut |-> {}, next |-> 1]
  /\ deadline = FALSE
  /\ signals = [buffered |-> FALSE, claimed |-> "nobody", done |-> FALSE]
  /\ hitches = {}

Hitch(what) == what \in Hitches \ hitches /\ hitches' = hitches \cup {what}

-----------------------------------------------------------------------------
(* Start.                                                                  *)

\* Under lifecycleMu: a server that is shutting down is not started.
EnterStart ==
  /\ main = "start"
  /\ IF lifecycle.shuttingDown THEN main' = "closed" /\ UNCHANGED lifecycle
     ELSE main' = "sched" /\ lifecycle' = [lifecycle EXCEPT !.started = TRUE]
  /\ UNCHANGED <<startupDone, http, serving, starter, botState, stopCaller, shutdown, deadline, signals, hitches>>

\* (mistake: startupDone stays open)
CheckShutdownOnly(from, to) ==
  /\ main = from
  /\ main' = IF lifecycle.shuttingDown THEN "closed" ELSE to
  /\ UNCHANGED <<lifecycle, startupDone, http, serving, starter, botState, stopCaller, shutdown, deadline, signals, hitches>>

\* Before and after the scheduler is started: a shutdown that has begun meanwhile waits for
\* startupDone, which nobody else would close.
CheckShutdown(from, to) ==
  /\ main = from
  /\ IF lifecycle.shuttingDown THEN main' = "closed" /\ startupDone' = startupDone + 1
     ELSE main' = to /\ UNCHANGED startupDone
  /\ UNCHANGED <<lifecycle, http, serving, starter, botState, stopCaller, shutdown, deadline, signals, hitches>>

\* go startBots and ListenAndServe, which returns at once if the server was shut down before, or
\* if the port cannot be had.
Serve ==
  /\ main = "serve"
  /\ starter' = "loop"
  /\ \/ http = "idle" /\ http' = "listening" /\ main' = "serving" /\ UNCHANGED hitches
     \/ http = "closed" /\ main' = "closed" /\ UNCHANGED <<http, hitches>>
     \/ http = "idle" /\ Hitch("port") /\ main' = "failed" /\ UNCHANGED http
  /\ UNCHANGED <<lifecycle, startupDone, serving, botState, stopCaller, shutdown, deadline, signals>>

ServeReturns ==
  /\ main = "serving" /\ http = "closed" /\ main' = "closed"
  /\ UNCHANGED <<lifecycle, startupDone, http, serving, starter, botState, stopCaller, shutdown, deadline, signals, hitches>>

-----------------------------------------------------------------------------
(* Bots.                                                                   *)

\* beginBotStart, under lifecycleMu; the first refusal ends the loop.
BeginBot ==
  /\ starter = "loop"
  /\ LET idle == {b \in Bots : botState[b] = "idle"} IN
     IF lifecycle.shuttingDown \/ idle = {} THEN starter' = "wait" /\ UNCHANGED botState
     ELSE \E b \in idle : botState' = [botState EXCEPT ![b] = "starting"] /\ UNCHANGED starter
  /\ UNCHANGED <<main, lifecycle, startupDone, http, serving, stopCaller, shutdown, deadline, signals, hitches>>

\* A provider may take any time for this, and does not look whether it has been stopped.
BotStarted(b) ==
  /\ \/ botState[b] = "starting" /\ \E s \in {"up", "failed"} : botState' = [botState EXCEPT ![b] = s]
     \/ botState[b] = "hanging" /\ \E s \in {"late", "stopped"} : botState' = [botState EXCEPT ![b] = s]
  /\ UNCHANGED <<main, lifecycle, startupDone, http, serving, starter, stopCaller, shutdown, deadline, signals, hitches>>

\* All have started, or the time for it is over.
EndStarter ==
  /\ starter = "wait" /\ starter' = "gone" /\ startupDone' = startupDone + 1
  /\ \/ (\A b \in Bots : botState[b] # "starting") /\ UNCHANGED hitches
     \/ Hitch("startdrain")
  /\ UNCHANGED <<main, lifecycle, http, serving, botState, stopCaller, shutdown, deadline, signals>>

-----------------------------------------------------------------------------
(* Requests.                                                               *)

Arrive(h) ==
  /\ serving[h] = "none" /\ http = "listening"
  /\ serving' = [serving EXCEPT ![h] = "gate"]
  /\ UNCHANGED <<main, lifecycle, startupDone, http, starter, botState, stopCaller, shutdown, deadline, signals, hitches>>

\* (mistake: the gate does not look at shuttingDown)
GateOpen(h) ==
  /\ serving[h] = "gate" /\ serving' = [serving EXCEPT ![h] = "active"]
  /\ UNCHANGED <<main, lifecycle, startupDone, http, starter, botState, stopCaller, shutdown, deadline, signals, hitches>>

\* shutdownMutationMiddleware, under lifecycleMu.
Gate(h) ==
  /\ serving[h] = "gate"
  /\ serving' = [serving EXCEPT ![h] = IF lifecycle.shuttingDown THEN "over" ELSE "active"]
  /\ UNCHANGED <<main, lifecycle, startupDone, http, starter, botState, stopCaller, shutdown, deadline, signals, hitches>>

\* The request is done; that of a shutdown has only started a goroutine for it.
LeaveGate(h) ==
  /\ serving[h] = "active" /\ serving' = [serving EXCEPT ![h] = "over"]
  /\ stopCaller' = IF h = StopCall THEN [stopCaller EXCEPT !["request"] = "called"] ELSE stopCaller
  /\ UNCHANGED <<main, lifecycle, startupDone, http, starter, botState, shutdown, deadline, signals, hitches>>

-----------------------------------------------------------------------------
(* Signals.                                                                *)

Signal ==
  /\ ~signals.buffered /\ signals.claimed = "nobody" /\ main # "exited"
  /\ signals' = [signals EXCEPT !.buffered = TRUE]
  /\ UNCHANGED <<main, lifecycle, startupDone, http, serving, starter, botState, stopCaller, shutdown, deadline, hitches>>

\* The listener gets a signal or the end of the channel; it calls the handler only if it is the
\* one that unsubscribes.
Listen ==
  /\ ~signals.done /\ stopCaller["signal"] = "none"
  /\ \/ /\ signals.buffered /\ signals.claimed = "nobody"
        /\ signals' = [signals EXCEPT !.claimed = "listener"]
        /\ stopCaller' = [stopCaller EXCEPT !["signal"] = "called"]
     \/ /\ signals.claimed = "main" /\ signals' = [signals EXCEPT !.done = TRUE] /\ UNCHANGED stopCaller
  /\ UNCHANGED <<main, lifecycle, startupDone, http, serving, starter, botState, shutdown, deadline, hitches>>

ListenerDone ==
  /\ ~signals.done /\ stopCaller["signal"] = "returned" /\ signals' = [signals EXCEPT !.done = TRUE]
  /\ UNCHANGED <<main, lifecycle, startupDone, http, serving, starter, botState, stopCaller, shutdown, deadline, hitches>>

-----------------------------------------------------------------------------
(* GracefulShutdown.                                                       *)

\* The first stopCaller executes it ...
Once(c) ==
  /\ stopCaller[c] = "called" /\ shutdown.at = "none"
  /\ shutdown' = [shutdown EXCEPT !.at = "flag"]
  /\ UNCHANGED <<main, lifecycle, startupDone, http, serving, starter, botState, stopCaller, deadline, signals, hitches>>

\* ... and every stopCaller returns when it is over.
ReturnFrom(c) ==
  /\ stopCaller[c] = "called" /\ shutdown.at = "done"
  /\ stopCaller' = [stopCaller EXCEPT ![c] = "returned"]
  /\ UNCHANGED <<main, lifecycle, startupDone, http, serving, starter, botState, shutdown, deadline, signals, hitches>>

SetFlag ==
  /\ shutdown.at = "flag"
  /\ lifecycle' = [lifecycle EXCEPT !.shuttingDown = TRUE]
  /\ shutdown' = [shutdown EXCEPT !.at = "phases", !.sawStart = lifecycle.started]
  /\ UNCHANGED <<main, startupDone, http, serving, starter, botState, stopCaller, deadline, signals, hitches>>

EndPhase(p) == shutdown' = [shutdown EXCEPT !.ended = @ \cup {p}]
Launched    == shutdown.at \in {"phases", "wait", "done"}

MutationsEnd ==
  /\ Launched /\ "mutations" \notin shutdown.ended
  /\ \A h \in Handlers : serving[h] # "active"
  /\ EndPhase("mutations")
  /\ UNCHANGED <<main, lifecycle, startupDone, http, serving, starter, botState, stopCaller, deadline, signals, hitches>>

\* The queue's phase ends by itself at the deadline, the scheduler's when its loops have ended.
OtherEnd(p) ==
  /\ Launched /\ p \in {"queue", "scheduler"} \ shutdown.ended /\ EndPhase(p)
  /\ UNCHANGED <<main, lifecycle, startupDone, http, serving, starter, botState, stopCaller, deadline, signals, hitches>>

\* Bots are stopped when all have started or the time for it is over, if there was a start; each at
\* its own pace.
StopBot(b) ==
  /\ Launched /\ (shutdown.sawStart => startupDone > 0) /\ botState[b] \in {"starting", "up", "failed"}
  /\ botState' = [botState EXCEPT ![b] = IF @ = "starting" THEN "hanging" ELSE "stopped"]
  /\ UNCHANGED <<main, lifecycle, startupDone, http, serving, starter, stopCaller, shutdown, deadline, signals, hitches>>

BotsEnd ==
  /\ Launched /\ "bots" \notin shutdown.ended /\ (shutdown.sawStart => startupDone > 0)
  /\ \A b \in Bots : botState[b] \in {"idle", "stopped", "hanging", "late"}
  /\ EndPhase("bots")
  /\ UNCHANGED <<main, lifecycle, startupDone, http, serving, starter, botState, stopCaller, deadline, signals, hitches>>

\* httpServer.Shutdown: no more requests; then it waits for those it has, at most until the
\* deadline.
HTTPClose ==
  /\ Launched /\ shutdown.sawStart /\ http # "closed" /\ http' = "closed"
  /\ UNCHANGED <<main, lifecycle, startupDone, serving, starter, botState, stopCaller, shutdown, deadline, signals, hitches>>

HTTPEnd ==
  /\ Launched /\ "http" \notin shutdown.ended
  /\ ~shutdown.sawStart \/ (http = "closed" /\ (deadline \/ \A h \in Handlers : serving[h] \in {"none", "over"}))
  /\ EndPhase("http")
  /\ UNCHANGED <<main, lifecycle, startupDone, http, serving, starter, botState, stopCaller, deadline, signals, hitches>>

DeadlinePasses ==
  /\ Launched /\ shutdown.at # "done" /\ ~deadline /\ Hitch("deadline") /\ deadline' = TRUE
  /\ UNCHANGED <<main, lifecycle, startupDone, http, serving, starter, botState, stopCaller, shutdown, signals>>

\* The phases are waited for in their order; then the event bus and the database are closed.
WaitPhase ==
  /\ shutdown.at = "phases" /\ shutdown.next <= Len(PhaseNames)
  /\ LET p == PhaseNames[shutdown.next] IN
     \/ p \in shutdown.ended /\ shutdown' = [shutdown EXCEPT !.next = @ + 1]
     \/ deadline /\ p \notin shutdown.ended
        /\ shutdown' = [shutdown EXCEPT !.next = @ + 1, !.timedOut = @ \cup {p}]
  /\ UNCHANGED <<main, lifecycle, startupDone, http, serving, starter, botState, stopCaller, deadline, signals, hitches>>

CloseDatabase ==
  /\ shutdown.at = "phases" /\ shutdown.next > Len(PhaseNames)
  /\ shutdown' = [shutdown EXCEPT !.at = "done"]
  /\ UNCHANGED <<main, lifecycle, startupDone, http, serving, starter, botState, stopCaller, deadline, signals, hitches>>

-----------------------------------------------------------------------------
(* runServer after Start has returned: GracefulShutdown if it was closed, then the deferred     *)
(* calls, stopSignals first.                                                                    *)

CallAndWait(from, c, to) ==
  /\ main = from
  /\ \/ stopCaller[c] = "none" /\ stopCaller' = [stopCaller EXCEPT ![c] = "called"] /\ UNCHANGED main
     \/ stopCaller[c] = "returned" /\ main' = to /\ UNCHANGED stopCaller
  /\ UNCHANGED <<lifecycle, startupDone, http, serving, starter, botState, shutdown, deadline, signals, hitches>>

StopSignals ==
  /\ main = "failed"
  /\ \/ /\ signals.claimed = "nobody" /\ signals' = [signals EXCEPT !.claimed = "main"] /\ UNCHANGED main
     \/ /\ signals.done /\ main' = "exiting" /\ UNCHANGED signals
  /\ UNCHANGED <<lifecycle, startupDone, http, serving, starter, botState, stopCaller, shutdown, deadline, hitches>>

Main ==
  \/ EnterStart \/ CheckShutdown("sched", "sched2") \/ CheckShutdown("sched2", "serve") \/ Serve \/ ServeReturns
  \/ CallAndWait("closed", "closed", "failed") \/ StopSignals \/ CallAndWait("exiting", "exit", "exited")

GracefulShutdown ==
  \/ \E c \in Callers : Once(c) \/ ReturnFrom(c)
  \/ SetFlag \/ MutationsEnd \/ (\E p \in Phases : OtherEnd(p)) \/ BotsEnd \/ HTTPClose \/ HTTPEnd
  \/ WaitPhase \/ CloseDatabase

ServerNext ==
  \/ Main \/ GracefulShutdown \/ BeginBot \/ EndStarter \/ Signal \/ Listen \/ ListenerDone \/ DeadlinePasses
  \/ \E b \in Bots : BotStarted(b) \/ StopBot(b)
  \/ \E h \in Handlers : Arrive(h) \/ Gate(h) \/ LeaveGate(h)

ServerSpec == ServerInit /\ [][ServerNext]_serverVars

-----------------------------------------------------------------------------
(* What starting and stopping promise.                                     *)

(* Every variable has its type.                                                                  *)
ServerTypeOK ==
  /\ main \in {"start", "sched", "sched2", "serve", "serving", "closed", "failed", "exiting", "exited"}
  /\ http \in {"idle", "listening", "closed"} /\ starter \in {"none", "loop", "wait", "gone"}
  /\ \A h \in Handlers : serving[h] \in {"none", "gate", "active", "over"}
  /\ \A b \in Bots : botState[b] \in {"idle", "starting", "up", "failed", "stopped", "hanging", "late"}
  /\ shutdown.next \in 1..(Len(PhaseNames) + 1)

\* A bot has not been started, or is stopped; or startBots gave up on its Start, which goes on.
Stopped(b) == botState[b] \in {"idle", "stopped"} \/ ("startdrain" \in hitches /\ botState[b] \in {"hanging", "late"})

(* Whoever starts the shutdown and whenever it meets the start: once the database is closed      *)
(* nothing that uses it is left, except what a phase gave up waiting for; no bot is running that *)
(* nobody will stop, unless its start took longer than the time for it; and startupDone has not  *)
(* been closed twice, which would end the process.                                               *)
ShutdownIsComplete ==
  /\ startupDone <= 1
  /\ shutdown.at = "done" =>
       /\ "mutations" \notin shutdown.timedOut => \A h \in Handlers : serving[h] # "active"
       /\ "bots" \notin shutdown.timedOut => \A b \in Bots : Stopped(b)
       /\ "http" \notin shutdown.timedOut => http # "listening"
       /\ starter = "loop" => lifecycle.shuttingDown
  /\ main = "exited" => shutdown.at = "done" /\ signals.done
=============================================================================
