----------------------- MODULE ServerLifecycleProofs -----------------------
(***************************************************************************)
(* Theorems about ServerLifecycle: whoever begins the shutdown, and        *)
(* wherever the start is then, it is complete when the database is closed. *)
(* About SchemaMigration, which comes before: no row is lost, whatever     *)
(* fails and wherever the program dies.  And about LogHub, which listens   *)
(* all the while: no holes in the streams of the console log.              *)
(***************************************************************************)
EXTENDS ServerLifecycle, SchemaMigration, LogHub, SequenceTheorems, TLAPS

\* The exact types of the variables.
ServerTypes ==
  /\ main \in {"start", "sched", "sched2", "serve", "serving", "closed", "failed", "exiting", "exited"}
  /\ lifecycle \in [started : BOOLEAN, shuttingDown : BOOLEAN]
  /\ startupDone \in {0, 1} /\ http \in {"idle", "listening", "closed"}
  /\ serving \in [Handlers -> {"none", "gate", "active", "over"}]
  /\ starter \in {"none", "loop", "wait", "gone"}
  /\ botState \in [Bots -> {"idle", "starting", "up", "failed", "stopped", "hanging", "late"}]
  /\ stopCaller \in [Callers -> {"none", "called", "returned"}]
  /\ shutdown \in [at : {"none", "flag", "phases", "done"}, sawStart : BOOLEAN, ended : SUBSET Phases,
                   timedOut : SUBSET Phases, next : 1..6]
  /\ deadline \in BOOLEAN
  /\ signals \in [buffered : BOOLEAN, claimed : {"nobody", "listener", "main"}, done : BOOLEAN]

\* startupDone is closed by a start that meets the shutdown, or else by startBots, once: it is
\* still open while one of them is to come.
StartupOpen ==
  /\ main \in {"start", "sched", "sched2", "serve"} => starter = "none" /\ startupDone = 0
  /\ starter \in {"loop", "wait"} => startupDone = 0

\* A bot is starting only after Start, and when startBots is gone only if it gave up on one; so is a
\* bot whose Start outlived its Stop.
StartsWaited ==
  /\ starter # "none" => lifecycle.started
  /\ \A b \in Bots : /\ botState[b] = "starting" => starter # "none" /\ (starter = "gone" => "startdrain" \in hitches)
                     /\ botState[b] \in {"hanging", "late"} => "startdrain" \in hitches

\* The shutdown has set the flag before anything else, and knows whether there was a start; one
\* that has not entered Start by then never listens.
FlagFirst ==
  /\ ~lifecycle.started => main \notin {"sched", "sched2", "serve", "serving"} /\ http = "idle"
  /\ Launched => lifecycle.shuttingDown /\ shutdown.sawStart = lifecycle.started
  /\ ~Launched => shutdown.ended = {} /\ shutdown.next = 1

\* What an ended phase waited for does not come back, and no phase was passed over.
PhasesHold ==
  /\ "mutations" \in shutdown.ended => \A h \in Handlers : serving[h] # "active"
  /\ "bots" \in shutdown.ended => \A b \in Bots : botState[b] \in {"idle", "stopped", "hanging", "late"}
  /\ "http" \in shutdown.ended /\ shutdown.sawStart => http = "closed"
  /\ \A i \in 1..5 : i < shutdown.next => PhaseNames[i] \in shutdown.ended \cup shutdown.timedOut
  /\ shutdown.at = "done" => shutdown.next = 6

\* Whoever called GracefulShutdown returns after it, and main exits after its call.
CallersWait ==
  /\ \A c \in Callers : stopCaller[c] = "returned" => shutdown.at = "done"
  /\ main \in {"exiting", "exited"} => signals.done
  /\ main = "exited" => stopCaller["exit"] = "returned"

ServerInv == ServerTypes /\ StartupOpen /\ StartsWaited /\ FlagFirst /\ PhasesHold /\ CallersWait

(* The five phases by their numbers.                                       *)
LEMMA PhaseFacts ==
  /\ Len(PhaseNames) = 5
  /\ PhaseNames[1] = "mutations" /\ PhaseNames[2] = "queue" /\ PhaseNames[3] = "scheduler"
  /\ PhaseNames[4] = "bots" /\ PhaseNames[5] = "http"
  /\ \A i \in 1..5 : PhaseNames[i] \in Phases
  /\ {"mutations", "queue", "scheduler", "bots", "http"} = Phases
<1>1. /\ Len(PhaseNames) = 5
      /\ PhaseNames[1] = "mutations" /\ PhaseNames[2] = "queue" /\ PhaseNames[3] = "scheduler"
      /\ PhaseNames[4] = "bots" /\ PhaseNames[5] = "http"
  BY DEF PhaseNames
<1>2. \A i \in 1..5 : i = 1 \/ i = 2 \/ i = 3 \/ i = 4 \/ i = 5
  OBVIOUS
<1>3. Phases = {PhaseNames[i] : i \in 1..5}
  BY <1>1 DEF Phases
<1>4. \A i \in 1..5 : PhaseNames[i] \in Phases
  BY <1>3
<1>5. \A p \in Phases : p \in {"mutations", "queue", "scheduler", "bots", "http"}
  BY <1>1, <1>2, <1>3
<1>6. \A p \in {"mutations", "queue", "scheduler", "bots", "http"} : p \in Phases
  BY <1>1, <1>4
<1> QED
  BY <1>1, <1>4, <1>5, <1>6

-----------------------------------------------------------------------------
(* Every step keeps every part of the invariant.                           *)

(* Types.                                                                  *)
LEMMA TypesKept == ASSUME ServerTypes, StartupOpen, FlagFirst, ServerNext PROVE ServerTypes'
<1> USE DEF ServerTypes
<1>1. CASE EnterStart \/ CheckShutdown("sched", "sched2") \/ CheckShutdown("sched2", "serve")
  <2>1. CASE EnterStart
    <3>1. lifecycle' = lifecycle \/ lifecycle' = [lifecycle EXCEPT !.started = TRUE]
      BY <2>1 DEF EnterStart
    <3>2. lifecycle' \in [started : BOOLEAN, shuttingDown : BOOLEAN]
      BY <3>1
    <3>3. main' \in {"closed", "sched"}
      BY <2>1 DEF EnterStart
    <3> QED
      BY <2>1, <3>2, <3>3 DEF EnterStart
  <2>2. ASSUME NEW from \in {"sched", "sched2"}, NEW to \in {"sched2", "serve"}, CheckShutdown(from, to)
        PROVE  ServerTypes'
    BY <2>2 DEF CheckShutdown, StartupOpen
  <2> QED
    BY <1>1, <2>1, <2>2
<1>2. CASE Serve \/ ServeReturns \/ StopSignals
  BY <1>2 DEF Serve, ServeReturns, StopSignals
<1>3. CASE CallAndWait("closed", "closed", "failed") \/ CallAndWait("exiting", "exit", "exited")
  BY <1>3 DEF CallAndWait
<1>4. ASSUME NEW c \in Callers, Once(c) \/ ReturnFrom(c) PROVE ServerTypes'
  BY <1>4 DEF Once, ReturnFrom
<1>5. CASE SetFlag \/ MutationsEnd \/ BotsEnd \/ HTTPClose \/ HTTPEnd \/ CloseDatabase
  <2>1. CASE SetFlag \/ HTTPClose \/ CloseDatabase
    <3>1. CASE SetFlag
      <4>1. lifecycle' \in [started : BOOLEAN, shuttingDown : BOOLEAN]
        BY <3>1 DEF SetFlag
      <4>2. lifecycle.started \in BOOLEAN
        OBVIOUS
      <4>3. shutdown' \in [at : {"none", "flag", "phases", "done"}, sawStart : BOOLEAN,
                           ended : SUBSET Phases, timedOut : SUBSET Phases, next : 1..6]
        BY <3>1, <4>2 DEF SetFlag
      <4> QED
        BY <3>1, <4>1, <4>3 DEF SetFlag
    <3>2. CASE HTTPClose
      BY <3>2 DEF HTTPClose
    <3>3. CASE CloseDatabase
      BY <3>3 DEF CloseDatabase
    <3> QED
      BY <2>1, <3>1, <3>2, <3>3
  <2>2. ASSUME NEW p \in Phases, EndPhase(p)
        PROVE  shutdown' \in [at : {"none", "flag", "phases", "done"}, sawStart : BOOLEAN,
                              ended : SUBSET Phases, timedOut : SUBSET Phases, next : 1..6]
    BY <2>2 DEF EndPhase
  <2>3. CASE MutationsEnd
    BY <2>2, <2>3, PhaseFacts DEF MutationsEnd
  <2>4. CASE BotsEnd
    BY <2>2, <2>4, PhaseFacts DEF BotsEnd
  <2>5. CASE HTTPEnd
    BY <2>2, <2>5, PhaseFacts DEF HTTPEnd
  <2> QED
    BY <1>5, <2>1, <2>3, <2>4, <2>5
<1>6. ASSUME NEW p \in Phases, OtherEnd(p) PROVE ServerTypes'
  BY <1>6, PhaseFacts DEF OtherEnd, EndPhase
<1>7. CASE WaitPhase
  <2>1. shutdown.next \in 1..5
    BY <1>7, PhaseFacts DEF WaitPhase
  <2>2. PhaseNames[shutdown.next] \in Phases
    BY <2>1, PhaseFacts
  <2>3. shutdown' \in [at : {"none", "flag", "phases", "done"}, sawStart : BOOLEAN,
                       ended : SUBSET Phases, timedOut : SUBSET Phases, next : 1..6]
    <3>1. shutdown.next + 1 \in 1..6
      BY <2>1
    <3>2. \/ shutdown' = [shutdown EXCEPT !.next = @ + 1]
          \/ shutdown' = [shutdown EXCEPT !.next = @ + 1,
                                         !.timedOut = @ \cup {PhaseNames[shutdown.next]}]
      BY <1>7 DEF WaitPhase
    <3>3. shutdown.timedOut \cup {PhaseNames[shutdown.next]} \in SUBSET Phases
      BY <2>2
    <3>4. CASE shutdown' = [shutdown EXCEPT !.next = @ + 1]
      BY <3>1, <3>4
    <3>5. CASE shutdown' = [shutdown EXCEPT !.next = @ + 1,
                                         !.timedOut = @ \cup {PhaseNames[shutdown.next]}]
      BY <3>1, <3>3, <3>5
    <3> QED
      BY <3>2, <3>4, <3>5
  <2> QED
    BY <1>7, <2>3 DEF WaitPhase
<1>8. CASE BeginBot \/ EndStarter \/ \E b \in Bots : BotStarted(b) \/ StopBot(b)
  <2>1. CASE BeginBot
    BY <2>1 DEF BeginBot
  <2>2. CASE EndStarter
    BY <2>2 DEF EndStarter, StartupOpen
  <2>3. ASSUME NEW b \in Bots, BotStarted(b) \/ StopBot(b) PROVE ServerTypes'
    BY <2>3 DEF BotStarted, StopBot
  <2> QED
    BY <1>8, <2>1, <2>2, <2>3
<1>9. CASE Signal \/ Listen \/ ListenerDone \/ DeadlinePasses
  <2>0. ASSUME Signal \/ Listen \/ ListenerDone
        PROVE  signals' \in [buffered : BOOLEAN, claimed : {"nobody", "listener", "main"}, done : BOOLEAN]
    <3>1. \/ signals' = [signals EXCEPT !.buffered = TRUE] \/ signals' = [signals EXCEPT !.done = TRUE]
          \/ signals' = [signals EXCEPT !.claimed = "listener"]
      BY <2>0 DEF Signal, Listen, ListenerDone
    <3> QED
      BY <3>1
  <2>1. CASE Signal
    BY <2>0, <2>1 DEF Signal
  <2>2. CASE Listen
    <3>1. stopCaller' \in [Callers -> {"none", "called", "returned"}]
      BY <2>2 DEF Listen
    <3> QED
      BY <2>0, <2>2, <3>1 DEF Listen
  <2>3. CASE ListenerDone
    BY <2>0, <2>3 DEF ListenerDone
  <2>4. CASE DeadlinePasses
    BY <2>4 DEF DeadlinePasses
  <2> QED
    BY <1>9, <2>1, <2>2, <2>3, <2>4
<1>10. ASSUME NEW h \in Handlers, Arrive(h) \/ Gate(h) \/ LeaveGate(h) PROVE ServerTypes'
  BY <1>10 DEF Arrive, Gate, LeaveGate
<1> QED
  BY <1>1, <1>2, <1>3, <1>4, <1>5, <1>6, <1>7, <1>8, <1>9, <1>10 DEF ServerNext, Main, GracefulShutdown

(* Neither a refused start nor startBots closes startupDone a second time. *)
LEMMA OpenKept == ASSUME ServerTypes, StartupOpen, ServerNext PROVE StartupOpen'
<1> USE DEF StartupOpen
<1>1. CASE EnterStart \/ Serve \/ ServeReturns \/ StopSignals
  BY <1>1 DEF EnterStart, Serve, ServeReturns, StopSignals
<1>2. CASE CheckShutdown("sched", "sched2") \/ CheckShutdown("sched2", "serve")
  BY <1>2 DEF CheckShutdown
<1>3. CASE CallAndWait("closed", "closed", "failed") \/ CallAndWait("exiting", "exit", "exited")
  BY <1>3 DEF CallAndWait
<1>4. CASE BeginBot \/ EndStarter
  BY <1>4 DEF BeginBot, EndStarter
<1>5. CASE GracefulShutdown \/ Signal \/ Listen \/ ListenerDone \/ DeadlinePasses
  <2>1. UNCHANGED <<main, starter, startupDone>>
    BY <1>5 DEF GracefulShutdown, Once, ReturnFrom, SetFlag, MutationsEnd, OtherEnd, BotsEnd, HTTPClose,
                HTTPEnd, WaitPhase, CloseDatabase, Signal, Listen, ListenerDone, DeadlinePasses
  <2> QED
    BY <2>1
<1>6. CASE \/ \E b \in Bots : BotStarted(b) \/ StopBot(b)
           \/ \E h \in Handlers : Arrive(h) \/ Gate(h) \/ LeaveGate(h)
  BY <1>6 DEF BotStarted, StopBot, Arrive, Gate, LeaveGate
<1> QED
  BY <1>1, <1>2, <1>3, <1>4, <1>5, <1>6 DEF ServerNext, Main

(* The flag is set once and not taken back, and no start begins after it.  *)
LEMMA FlagKept == ASSUME ServerTypes, FlagFirst, ServerNext PROVE FlagFirst'
<1> USE DEF FlagFirst, Launched
<1>1. CASE EnterStart
  BY <1>1 DEF EnterStart, ServerTypes
<1>2. CASE CheckShutdown("sched", "sched2") \/ CheckShutdown("sched2", "serve")
  BY <1>2 DEF CheckShutdown
<1>3. CASE Serve \/ ServeReturns \/ StopSignals
  BY <1>3 DEF Serve, ServeReturns, StopSignals
<1>4. CASE CallAndWait("closed", "closed", "failed") \/ CallAndWait("exiting", "exit", "exited")
  BY <1>4 DEF CallAndWait
<1>5. ASSUME NEW c \in Callers, Once(c) \/ ReturnFrom(c) PROVE FlagFirst'
  BY <1>5 DEF Once, ReturnFrom, ServerTypes
<1>6. CASE SetFlag
  BY <1>6 DEF SetFlag, ServerTypes
<1>7. CASE HTTPClose
  BY <1>7 DEF HTTPClose
<1>8. CASE MutationsEnd \/ BotsEnd \/ HTTPEnd \/ (\E p \in Phases : OtherEnd(p)) \/ WaitPhase \/ CloseDatabase
  <2>1. UNCHANGED <<lifecycle, main, http>> /\ Launched
    BY <1>8 DEF MutationsEnd, BotsEnd, HTTPEnd, OtherEnd, WaitPhase, CloseDatabase
  <2>2. shutdown'.sawStart = shutdown.sawStart /\ Launched'
    <3>1. CASE MutationsEnd \/ BotsEnd \/ HTTPEnd \/ \E p \in Phases : OtherEnd(p)
      <4>1. PICK p : EndPhase(p)
        BY <3>1 DEF MutationsEnd, BotsEnd, HTTPEnd, OtherEnd
      <4> QED
        BY <2>1, <4>1 DEF EndPhase, ServerTypes
    <3>2. CASE WaitPhase
      BY <3>2, <2>1 DEF WaitPhase, ServerTypes
    <3>3. CASE CloseDatabase
      BY <3>3 DEF CloseDatabase, ServerTypes
    <3> QED
      BY <1>8, <3>1, <3>2, <3>3
  <2> QED
    BY <2>1, <2>2
<1>9. CASE \/ BeginBot \/ EndStarter \/ Signal \/ Listen \/ ListenerDone \/ DeadlinePasses
           \/ \E b \in Bots : BotStarted(b) \/ StopBot(b)
           \/ \E h \in Handlers : Arrive(h) \/ Gate(h) \/ LeaveGate(h)
  <2>1. UNCHANGED <<main, lifecycle, http, shutdown>>
    BY <1>9 DEF BeginBot, EndStarter, Signal, Listen, ListenerDone, DeadlinePasses, BotStarted, StopBot,
                Arrive, Gate, LeaveGate
  <2> QED
    BY <2>1
<1> QED
  BY <1>1, <1>2, <1>3, <1>4, <1>5, <1>6, <1>7, <1>8, <1>9 DEF ServerNext, Main, GracefulShutdown

(* Who returns from GracefulShutdown does so when it is over.              *)
LEMMA CallersKept == ASSUME ServerTypes, CallersWait, ServerNext PROVE CallersWait'
<1> USE DEF CallersWait, ServerTypes
<1>0. "exit" \in Callers /\ "closed" \in Callers /\ "signal" \in Callers /\ "request" \in Callers
  BY DEF Callers
<1>1. CASE EnterStart \/ Serve \/ ServeReturns
  BY <1>1 DEF EnterStart, Serve, ServeReturns
<1>2. CASE CheckShutdown("sched", "sched2") \/ CheckShutdown("sched2", "serve")
  BY <1>2 DEF CheckShutdown
<1>3. CASE StopSignals
  BY <1>3 DEF StopSignals
<1>4. CASE CallAndWait("closed", "closed", "failed")
  BY <1>0, <1>4 DEF CallAndWait
<1>5. CASE CallAndWait("exiting", "exit", "exited")
  BY <1>0, <1>5 DEF CallAndWait
<1>6. ASSUME NEW c \in Callers, Once(c) \/ ReturnFrom(c) PROVE CallersWait'
  <2>1. CASE Once(c)
    BY <2>1 DEF Once
  <2>2. CASE ReturnFrom(c)
    BY <2>2, <1>0 DEF ReturnFrom
  <2> QED
    BY <1>6, <2>1, <2>2
<1>7. CASE Listen
  <2>1. signals'.done = signals.done \/ signals'.done
    BY <1>7 DEF Listen
  <2> QED
    BY <1>0, <1>7, <2>1 DEF Listen
<1>8. CASE Signal \/ ListenerDone \/ DeadlinePasses
  <2>1. signals'.done = signals.done \/ signals'.done
    BY <1>8 DEF Signal, ListenerDone, DeadlinePasses
  <2> QED
    BY <1>8, <2>1 DEF Signal, ListenerDone, DeadlinePasses
<1>9. ASSUME NEW h \in Handlers, Arrive(h) \/ Gate(h) \/ LeaveGate(h) PROVE CallersWait'
  BY <1>0, <1>9 DEF Arrive, Gate, LeaveGate
<1>10. CASE MutationsEnd \/ BotsEnd \/ HTTPEnd \/ HTTPClose \/ (\E p \in Phases : OtherEnd(p)) \/ WaitPhase
            \/ CloseDatabase \/ SetFlag
  <2>1. UNCHANGED <<main, stopCaller, signals>>
    BY <1>10 DEF MutationsEnd, BotsEnd, HTTPEnd, HTTPClose, OtherEnd, WaitPhase, CloseDatabase, SetFlag
  <2>2. shutdown.at = "done" => shutdown'.at = "done"
    BY <1>10 DEF MutationsEnd, BotsEnd, HTTPEnd, HTTPClose, OtherEnd, WaitPhase, CloseDatabase, SetFlag, EndPhase
  <2> QED
    BY <2>1, <2>2
<1>11. CASE BeginBot \/ EndStarter \/ \E b \in Bots : BotStarted(b) \/ StopBot(b)
  BY <1>11 DEF BeginBot, EndStarter, BotStarted, StopBot
<1> QED
  BY <1>1, <1>2, <1>3, <1>4, <1>5, <1>6, <1>7, <1>8, <1>9, <1>10, <1>11 DEF ServerNext, Main, GracefulShutdown

(* startBots waits for the bots that are starting, or gives up on them.     *)
LEMMA WaitedKept ==
  ASSUME ServerTypes, StartupOpen, StartsWaited, FlagFirst, ServerNext
  PROVE  StartsWaited'
<1>1. lifecycle.started => lifecycle'.started
  BY DEF ServerNext, Main, GracefulShutdown, EnterStart, CheckShutdown, Serve, ServeReturns, CallAndWait, StopSignals,
         Once, ReturnFrom, SetFlag, MutationsEnd, OtherEnd, BotsEnd, HTTPClose, HTTPEnd, WaitPhase, CloseDatabase,
         BeginBot, EndStarter, Signal, Listen, ListenerDone, DeadlinePasses, BotStarted, StopBot, Arrive, Gate,
         LeaveGate, ServerTypes
<1>2. hitches \subseteq hitches'
  BY DEF ServerNext, Main, GracefulShutdown, EnterStart, CheckShutdown, Serve, ServeReturns, CallAndWait, StopSignals,
         Once, ReturnFrom, SetFlag, MutationsEnd, OtherEnd, BotsEnd, HTTPClose, HTTPEnd, WaitPhase, CloseDatabase,
         BeginBot, EndStarter, Signal, Listen, ListenerDone, DeadlinePasses, BotStarted, StopBot, Arrive, Gate,
         LeaveGate, Hitch
<1>3. CASE Serve
  BY <1>1, <1>2, <1>3 DEF Serve, StartsWaited, FlagFirst
<1>4. CASE BeginBot
  BY <1>1, <1>2, <1>4 DEF BeginBot, StartsWaited, ServerTypes
<1>5. CASE EndStarter
  BY <1>1, <1>2, <1>5 DEF EndStarter, StartsWaited, Hitch
<1>6. ASSUME NEW b \in Bots, BotStarted(b) PROVE StartsWaited'
  BY <1>1, <1>2, <1>6 DEF BotStarted, StartsWaited, ServerTypes
<1>7. ASSUME NEW b \in Bots, StopBot(b) PROVE StartsWaited'
  <2>1. botState[b] = "starting" => "startdrain" \in hitches
    BY <1>7 DEF StopBot, StartsWaited, StartupOpen, FlagFirst, ServerTypes
  <2>. QED  BY <1>1, <1>2, <1>7, <2>1 DEF StopBot, StartsWaited, ServerTypes
<1>8. CASE UNCHANGED <<starter, botState>>
  BY <1>1, <1>2, <1>8 DEF StartsWaited
<1>9. \/ UNCHANGED <<starter, botState>> \/ Serve \/ BeginBot \/ EndStarter \/ \E b \in Bots : BotStarted(b) \/ StopBot(b)
  BY DEF ServerNext, Main, GracefulShutdown, EnterStart, CheckShutdown, ServeReturns, CallAndWait, StopSignals,
         Once, ReturnFrom, SetFlag, MutationsEnd, OtherEnd, BotsEnd, HTTPClose, HTTPEnd, WaitPhase, CloseDatabase,
         Signal, Listen, ListenerDone, DeadlinePasses, Arrive, Gate, LeaveGate
<1> QED
  BY <1>3, <1>4, <1>5, <1>6, <1>7, <1>8, <1>9

(* Admissions, bots and the listener stay ended.                           *)
LEMMA HoldKept ==
  ASSUME ServerTypes, FlagFirst, PhasesHold, ServerNext
  PROVE  PhasesHold'
<1> USE DEF PhasesHold
<1>1. CASE EnterStart \/ CheckShutdown("sched", "sched2") \/ CheckShutdown("sched2", "serve")
           \/ ServeReturns \/ StopSignals \/ CallAndWait("closed", "closed", "failed")
           \/ CallAndWait("exiting", "exit", "exited") \/ EndStarter \/ Signal \/ Listen \/ ListenerDone
           \/ DeadlinePasses \/ (\E c \in Callers : ReturnFrom(c))
  <2>1. UNCHANGED <<serving, botState, http, shutdown>>
    BY <1>1 DEF EnterStart, CheckShutdown, ServeReturns, StopSignals, CallAndWait, EndStarter, Signal, Listen,
                ListenerDone, DeadlinePasses, ReturnFrom
  <2> QED
    BY <2>1
<1>2. CASE Serve
  BY <1>2 DEF Serve, FlagFirst, Launched, ServerTypes
<1>3. CASE BeginBot
  BY <1>3 DEF BeginBot, FlagFirst, ServerTypes
<1>4. ASSUME NEW b \in Bots, BotStarted(b) \/ StopBot(b) PROVE PhasesHold'
  BY <1>4 DEF BotStarted, StopBot, ServerTypes
<1>5. ASSUME NEW h \in Handlers, Arrive(h) \/ Gate(h) \/ LeaveGate(h) PROVE PhasesHold'
  <2>1. "mutations" \in shutdown.ended => lifecycle.shuttingDown
    BY DEF FlagFirst
  <2> QED
    BY <1>5, <2>1 DEF Arrive, Gate, LeaveGate, ServerTypes
<1>6. ASSUME NEW c \in Callers, Once(c) PROVE PhasesHold'
  BY <1>6 DEF Once, ServerTypes
<1>7. CASE SetFlag
  <2>1. shutdown'.ended = {} /\ shutdown'.next = 1 /\ shutdown'.at = "phases"
    BY <1>7 DEF SetFlag, FlagFirst, Launched, ServerTypes
  <2> QED
    BY <2>1
<1>8. ASSUME NEW p \in Phases, EndPhase(p), UNCHANGED <<serving, botState, http>>,
             p = "mutations" => \A h \in Handlers : serving[h] # "active",
             p = "bots" => \A b \in Bots : botState[b] \in {"idle", "stopped", "hanging", "late"},
             p = "http" /\ shutdown.sawStart => http = "closed"
      PROVE  PhasesHold'
  <2>1. /\ shutdown'.ended = shutdown.ended \cup {p} /\ shutdown'.timedOut = shutdown.timedOut
        /\ shutdown'.next = shutdown.next /\ shutdown'.at = shutdown.at
        /\ shutdown'.sawStart = shutdown.sawStart
    BY <1>8 DEF EndPhase, ServerTypes
  <2> QED
    BY <1>8, <2>1
<1>9. CASE MutationsEnd
  BY <1>8, <1>9, PhaseFacts DEF MutationsEnd
<1>10. CASE BotsEnd
  BY <1>8, <1>10, PhaseFacts DEF BotsEnd
<1>11. CASE HTTPEnd
  BY <1>8, <1>11, PhaseFacts DEF HTTPEnd
<1>12. ASSUME NEW p \in Phases, OtherEnd(p) PROVE PhasesHold'
  BY <1>8, <1>12, PhaseFacts DEF OtherEnd
<1>13. CASE HTTPClose
  BY <1>13 DEF HTTPClose
<1>14. CASE WaitPhase
  <2>1. PICK n \in 1..5 : n = shutdown.next
    BY <1>14, PhaseFacts DEF WaitPhase, ServerTypes
  <2>2. /\ shutdown'.ended = shutdown.ended /\ shutdown.timedOut \subseteq shutdown'.timedOut
        /\ shutdown'.next = n + 1 /\ shutdown'.at = "phases" /\ shutdown'.sawStart = shutdown.sawStart
        /\ PhaseNames[n] \in shutdown'.ended \cup shutdown'.timedOut
    <3>1. CASE shutdown' = [shutdown EXCEPT !.next = @ + 1] /\ PhaseNames[n] \in shutdown.ended
      BY <1>14, <2>1, <3>1 DEF WaitPhase, ServerTypes
    <3>2. CASE shutdown' = [shutdown EXCEPT !.next = @ + 1, !.timedOut = @ \cup {PhaseNames[n]}]
      BY <1>14, <2>1, <3>2 DEF WaitPhase, ServerTypes
    <3> QED
      BY <1>14, <2>1, <3>1, <3>2 DEF WaitPhase
  <2>3. \A i \in 1..5 : i < n + 1 => i < n \/ i = n
    OBVIOUS
  <2>4. UNCHANGED <<serving, botState, http>>
    BY <1>14 DEF WaitPhase
  <2> QED
    BY <2>1, <2>2, <2>3, <2>4
<1>15. CASE CloseDatabase
  <2>1. shutdown.next = 6
    BY <1>15, PhaseFacts DEF CloseDatabase, ServerTypes
  <2>2. /\ shutdown'.ended = shutdown.ended /\ shutdown'.timedOut = shutdown.timedOut
        /\ shutdown'.next = shutdown.next /\ shutdown'.sawStart = shutdown.sawStart
    BY <1>15 DEF CloseDatabase, ServerTypes
  <2>3. UNCHANGED <<serving, botState, http>>
    BY <1>15 DEF CloseDatabase
  <2> QED
    BY <2>1, <2>2, <2>3
<1> QED
  BY <1>1, <1>2, <1>3, <1>4, <1>5, <1>6, <1>7, <1>9, <1>10, <1>11, <1>12, <1>13, <1>14, <1>15
  DEF ServerNext, Main, GracefulShutdown

-----------------------------------------------------------------------------
(* The invariant.                                                          *)

(* No phase has ended at the start, and nobody has called.                 *)
LEMMA ServerStarts == ASSUME ServerInit PROVE ServerInv
<1>1. ServerTypes
  <2>1. shutdown \in [at : {"none", "flag", "phases", "done"}, sawStart : BOOLEAN, ended : SUBSET Phases,
                      timedOut : SUBSET Phases, next : 1..6]
    BY DEF ServerInit
  <2>2. lifecycle \in [started : BOOLEAN, shuttingDown : BOOLEAN]
    BY DEF ServerInit
  <2>3. signals \in [buffered : BOOLEAN, claimed : {"nobody", "listener", "main"}, done : BOOLEAN]
    BY DEF ServerInit
  <2> QED
    BY <2>1, <2>2, <2>3 DEF ServerInit, ServerTypes
<1>2. StartupOpen /\ FlagFirst /\ CallersWait
  BY DEF ServerInit, StartupOpen, FlagFirst, CallersWait, Launched
<1>4. StartsWaited
  BY DEF ServerInit, StartsWaited
<1>3. PhasesHold
  BY DEF ServerInit, PhasesHold
<1> QED
  BY <1>1, <1>2, <1>3, <1>4 DEF ServerInv

(* Every step keeps the invariant.                                         *)
LEMMA ServerStep == ServerInv /\ [ServerNext]_serverVars => ServerInv'
<1> SUFFICES ASSUME ServerInv, [ServerNext]_serverVars PROVE ServerInv'
  OBVIOUS
<1>1. CASE ServerNext
  BY <1>1, TypesKept, OpenKept, WaitedKept, FlagKept, HoldKept, CallersKept DEF ServerInv
<1>2. CASE UNCHANGED serverVars
  BY <1>2 DEF serverVars, ServerInv, ServerTypes, StartupOpen, StartsWaited, FlagFirst, PhasesHold, CallersWait,
              Launched
<1> QED
  BY <1>1, <1>2

(* For any bots and requests: the types, that startupDone is still open while someone is to       *)
(* close it, that the flag comes first, that what a phase waited for does not come back, and that *)
(* all who called GracefulShutdown wait for its end.                                              *)
THEOREM ServerInvariant == ServerSpec => []ServerInv
<1>1. ServerInit => ServerInv
  BY ServerStarts
<1> QED
  BY <1>1, ServerStep, PTL DEF ServerSpec

(* A shutdown that has ended has ended every phase that it did not give up.                      *)
LEMMA ShutdownFollows == ServerInv => ShutdownIsComplete
<1> SUFFICES ASSUME ServerInv PROVE ShutdownIsComplete
  OBVIOUS
<1> USE DEF ServerInv
<1>1. startupDone <= 1
  BY DEF ServerTypes
<1>2. ASSUME shutdown.at = "done"
      PROVE  /\ "mutations" \notin shutdown.timedOut => "mutations" \in shutdown.ended
             /\ "bots" \notin shutdown.timedOut => "bots" \in shutdown.ended
             /\ "http" \notin shutdown.timedOut => "http" \in shutdown.ended
  BY <1>2, PhaseFacts DEF PhasesHold
<1>3. shutdown.at = "done" => lifecycle.shuttingDown /\ shutdown.sawStart = lifecycle.started
  BY DEF FlagFirst, Launched
<1>4. "http" \in shutdown.ended /\ shutdown.at = "done" => http # "listening"
  BY <1>3 DEF PhasesHold, FlagFirst, ServerTypes
<1>5. main = "exited" => shutdown.at = "done" /\ signals.done
  BY DEF CallersWait, Callers
<1>6. "bots" \in shutdown.ended => \A b \in Bots : Stopped(b)
  BY DEF PhasesHold, StartsWaited, Stopped
<1> QED
  BY <1>1, <1>2, <1>3, <1>4, <1>5, <1>6 DEF ShutdownIsComplete, PhasesHold

(* Once GracefulShutdown (server.go) has closed the database, whatever started it and wherever    *)
(* the start was, nothing that uses it is left except what a phase gave up waiting for.           *)
THEOREM ShutdownCompletes == ServerSpec => []ShutdownIsComplete
BY ServerInvariant, ShutdownFollows, PTL

-----------------------------------------------------------------------------
(* The migration of the database: types, and where all its rows are.       *)

\* A file with rows of the original, and no others.
FileOf(all) == [of : {"none", "old", "new", "blank"}, rows : SUBSET all]
PairOf(all) == [FileKinds -> FileOf(all)]

InMove   == {"recover", "aside", "place", "undo"}
BackupDone == {"target", "copy", "close", "clear", "aside", "place", "undo"}
BackupPlaces == {BackupNames[n] : n \in Backups}

\* MigrationTypeOK, that no file has rows that the original had not, and when there is a backup.
MigrationTyped ==
  /\ Original \subseteq Rows
  /\ disk \in [DbPlaces -> PairOf(Original)]
  /\ forms \in [Tables -> Forms] /\ backup \in DbPlaces /\ suffix \in FileKinds
  /\ start \in {"off", "recovered", "validate", "backup", "target", "copy", "close", "clear", "replaced", "open", "ready"}
                \cup InMove
  /\ starts \in 0..MaxStarts /\ failures \in 0..MaxFailures /\ parted \in BOOLEAN
  /\ start \notin {"clear", "replaced"} \cup InMove => suffix = "main"
  /\ start \in BackupDone => backup \in BackupPlaces

\* The rows of a main file and the log next to it.
RowsOf(d) == d["main"].rows \cup d["wal"].rows

\* The original, or what replaced it, is in its place; a log next to it is its own, and none of
\* its is held aside.
AtHome(all, db, held) ==
  /\ db["main"] # NoFile /\ RowsOf(db) = all
  /\ db["wal"] # NoFile => db["main"].of = "old" /\ db["wal"].of = "old"
  /\ ~(db["main"].of = "old" /\ held["wal"].of = "old")

\* The main file is held aside, and the log still where it was.
Halfway(all, db, held) ==
  /\ db["main"] = NoFile /\ db["wal"].of = "old"
  /\ held["main"].of = "old" /\ held["wal"] = NoFile
  /\ held["main"].rows \cup db["wal"].rows = all

\* All is held aside.
HeldAside(all, db, held) ==
  /\ db["main"] = NoFile /\ db["wal"] = NoFile
  /\ held["main"] # NoFile /\ RowsOf(held) = all
  /\ held["wal"] # NoFile => held["main"].of = "old" /\ held["wal"].of = "old"

\* There is no database yet.
NoDatabase(all, db, held) ==
  all = {} /\ db["main"] = NoFile /\ db["wal"] = NoFile /\ held["main"] = NoFile

\* On its way back: the main file is there again, the log perhaps not.
OnItsWayBack(all, db, held) ==
  \/ AtHome(all, db, held) /\ held["wal"] = NoFile
  \/ /\ db["main"].of = "old" /\ held["wal"].of = "old" /\ db["wal"] = NoFile /\ held["main"] = NoFile
     /\ db["main"].rows \cup held["wal"].rows = all

\* The target is complete, in two files or in one.
Copied(all, d)   == d["main"] # NoFile /\ d["main"].of = "new" /\ RowsOf(d) = all
Complete(all, d) == Copied(all, d) /\ d["wal"] = NoFile

\* The backup has all rows.
BackedUp(all, d) == d["main"] # NoFile /\ RowsOf(d) = all

\* Where all rows are when a start is at at, and moves or removes the file s.
AllKept(at, s, all, db, held, target, copy) ==
  /\ at = "off" => \/ AtHome(all, db, held) \/ Halfway(all, db, held)
                   \/ HeldAside(all, db, held) \/ NoDatabase(all, db, held)
  /\ at \in {"validate", "open"} => AtHome(all, db, held) \/ NoDatabase(all, db, held)
  /\ at \in {"recovered", "backup", "target", "copy", "close", "clear", "replaced"} => AtHome(all, db, held)
  /\ at = "ready" => AtHome(all, db, held) /\ db["wal"] = NoFile
  /\ at \in {"target", "copy"} => BackedUp(all, copy)
  /\ at = "copy" => Complete({}, target)
  /\ at = "close" => Copied(all, target)
  /\ at \in {"clear", "aside"} => Complete(all, target)
  /\ at = "clear" /\ s = "wal" => held["main"] = NoFile
  /\ at = "aside" =>
       IF s = "main" THEN AtHome(all, db, held) /\ held["main"] = NoFile /\ held["wal"] = NoFile
       ELSE held["wal"] = NoFile /\ (Halfway(all, db, held) \/ HeldAside(all, db, held))
  /\ at = "place" =>
       IF s = "main" THEN HeldAside(all, db, held) /\ Complete(all, target)
       ELSE AtHome(all, db, held) /\ db["main"].of = "new" /\ target["wal"] = NoFile
  /\ at = "undo" =>
       IF s = "main" THEN HeldAside(all, db, held) ELSE OnItsWayBack(all, db, held)
  /\ at = "recover" =>
       IF s = "main" THEN Halfway(all, db, held) \/ HeldAside(all, db, held) ELSE OnItsWayBack(all, db, held)

MigrationInv ==
  /\ MigrationTyped
  /\ \/ parted
     \/ AllKept(start, suffix, Original, disk["db"], disk["replacing"], disk["migrating"], disk[backup])

-----------------------------------------------------------------------------
(* Pairs of files.                                                         *)

LEMMA PlacesDiffer ==
  /\ DbPlaces = {"db", "replacing", "migrating"} \cup BackupPlaces
  /\ "db" \notin BackupPlaces /\ "replacing" \notin BackupPlaces /\ "migrating" \notin BackupPlaces
BY MigrationAssumption DEF DbPlaces, BackupPlaces, Backups

LEMMA PairTypes ==
  ASSUME NEW all
  PROVE  /\ NoFile \in FileOf(all) /\ TornCopy \in FileOf(all) /\ NoFiles \in PairOf(all)
         /\ \A c \in FileOf(all) : Closed(c) \in PairOf(all)
         /\ \A d \in PairOf(all) : d["main"] \in FileOf(all) /\ d["wal"] \in FileOf(all) /\ RowsOf(d) \subseteq all
         /\ NoFile.of = "none" /\ NoFile.rows = {} /\ NoFiles["main"] = NoFile /\ NoFiles["wal"] = NoFile
         /\ \A c : Closed(c)["main"] = c /\ Closed(c)["wal"] = NoFile
BY DEF NoFile, TornCopy, FileOf, PairOf, NoFiles, Closed, FileKinds, RowsOf

\* What a connection finds, and leaves when it is closed.
LEMMA OpenedTyped ==
  ASSUME NEW all, disk \in [DbPlaces -> PairOf(all)], NEW p \in DbPlaces
  PROVE  /\ Opened(p) \in FileOf(all)
         /\ disk[p]["main"] # NoFile => Opened(p).of = disk[p]["main"].of /\ Opened(p).rows = RowsOf(disk[p])
         /\ disk[p]["main"] = NoFile => Opened(p) = [of |-> "blank", rows |-> {}]
<1>1. disk[p] \in PairOf(all)
  OBVIOUS
<1>2. disk[p]["main"] \in FileOf(all) /\ disk[p]["wal"] \in FileOf(all)
  BY <1>1, PairTypes
<1> QED BY <1>2 DEF Opened, There, FileOf, RowsOf

\* The database in its place is closed: its log is in it.
LEMMA HomeClosed ==
  ASSUME NEW all, NEW db \in PairOf(all), NEW held, AtHome(all, db, held),
         NEW c \in FileOf(all), c.of = db["main"].of, c.rows = RowsOf(db)
  PROVE  AtHome(all, Closed(c), held) /\ Closed(c)["wal"] = NoFile
<1>1. Closed(c)["main"] = c /\ Closed(c)["wal"] = NoFile /\ NoFile.rows = {}
  BY PairTypes
<1>2. c # NoFile
  <2>1. db["main"] \in FileOf(all) /\ db["wal"] \in FileOf(all)
    BY PairTypes
  <2>2. CASE db["main"].of = "none"
    <3>1. db["wal"] = NoFile /\ db["main"].rows # {}
      BY <2>1, <2>2 DEF AtHome, NoFile, FileOf
    <3> QED BY <3>1 DEF NoFile, RowsOf
  <2> QED BY <2>2 DEF NoFile
<1>3. RowsOf(Closed(c)) = all
  BY <1>1 DEF RowsOf, AtHome
<1> QED BY <1>1, <1>2, <1>3 DEF AtHome

LEMMA CrashLeaves ==
  ASSUME NEW at, NEW s \in FileKinds, NEW all, NEW db, NEW held, NEW target, NEW copy,
         AllKept(at, s, all, db, held, target, copy),
         at \in {"off", "recovered", "validate", "backup", "target", "copy", "close", "clear", "replaced", "open", "ready"} \cup InMove,
         ~(db["main"].of = "old" /\ held["wal"].of = "old")
  PROVE  AtHome(all, db, held) \/ Halfway(all, db, held) \/ HeldAside(all, db, held) \/ NoDatabase(all, db, held)
BY DEF AllKept, InMove, OnItsWayBack, FileKinds

LEMMA KeptOff ==
  ASSUME NEW s, NEW all, NEW db, NEW held, NEW target, NEW copy,
         AtHome(all, db, held) \/ Halfway(all, db, held) \/ HeldAside(all, db, held) \/ NoDatabase(all, db, held)
  PROVE  AllKept("off", s, all, db, held, target, copy)
BY DEF AllKept

LEMMA KeptHome ==
  ASSUME NEW at \in {"validate", "open", "recovered", "backup", "replaced"}, NEW s, NEW all, NEW db, NEW held,
         NEW target, NEW copy, AtHome(all, db, held)
  PROVE  AllKept(at, s, all, db, held, target, copy)
BY DEF AllKept

-----------------------------------------------------------------------------
(* The start.                                                              *)

LEMMA MigrationBegins == MigrationInit => MigrationInv
<1> SUFFICES ASSUME MigrationInit PROVE MigrationInv
  OBVIOUS
<1>1. DbPlaces = {"db", "replacing", "migrating"} \cup BackupPlaces /\ "db" \in DbPlaces
  BY PlacesDiffer
<1>5. /\ start = "off" /\ suffix = "main" /\ backup \in DbPlaces /\ parted = FALSE
      /\ starts \in 0 .. MaxStarts /\ failures \in 0 .. MaxFailures
  <2>1. Len(BackupNames) \in Nat /\ MaxStarts \in Nat /\ MaxFailures \in Nat
    BY MigrationAssumption
  <2> QED BY <1>1, <2>1 DEF MigrationInit
<1>2. CASE \E logged \in SUBSET Rows :
             /\ forms \in {f \in [Tables -> Forms] : \A r \in Rows : f[TableOf[r]] # "missing"}
             /\ disk = [p \in DbPlaces |->
                  IF p = "db" THEN [main |-> [of |-> "old", rows |-> Rows \ logged],
                                    wal  |-> IF logged = {} THEN NoFile ELSE [of |-> "old", rows |-> logged]]
                  ELSE [s \in FileKinds |-> NoFile]]
  <2>1. PICK logged \in SUBSET Rows :
             /\ forms \in {f \in [Tables -> Forms] : \A r \in Rows : f[TableOf[r]] # "missing"}
             /\ disk = [p \in DbPlaces |->
                  IF p = "db" THEN [main |-> [of |-> "old", rows |-> Rows \ logged],
                                    wal  |-> IF logged = {} THEN NoFile ELSE [of |-> "old", rows |-> logged]]
                  ELSE [s \in FileKinds |-> NoFile]]
    BY <1>2
  <2> DEFINE m == [of |-> "old", rows |-> Rows \ logged]
             w == IF logged = {} THEN NoFile ELSE [of |-> "old", rows |-> logged]
  <2>2. Original = Rows
    <3>1. CASE Rows = {}
      BY <3>1 DEF Original
    <3>2. CASE Rows # {}
      <4>1. PICK r \in Rows : TRUE
        BY <3>2
      <4>2. TableOf[r] \in Tables /\ forms[TableOf[r]] # "missing"
        BY <2>1, <4>1, MigrationAssumption DEF Tables
      <4> QED BY <4>2 DEF Original
    <3> QED BY <3>1, <3>2
  <2>3. /\ m \in FileOf(Rows) /\ w \in FileOf(Rows) /\ m # NoFile /\ m.of = "old" /\ m.rows \cup w.rows = Rows
        /\ w # NoFile => w.of = "old"
    BY DEF FileOf, NoFile
  <2>4. [main |-> m, wal |-> w] \in PairOf(Rows) /\ NoFiles \in PairOf(Rows)
    <3> HIDE DEF m, w
    <3> QED BY <2>3, PairTypes DEF PairOf, FileKinds
  <2>5. disk = [p \in DbPlaces |-> IF p = "db" THEN [main |-> m, wal |-> w] ELSE NoFiles]
    BY <2>1, Zenon DEF NoFiles
  <2>6. /\ disk \in [DbPlaces -> PairOf(Rows)]
        /\ disk["db"]["main"] = m /\ disk["db"]["wal"] = w
        /\ disk["replacing"] = NoFiles
    BY <1>1, <2>4, <2>5
  <2>7. MigrationTyped
    <3>1. Original \subseteq Rows /\ disk \in [DbPlaces -> PairOf(Original)] /\ forms \in [Tables -> Forms]
      BY <2>1, <2>2, <2>6
    <3> QED BY <1>5, <3>1 DEF MigrationTyped, FileKinds, InMove, BackupDone
  <2>8. AtHome(Rows, disk["db"], disk["replacing"])
    <3>1. disk["replacing"]["wal"].of = "none"
      BY <2>6, PairTypes
    <3> HIDE DEF m, w
    <3> QED BY <2>3, <2>6, <3>1 DEF AtHome, RowsOf
  <2>9. AllKept(start, suffix, Original, disk["db"], disk["replacing"], disk["migrating"], disk[backup])
    BY <2>2, <2>8, KeptOff DEF MigrationInit
  <2> QED BY <2>7, <2>9 DEF MigrationInv
<1>3. CASE \E stranded \in BOOLEAN :
             /\ forms = [t \in Tables |-> "missing"]
             /\ disk = [p \in DbPlaces |-> [s \in FileKinds |->
                  IF stranded /\ p = "migrating" /\ s = "main" THEN [of |-> "new", rows |-> {}] ELSE NoFile]]
  <2>1. PICK stranded \in BOOLEAN :
             /\ forms = [t \in Tables |-> "missing"]
             /\ disk = [p \in DbPlaces |-> [s \in FileKinds |->
                  IF stranded /\ p = "migrating" /\ s = "main" THEN [of |-> "new", rows |-> {}] ELSE NoFile]]
    BY <1>3
  <2>2. Original = {}
    BY <2>1 DEF Original
  <2>3. [of |-> "new", rows |-> {}] \in FileOf({}) /\ NoFile \in FileOf({})
    BY DEF FileOf, NoFile
  <2>4. disk \in [DbPlaces -> PairOf({})]
    BY <2>1, <2>3 DEF PairOf
  <2>5. disk["db"]["main"] = NoFile /\ disk["db"]["wal"] = NoFile /\ disk["replacing"]["main"] = NoFile
    BY <1>1, <2>1 DEF FileKinds
  <2>6. MigrationTyped
    <3>1. Original \subseteq Rows /\ disk \in [DbPlaces -> PairOf(Original)] /\ forms \in [Tables -> Forms]
      BY <2>1, <2>2, <2>4 DEF Forms
    <3> QED BY <1>5, <3>1 DEF MigrationTyped, FileKinds, InMove, BackupDone
  <2>7. NoDatabase({}, disk["db"], disk["replacing"])
    BY <2>5 DEF NoDatabase
  <2>8. AllKept(start, suffix, Original, disk["db"], disk["replacing"], disk["migrating"], disk[backup])
    BY <2>2, <2>7, KeptOff DEF MigrationInit
  <2> QED BY <2>6, <2>8 DEF MigrationInv
<1> QED BY <1>2, <1>3 DEF MigrationInit

-----------------------------------------------------------------------------
(* Each action keeps the invariant.                                        *)

LEMMA MigrationPlaces ==
  ASSUME MigrationTyped
  PROVE  /\ {"db", "replacing", "migrating", backup} \subseteq DbPlaces
         /\ disk["db"] \in PairOf(Original) /\ disk["replacing"] \in PairOf(Original)
         /\ disk["migrating"] \in PairOf(Original) /\ disk[backup] \in PairOf(Original)
         /\ start \in BackupDone => backup \notin {"db", "replacing", "migrating"}
<1>1. {"db", "replacing", "migrating", backup} \subseteq DbPlaces
  BY PlacesDiffer DEF MigrationTyped
<1>2. disk \in [DbPlaces -> PairOf(Original)]
  BY DEF MigrationTyped
<1>3. start \in BackupDone => backup \notin {"db", "replacing", "migrating"}
  BY PlacesDiffer DEF MigrationTyped
<1> QED BY <1>1, <1>2, <1>3

LEMMA OriginalStays == ASSUME forms' = forms PROVE Original' = Original
BY DEF Original

LEMMA RecoverKeeps == ASSUME MigrationInv, RecoverInterrupted PROVE MigrationInv'
<1>1. /\ start = "off" /\ suffix' = "main" /\ starts < MaxStarts /\ starts' = starts + 1
      /\ disk' = disk /\ backup' = backup /\ forms' = forms /\ failures' = failures /\ parted' = parted
  BY DEF RecoverInterrupted, GoTo
<1>2. start' = IF There("db", "main") THEN "validate"
               ELSE IF There("replacing", "main") THEN "recover"
               ELSE IF There("migrating", "main") THEN "off" ELSE "validate"
  BY DEF RecoverInterrupted, GoTo
<1>3. Original' = Original
  BY <1>1, OriginalStays
<1>4. MigrationTyped'
  <2>1. starts' \in 0 .. MaxStarts
    BY <1>1, MigrationAssumption DEF MigrationInv, MigrationTyped
  <2> QED BY <1>1, <1>2, <1>3, <2>1 DEF MigrationInv, MigrationTyped, InMove, BackupDone, FileKinds
<1>5. ASSUME ~parted PROVE AllKept(start', "main", Original, disk["db"], disk["replacing"], disk["migrating"], disk[backup])
  <2>1. \/ AtHome(Original, disk["db"], disk["replacing"]) \/ Halfway(Original, disk["db"], disk["replacing"])
        \/ HeldAside(Original, disk["db"], disk["replacing"]) \/ NoDatabase(Original, disk["db"], disk["replacing"])
    BY <1>1, <1>5 DEF MigrationInv, AllKept
  <2>2. CASE There("db", "main")
    BY <1>2, <2>1, <2>2, KeptHome DEF There, Halfway, HeldAside, NoDatabase
  <2>3. CASE ~There("db", "main") /\ There("replacing", "main")
    BY <1>2, <2>1, <2>3 DEF There, AtHome, NoDatabase, AllKept
  <2>4. CASE ~There("db", "main") /\ ~There("replacing", "main")
    BY <1>2, <2>1, <2>4 DEF There, AtHome, Halfway, HeldAside, NoFile, AllKept
  <2> QED BY <2>2, <2>3, <2>4
<1> QED BY <1>1, <1>3, <1>4, <1>5 DEF MigrationInv

LEMMA RecoveredKeeps == ASSUME MigrationInv, RecoveredTarget PROVE MigrationInv'
<1>1. /\ start = "recovered" /\ start' = "validate" /\ suffix' = "main"
      /\ disk' = [disk EXCEPT !["migrating"] = NoFiles]
      /\ backup' = backup /\ forms' = forms /\ starts' = starts /\ failures' = failures /\ parted' = parted
  BY DEF RecoveredTarget, GoTo, migrationPast
<1>2. Original' = Original
  BY <1>1, OriginalStays
<1>3. disk' \in [DbPlaces -> PairOf(Original)] /\ disk'["db"] = disk["db"] /\ disk'["replacing"] = disk["replacing"]
  BY <1>1, PairTypes, PlacesDiffer DEF MigrationInv, MigrationTyped
<1>4. MigrationTyped'
  BY <1>1, <1>2, <1>3 DEF MigrationInv, MigrationTyped, InMove, BackupDone, FileKinds
<1>5. ASSUME ~parted PROVE AtHome(Original, disk["db"], disk["replacing"])
  BY <1>1, <1>5 DEF MigrationInv, AllKept
<1>6. ASSUME ~parted PROVE AllKept("validate", "main", Original, disk["db"], disk["replacing"], disk["migrating"]', (disk[backup])')
  BY <1>5, <1>6, KeptHome
<1> QED BY <1>1, <1>2, <1>3, <1>4, <1>6 DEF MigrationInv

LEMMA MigrateKeeps == ASSUME MigrationInv, MigrateExistingDatabase PROVE MigrationInv'
<1>1. /\ start = "validate" /\ start' \in {"open", "backup"} /\ suffix' = "main"
      /\ backup' = backup /\ forms' = forms /\ starts' = starts /\ parted' = parted /\ failures' \in 0 .. MaxFailures
  BY MigrationAssumption DEF MigrateExistingDatabase, GoTo, Failure, MigrationInv, MigrationTyped
<1>2. \/ ~There("db", "main") /\ start' = "open" /\ disk' = disk
      \/ There("db", "main") /\ disk' = [disk EXCEPT !["db"] = Closed(Opened("db"))]
      \/ There("db", "main") /\ disk' = disk
  BY DEF MigrateExistingDatabase, GoTo
<1>3. Original' = Original
  BY <1>1, OriginalStays
<1>4. disk["db"] \in PairOf(Original) /\ disk["replacing"] \in PairOf(Original)
      /\ "db" \in DbPlaces /\ "replacing" \in DbPlaces /\ disk \in [DbPlaces -> PairOf(Original)]
  BY MigrationPlaces DEF MigrationInv, MigrationTyped
<1>5. Opened("db") \in FileOf(Original) /\ Closed(Opened("db")) \in PairOf(Original)
  BY <1>4, OpenedTyped, PairTypes
<1>6. disk' \in [DbPlaces -> PairOf(Original)] /\ disk'["replacing"] = disk["replacing"]
  BY <1>2, <1>4, <1>5
<1>7. MigrationTyped'
  BY <1>1, <1>3, <1>6 DEF MigrationInv, MigrationTyped, InMove, BackupDone, FileKinds
<1>8. ASSUME ~parted
      PROVE  AllKept(start', "main", Original, disk'["db"], disk["replacing"], disk'["migrating"], (disk[backup])')
  <2>1. AtHome(Original, disk["db"], disk["replacing"]) \/ NoDatabase(Original, disk["db"], disk["replacing"])
    BY <1>1, <1>8 DEF MigrationInv, AllKept
  <2>2. CASE ~There("db", "main") /\ start' = "open" /\ disk' = disk
    <3>1. NoDatabase(Original, disk'["db"], disk["replacing"])
      BY <2>1, <2>2 DEF There, AtHome
    <3> QED BY <2>2, <3>1 DEF AllKept
  <2>3. CASE There("db", "main") /\ disk' = [disk EXCEPT !["db"] = Closed(Opened("db"))]
    <3>1. AtHome(Original, disk["db"], disk["replacing"])
      BY <2>1, <2>3 DEF There, NoDatabase
    <3>2. Opened("db").of = disk["db"]["main"].of /\ Opened("db").rows = RowsOf(disk["db"])
      BY <1>4, <2>3, OpenedTyped DEF There
    <3>3. AtHome(Original, Closed(Opened("db")), disk["replacing"])
      BY <1>4, <1>5, <3>1, <3>2, HomeClosed
    <3>4. disk'["db"] = Closed(Opened("db"))
      BY <1>4, <2>3
    <3> QED BY <1>1, <3>3, <3>4, KeptHome
  <2>4. CASE There("db", "main") /\ disk' = disk
    <3>1. AtHome(Original, disk["db"], disk["replacing"])
      BY <2>1, <2>4 DEF There, NoDatabase
    <3> QED BY <1>1, <2>4, <3>1, KeptHome
  <2> QED BY <1>2, <2>2, <2>3, <2>4
<1> QED BY <1>1, <1>3, <1>6, <1>7, <1>8 DEF MigrationInv

LEMMA BackupKeeps == ASSUME MigrationInv, BackupSQLiteFiles PROVE MigrationInv'
<1>1. PICK n \in Backups :
       /\ backup' = BackupNames[n]
       /\ \/ /\ disk' = [disk EXCEPT ![BackupNames[n]] =
                           [main |-> disk["db"]["main"],
                            wal  |-> IF There("db", "wal") THEN disk["db"]["wal"] ELSE @["wal"]]]
             /\ GoTo("target") /\ UNCHANGED failures
          \/ /\ Failure
             /\ \E part \in {disk[backup']["main"], TornCopy, disk["db"]["main"]} : disk' = [disk EXCEPT ![backup']["main"] = part]
             /\ GoTo("off")
  BY DEF BackupSQLiteFiles
<1> DEFINE b == BackupNames[n]
           w == IF There("db", "wal") THEN disk["db"]["wal"] ELSE disk[b]["wal"]
<1>2. start = "backup" /\ forms' = forms /\ starts' = starts /\ parted' = parted
  BY DEF BackupSQLiteFiles
<1>3. Original' = Original
  BY <1>2, OriginalStays
<1>4. /\ b \in BackupPlaces /\ b \in DbPlaces /\ b \notin {"db", "replacing", "migrating"}
      /\ disk \in [DbPlaces -> PairOf(Original)] /\ backup' = b
  BY <1>1, PlacesDiffer DEF BackupPlaces, MigrationInv, MigrationTyped
<1>5. disk["db"]["main"] \in FileOf(Original) /\ disk["db"]["wal"] \in FileOf(Original) /\ disk[b] \in PairOf(Original)
      /\ disk[b]["main"] \in FileOf(Original) /\ disk[b]["wal"] \in FileOf(Original)
  BY <1>4, PairTypes, PlacesDiffer
<1>6. ASSUME ~parted PROVE AtHome(Original, disk["db"], disk["replacing"])
  BY <1>2, <1>6 DEF MigrationInv, AllKept
<1>7. failures' \in 0 .. MaxFailures /\ suffix' = "main"
  BY <1>1, MigrationAssumption DEF GoTo, Failure, MigrationInv, MigrationTyped
<1>8. CASE /\ disk' = [disk EXCEPT ![b] = [main |-> disk["db"]["main"], wal |-> w]]
           /\ start' = "target"
  <2> DEFINE c == [main |-> disk["db"]["main"], wal |-> w]
  <2>1. w \in FileOf(Original) /\ c["main"] = disk["db"]["main"] /\ c["wal"] = w
    BY <1>5
  <2>2. c \in PairOf(Original)
    <3> HIDE DEF w
    <3> QED BY <1>5, <2>1 DEF PairOf, FileKinds
  <2> HIDE DEF c, b
  <2>3. /\ disk' \in [DbPlaces -> PairOf(Original)] /\ disk'[b] = c
        /\ disk'["db"] = disk["db"] /\ disk'["replacing"] = disk["replacing"]
    BY <1>4, <1>8, <2>2, PlacesDiffer DEF c
  <2>4. MigrationTyped'
    BY <1>2, <1>3, <1>4, <1>7, <1>8, <2>3 DEF MigrationInv, MigrationTyped, InMove, BackupDone, FileKinds, BackupPlaces
  <2>5. ASSUME ~parted PROVE AllKept("target", "main", Original, disk["db"], disk["replacing"], disk["migrating"]', c)
    <3>1. AtHome(Original, disk["db"], disk["replacing"])
      BY <1>6, <2>5
    <3>2. c["main"] # NoFile
      BY <2>1, <3>1 DEF AtHome
    <3>3. RowsOf(c) = Original
      <4>1. CASE There("db", "wal")
        BY <2>1, <3>1, <4>1 DEF AtHome, RowsOf
      <4>2. CASE ~There("db", "wal")
        <5>1. w.rows \subseteq Original /\ disk["db"]["wal"].rows = {}
          BY <1>5, <4>2 DEF FileOf, There, NoFile
        <5> QED BY <2>1, <3>1, <5>1 DEF AtHome, RowsOf
      <4> QED BY <4>1, <4>2
    <3> QED BY <3>1, <3>2, <3>3 DEF AllKept, BackedUp
  <2> QED BY <1>2, <1>3, <1>4, <1>7, <1>8, <2>3, <2>4, <2>5 DEF MigrationInv
<1>9. CASE /\ \E part \in {disk[b]["main"], TornCopy, disk["db"]["main"]} : disk' = [disk EXCEPT ![b]["main"] = part]
           /\ start' = "off"
  <2> HIDE DEF b
  <2>1. PICK part \in {disk[b]["main"], TornCopy, disk["db"]["main"]} : disk' = [disk EXCEPT ![b]["main"] = part]
    BY <1>9
  <2>2. part \in FileOf(Original)
    BY <1>5, <2>1, PairTypes
  <2>3. [disk[b] EXCEPT !["main"] = part] \in PairOf(Original)
    BY <1>5, <2>2 DEF PairOf
  <2>4. /\ disk' \in [DbPlaces -> PairOf(Original)]
        /\ disk'["db"] = disk["db"] /\ disk'["replacing"] = disk["replacing"]
    BY <1>4, <2>1, <2>3, PlacesDiffer
  <2>5. MigrationTyped'
    BY <1>2, <1>3, <1>4, <1>7, <1>9, <2>4 DEF MigrationInv, MigrationTyped, InMove, BackupDone, FileKinds
  <2>6. ASSUME ~parted PROVE AllKept("off", "main", Original, disk["db"], disk["replacing"], disk["migrating"]', (disk[backup])')
    BY <1>6, <2>6, KeptOff
  <2> QED BY <1>2, <1>3, <1>7, <1>9, <2>4, <2>5, <2>6 DEF MigrationInv
<1> QED BY <1>1, <1>8, <1>9 DEF GoTo

\* A start that fails while the original is in its place.
LEMMA FailedStart ==
  ASSUME MigrationInv, start \in {"target", "copy", "close"},
         NEW d \in [DbPlaces -> PairOf(Original)], d["db"] = disk["db"], d["replacing"] = disk["replacing"],
         Fails(d), forms' = forms, backup' = backup, starts' = starts, parted' = parted, failures' \in 0 .. MaxFailures
  PROVE  MigrationInv'
<1>1. start' = "off" /\ suffix' = "main" /\ disk' = [d EXCEPT ![backup] = NoFiles]
  BY DEF Fails, GoTo
<1>2. Original' = Original
  BY OriginalStays
<1>3. backup \in DbPlaces /\ backup \notin {"db", "replacing", "migrating"} /\ "db" \in DbPlaces /\ "replacing" \in DbPlaces
  BY MigrationPlaces DEF MigrationInv, BackupDone
<1>4. disk' \in [DbPlaces -> PairOf(Original)] /\ disk'["db"] = disk["db"] /\ disk'["replacing"] = disk["replacing"]
  BY <1>1, <1>3, PairTypes
<1>5. MigrationTyped'
  BY <1>1, <1>2, <1>3, <1>4 DEF MigrationInv, MigrationTyped, InMove, BackupDone, FileKinds
<1>6. ASSUME ~parted PROVE AllKept("off", "main", Original, disk["db"], disk["replacing"], disk["migrating"]', (disk[backup])')
  <2>1. AtHome(Original, disk["db"], disk["replacing"])
    BY <1>6 DEF MigrationInv, AllKept
  <2> QED BY <2>1, KeptOff
<1> QED BY <1>1, <1>2, <1>4, <1>5, <1>6 DEF MigrationInv

\* Nothing but the migration target changes.
LEMMA TargetMoves ==
  ASSUME MigrationInv, start \in {"target", "copy", "close"},
         NEW new \in PairOf(Original), NEW at \in {"copy", "close", "clear"},
         disk' = [disk EXCEPT !["migrating"] = new], start' = at, suffix' = "main",
         forms' = forms, backup' = backup, starts' = starts, parted' = parted, failures' = failures,
         at = "copy" => start = "target" /\ Complete({}, new),
         ~parted /\ at = "close" => Copied(Original, new),
         ~parted /\ at = "clear" => Complete(Original, new)
  PROVE  MigrationInv'
<1>1. Original' = Original
  BY OriginalStays
<1>2. backup \in DbPlaces /\ backup \notin {"db", "replacing", "migrating"}
      /\ {"db", "replacing", "migrating"} \subseteq DbPlaces
  BY MigrationPlaces DEF MigrationInv, BackupDone
<1>3. /\ disk' \in [DbPlaces -> PairOf(Original)] /\ disk'["db"] = disk["db"] /\ disk'["replacing"] = disk["replacing"]
      /\ disk'[backup] = disk[backup] /\ disk'["migrating"] = new
  BY <1>2 DEF MigrationInv, MigrationTyped
<1>4. MigrationTyped'
  BY <1>1, <1>2, <1>3 DEF MigrationInv, MigrationTyped, InMove, BackupDone, FileKinds
<1>5. ASSUME ~parted PROVE AllKept(at, "main", Original, disk["db"], disk["replacing"], new, disk[backup])
  BY <1>5 DEF MigrationInv, AllKept
<1> QED BY <1>1, <1>3, <1>4, <1>5 DEF MigrationInv

LEMMA CreateTargetKeeps == ASSUME MigrationInv, CreateTarget PROVE MigrationInv'
<1>1. start = "target" /\ forms' = forms /\ backup' = backup /\ starts' = starts /\ parted' = parted
  BY DEF CreateTarget
<1>2. disk \in [DbPlaces -> PairOf(Original)] /\ {"db", "replacing", "migrating"} \subseteq DbPlaces
  BY MigrationPlaces DEF MigrationInv, MigrationTyped
<1>3. CASE /\ disk' = [disk EXCEPT !["migrating"] = Closed([of |-> "new", rows |-> {}])]
           /\ GoTo("copy") /\ UNCHANGED failures
  <2> DEFINE c == [of |-> "new", rows |-> {}]
  <2>1. c \in FileOf(Original) /\ c # NoFile /\ c.of = "new" /\ c.rows = {}
    BY DEF FileOf, NoFile
  <2> HIDE DEF c
  <2>2. Closed(c) \in PairOf(Original) /\ Complete({}, Closed(c))
    <3>1. Closed(c)["main"] = c /\ Closed(c)["wal"] = NoFile /\ NoFile.rows = {} /\ Closed(c) \in PairOf(Original)
      BY <2>1, PairTypes
    <3> QED BY <2>1, <3>1 DEF Complete, Copied, RowsOf
  <2>3. disk' = [disk EXCEPT !["migrating"] = Closed(c)] /\ start' = "copy" /\ suffix' = "main" /\ failures' = failures
    BY <1>3 DEF GoTo, c
  <2> QED BY <1>1, <2>2, <2>3, TargetMoves
<1>4. CASE Failure /\ \E d \in {disk, [disk EXCEPT !["migrating"] = NoFiles]} : Fails(d)
  <2>1. PICK d \in {disk, [disk EXCEPT !["migrating"] = NoFiles]} : Fails(d)
    BY <1>4
  <2>2. d \in [DbPlaces -> PairOf(Original)] /\ d["db"] = disk["db"] /\ d["replacing"] = disk["replacing"]
    BY <1>2, <2>1, PairTypes
  <2>3. failures' \in 0 .. MaxFailures
    BY <1>4, MigrationAssumption DEF Failure, MigrationInv, MigrationTyped
  <2> QED BY <1>1, <2>1, <2>2, <2>3, FailedStart
<1> QED BY <1>3, <1>4 DEF CreateTarget

LEMMA CopyDataKeeps == ASSUME MigrationInv, CopyData PROVE MigrationInv'
<1>1. start = "copy" /\ forms' = forms /\ backup' = backup /\ starts' = starts /\ parted' = parted
  BY DEF CopyData
<1>2. disk \in [DbPlaces -> PairOf(Original)] /\ {"db", "replacing", "migrating", backup} \subseteq DbPlaces
      /\ disk["migrating"] \in PairOf(Original)
  BY MigrationPlaces DEF MigrationInv, MigrationTyped
<1>3. CASE /\ disk' = [disk EXCEPT !["migrating"]["wal"] = [of |-> "new", rows |-> Opened(backup).rows]]
           /\ GoTo("close") /\ UNCHANGED failures
  <2> DEFINE w == [of |-> "new", rows |-> Opened(backup).rows]
             new == [disk["migrating"] EXCEPT !["wal"] = w]
  <2>1. w \in FileOf(Original) /\ w.rows = Opened(backup).rows
    <3>1. Opened(backup) \in FileOf(Original)
      BY <1>2, OpenedTyped
    <3> QED BY <3>1 DEF FileOf
  <2> HIDE DEF w
  <2>2. new \in PairOf(Original) /\ new["main"] = disk["migrating"]["main"] /\ new["wal"] = w
    BY <1>2, <2>1 DEF PairOf, FileKinds
  <2>3. ASSUME ~parted PROVE Copied(Original, new)
    <3>1. BackedUp(Original, disk[backup]) /\ Complete({}, disk["migrating"])
      BY <1>1, <2>3 DEF MigrationInv, AllKept
    <3>2. Opened(backup).rows = Original
      BY <1>2, <3>1, OpenedTyped DEF BackedUp
    <3> QED BY <2>1, <2>2, <3>1, <3>2 DEF Complete, Copied, RowsOf
  <2>4. disk' = [disk EXCEPT !["migrating"] = new] /\ start' = "close" /\ suffix' = "main" /\ failures' = failures
    BY <1>2, <1>3 DEF GoTo, w
  <2> HIDE DEF new
  <2> QED BY <1>1, <2>2, <2>3, <2>4, TargetMoves
<1>4. CASE Fails([disk EXCEPT !["migrating"] = NoFiles]) /\ (Failure \/ UNCHANGED failures)
  <2> DEFINE d == [disk EXCEPT !["migrating"] = NoFiles]
  <2>1. d \in [DbPlaces -> PairOf(Original)] /\ d["db"] = disk["db"] /\ d["replacing"] = disk["replacing"]
    BY <1>2, PairTypes
  <2>2. failures' \in 0 .. MaxFailures
    BY <1>4, MigrationAssumption DEF Failure, MigrationInv, MigrationTyped
  <2>3. Fails(d)
    BY <1>4
  <2> HIDE DEF d
  <2> QED BY <1>1, <2>1, <2>2, <2>3, FailedStart
<1> QED BY <1>3, <1>4 DEF CopyData

LEMMA CloseTargetKeeps == ASSUME MigrationInv, CloseTarget PROVE MigrationInv'
<1>1. start = "close" /\ forms' = forms /\ backup' = backup /\ starts' = starts /\ parted' = parted
  BY DEF CloseTarget
<1>2. disk \in [DbPlaces -> PairOf(Original)] /\ {"db", "replacing", "migrating", backup} \subseteq DbPlaces
      /\ disk["migrating"] \in PairOf(Original)
  BY MigrationPlaces DEF MigrationInv, MigrationTyped
<1>3. CASE disk' = [disk EXCEPT !["migrating"] = Closed(Opened("migrating"))] /\ GoTo("clear") /\ UNCHANGED failures
  <2> DEFINE c == Opened("migrating")
  <2>1. c \in FileOf(Original)
    BY <1>2, OpenedTyped
  <2>2. Closed(c) \in PairOf(Original) /\ Closed(c)["main"] = c /\ Closed(c)["wal"] = NoFile /\ NoFile.rows = {}
    BY <2>1, PairTypes
  <2>3. ASSUME ~parted PROVE Complete(Original, Closed(c))
    <3>1. Copied(Original, disk["migrating"])
      BY <1>1, <2>3 DEF MigrationInv, AllKept
    <3>2. c.of = "new" /\ c.rows = Original
      BY <1>2, <3>1, OpenedTyped DEF Copied
    <3>3. c # NoFile
      BY <3>2 DEF NoFile
    <3> HIDE DEF c
    <3> QED BY <2>2, <3>2, <3>3 DEF Complete, Copied, RowsOf
  <2>4. disk' = [disk EXCEPT !["migrating"] = Closed(c)] /\ start' = "clear" /\ suffix' = "main" /\ failures' = failures
    BY <1>3 DEF GoTo
  <2> HIDE DEF c
  <2> QED BY <1>1, <2>2, <2>3, <2>4, TargetMoves
<1>4. CASE Failure /\ Fails([disk EXCEPT !["migrating"] = NoFiles])
  <2> DEFINE d == [disk EXCEPT !["migrating"] = NoFiles]
  <2>1. d \in [DbPlaces -> PairOf(Original)] /\ d["db"] = disk["db"] /\ d["replacing"] = disk["replacing"]
    BY <1>2, PairTypes
  <2>2. failures' \in 0 .. MaxFailures
    BY <1>4, MigrationAssumption DEF Failure, MigrationInv, MigrationTyped
  <2>3. Fails(d)
    BY <1>4
  <2> HIDE DEF d
  <2> QED BY <1>1, <2>1, <2>2, <2>3, FailedStart
<1> QED BY <1>3, <1>4 DEF CloseTarget

LEMMA RemoveKeeps == ASSUME MigrationInv, RemoveHolding PROVE MigrationInv'
<1>1. /\ start \in {"clear", "replaced"} /\ disk' = [disk EXCEPT !["replacing"][suffix] = NoFile]
      /\ backup' = backup /\ forms' = forms /\ starts' = starts /\ failures' = failures /\ parted' = parted
  BY DEF RemoveHolding, migrationPast
<1>2. IF suffix = "main" THEN suffix' = "wal" /\ start' = start
      ELSE start' = (IF start = "clear" THEN "aside" ELSE "open") /\ suffix' = "main"
  BY DEF RemoveHolding, GoTo
<1>3. Original' = Original
  BY <1>1, OriginalStays
<1>4. /\ disk \in [DbPlaces -> PairOf(Original)] /\ {"db", "replacing", "migrating"} \subseteq DbPlaces
      /\ disk["replacing"] \in PairOf(Original) /\ suffix \in FileKinds
  BY MigrationPlaces DEF MigrationInv, MigrationTyped
<1> DEFINE held == [disk["replacing"] EXCEPT ![suffix] = NoFile]
<1>5. /\ held \in PairOf(Original)
      /\ held["main"] = (IF suffix = "main" THEN NoFile ELSE disk["replacing"]["main"])
      /\ held["wal"] = (IF suffix = "wal" THEN NoFile ELSE disk["replacing"]["wal"])
  BY <1>4, PairTypes DEF PairOf, FileKinds
<1>6. disk' = [disk EXCEPT !["replacing"] = held]
  BY <1>1, <1>4
<1> HIDE DEF held
<1>7. /\ disk' \in [DbPlaces -> PairOf(Original)] /\ disk'["replacing"] = held
      /\ disk'["db"] = disk["db"] /\ disk'["migrating"] = disk["migrating"]
  BY <1>4, <1>5, <1>6
<1>8. start' \in {"clear", "replaced", "aside", "open"} /\ (start' = "open" => suffix' = "main") /\ suffix' \in FileKinds
      /\ (start' \in BackupDone => start \in BackupDone)
  BY <1>1, <1>2 DEF FileKinds, BackupDone
<1>9. MigrationTyped'
  BY <1>1, <1>3, <1>7, <1>8 DEF MigrationInv, MigrationTyped, InMove
<1>10. ASSUME ~parted PROVE AllKept(start', suffix', Original, disk["db"], held, disk["migrating"], (disk[backup])')
  <2>1. AtHome(Original, disk["db"], disk["replacing"])
    BY <1>1, <1>10 DEF MigrationInv, AllKept
  <2>2. AtHome(Original, disk["db"], held)
    BY <1>5, <2>1, PairTypes DEF AtHome
  <2>3. CASE start = "clear"
    <3>1. Complete(Original, disk["migrating"]) /\ (suffix = "wal" => disk["replacing"]["main"] = NoFile)
      BY <1>10, <2>3 DEF MigrationInv, AllKept
    <3>2. CASE suffix = "main"
      BY <1>2, <1>5, <2>2, <2>3, <3>1, <3>2 DEF AllKept
    <3>3. CASE suffix = "wal"
      BY <1>2, <1>5, <2>2, <2>3, <3>1, <3>3 DEF AllKept
    <3> QED BY <1>4, <3>2, <3>3 DEF FileKinds
  <2>4. CASE start = "replaced"
    BY <1>2, <2>2, <2>4, KeptHome
  <2> QED BY <1>1, <2>3, <2>4
<1> QED BY <1>1, <1>3, <1>7, <1>9, <1>10 DEF MigrationInv

LEMMA OpenKeeps == ASSUME MigrationInv, Open PROVE MigrationInv'
<1>1. /\ start = "open" /\ backup' = backup /\ forms' = forms /\ starts' = starts /\ parted' = parted
      /\ suffix' = "main" /\ failures' \in 0 .. MaxFailures
  BY MigrationAssumption DEF Open, GoTo, Failure, MigrationInv, MigrationTyped
<1>2. \/ disk' = [disk EXCEPT !["db"] = Closed(Opened("db"))] /\ start' = "ready"
      \/ disk' = disk /\ start' = "off"
  BY DEF Open, GoTo
<1>3. Original' = Original
  BY <1>1, OriginalStays
<1>4. /\ disk \in [DbPlaces -> PairOf(Original)] /\ {"db", "replacing", "migrating"} \subseteq DbPlaces
      /\ disk["db"] \in PairOf(Original)
  BY MigrationPlaces DEF MigrationInv, MigrationTyped
<1> DEFINE c == Opened("db")
<1>5. c \in FileOf(Original) /\ Closed(c) \in PairOf(Original) /\ Closed(c)["main"] = c /\ Closed(c)["wal"] = NoFile
  BY <1>4, OpenedTyped, PairTypes
<1>6. disk' \in [DbPlaces -> PairOf(Original)] /\ disk'["replacing"] = disk["replacing"]
  BY <1>2, <1>4, <1>5
<1>7. MigrationTyped'
  BY <1>1, <1>2, <1>3, <1>6 DEF MigrationInv, MigrationTyped, InMove, BackupDone, FileKinds
<1>8. ASSUME ~parted
      PROVE  AllKept(start', "main", Original, disk'["db"], disk["replacing"], disk'["migrating"], (disk[backup])')
  <2>1. AtHome(Original, disk["db"], disk["replacing"]) \/ NoDatabase(Original, disk["db"], disk["replacing"])
    BY <1>1, <1>8 DEF MigrationInv, AllKept
  <2>2. CASE disk' = disk /\ start' = "off"
    BY <2>1, <2>2, KeptOff
  <2>3. CASE disk' = [disk EXCEPT !["db"] = Closed(c)] /\ start' = "ready"
    <3>1. disk'["db"] = Closed(c)
      BY <1>4, <2>3
    <3>2. AtHome(Original, Closed(c), disk["replacing"])
      <4>1. CASE AtHome(Original, disk["db"], disk["replacing"])
        <5>1. c.of = disk["db"]["main"].of /\ c.rows = RowsOf(disk["db"])
          BY <1>4, <4>1, OpenedTyped DEF AtHome
        <5> HIDE DEF c
        <5> QED BY <1>4, <1>5, <4>1, <5>1, HomeClosed
      <4>2. CASE NoDatabase(Original, disk["db"], disk["replacing"])
        <5>1. c.of = "blank" /\ c.rows = {}
          BY <1>4, <4>2, OpenedTyped DEF NoDatabase
        <5>2. c # NoFile /\ NoFile.rows = {}
          BY <5>1 DEF NoFile
        <5> HIDE DEF c
        <5> QED BY <1>5, <4>2, <5>1, <5>2 DEF AtHome, NoDatabase, RowsOf
      <4> QED BY <2>1, <4>1, <4>2
    <3> HIDE DEF c
    <3> QED BY <1>5, <2>3, <3>1, <3>2 DEF AllKept
  <2> QED BY <1>2, <2>2, <2>3
<1> QED BY <1>1, <1>3, <1>6, <1>7, <1>8 DEF MigrationInv

LEMMA StopProgramKeeps == ASSUME MigrationInv, StopProgram PROVE MigrationInv'
<1>1. /\ start = "ready" /\ start' = "off" /\ suffix' = "main" /\ disk' = disk
      /\ backup' = backup /\ forms' = forms /\ starts' = starts /\ failures' = failures /\ parted' = parted
  BY DEF StopProgram, GoTo, migrationPast
<1>2. Original' = Original
  BY <1>1, OriginalStays
<1>3. MigrationTyped'
  BY <1>1, <1>2 DEF MigrationInv, MigrationTyped, InMove, BackupDone, FileKinds
<1>4. ASSUME ~parted PROVE AllKept("off", "main", Original, disk["db"], disk["replacing"], disk["migrating"], disk[backup])
  BY <1>1, <1>4, KeptOff DEF MigrationInv, AllKept
<1> QED BY <1>1, <1>2, <1>3, <1>4 DEF MigrationInv

LEMMA CrashStartKeeps == ASSUME MigrationInv, CrashStart PROVE MigrationInv'
<1>1. /\ start \notin {"off", "ready"} /\ start' = "off" /\ suffix' = "main" /\ disk' = disk
      /\ backup' = backup /\ forms' = forms /\ starts' = starts /\ failures' \in 0 .. MaxFailures
      /\ parted' = (parted \/ Apart(disk))
  BY MigrationAssumption DEF CrashStart, GoTo, Failure, MigrationInv, MigrationTyped
<1>2. Original' = Original
  BY <1>1, OriginalStays
<1>3. MigrationTyped'
  BY <1>1, <1>2 DEF MigrationInv, MigrationTyped, InMove, BackupDone, FileKinds
<1>4. ASSUME ~parted'
      PROVE  AllKept("off", "main", Original, disk["db"], disk["replacing"], disk["migrating"], disk[backup])
  <2>1. ~parted /\ ~(disk["db"]["main"].of = "old" /\ disk["replacing"]["wal"].of = "old")
    BY <1>1, <1>4 DEF Apart
  <2>2. AllKept(start, suffix, Original, disk["db"], disk["replacing"], disk["migrating"], disk[backup])
        /\ suffix \in FileKinds
        /\ start \in {"off", "recovered", "validate", "backup", "target", "copy", "close", "clear", "replaced", "open", "ready"} \cup InMove
    BY <2>1 DEF MigrationInv, MigrationTyped
  <2>3. \/ AtHome(Original, disk["db"], disk["replacing"]) \/ Halfway(Original, disk["db"], disk["replacing"])
        \/ HeldAside(Original, disk["db"], disk["replacing"]) \/ NoDatabase(Original, disk["db"], disk["replacing"])
    BY <2>1, <2>2, CrashLeaves
  <2> QED BY <2>3, KeptOff
<1> QED BY <1>1, <1>2, <1>3, <1>4 DEF MigrationInv

-----------------------------------------------------------------------------
(* The moves.                                                              *)

LEMMA MovesWhere ==
  /\ DOMAIN Moves = InMove
  /\ start \in {"recover", "undo"} => MoveFrom = "replacing" /\ MoveTo = "db"
  /\ start = "aside" => MoveFrom = "db" /\ MoveTo = "replacing"
  /\ start = "place" => MoveFrom = "migrating" /\ MoveTo = "db"
BY DEF Moves, InMove, MoveFrom, MoveTo

\* A file is moved: it is in the other place, and everything else is where it was.
LEMMA FileMoved ==
  ASSUME NEW all, NEW d \in [DbPlaces -> PairOf(all)], NEW s \in FileKinds,
         NEW from \in DbPlaces, NEW to \in DbPlaces, from # to
  PROVE  /\ MovedFile(d, s, from, to) \in [DbPlaces -> PairOf(all)]
         /\ \A p \in DbPlaces, t \in FileKinds : MovedFile(d, s, from, to)[p][t] =
              IF t # s THEN d[p][t] ELSE IF p = from THEN NoFile ELSE IF p = to THEN d[from][s] ELSE d[p][t]
         /\ \A p \in DbPlaces \ {from, to} : MovedFile(d, s, from, to)[p] = d[p]
<1> DEFINE f == [d[from] EXCEPT ![s] = NoFile]
           g == [d[to] EXCEPT ![s] = d[from][s]]
<1>1. d[from] \in PairOf(all) /\ d[to] \in PairOf(all)
  OBVIOUS
<1>2. f \in PairOf(all) /\ g \in PairOf(all)
  BY <1>1, PairTypes DEF PairOf
<1>3. /\ \A t \in FileKinds : f[t] = IF t = s THEN NoFile ELSE d[from][t]
      /\ \A t \in FileKinds : g[t] = IF t = s THEN d[from][s] ELSE d[to][t]
  BY <1>1 DEF PairOf
<1>4. MovedFile(d, s, from, to) = [d EXCEPT ![from] = f, ![to] = g]
  BY DEF MovedFile
<1> HIDE DEF f, g
<1> QED BY <1>2, <1>3, <1>4

\* What is where, of the database, of what is held aside and of the migration target.
LEMMA FilesTyped ==
  ASSUME NEW all, NEW d \in [DbPlaces -> PairOf(all)], NEW p \in DbPlaces, NEW s \in FileKinds
  PROVE  d[p] \in PairOf(all) /\ d[p][s] \in FileOf(all) /\ d[p][s].rows \subseteq all
BY DEF PairOf, FileOf

\* What a move leaves when it is done, and when it failed.
AfterMain(at, all, db, held, target) ==
  /\ at \in {"recover", "undo"} => OnItsWayBack(all, db, held)
  /\ at = "aside" => held["wal"] = NoFile /\ Complete(all, target) /\ (Halfway(all, db, held) \/ HeldAside(all, db, held))
  /\ at = "place" => AtHome(all, db, held) /\ db["main"].of = "new" /\ target["wal"] = NoFile

LEMMA MainMoved ==
  ASSUME NEW all, NEW d \in [DbPlaces -> PairOf(all)], NEW e \in [DbPlaces -> PairOf(all)],
         NEW from \in {"db", "replacing", "migrating"}, NEW to \in {"db", "replacing"}, from # to,
         NEW at \in InMove, NEW copy,
         AllKept(at, "main", all, d["db"], d["replacing"], d["migrating"], copy),
         at \in {"recover", "undo"} => from = "replacing" /\ to = "db",
         at = "aside" => from = "db" /\ to = "replacing",
         at = "place" => from = "migrating" /\ to = "db",
         d[from]["main"] # NoFile, e = MovedFile(d, "main", from, to)
  PROVE  AfterMain(at, all, e["db"], e["replacing"], e["migrating"])
<1>1. {"db", "replacing", "migrating"} \subseteq DbPlaces /\ {"main", "wal"} = FileKinds
  BY PlacesDiffer DEF FileKinds
<1> DEFINE dm == d["db"]["main"]
           dw == d["db"]["wal"]
           hm == d["replacing"]["main"]
           hw == d["replacing"]["wal"]
           tm == d["migrating"]["main"]
           tw == d["migrating"]["wal"]
<1>2. \A f \in FileOf(all) : f.rows \subseteq all /\ f.of \in {"none", "old", "new", "blank"}
  BY DEF FileOf
<1>3. /\ dm \in FileOf(all) /\ dw \in FileOf(all) /\ hm \in FileOf(all) /\ hw \in FileOf(all)
      /\ tm \in FileOf(all) /\ tw \in FileOf(all)
  BY <1>1, FilesTyped
<1>4. NoFile.rows = {} /\ NoFile.of = "none"
  BY PairTypes
<1>5. \A p \in {"db", "replacing", "migrating"} :
        /\ e[p]["wal"] = d[p]["wal"]
        /\ e[p]["main"] = IF p = from THEN NoFile ELSE IF p = to THEN d[from]["main"] ELSE d[p]["main"]
  <2>1. from \in DbPlaces /\ to \in DbPlaces /\ "main" \in FileKinds /\ "wal" \in FileKinds /\ "main" # "wal"
    BY <1>1
  <2>2. \A p \in DbPlaces, t \in FileKinds : MovedFile(d, "main", from, to)[p][t] =
              IF t # "main" THEN d[p][t] ELSE IF p = from THEN NoFile ELSE IF p = to THEN d[from]["main"] ELSE d[p][t]
    BY <2>1, FileMoved
  <2> QED BY <1>1, <2>1, <2>2
<1>6. CASE at \in {"recover", "undo"}
  <2>1. /\ e["db"]["main"] = hm /\ e["db"]["wal"] = dw /\ e["replacing"]["main"] = NoFile /\ e["replacing"]["wal"] = hw
        /\ hm # NoFile
    BY <1>5, <1>6
  <2>2. Halfway(all, d["db"], d["replacing"]) \/ HeldAside(all, d["db"], d["replacing"])
    BY <1>6 DEF AllKept
  <2>3. CASE Halfway(all, d["db"], d["replacing"])
    BY <1>4, <1>6, <2>1, <2>3 DEF AfterMain, OnItsWayBack, AtHome, Halfway, RowsOf
  <2>4. CASE HeldAside(all, d["db"], d["replacing"]) /\ hw = NoFile
    BY <1>4, <1>6, <2>1, <2>4 DEF AfterMain, OnItsWayBack, AtHome, HeldAside, RowsOf
  <2>5. CASE HeldAside(all, d["db"], d["replacing"]) /\ hw # NoFile
    BY <1>4, <1>6, <2>1, <2>5 DEF AfterMain, OnItsWayBack, AtHome, HeldAside, RowsOf
  <2> QED BY <2>2, <2>3, <2>4, <2>5
<1>7. CASE at = "aside"
  <2>1. /\ e["db"]["main"] = NoFile /\ e["db"]["wal"] = dw /\ e["replacing"]["main"] = dm /\ e["replacing"]["wal"] = hw
        /\ e["migrating"]["main"] = tm /\ e["migrating"]["wal"] = tw
    BY <1>5, <1>7
  <2>2. AtHome(all, d["db"], d["replacing"]) /\ hw = NoFile /\ Complete(all, d["migrating"])
    BY <1>7 DEF AllKept
  <2>3. Complete(all, e["migrating"])
    BY <2>1, <2>2 DEF Complete, Copied, RowsOf
  <2>4. CASE dw = NoFile
    BY <1>4, <1>7, <2>1, <2>2, <2>3, <2>4 DEF AfterMain, AtHome, HeldAside, RowsOf
  <2>5. CASE dw # NoFile
    BY <1>4, <1>7, <2>1, <2>2, <2>3, <2>5 DEF AfterMain, AtHome, Halfway, RowsOf
  <2> QED BY <2>4, <2>5
<1>8. CASE at = "place"
  <2>1. /\ e["db"]["main"] = tm /\ e["db"]["wal"] = dw /\ e["replacing"]["main"] = hm /\ e["replacing"]["wal"] = hw
        /\ e["migrating"]["main"] = NoFile /\ e["migrating"]["wal"] = tw
    BY <1>5, <1>8
  <2>2. HeldAside(all, d["db"], d["replacing"]) /\ Complete(all, d["migrating"])
    BY <1>8 DEF AllKept
  <2> QED BY <1>4, <1>8, <2>1, <2>2 DEF AfterMain, AtHome, HeldAside, Complete, Copied, RowsOf
<1> QED BY <1>6, <1>7, <1>8 DEF InMove

\* What the log's move leaves.
LEMMA LogMoved ==
  ASSUME NEW all, NEW d \in [DbPlaces -> PairOf(all)], NEW e \in [DbPlaces -> PairOf(all)],
         NEW from \in {"db", "replacing", "migrating"}, NEW to \in {"db", "replacing"}, from # to,
         NEW at \in InMove, NEW copy,
         AllKept(at, "wal", all, d["db"], d["replacing"], d["migrating"], copy),
         at \in {"recover", "undo"} => from = "replacing" /\ to = "db",
         at = "aside" => from = "db" /\ to = "replacing",
         at = "place" => from = "migrating" /\ to = "db",
         e = IF d[from]["wal"] # NoFile THEN MovedFile(d, "wal", from, to) ELSE d
  PROVE  /\ at \in {"recover", "undo", "place"} => AtHome(all, e["db"], e["replacing"])
         /\ at = "aside" => HeldAside(all, e["db"], e["replacing"]) /\ Complete(all, e["migrating"])
<1>1. {"db", "replacing", "migrating"} \subseteq DbPlaces /\ {"main", "wal"} = FileKinds
  BY PlacesDiffer DEF FileKinds
<1> DEFINE dm == d["db"]["main"]
           dw == d["db"]["wal"]
           hm == d["replacing"]["main"]
           hw == d["replacing"]["wal"]
           tm == d["migrating"]["main"]
           tw == d["migrating"]["wal"]
<1>4. NoFile.rows = {} /\ NoFile.of = "none"
  BY PairTypes
<1>5. d[from]["wal"] # NoFile =>
        \A p \in {"db", "replacing", "migrating"} :
        /\ e[p]["main"] = d[p]["main"]
        /\ e[p]["wal"] = IF p = from THEN NoFile ELSE IF p = to THEN d[from]["wal"] ELSE d[p]["wal"]
  <2>1. from \in DbPlaces /\ to \in DbPlaces /\ "main" \in FileKinds /\ "wal" \in FileKinds /\ "main" # "wal"
    BY <1>1
  <2>2. \A p \in DbPlaces, t \in FileKinds : MovedFile(d, "wal", from, to)[p][t] =
              IF t # "wal" THEN d[p][t] ELSE IF p = from THEN NoFile ELSE IF p = to THEN d[from]["wal"] ELSE d[p][t]
    BY <2>1, FileMoved
  <2> QED BY <1>1, <2>1, <2>2
<1>6. CASE at \in {"recover", "undo"}
  <2>1. OnItsWayBack(all, d["db"], d["replacing"])
    BY <1>6 DEF AllKept
  <2>2. CASE hw = NoFile
    BY <1>4, <1>6, <2>1, <2>2 DEF OnItsWayBack
  <2>3. CASE hw # NoFile
    <3>1. /\ e["db"]["main"] = dm /\ e["db"]["wal"] = hw /\ e["replacing"]["main"] = hm /\ e["replacing"]["wal"] = NoFile
      BY <1>5, <1>6, <2>3
    <3> QED BY <1>4, <1>6, <2>1, <2>3, <3>1 DEF OnItsWayBack, AtHome, RowsOf
  <2> QED BY <2>2, <2>3
<1>7. CASE at = "aside"
  <2>1. hw = NoFile /\ Complete(all, d["migrating"]) /\ (Halfway(all, d["db"], d["replacing"]) \/ HeldAside(all, d["db"], d["replacing"]))
    BY <1>7 DEF AllKept
  <2>2. CASE dw = NoFile
    BY <1>4, <1>7, <2>1, <2>2 DEF Halfway
  <2>3. CASE dw # NoFile
    <3>1. /\ e["db"]["main"] = dm /\ e["db"]["wal"] = NoFile /\ e["replacing"]["main"] = hm /\ e["replacing"]["wal"] = dw
          /\ e["migrating"]["main"] = tm /\ e["migrating"]["wal"] = tw
      BY <1>5, <1>7, <2>3
    <3>2. Halfway(all, d["db"], d["replacing"])
      BY <2>1, <2>3 DEF HeldAside
    <3>3. HeldAside(all, e["db"], e["replacing"])
      BY <1>4, <3>1, <3>2 DEF HeldAside, Halfway, RowsOf
    <3>4. Complete(all, e["migrating"])
      BY <2>1, <3>1 DEF Complete, Copied, RowsOf
    <3> QED BY <1>7, <3>3, <3>4
  <2> QED BY <2>2, <2>3
<1>8. CASE at = "place"
  BY <1>8 DEF AllKept
<1> QED BY <1>6, <1>7, <1>8 DEF InMove

\* What a move that failed leaves, when the main file is where it was or is moved back.
LEMMA MoveGivenUp ==
  ASSUME NEW all, NEW d \in [DbPlaces -> PairOf(all)], NEW e \in [DbPlaces -> PairOf(all)], NEW s \in FileKinds,
         NEW from \in {"db", "replacing", "migrating"}, NEW to \in {"db", "replacing"}, from # to,
         NEW at \in InMove, NEW copy,
         AllKept(at, s, all, d["db"], d["replacing"], d["migrating"], copy),
         at \in {"recover", "undo"} => from = "replacing" /\ to = "db",
         at = "aside" => from = "db" /\ to = "replacing",
         at = "place" => from = "migrating" /\ to = "db",
         d[from][s] # NoFile,
         e \in {d} \cup IF s = "wal" THEN {MovedFile(d, "main", to, from)} ELSE {}
  PROVE  /\ at = "place" => s = "main" /\ e = d /\ HeldAside(all, e["db"], e["replacing"])
         /\ at # "place" =>
              \/ AtHome(all, e["db"], e["replacing"]) \/ Halfway(all, e["db"], e["replacing"])
              \/ HeldAside(all, e["db"], e["replacing"]) \/ Apart(e)
<1>1. {"db", "replacing", "migrating"} \subseteq DbPlaces /\ {"main", "wal"} = FileKinds
  BY PlacesDiffer DEF FileKinds
<1> DEFINE dm == d["db"]["main"]
           dw == d["db"]["wal"]
           hm == d["replacing"]["main"]
           hw == d["replacing"]["wal"]
<1>4. NoFile.rows = {} /\ NoFile.of = "none"
  BY PairTypes
<1>5. e # d =>
        /\ s = "wal"
        /\ \A p \in {"db", "replacing", "migrating"} :
             /\ e[p]["wal"] = d[p]["wal"]
             /\ e[p]["main"] = IF p = to THEN NoFile ELSE IF p = from THEN d[to]["main"] ELSE d[p]["main"]
  <2>1. SUFFICES ASSUME e # d PROVE s = "wal" /\ \A p \in {"db", "replacing", "migrating"} :
             /\ e[p]["wal"] = d[p]["wal"]
             /\ e[p]["main"] = IF p = to THEN NoFile ELSE IF p = from THEN d[to]["main"] ELSE d[p]["main"]
    OBVIOUS
  <2>2. s = "wal" /\ e = MovedFile(d, "main", to, from)
    BY <2>1
  <2> QED BY <1>1, <2>2, FileMoved
<1>6. CASE at = "place"
  <2>1. s = "main"
    BY <1>1, <1>6 DEF AllKept
  <2> QED BY <1>6, <2>1 DEF AllKept
<1>7. CASE at = "aside"
  <2>1. CASE s = "main"
    BY <1>5, <1>7, <2>1 DEF AllKept
  <2>2. CASE s = "wal"
    <3>1. dw # NoFile /\ hw = NoFile /\ Halfway(all, d["db"], d["replacing"])
      BY <1>7, <2>2 DEF AllKept, HeldAside
    <3>2. CASE e = d
      BY <1>7, <3>1, <3>2
    <3>3. CASE e # d
      <4>1. /\ e["db"]["main"] = hm /\ e["db"]["wal"] = dw /\ e["replacing"]["main"] = NoFile /\ e["replacing"]["wal"] = hw
        BY <1>5, <1>7, <3>3
      <4>2. AtHome(all, e["db"], e["replacing"])
        BY <1>4, <3>1, <4>1 DEF AtHome, Halfway, RowsOf
      <4> QED BY <1>7, <4>2
    <3> QED BY <3>2, <3>3
  <2> QED BY <1>1, <2>1, <2>2
<1>8. CASE at \in {"recover", "undo"}
  <2>1. CASE s = "main"
    BY <1>5, <1>8, <2>1 DEF AllKept
  <2>2. CASE s = "wal"
    <3>1. /\ dm.of = "old" /\ hw.of = "old" /\ dw = NoFile /\ hm = NoFile
          /\ dm.rows \cup hw.rows = all
      BY <1>8, <2>2 DEF AllKept, OnItsWayBack
    <3>2. CASE e = d
      BY <1>8, <3>1, <3>2 DEF Apart
    <3>3. CASE e # d
      <4>1. /\ e["db"]["main"] = NoFile /\ e["db"]["wal"] = dw /\ e["replacing"]["main"] = dm /\ e["replacing"]["wal"] = hw
        BY <1>5, <1>8, <3>3
      <4>2. HeldAside(all, e["db"], e["replacing"])
        BY <1>4, <3>1, <4>1 DEF HeldAside, RowsOf
      <4> QED BY <1>8, <4>2
    <3> QED BY <3>2, <3>3
  <2> QED BY <1>1, <2>1, <2>2
<1> QED BY <1>6, <1>7, <1>8 DEF InMove

LEMMA MoveFilesKeeps == ASSUME MigrationInv, MoveSQLiteFiles PROVE MigrationInv'
<1> DEFINE from == MoveFrom
           to == MoveTo
           e == IF There(from, "wal") THEN MovedFile(disk, "wal", from, to) ELSE disk
<1>1. /\ start \in InMove /\ backup' = backup /\ forms' = forms /\ starts' = starts
      /\ suffix \in FileKinds /\ FileKinds = {"main", "wal"}
      /\ disk \in [DbPlaces -> PairOf(Original)] /\ {"db", "replacing", "migrating", backup} \subseteq DbPlaces
      /\ start # "recover" => backup \notin {"db", "replacing", "migrating"}
  BY MigrationPlaces, MovesWhere DEF MoveSQLiteFiles, MigrationInv, MigrationTyped, FileKinds, BackupDone, InMove
<1>2. Original' = Original
  BY <1>1, OriginalStays
<1>3. /\ start \in {"recover", "undo"} => from = "replacing" /\ to = "db"
      /\ start = "aside" => from = "db" /\ to = "replacing"
      /\ start = "place" => from = "migrating" /\ to = "db"
  BY MovesWhere
<1> HIDE DEF from, to
<1>4. from \in {"db", "replacing", "migrating"} /\ to \in {"db", "replacing"} /\ from # to
      /\ from \in DbPlaces /\ to \in DbPlaces
  BY <1>1, <1>3 DEF InMove
<1>5. \A s \in FileKinds : /\ MovedFile(disk, s, from, to) \in [DbPlaces -> PairOf(Original)]
                           /\ MovedFile(disk, s, to, from) \in [DbPlaces -> PairOf(Original)]
  BY <1>1, <1>4, FileMoved
<1>6. ASSUME ~parted PROVE AllKept(start, suffix, Original, disk["db"], disk["replacing"], disk["migrating"], disk[backup])
  BY <1>6 DEF MigrationInv
<1>7. CASE /\ suffix = "main" /\ There(from, "main") /\ disk' = MovedFile(disk, "main", from, to)
           /\ suffix' = "wal" /\ UNCHANGED <<start, failures, parted>>
  <2>1. disk' \in [DbPlaces -> PairOf(Original)]
    BY <1>1, <1>5, <1>7
  <2>2. MigrationTyped'
    BY <1>1, <1>2, <1>7, <2>1 DEF MigrationInv, MigrationTyped, FileKinds, InMove, BackupDone
  <2>3. ASSUME ~parted
        PROVE  AllKept(start, "wal", Original, disk'["db"], disk'["replacing"], disk'["migrating"], (disk[backup])')
    <3>1. AfterMain(start, Original, disk'["db"], disk'["replacing"], disk'["migrating"])
      <4>1. AllKept(start, "main", Original, disk["db"], disk["replacing"], disk["migrating"], disk[backup])
        BY <1>6, <1>7, <2>3
      <4>2. disk[from]["main"] # NoFile
        BY <1>7 DEF There
      <4> QED BY <1>1, <1>3, <1>4, <1>7, <2>1, <4>1, <4>2, MainMoved
    <3> QED BY <1>1, <3>1 DEF AllKept, AfterMain, InMove
  <2> QED BY <1>2, <1>7, <2>2, <2>3 DEF MigrationInv
<1>8. CASE suffix = "wal" /\ failures' = failures /\ AfterMove(e)
  <2>1. e \in [DbPlaces -> PairOf(Original)] /\ e = IF disk[from]["wal"] # NoFile THEN MovedFile(disk, "wal", from, to) ELSE disk
    BY <1>1, <1>5 DEF There
  <2> HIDE DEF e
  <2>2. ASSUME ~parted
        PROVE  /\ start \in {"recover", "undo", "place"} => AtHome(Original, e["db"], e["replacing"])
               /\ start = "aside" => HeldAside(Original, e["db"], e["replacing"]) /\ Complete(Original, e["migrating"])
    <3>1. AllKept(start, "wal", Original, disk["db"], disk["replacing"], disk["migrating"], disk[backup])
      BY <1>6, <1>8, <2>2
    <3> QED BY <1>1, <1>3, <1>4, <2>1, <3>1, LogMoved
  <2>3. CASE start = "undo"
    <3>1. disk' = [e EXCEPT ![backup] = NoFiles] /\ start' = "off" /\ suffix' = "main" /\ parted' = (parted \/ Apart(e))
      BY <1>8, <2>3 DEF AfterMove, Unreplaced, GoTo
    <3>2. disk' \in [DbPlaces -> PairOf(Original)] /\ disk'["db"] = e["db"] /\ disk'["replacing"] = e["replacing"]
      BY <1>1, <2>1, <2>3, <3>1, PairTypes
    <3>3. MigrationTyped'
      BY <1>1, <1>2, <1>8, <3>1, <3>2 DEF MigrationInv, MigrationTyped, FileKinds, InMove, BackupDone
    <3>4. ASSUME ~parted PROVE AllKept("off", "main", Original, disk'["db"], disk'["replacing"], disk'["migrating"], (disk[backup])')
      BY <2>2, <2>3, <3>2, <3>4, KeptOff
    <3> QED BY <1>2, <3>1, <3>3, <3>4 DEF MigrationInv
  <2>4. CASE start # "undo"
    <3>1. /\ disk' = e /\ suffix' = "main" /\ parted' = parted
          /\ start' = [recover |-> "recovered", aside |-> "place", place |-> "replaced"][start]
      BY <1>8, <2>4 DEF AfterMove, GoTo
    <3>2. /\ start = "recover" => start' = "recovered"
          /\ start = "aside" => start' = "place"
          /\ start = "place" => start' = "replaced"
      BY <3>1
    <3>3. start \in {"recover", "aside", "place"}
      BY <1>1, <2>4 DEF InMove
    <3>4. MigrationTyped'
      BY <1>1, <1>2, <1>8, <2>1, <3>1, <3>2, <3>3 DEF MigrationInv, MigrationTyped, FileKinds, InMove, BackupDone
    <3>5. ASSUME ~parted PROVE AllKept(start', "main", Original, e["db"], e["replacing"], e["migrating"], (disk[backup])')
      <4>1. CASE start \in {"recover", "place"}
        BY <2>2, <3>2, <3>5, <4>1, KeptHome DEF AllKept
      <4>2. CASE start = "aside"
        BY <2>2, <3>2, <3>5, <4>2 DEF AllKept
      <4> QED BY <3>3, <4>1, <4>2
    <3> QED BY <1>2, <3>1, <3>4, <3>5 DEF MigrationInv
  <2> QED BY <2>3, <2>4
<1>9. CASE /\ There(from, suffix) /\ Failure
           /\ \E back \in {disk} \cup IF suffix = "wal" THEN {MovedFile(disk, "main", to, from)} ELSE {} : MoveFailed(back)
  <2>1. PICK back \in {disk} \cup IF suffix = "wal" THEN {MovedFile(disk, "main", to, from)} ELSE {} : MoveFailed(back)
    BY <1>9
  <2>2. back \in [DbPlaces -> PairOf(Original)] /\ disk[from][suffix] # NoFile
    BY <1>1, <1>5, <1>9, <2>1 DEF There
  <2>3. failures' \in 0 .. MaxFailures
    BY <1>9, MigrationAssumption DEF Failure, MigrationInv, MigrationTyped
  <2>4. ASSUME ~parted
        PROVE  /\ start = "place" => suffix = "main" /\ back = disk /\ HeldAside(Original, back["db"], back["replacing"])
               /\ start # "place" =>
                    \/ AtHome(Original, back["db"], back["replacing"]) \/ Halfway(Original, back["db"], back["replacing"])
                    \/ HeldAside(Original, back["db"], back["replacing"]) \/ Apart(back)
    <3>1. AllKept(start, suffix, Original, disk["db"], disk["replacing"], disk["migrating"], disk[backup])
      BY <1>6, <2>4
    <3> QED BY <1>1, <1>3, <1>4, <2>1, <2>2, <3>1, MoveGivenUp
  <2>5. CASE start = "place"
    <3>1. disk' = back /\ start' = "undo" /\ suffix' = "main" /\ parted' = parted
      BY <2>1, <2>5 DEF MoveFailed, GoTo
    <3>2. MigrationTyped'
      BY <1>1, <1>2, <2>2, <2>3, <2>5, <3>1 DEF MigrationInv, MigrationTyped, FileKinds, InMove, BackupDone
    <3>3. ASSUME ~parted PROVE AllKept("undo", "main", Original, back["db"], back["replacing"], back["migrating"], (disk[backup])')
      BY <2>4, <2>5, <3>3 DEF AllKept
    <3> QED BY <1>2, <3>1, <3>2, <3>3 DEF MigrationInv
  <2>6. CASE start # "place"
    <3>1. /\ disk' = [back EXCEPT ![backup] = IF start = "recover" THEN @ ELSE NoFiles]
          /\ start' = "off" /\ suffix' = "main" /\ parted' = (parted \/ Apart(back))
      BY <2>1, <2>6 DEF MoveFailed, Unreplaced, GoTo
    <3>2. disk' \in [DbPlaces -> PairOf(Original)] /\ disk'["db"] = back["db"] /\ disk'["replacing"] = back["replacing"]
      <4>1. CASE start = "recover"
        BY <1>1, <2>2, <3>1, <4>1
      <4>2. CASE start # "recover"
        BY <1>1, <2>2, <3>1, <4>2, PairTypes
      <4> QED BY <4>1, <4>2
    <3>3. MigrationTyped'
      BY <1>1, <1>2, <2>3, <3>1, <3>2 DEF MigrationInv, MigrationTyped, FileKinds, InMove, BackupDone
    <3>4. ASSUME ~parted'
          PROVE  AllKept("off", "main", Original, disk'["db"], disk'["replacing"], disk'["migrating"], (disk[backup])')
      <4>1. ~parted /\ ~Apart(back)
        BY <3>1, <3>4
      <4>2. \/ AtHome(Original, back["db"], back["replacing"]) \/ Halfway(Original, back["db"], back["replacing"])
            \/ HeldAside(Original, back["db"], back["replacing"])
        BY <2>4, <2>6, <4>1
      <4> QED BY <3>2, <4>2, KeptOff
    <3> QED BY <1>2, <3>1, <3>3, <3>4 DEF MigrationInv
  <2> QED BY <2>5, <2>6
<1> QED BY <1>7, <1>8, <1>9 DEF MoveSQLiteFiles, from, to

LEMMA MigrationStep == MigrationInv /\ [MigrationNext]_migrationVars => MigrationInv'
<1> SUFFICES ASSUME MigrationInv, [MigrationNext]_migrationVars PROVE MigrationInv'
  OBVIOUS
<1>1. CASE UNCHANGED migrationVars
  <2>1. /\ disk' = disk /\ forms' = forms /\ start' = start /\ backup' = backup /\ suffix' = suffix
        /\ starts' = starts /\ failures' = failures /\ parted' = parted
    BY <1>1 DEF migrationVars, migrationPast
  <2>2. Original' = Original
    BY <2>1, OriginalStays
  <2>3. MigrationTyped'
    BY <2>1, <2>2 DEF MigrationInv, MigrationTyped
  <2> QED BY <2>1, <2>2, <2>3 DEF MigrationInv
<1> QED BY <1>1, RecoverKeeps, RecoveredKeeps, MigrateKeeps, BackupKeeps, CreateTargetKeeps, CopyDataKeeps, CloseTargetKeeps,
     RemoveKeeps, MoveFilesKeeps, OpenKeeps, StopProgramKeeps, CrashStartKeeps DEF MigrationNext

\* Where all rows are, at every point of every start (SchemaMigration's MigrationInv, above).
THEOREM MigrationInvariant == MigrationSpec => []MigrationInv
<1> QED BY MigrationBegins, MigrationStep, PTL DEF MigrationSpec

LEMMA MigrationInvMeans == MigrationInv => MigrationTypeOK /\ DatabaseKept
<1> SUFFICES ASSUME MigrationInv PROVE MigrationTypeOK /\ DatabaseKept
  OBVIOUS
<1>1. /\ disk \in [DbPlaces -> PairOf(Original)] /\ Original \subseteq Rows
      /\ {"db", "replacing"} \subseteq DbPlaces /\ FileKinds = {"main", "wal"}
  BY MigrationPlaces DEF MigrationInv, MigrationTyped, FileKinds
<1>2. MigrationTypeOK
  <2>1. FileOf(Original) \subseteq [of : {"none", "old", "new", "blank"}, rows : SUBSET Rows]
    BY <1>1 DEF FileOf
  <2>2. PairOf(Original) \subseteq [FileKinds -> [of : {"none", "old", "new", "blank"}, rows : SUBSET Rows]]
    BY <2>1 DEF PairOf
  <2>3. disk \in [DbPlaces -> [FileKinds -> [of : {"none", "old", "new", "blank"}, rows : SUBSET Rows]]]
    BY <1>1, <2>2
  <2> QED BY <2>3, MovesWhere DEF MigrationInv, MigrationTyped, MigrationTypeOK
<1>3. ASSUME ~parted PROVE DatabaseKept
  <2> DEFINE db == disk["db"]
             held == disk["replacing"]
  <2>1. /\ db \in PairOf(Original) /\ db["main"] \in FileOf(Original) /\ db["wal"] \in FileOf(Original)
        /\ held["main"] \in FileOf(Original) /\ held["wal"] \in FileOf(Original)
    BY <1>1, FilesTyped
  <2>2. AllKept(start, suffix, Original, db, held, disk["migrating"], disk[backup]) /\ suffix \in FileKinds
    BY <1>3 DEF MigrationInv, MigrationTyped
  <2>3. start = "ready" => db["main"].rows = Original
    BY <2>2, PairTypes DEF AllKept, AtHome, RowsOf
  <2>4. start \in {"validate", "open"} /\ There("db", "main") /\ There("db", "wal") => db["main"].of = db["wal"].of
    BY <2>2 DEF AllKept, AtHome, NoDatabase, There
  <2>5. AtHome(Original, db, held) \/ Halfway(Original, db, held) \/ HeldAside(Original, db, held)
        \/ NoDatabase(Original, db, held) \/ OnItsWayBack(Original, db, held)
    BY <2>2 DEF AllKept, MigrationInv, MigrationTyped, InMove, FileKinds
  <2>6. Original \subseteq db["main"].rows \cup db["wal"].rows \cup held["main"].rows \cup held["wal"].rows
    BY <2>5 DEF AtHome, Halfway, HeldAside, NoDatabase, OnItsWayBack, RowsOf
  <2>7. Original \subseteq UNION {disk[p][s].rows : p \in {"db", "replacing"}, s \in FileKinds}
    BY <1>1, <2>6
  <2> QED BY <2>3, <2>4, <2>7 DEF DatabaseKept
<1> QED BY <1>2, <1>3 DEF DatabaseKept

\* The types of the variables of SchemaMigration.
THEOREM MigrationTypeCorrect == MigrationSpec => []MigrationTypeOK
<1> QED BY MigrationInvariant, MigrationInvMeans, PTL

\* Whatever fails and wherever a start crashes, the rows of the database are all somewhere, and the
\* program runs with all of them; unless the original was moved back without its log.
THEOREM DatabaseIsKept == MigrationSpec => []DatabaseKept
<1> QED BY MigrationInvariant, MigrationInvMeans, PTL

-----------------------------------------------------------------------------
(* The console log: types, and who is where.                               *)

ViewerRec ==
  [at : {"none", "open", "leaving", "closing", "gone"}, ch : Seq(Nat), closed : BOOLEAN,
   got : Seq(Nat), from : Nat]

AdderRec == [at : {"off", "read", "add", "send"}, line : Nat, todo : SUBSET Viewers, over : SUBSET Viewers]

StopperRec == [at : {"none", "close", "wait", "done"}, todo : SUBSET Viewers]

LogTyped ==
  /\ ring \in [lines : [0 .. (RingLimit - 1) -> Nat], start : 0 .. (RingLimit - 1),
               count : 0 .. RingLimit, closed : BOOLEAN]
  /\ viewerSet \in SUBSET Viewers
  /\ viewer \in [Viewers -> ViewerRec]
  /\ \A v \in Viewers : Len(viewer[v].ch) <= ViewerBuffer
  /\ adder \in [Outputs -> AdderRec]
  /\ pipes \in [Outputs -> Seq(Nat)]
  /\ capture \in [lock : {Free, "starter", "stopper"}, active : BOOLEAN, reading : BOOLEAN]
  /\ starting \in {"none", "install", "done"}
  /\ stopper \in [Stoppers -> StopperRec]
  /\ printed \in Nat /\ stored \in Seq(Nat)

\* Who holds captureMu, and what has been captured before the capture was installed: nothing.
CapturePlaced ==
  /\ capture.lock = "starter" <=> starting = "install"
  /\ \A s \in Stoppers : stopper[s].at = "wait" => capture.lock = "stopper"
  /\ \A s, t \in Stoppers : stopper[s].at = "wait" /\ stopper[t].at = "wait" => s = t
  /\ starting # "done" => ~capture.active /\ ~capture.reading /\ \A o \in Outputs : adder[o].at = "off"
  /\ capture.reading => capture.active

\* A Close that is under way has closed the hub; after it, nothing can be captured any more.
StoppersPlaced ==
  /\ \A s \in Stoppers : stopper[s].at \in {"none", "wait"} => stopper[s].todo = {}
  /\ \A s \in ClosingCalls :
       /\ stopper[s].at # "none" => ring.closed
       /\ stopper[s].at = "done" => ~capture.active /\ starting # "install"

\* Subscribers: one that came has a place where it will be closed.
ViewersPlaced ==
  /\ ring.closed => viewerSet = {}
  /\ \A v \in Viewers :
       viewer[v].at = "none" =>
         /\ viewer[v] = Absent /\ v \notin viewerSet
         /\ \A o \in Outputs : v \notin adder[o].todo \cup adder[o].over
         /\ \A s \in Stoppers : v \notin stopper[s].todo
  /\ \A o \in Outputs : \A v \in adder[o].over : viewer[v].closed
  /\ \A v \in Viewers : viewer[v].at = "open" /\ ~viewer[v].closed =>
       v \in viewerSet \/ \E s \in ClosingCalls : v \in stopper[s].todo

-----------------------------------------------------------------------------
(* The lines under way.                                                    *)

LinesOf(q)  == {q[i] : i \in DOMAIN q}
AllDiffer(q) == \A i, j \in DOMAIN q : q[i] = q[j] => i = j

\* Printed lines that are not stored yet: in output o's pipe, or in its goroutine's hand.
InHandOf(o) == IF adder[o].at = "add" THEN {adder[o].line} ELSE {}
Unstored(o) == LinesOf(pipes[o]) \cup InHandOf(o)

LinesPlaced ==
  /\ AllDiffer(stored) /\ LinesOf(stored) \subseteq 1 .. printed
  /\ \A o \in Outputs :
       /\ adder[o].at # "send" => adder[o].todo = {}
       /\ adder[o].at = "send" => adder[o].line \in LinesOf(stored)
       /\ AllDiffer(pipes[o]) /\ LinesOf(pipes[o]) \cap InHandOf(o) = {}
       /\ Unstored(o) \subseteq 1 .. printed /\ Unstored(o) \cap LinesOf(stored) = {}
  /\ \A o, p \in Outputs :
       o # p => /\ Unstored(o) \cap Unstored(p) = {}
                /\ adder[o].at = "send" /\ adder[p].at = "send" => adder[o].line # adder[p].line

Due(v)  == LinesOf(SubSeq(stored, viewer[v].from + 1, Len(stored)))
Have(v) == viewer[v].got \o viewer[v].ch

StreamWhole(v) ==
  /\ AllDiffer(Have(v)) /\ viewer[v].from <= Len(stored)
  /\ viewer[v].at # "none" =>
       LinesOf(Have(v)) \cup OnTheWay(v) \subseteq Due(v) /\ LinesOf(Have(v)) \cap OnTheWay(v) = {}
  /\ viewer[v].at = "open" /\ ~viewer[v].closed => Due(v) = LinesOf(Have(v)) \cup OnTheWay(v)

StreamsWhole == \A v \in Viewers : StreamWhole(v)

\* Index a from the start of the ring, and how often it has gone round.
RingSlot(a) == a % RingLimit

RingHolds(r, st) ==
  /\ r.count = IF Len(st) < RingLimit THEN Len(st) ELSE RingLimit
  /\ r.count < RingLimit => r.start = 0
  /\ \A i \in 1 .. r.count : r.lines[RingSlot(r.start + i - 1)] = st[Len(st) - r.count + i]

LogInv ==
  /\ LogTyped /\ CapturePlaced /\ StoppersPlaced /\ ViewersPlaced
  /\ LinesPlaced /\ StreamsWhole /\ RingHolds(ring, stored)

-----------------------------------------------------------------------------
(* Sequences of lines, and the ring.                                       *)

LEMMA LinesAppended ==
  ASSUME NEW q \in Seq(Nat), NEW e \in Nat
  PROVE  /\ Append(q, e) \in Seq(Nat) /\ Len(Append(q, e)) = Len(q) + 1
         /\ LinesOf(Append(q, e)) = LinesOf(q) \cup {e}
         /\ AllDiffer(q) /\ e \notin LinesOf(q) => AllDiffer(Append(q, e))
<1>1. /\ Append(q, e) \in Seq(Nat) /\ Len(Append(q, e)) = Len(q) + 1 /\ Len(q) \in Nat
      /\ \A i \in 1 .. Len(q) : Append(q, e)[i] = q[i]
      /\ Append(q, e)[Len(q) + 1] = e
  OBVIOUS
<1>2. DOMAIN Append(q, e) = (1 .. Len(q)) \cup {Len(q) + 1} /\ DOMAIN q = 1 .. Len(q)
  BY <1>1
<1>3. LinesOf(Append(q, e)) = LinesOf(q) \cup {e}
  BY <1>1, <1>2 DEF LinesOf
<1>4. AllDiffer(q) /\ e \notin LinesOf(q) => AllDiffer(Append(q, e))
  BY <1>1, <1>2 DEF LinesOf, AllDiffer
<1> QED BY <1>1, <1>3, <1>4

LEMMA LinesTaken ==
  ASSUME NEW q \in Seq(Nat), q # << >>
  PROVE  /\ Tail(q) \in Seq(Nat) /\ Head(q) \in Nat /\ Len(Tail(q)) <= Len(q)
         /\ LinesOf(q) = LinesOf(Tail(q)) \cup {Head(q)}
         /\ AllDiffer(q) => AllDiffer(Tail(q)) /\ Head(q) \notin LinesOf(Tail(q))
<1>1. /\ Tail(q) \in Seq(Nat) /\ Len(Tail(q)) = Len(q) - 1 /\ Len(q) \in Nat /\ Len(q) > 0
      /\ \A i \in 1 .. (Len(q) - 1) : Tail(q)[i] = q[i + 1]
      /\ Head(q) = q[1] /\ q[1] \in Nat
  OBVIOUS
<1>2. DOMAIN Tail(q) = 1 .. (Len(q) - 1) /\ DOMAIN q = 1 .. Len(q)
  BY <1>1
<1>3. LinesOf(q) = LinesOf(Tail(q)) \cup {Head(q)}
  <2>1. ASSUME NEW i \in 1 .. Len(q) PROVE q[i] \in LinesOf(Tail(q)) \cup {Head(q)}
    <3>1. CASE i = 1
      BY <1>1, <3>1
    <3>2. CASE i # 1
      <4>1. i - 1 \in 1 .. (Len(q) - 1) /\ Tail(q)[i - 1] = q[i]
        BY <1>1, <3>2
      <4> QED BY <1>2, <4>1 DEF LinesOf
    <3> QED BY <3>1, <3>2
  <2>2. ASSUME NEW i \in 1 .. (Len(q) - 1) PROVE Tail(q)[i] \in LinesOf(q)
    <3>1. i + 1 \in 1 .. Len(q) /\ Tail(q)[i] = q[i + 1]
      BY <1>1
    <3> QED BY <1>2, <3>1 DEF LinesOf
  <2>3. Head(q) \in LinesOf(q)
    BY <1>1, <1>2 DEF LinesOf
  <2> QED BY <1>2, <2>1, <2>2, <2>3 DEF LinesOf
<1>4. ASSUME AllDiffer(q) PROVE AllDiffer(Tail(q)) /\ Head(q) \notin LinesOf(Tail(q))
  <2>1. \A i, j \in 1 .. Len(q) : q[i] = q[j] => i = j
    BY <1>2, <1>4 DEF AllDiffer
  <2>2. ASSUME NEW i \in 1 .. (Len(q) - 1), NEW j \in 1 .. (Len(q) - 1), Tail(q)[i] = Tail(q)[j]
        PROVE  i = j
    <3>1. i + 1 \in 1 .. Len(q) /\ j + 1 \in 1 .. Len(q) /\ q[i + 1] = q[j + 1]
      BY <1>1, <2>2
    <3> QED BY <2>1, <3>1
  <2>3. ASSUME NEW i \in 1 .. (Len(q) - 1) PROVE Tail(q)[i] # Head(q)
    <3>1. i + 1 \in 1 .. Len(q) /\ 1 \in 1 .. Len(q) /\ i + 1 # 1 /\ Tail(q)[i] = q[i + 1]
      BY <1>1
    <3> QED BY <1>1, <2>1, <3>1
  <2> QED BY <1>2, <2>2, <2>3 DEF LinesOf, AllDiffer
<1> QED BY <1>1, <1>3, <1>4

\* A line that goes from a channel to its reader, and one that is sent.
LEMMA HaveKept ==
  ASSUME NEW g \in Seq(Nat), NEW c \in Seq(Nat), c # << >>
  PROVE  Append(g, Head(c)) \o Tail(c) = g \o c
OBVIOUS

LEMMA HaveGrows ==
  ASSUME NEW g \in Seq(Nat), NEW c \in Seq(Nat), NEW e \in Nat
  PROVE  g \o Append(c, e) = Append(g \o c, e)
OBVIOUS

LEMMA DueLines ==
  ASSUME NEW st \in Seq(Nat), NEW f \in Nat
  PROVE  LinesOf(SubSeq(st, f + 1, Len(st))) = {st[i] : i \in (f + 1) .. Len(st)}
<1> DEFINE n == Len(st)
           m == f + 1
           d == SubSeq(st, m, n)
<1>1. n \in Nat /\ m \in Int /\ n \in Int /\ \A j \in m .. n : st[j] \in Nat
  OBVIOUS
<1> HIDE DEF m, n
<1>2. /\ DOMAIN d = 1 .. Len(d) /\ Len(d) = IF m <= n THEN n - m + 1 ELSE 0
      /\ \A k \in 1 .. (n - m + 1) : d[k] = st[m + k - 1]
  BY <1>1, SubSeqProperties
<1>3. LinesOf(d) = {d[k] : k \in DOMAIN d}
  BY DEF LinesOf
<1> HIDE DEF d
<1>4. DOMAIN d = 1 .. (n - m + 1)
  BY <1>1, <1>2
<1>5. ASSUME NEW k \in 1 .. (n - m + 1) PROVE m + k - 1 \in m .. n /\ d[k] = st[m + k - 1]
  BY <1>1, <1>2
<1>6. ASSUME NEW i \in m .. n PROVE i - m + 1 \in 1 .. (n - m + 1) /\ st[i] = d[i - m + 1]
  <2>1. i - m + 1 \in 1 .. (n - m + 1) /\ m + (i - m + 1) - 1 = i
    BY <1>1
  <2> QED BY <1>2, <2>1
<1>7. LinesOf(d) = {st[i] : i \in m .. n}
  <2>1. ASSUME NEW x \in LinesOf(d) PROVE x \in {st[i] : i \in m .. n}
    <3>1. PICK k \in 1 .. (n - m + 1) : x = d[k]
      BY <1>3, <1>4, <2>1
    <3> QED BY <1>5, <3>1
  <2>2. ASSUME NEW i \in m .. n PROVE st[i] \in LinesOf(d)
    BY <1>3, <1>4, <1>6
  <2> QED BY <2>1, <2>2
<1> QED BY <1>7 DEF d, m, n

LEMMA DueGrows ==
  ASSUME NEW st \in Seq(Nat), NEW e \in Nat, NEW f \in Nat, f <= Len(st)
  PROVE  LinesOf(SubSeq(Append(st, e), f + 1, Len(Append(st, e))))
           = LinesOf(SubSeq(st, f + 1, Len(st))) \cup {e}
<1>1. /\ Append(st, e) \in Seq(Nat) /\ Len(Append(st, e)) = Len(st) + 1 /\ Len(st) \in Nat
      /\ \A i \in 1 .. Len(st) : Append(st, e)[i] = st[i]
      /\ Append(st, e)[Len(st) + 1] = e
  OBVIOUS
<1>2. LinesOf(SubSeq(Append(st, e), f + 1, Len(Append(st, e))))
        = {Append(st, e)[i] : i \in (f + 1) .. (Len(st) + 1)}
  BY <1>1, DueLines
<1>3. LinesOf(SubSeq(st, f + 1, Len(st))) = {st[i] : i \in (f + 1) .. Len(st)}
  BY DueLines
<1>4. (f + 1) .. (Len(st) + 1) = ((f + 1) .. Len(st)) \cup {Len(st) + 1}
  BY <1>1
<1>5. \A i \in (f + 1) .. Len(st) : Append(st, e)[i] = st[i]
  BY <1>1
<1> QED BY <1>1, <1>2, <1>3, <1>4, <1>5

LEMMA Wraps ==
  /\ RingLimit \in Nat \ {0}
  /\ \A a \in 0 .. (RingLimit - 1) : RingSlot(a) = a
  /\ \A a \in RingLimit .. (RingLimit + RingLimit - 1) : RingSlot(a) = a - RingLimit
<1>1. RingLimit \in Nat \ {0}
  BY LogHubAssumption
<1>2. ASSUME NEW L \in Nat \ {0}
      PROVE  (\A a \in 0 .. (L - 1) : a % L = a) /\ \A a \in L .. (L + L - 1) : a % L = a - L
  OBVIOUS
<1> QED BY <1>1, <1>2, Zenon DEF RingSlot

\* How Add changes the ring.
Added(r, e) ==
  IF r.count < RingLimit
    THEN [r EXCEPT !.lines[(r.start + r.count) % RingLimit] = e, !.count = @ + 1]
    ELSE [r EXCEPT !.lines[r.start] = e, !.start = (@ + 1) % RingLimit]

RingTyped(r) ==
  r \in [lines : [0 .. (RingLimit - 1) -> Nat], start : 0 .. (RingLimit - 1), count : 0 .. RingLimit, closed : BOOLEAN]

LEMMA RingAdds ==
  ASSUME NEW r, RingTyped(r), NEW st \in Seq(Nat), NEW e \in Nat, RingHolds(r, st)
  PROVE  RingTyped(Added(r, e)) /\ RingHolds(Added(r, e), Append(st, e)) /\ Added(r, e).closed = r.closed
<1> DEFINE n == Len(st)
           L == RingLimit
           t == Append(st, e)
           a == Added(r, e)
<1>1. /\ L \in Nat \ {0} /\ n \in Nat /\ r.start \in 0 .. (L - 1) /\ r.count \in 0 .. L
      /\ r.lines \in [0 .. (L - 1) -> Nat]
  BY LogHubAssumption DEF RingTyped
<1>6. r.start \in Nat /\ L \in Nat /\ r.start <= L - 1
  BY <1>1
<1>2. Len(t) = n + 1 /\ (\A i \in 1 .. n : t[i] = st[i]) /\ t[n + 1] = e
  OBVIOUS
<1>3. /\ r.count = IF n < L THEN n ELSE L
      /\ r.count < L => r.start = 0
      /\ \A i \in 1 .. r.count : r.lines[RingSlot(r.start + i - 1)] = st[n - r.count + i]
  BY DEF RingHolds
<1>4. CASE r.count < L
  <2>1. a = [r EXCEPT !.lines[RingSlot(r.start + r.count)] = e, !.count = @ + 1]
    BY <1>4 DEF Added, RingSlot
  <2>2. r.count = n /\ r.start = 0 /\ n < L
    BY <1>1, <1>3, <1>4
  <2>3. RingSlot(r.start + r.count) = n /\ \A i \in 1 .. n : RingSlot(r.start + i - 1) = i - 1
    BY <1>1, <2>2, Wraps
  <2>4. /\ a.start = 0 /\ a.count = n + 1 /\ a.closed = r.closed
        /\ a.lines = [r.lines EXCEPT ![n] = e]
    BY <2>1, <2>2, <2>3 DEF RingTyped
  <2>5. RingTyped(a)
    BY <1>1, <2>1, <2>2, <2>3 DEF RingTyped
  <2>6. \A i \in 1 .. (n + 1) : RingSlot(0 + i - 1) = i - 1
    BY <1>1, <2>2, Wraps
  <2>7. \A i \in 1 .. (n + 1) : a.lines[i - 1] = t[i]
    BY <1>1, <1>2, <1>3, <2>2, <2>3, <2>4
  <2> HIDE DEF a, t, n, L
  <2>8. RingHolds(a, t)
    BY <1>1, <1>2, <2>2, <2>4, <2>6, <2>7 DEF RingHolds, L
  <2> QED BY <2>4, <2>5, <2>8 DEF a, t
<1>5. CASE ~(r.count < L)
  <2>1. a = [r EXCEPT !.lines[r.start] = e, !.start = RingSlot(@ + 1)]
    BY <1>5 DEF Added, RingSlot
  <2>2. r.count = L /\ n >= L
    BY <1>1, <1>3, <1>5
  <2>3. RingSlot(r.start + 1) = IF r.start + 1 < L THEN r.start + 1 ELSE 0
    BY <1>1, Wraps
  <2>4. /\ a.start = RingSlot(r.start + 1) /\ a.count = L /\ a.closed = r.closed
        /\ a.lines = [r.lines EXCEPT ![r.start] = e]
    BY <2>1, <2>2 DEF RingTyped
  <2>5. RingTyped(a)
    <3>1. (r.start + 1 < L => r.start + 1 \in 0 .. (L - 1)) /\ 0 \in 0 .. (L - 1)
      BY <1>1
    <3>2. RingSlot(r.start + 1) \in 0 .. (L - 1)
      BY <2>3, <3>1
    <3>3. [r.lines EXCEPT ![r.start] = e] \in [0 .. (L - 1) -> Nat]
      BY <1>1
    <3> DEFINE b == [r EXCEPT !.lines = [r.lines EXCEPT ![r.start] = e]]
    <3>4. RingTyped(b)
      BY <3>3 DEF RingTyped
    <3>5. a = [b EXCEPT !.start = RingSlot(r.start + 1)]
      BY <2>1
    <3> HIDE DEF a, b
    <3>6. RingTyped(a)
      BY <3>2, <3>4, <3>5 DEF RingTyped
    <3> QED BY <3>6 DEF a
  <2>6. ASSUME NEW i \in 1 .. L PROVE a.lines[RingSlot(a.start + i - 1)] = t[n + 1 - L + i]
    <3>1. CASE i = L
      <4>1. RingSlot(a.start + L - 1) = r.start
        <5>1. CASE r.start + 1 < L
          <6>1. a.start + L - 1 = r.start + L
            BY <1>1, <2>3, <2>4, <5>1
          <6>2. r.start + L \in L .. (L + L - 1) /\ (r.start + L) - L = r.start
            BY <1>1, <5>1
          <6>3. RingSlot(r.start + L) = (r.start + L) - L
            BY <6>2, Wraps
          <6> QED BY <6>1, <6>2, <6>3
        <5>2. CASE ~(r.start + 1 < L)
          <6>1. a.start + L - 1 = r.start
            <7>1. a.start = 0
              BY <2>3, <2>4, <5>2
            <7>2. r.start = L - 1
              BY <1>6, <5>2
            <7> QED BY <1>1, <7>1, <7>2
          <6>2. RingSlot(r.start) = r.start
            BY <1>1, Wraps
          <6> QED BY <6>1, <6>2
        <5> QED BY <5>1, <5>2
      <4> QED BY <1>1, <1>2, <2>4, <3>1, <4>1
    <3>2. CASE i # L
      <4>1. RingSlot(a.start + i - 1) = RingSlot(r.start + (i + 1) - 1)
        <5>1. CASE r.start + 1 < L
          <6>1. a.start + i - 1 = r.start + (i + 1) - 1
            BY <1>1, <2>3, <2>4, <5>1
          <6> QED BY <6>1
        <5>2. CASE ~(r.start + 1 < L)
          <6>1. a.start + i - 1 = i - 1 /\ r.start + (i + 1) - 1 = L + i - 1
            <7>1. a.start = 0
              BY <2>3, <2>4, <5>2
            <7>2. r.start = L - 1
              BY <1>6, <5>2
            <7> QED BY <1>1, <7>1, <7>2
          <6>2. i - 1 \in 0 .. (L - 1) /\ L + i - 1 \in L .. (L + L - 1) /\ (L + i - 1) - L = i - 1
            BY <1>1
          <6>3. RingSlot(i - 1) = i - 1 /\ RingSlot(L + i - 1) = (L + i - 1) - L
            BY <6>2, Wraps
          <6> QED BY <6>1, <6>2, <6>3
        <5> QED BY <5>1, <5>2
      <4>2. RingSlot(r.start + (i + 1) - 1) # r.start /\ RingSlot(r.start + (i + 1) - 1) \in 0 .. (L - 1)
        <5>1. r.start + (i + 1) - 1 \in 0 .. (L + L - 1) /\ i \in 1 .. (L - 1)
          BY <1>1, <3>2
        <5> QED BY <1>1, <5>1, Wraps
      <4>3. r.lines[RingSlot(r.start + (i + 1) - 1)] = st[n - L + (i + 1)]
        <5>1. i + 1 \in 1 .. r.count
          BY <1>1, <2>2, <3>2
        <5> QED BY <1>3, <2>2, <5>1
      <4>4. a.lines[RingSlot(a.start + i - 1)] = st[n - L + (i + 1)]
        BY <1>1, <2>4, <4>1, <4>2, <4>3
      <4>5. t[n + 1 - L + i] = st[n + 1 - L + i] /\ n - L + (i + 1) = n + 1 - L + i
        <5>1. n - L + (i + 1) = n + 1 - L + i /\ n + 1 - L + i \in 1 .. n
          BY <1>1, <2>2, <3>2
        <5> QED BY <1>2, <5>1
      <4> QED BY <4>4, <4>5
    <3> QED BY <3>1, <3>2
  <2> HIDE DEF a, t, n, L
  <2>7. RingHolds(a, t)
    <3>1. Len(t) >= L /\ a.count = L /\ \A i \in 1 .. L : Len(t) - a.count + i = n + 1 - L + i
      BY <1>1, <1>2, <2>2, <2>4
    <3>2. a.count = IF Len(t) < L THEN Len(t) ELSE L
      BY <1>1, <1>2, <2>2, <2>4
    <3>3. a.count < L => a.start = 0
      BY <1>1, <3>1
    <3>4. \A i \in 1 .. a.count : a.lines[RingSlot(a.start + i - 1)] = t[Len(t) - a.count + i]
      BY <2>6, <3>1
    <3> QED BY <3>2, <3>3, <3>4, Zenon DEF RingHolds, L
  <2> QED BY <2>4, <2>5, <2>7 DEF a, t
<1> QED BY <1>4, <1>5

-----------------------------------------------------------------------------
(* The invariant holds at the start, and what leaves its parts alone.      *)

LEMMA LogBegins == LogInit => LogInv
<1> SUFFICES ASSUME LogInit PROVE LogInv
  OBVIOUS
<1> USE DEF LogInit
<1>1. LogTyped
  <2>1. RingLimit \in Nat \ {0} /\ 0 \in 0 .. (RingLimit - 1) /\ 0 \in 0 .. RingLimit
    BY LogHubAssumption
  <2>2. Absent \in ViewerRec /\ Len(Absent.ch) <= ViewerBuffer
    BY LogHubAssumption DEF Absent, ViewerRec
  <2>3. [Reading EXCEPT !.at = "off"] \in AdderRec
    BY DEF Reading, AdderRec
  <2>4. [at |-> "none", todo |-> {}] \in StopperRec
    BY DEF StopperRec
  <2> QED BY <2>1, <2>2, <2>3, <2>4 DEF LogTyped, Free
<1>2. CapturePlaced
  BY DEF CapturePlaced, Free, Reading
<1>3. StoppersPlaced
  BY LogHubAssumption DEF StoppersPlaced
<1>4. ViewersPlaced
  BY DEF ViewersPlaced, Absent, Reading
<1>5. LinesPlaced
  BY DEF LinesPlaced, LinesOf, AllDiffer, Unstored, InHandOf, Reading
<1>6. StreamsWhole
  <2>1. SUFFICES ASSUME NEW v \in Viewers PROVE StreamWhole(v)
    BY DEF StreamsWhole
  <2>2. Have(v) = << >> /\ viewer[v].at = "none" /\ viewer[v].from = 0 /\ Len(stored) = 0
    BY DEF Have, Absent
  <2>3. AllDiffer(<< >>)
    BY DEF AllDiffer
  <2>4. AllDiffer(Have(v)) /\ viewer[v].from <= Len(stored) /\ ~(viewer[v].at # "none") /\ viewer[v].at # "open"
    BY <2>2, <2>3
  <2> HIDE DEF LogInit
  <2> QED BY <2>4 DEF StreamWhole
<1>7. RingHolds(ring, stored)
  BY LogHubAssumption DEF RingHolds
<1> QED BY <1>1, <1>2, <1>3, <1>4, <1>5, <1>6, <1>7 DEF LogInv

LEMMA CaptureFrame ==
  ASSUME CapturePlaced, UNCHANGED <<capture, starting>>, starting = "done" \/ UNCHANGED adder,
         \A s \in Stoppers : stopper'[s].at = "wait" => stopper[s].at = "wait"
  PROVE  CapturePlaced'
BY DEF CapturePlaced

LEMMA StoppersFrame ==
  ASSUME StoppersPlaced, UNCHANGED <<capture, starting, stopper>>, ring'.closed = ring.closed
  PROVE  StoppersPlaced'
BY DEF StoppersPlaced

\* Subscribers only get closed and leave, and nothing is newly to be sent to them.
LEMMA ViewersFrame ==
  ASSUME ViewersPlaced, UNCHANGED stopper, ring'.closed = ring.closed, viewerSet' \subseteq viewerSet,
         \A v \in Viewers : /\ viewer'[v].at = "none" => viewer'[v] = viewer[v]
                            /\ viewer[v].closed => viewer'[v].closed
                            /\ viewer'[v].at = "open" /\ ~viewer'[v].closed =>
                                 viewer[v].at = "open" /\ ~viewer[v].closed /\ (v \in viewerSet => v \in viewerSet'),
         \A o \in Outputs : /\ adder'[o].todo \subseteq adder[o].todo
                            /\ \A v \in adder'[o].over : v \in adder[o].over \/ (viewer'[v].closed /\ viewer[v].at # "none"),
         adder \in [Outputs -> AdderRec]
  PROVE  ViewersPlaced'
<1>1. (ring.closed => viewerSet = {})' 
  BY DEF ViewersPlaced
<1>2. ASSUME NEW v \in Viewers, viewer'[v].at = "none"
      PROVE  /\ viewer'[v] = Absent /\ v \notin viewerSet'
             /\ \A o \in Outputs : v \notin adder'[o].todo \cup adder'[o].over
             /\ \A s \in Stoppers : v \notin stopper'[s].todo
  <2>1. viewer'[v] = viewer[v] /\ viewer[v].at = "none"
    BY <1>2
  <2>2. /\ viewer[v] = Absent /\ v \notin viewerSet
        /\ \A o \in Outputs : v \notin adder[o].todo \cup adder[o].over
        /\ \A s \in Stoppers : v \notin stopper[s].todo
    BY <2>1 DEF ViewersPlaced
  <2> QED BY <2>1, <2>2
<1>3. ASSUME NEW o \in Outputs, NEW v \in adder'[o].over PROVE viewer'[v].closed
  <2>1. CASE v \in adder[o].over
    <3>1. viewer[v].closed /\ v \in Viewers
      BY <2>1 DEF ViewersPlaced, AdderRec
    <3> QED BY <3>1
  <2> QED BY <1>3, <2>1
<1>4. ASSUME NEW v \in Viewers, viewer'[v].at = "open", ~viewer'[v].closed
      PROVE  v \in viewerSet' \/ \E s \in ClosingCalls : v \in stopper'[s].todo
  BY <1>4 DEF ViewersPlaced
<1> QED BY <1>1, <1>2, <1>3, <1>4 DEF ViewersPlaced

\* One goroutine of the capture moves, and stores nothing.
LEMMA LinesFrame ==
  ASSUME LinesPlaced, printed \in Nat, printed' = printed, UNCHANGED stored, NEW o \in Outputs,
         \A p \in Outputs : p # o => adder'[p] = adder[p] /\ pipes'[p] = pipes[p],
         Unstored(o)' \subseteq Unstored(o), AllDiffer(pipes'[o]), LinesOf(pipes'[o]) \cap InHandOf(o)' = {},
         adder'[o].at # "send" => adder'[o].todo = {},
         adder'[o].at = "send" => adder[o].at = "send" /\ adder'[o].line = adder[o].line
  PROVE  LinesPlaced'
<1>1. \A p \in Outputs : p # o => Unstored(p)' = Unstored(p) /\ InHandOf(p)' = InHandOf(p)
  BY DEF Unstored, InHandOf
<1>2. ASSUME NEW p \in Outputs
      PROVE  /\ adder'[p].at # "send" => adder'[p].todo = {}
             /\ adder'[p].at = "send" => adder'[p].line \in LinesOf(stored')
             /\ AllDiffer(pipes'[p]) /\ LinesOf(pipes'[p]) \cap InHandOf(p)' = {}
             /\ Unstored(p)' \subseteq 1 .. printed' /\ Unstored(p)' \cap LinesOf(stored') = {}
  <2>1. CASE p = o
    BY <2>1 DEF LinesPlaced
  <2>2. CASE p # o
    BY <1>1, <2>2 DEF LinesPlaced
  <2> QED BY <2>1, <2>2
<1>3. ASSUME NEW p \in Outputs, NEW q \in Outputs, p # q
      PROVE  /\ Unstored(p)' \cap Unstored(q)' = {}
             /\ adder'[p].at = "send" /\ adder'[q].at = "send" => adder'[p].line # adder'[q].line
  <2>1. /\ Unstored(p)' \subseteq Unstored(p) /\ Unstored(q)' \subseteq Unstored(q)
        /\ adder'[p].at = "send" => adder[p].at = "send" /\ adder'[p].line = adder[p].line
        /\ adder'[q].at = "send" => adder[q].at = "send" /\ adder'[q].line = adder[q].line
    BY <1>1
  <2> QED BY <1>3, <2>1 DEF LinesPlaced
<1>4. AllDiffer(stored') /\ LinesOf(stored') \subseteq 1 .. printed'
  BY DEF LinesPlaced
<1> HIDE DEF LinesOf
<1> QED BY <1>2, <1>3, <1>4 DEF LinesPlaced

LEMMA LinesStill ==
  ASSUME LinesPlaced, UNCHANGED <<adder, pipes, printed, stored>>
  PROVE  LinesPlaced'
BY DEF LinesPlaced, Unstored, InHandOf

\* A stream that is given nothing new.
LEMMA StreamFrame ==
  ASSUME NEW v \in Viewers, StreamWhole(v), UNCHANGED stored, Have(v)' = Have(v),
         viewer'[v].from = viewer[v].from, OnTheWay(v)' \subseteq OnTheWay(v),
         viewer'[v].at # "none" => viewer[v].at # "none",
         viewer'[v].at = "open" /\ ~viewer'[v].closed =>
           viewer[v].at = "open" /\ ~viewer[v].closed /\ OnTheWay(v)' = OnTheWay(v)
  PROVE  StreamWhole(v)'
<1>1. Due(v)' = Due(v)
  BY DEF Due
<1> QED BY <1>1 DEF StreamWhole

LEMMA StreamsStill ==
  ASSUME StreamsWhole, UNCHANGED <<stored, viewer>>,
         \A o \in Outputs : adder'[o].todo = adder[o].todo /\ (adder[o].todo # {} => adder'[o].line = adder[o].line)
  PROVE  StreamsWhole'
<1>1. ASSUME NEW v \in Viewers PROVE StreamWhole(v)'
  <2>1. OnTheWay(v)' = OnTheWay(v)
    BY DEF OnTheWay
  <2>2. StreamWhole(v) /\ Have(v)' = Have(v)
    BY DEF StreamsWhole, Have
  <2> QED BY <2>1, <2>2, StreamFrame
<1> QED BY <1>1 DEF StreamsWhole

-----------------------------------------------------------------------------
(* The steps of the capture.                                               *)

LEMMA StartCaptureKeeps == ASSUME LogInv, StartCapture PROVE LogInv'
<1> USE DEF LogInv
<1>0. /\ UNCHANGED <<hubVars, pipes, printed, stopper>>
      /\ capture' \in [lock : {Free, "starter", "stopper"}, active : BOOLEAN, reading : BOOLEAN]
      /\ starting' \in {"install", "done"}
      /\ adder' = adder \/ adder' = [o \in Outputs |-> Reading]
  <2>1. UNCHANGED <<hubVars, pipes, printed, stopper>> /\ (adder' = adder \/ adder' = [o \in Outputs |-> Reading])
    BY DEF StartCapture
  <2>2. /\ [capture EXCEPT !.lock = "starter"] \in [lock : {Free, "starter", "stopper"}, active : BOOLEAN, reading : BOOLEAN]
        /\ [lock |-> Free, active |-> TRUE, reading |-> TRUE]
             \in [lock : {Free, "starter", "stopper"}, active : BOOLEAN, reading : BOOLEAN]
        /\ capture \in [lock : {Free, "starter", "stopper"}, active : BOOLEAN, reading : BOOLEAN]
    BY DEF LogTyped
  <2> QED BY <2>1, <2>2 DEF StartCapture
<1>1. \A o \in Outputs : (adder'[o].todo = adder[o].todo /\ adder[o].todo = {}) \/ adder'[o] = adder[o]
  <2>1. CASE adder' = adder
    BY <2>1
  <2>2. CASE adder' = [o \in Outputs |-> Reading]
    <3>1. CASE adder' = adder
      BY <3>1
    <3>2. CASE starting = "install"
      <4>1. \A o \in Outputs : adder[o].at = "off"
        BY <3>2 DEF CapturePlaced
      <4>2. \A o \in Outputs : adder[o].todo = {}
        BY <4>1 DEF LinesPlaced
      <4> QED BY <2>2, <4>2 DEF Reading
    <3> QED BY <3>1, <3>2 DEF StartCapture
  <2> QED BY <1>0, <2>1, <2>2
<1>2. LogTyped'
  <2>1. Reading \in AdderRec
    BY DEF Reading, AdderRec
  <2>2. adder' \in [Outputs -> AdderRec]
    BY <1>0, <2>1 DEF LogTyped
  <2> QED BY <1>0, <2>2 DEF LogTyped, hubVars
<1>3. CapturePlaced'
  <2>1. CASE starting = "none" /\ ring.closed
    BY <2>1 DEF StartCapture, CapturePlaced
  <2>2. CASE starting = "none" /\ ~ring.closed
    <3>1. capture.lock = Free /\ capture' = [capture EXCEPT !.lock = "starter"] /\ starting' = "install"
          /\ UNCHANGED <<adder, stopper>>
      BY <2>2 DEF StartCapture
    <3>2. capture'.lock = "starter" /\ capture'.active = capture.active /\ capture'.reading = capture.reading
      BY <3>1 DEF LogTyped
    <3>3. \A s \in Stoppers : stopper[s].at # "wait"
      BY <3>1 DEF CapturePlaced, Free
    <3> QED BY <2>2, <3>1, <3>2, <3>3 DEF CapturePlaced
  <2>3. CASE starting = "install"
    <3>1. capture' = [lock |-> Free, active |-> TRUE, reading |-> TRUE] /\ starting' = "done" /\ UNCHANGED stopper
      BY <2>3 DEF StartCapture
    <3>2. \A s \in Stoppers : stopper[s].at # "wait"
      BY <2>3 DEF CapturePlaced
    <3> QED BY <3>1, <3>2 DEF CapturePlaced, Free
  <2> QED BY <2>1, <2>2, <2>3 DEF StartCapture
<1>4. StoppersPlaced'
  <2>1. UNCHANGED <<ring, stopper>>
    BY <1>0 DEF hubVars
  <2>2. ASSUME NEW s \in ClosingCalls, stopper[s].at = "done" PROVE ~capture'.active /\ starting' # "install"
    <3>1. ring.closed /\ ~capture.active /\ starting # "install"
      BY <2>2 DEF StoppersPlaced
    <3> QED BY <3>1 DEF StartCapture, LogTyped
  <2> QED BY <2>1, <2>2 DEF StoppersPlaced
<1>5. ViewersPlaced'
  <2>1. UNCHANGED <<ring, viewerSet, viewer, stopper>>
    BY <1>0 DEF hubVars
  <2>2. \A o \in Outputs : adder'[o].todo \subseteq adder[o].todo /\ adder'[o].over \subseteq adder[o].over
    BY <1>0, <1>1 DEF Reading
  <2> QED BY <2>1, <2>2 DEF ViewersPlaced
<1>6. LinesPlaced'
  <2>1. CASE adder' = adder
    BY <1>0, <2>1, LinesStill DEF hubVars
  <2>2. CASE starting = "install" /\ adder' = [o \in Outputs |-> Reading]
    <3>1. \A o \in Outputs : InHandOf(o) = {} /\ InHandOf(o)' = {} /\ adder'[o].at = "read" /\ adder'[o].todo = {}
      BY <2>2 DEF CapturePlaced, InHandOf, Reading
    <3>2. \A o \in Outputs : Unstored(o)' = Unstored(o)
      BY <1>0, <3>1 DEF Unstored
    <3>3. UNCHANGED <<pipes, printed, stored>>
      BY <1>0 DEF hubVars
    <3> QED BY <3>1, <3>2, <3>3 DEF LinesPlaced
  <2> QED BY <2>1, <2>2 DEF StartCapture
<1>7. StreamsWhole'
  BY <1>0, <1>1, StreamsStill DEF hubVars
<1>8. RingHolds(ring, stored)'
  BY <1>0 DEF hubVars
<1> QED BY <1>2, <1>3, <1>4, <1>5, <1>6, <1>7, <1>8

LEMMA PrintKeeps == ASSUME LogInv, NEW o \in Outputs, PrintLine(o) PROVE LogInv'
<1> USE DEF LogInv
<1>0. /\ UNCHANGED <<ring, viewerSet, viewer, stored, adder, capture, starting, stopper>>
      /\ printed' = printed + 1 /\ pipes' = [pipes EXCEPT ![o] = Append(@, printed + 1)]
      /\ pipes[o] \in Seq(Nat) /\ printed \in Nat
  BY DEF PrintLine, LogTyped, hubVars
<1>1. /\ pipes'[o] = Append(pipes[o], printed + 1)
      /\ \A p \in Outputs : p # o => pipes'[p] = pipes[p]
  BY <1>0 DEF LogTyped
<1>2. /\ Append(pipes[o], printed + 1) \in Seq(Nat)
      /\ LinesOf(pipes'[o]) = LinesOf(pipes[o]) \cup {printed + 1}
      /\ AllDiffer(pipes[o]) /\ printed + 1 \notin LinesOf(pipes[o]) => AllDiffer(pipes'[o])
  BY <1>0, <1>1, LinesAppended
<1>3. LogTyped'
  BY <1>0, <1>2 DEF LogTyped
<1>4. CapturePlaced' /\ StoppersPlaced' /\ ViewersPlaced'
  BY <1>0 DEF CapturePlaced, StoppersPlaced, ViewersPlaced
<1>5. LinesPlaced'
  <2>1. /\ \A p \in Outputs : InHandOf(p)' = InHandOf(p)
        /\ Unstored(o)' = Unstored(o) \cup {printed + 1}
        /\ \A p \in Outputs : p # o => Unstored(p)' = Unstored(p)
    BY <1>0, <1>1, <1>2 DEF Unstored, InHandOf
  <2>2. \A p \in Outputs : printed + 1 \notin Unstored(p)
    BY <1>0 DEF LinesPlaced
  <2>3. printed + 1 \notin LinesOf(stored) /\ 1 .. printed \subseteq 1 .. printed' /\ printed + 1 \in 1 .. printed'
    BY <1>0 DEF LinesPlaced
  <2>4. printed + 1 \notin LinesOf(pipes[o]) /\ printed + 1 \notin InHandOf(o)
    BY <2>2 DEF Unstored
  <2>5. ASSUME NEW p \in Outputs
        PROVE  /\ adder'[p].at # "send" => adder'[p].todo = {}
               /\ adder'[p].at = "send" => adder'[p].line \in LinesOf(stored')
               /\ AllDiffer(pipes'[p]) /\ LinesOf(pipes'[p]) \cap InHandOf(p)' = {}
               /\ Unstored(p)' \subseteq 1 .. printed' /\ Unstored(p)' \cap LinesOf(stored') = {}
    <3>1. CASE p = o
      BY <1>0, <1>2, <2>1, <2>3, <2>4, <3>1 DEF LinesPlaced
    <3>2. CASE p # o
      BY <1>0, <1>1, <2>1, <2>3, <3>2 DEF LinesPlaced
    <3> QED BY <3>1, <3>2
  <2>6. ASSUME NEW p \in Outputs, NEW q \in Outputs, p # q
        PROVE  /\ Unstored(p)' \cap Unstored(q)' = {}
               /\ adder'[p].at = "send" /\ adder'[q].at = "send" => adder'[p].line # adder'[q].line
    <3>1. Unstored(p) \cap Unstored(q) = {}
      BY <2>6 DEF LinesPlaced
    <3>2. adder[p].at = "send" /\ adder[q].at = "send" => adder[p].line # adder[q].line
      BY <2>6 DEF LinesPlaced
    <3>3. Unstored(p)' \cap Unstored(q)' = {}
      BY <2>1, <2>2, <2>6, <3>1
    <3> QED BY <1>0, <3>2, <3>3
  <2>7. AllDiffer(stored') /\ LinesOf(stored') \subseteq 1 .. printed'
    BY <1>0, <2>3 DEF LinesPlaced
  <2> QED BY <2>5, <2>6, <2>7 DEF LinesPlaced
<1>6. StreamsWhole'
  BY <1>0, StreamsStill
<1>7. RingHolds(ring, stored)'
  BY <1>0
<1> QED BY <1>3, <1>4, <1>5, <1>6, <1>7

LEMMA ReadLineKeeps == ASSUME LogInv, NEW o \in Outputs, ReadPipe(o) PROVE LogInv'
<1> USE DEF LogInv
<1>0. /\ UNCHANGED <<ring, viewerSet, viewer, stored, capture, starting, printed, stopper>>
      /\ adder[o].at = "read" /\ adder[o] \in AdderRec /\ pipes[o] \in Seq(Nat) /\ printed \in Nat
  BY DEF ReadPipe, LogTyped, hubVars
<1>1. /\ adder[o].todo = {} /\ InHandOf(o) = {} /\ Unstored(o) = LinesOf(pipes[o]) /\ AllDiffer(pipes[o])
      /\ starting = "done"
  BY <1>0 DEF LinesPlaced, InHandOf, Unstored, CapturePlaced, LogTyped
<1>2. \E a \in AdderRec, q \in Seq(Nat) :
        /\ adder' = [adder EXCEPT ![o] = a] /\ pipes' = [pipes EXCEPT ![o] = q]
        /\ a.at \in {"add", "off"} /\ a.todo = {} /\ a.over = adder[o].over
        /\ AllDiffer(q)
        /\ a.at = "add" => LinesOf(q) \cup {a.line} \subseteq LinesOf(pipes[o]) /\ a.line \notin LinesOf(q)
        /\ a.at = "off" => q = pipes[o]
  <2>1. CASE pipes[o] # << >> /\ capture.reading
             /\ adder' = [adder EXCEPT ![o].at = "add", ![o].line = Head(pipes[o])]
             /\ pipes' = [pipes EXCEPT ![o] = Tail(@)]
    <3> DEFINE a == [adder[o] EXCEPT !.at = "add", !.line = Head(pipes[o])]
    <3>1. /\ Tail(pipes[o]) \in Seq(Nat) /\ Head(pipes[o]) \in Nat
          /\ LinesOf(pipes[o]) = LinesOf(Tail(pipes[o])) \cup {Head(pipes[o])}
          /\ AllDiffer(Tail(pipes[o])) /\ Head(pipes[o]) \notin LinesOf(Tail(pipes[o]))
      BY <1>0, <1>1, <2>1, LinesTaken
    <3>2. a \in AdderRec /\ a.at = "add" /\ a.todo = {} /\ a.over = adder[o].over /\ a.line = Head(pipes[o])
      BY <1>0, <1>1, <3>1 DEF AdderRec
    <3>3. adder' = [adder EXCEPT ![o] = a] /\ pipes' = [pipes EXCEPT ![o] = Tail(pipes[o])]
      BY <2>1 DEF LogTyped
    <3> HIDE DEF a
    <3> QED BY <3>1, <3>2, <3>3
  <2>2. CASE adder' = [adder EXCEPT ![o].at = "off"] /\ UNCHANGED pipes
    <3> DEFINE a == [adder[o] EXCEPT !.at = "off"]
    <3>1. a \in AdderRec /\ a.at = "off" /\ a.todo = {} /\ a.over = adder[o].over
      BY <1>0, <1>1 DEF AdderRec
    <3>2. adder' = [adder EXCEPT ![o] = a] /\ pipes' = [pipes EXCEPT ![o] = pipes[o]]
      BY <2>2 DEF LogTyped
    <3> HIDE DEF a
    <3> QED BY <1>0, <1>1, <3>1, <3>2
  <2> QED BY <2>1, <2>2 DEF ReadPipe
<1>3. PICK a \in AdderRec, q \in Seq(Nat) :
        /\ adder' = [adder EXCEPT ![o] = a] /\ pipes' = [pipes EXCEPT ![o] = q]
        /\ a.at \in {"add", "off"} /\ a.todo = {} /\ a.over = adder[o].over
        /\ AllDiffer(q)
        /\ a.at = "add" => LinesOf(q) \cup {a.line} \subseteq LinesOf(pipes[o]) /\ a.line \notin LinesOf(q)
        /\ a.at = "off" => q = pipes[o]
  BY <1>2
<1>4. adder'[o] = a /\ pipes'[o] = q /\ \A p \in Outputs : p # o => adder'[p] = adder[p] /\ pipes'[p] = pipes[p]
  BY <1>3 DEF LogTyped
<1>5. LogTyped'
  BY <1>0, <1>3 DEF LogTyped
<1>6. CapturePlaced' /\ StoppersPlaced'
  BY <1>0, <1>1, CaptureFrame, StoppersFrame
<1>7. ViewersPlaced'
  <2>1. \A p \in Outputs : adder'[p].todo = adder[p].todo /\ adder'[p].over = adder[p].over
    BY <1>1, <1>3, <1>4
  <2> QED BY <1>0, <2>1 DEF ViewersPlaced
<1>8. LinesPlaced'
  <2>1. Unstored(o)' \subseteq Unstored(o) /\ LinesOf(pipes'[o]) \cap InHandOf(o)' = {}
    BY <1>1, <1>3, <1>4 DEF Unstored, InHandOf
  <2>2. adder'[o].at # "send" /\ adder'[o].todo = {} /\ AllDiffer(pipes'[o])
    BY <1>3, <1>4
  <2> QED BY <1>0, <1>4, <2>1, <2>2, LinesFrame
<1>9. StreamsWhole'
  <2>1. \A p \in Outputs : adder'[p].todo = adder[p].todo /\ (adder[p].todo # {} => adder'[p].line = adder[p].line)
    BY <1>1, <1>3, <1>4
  <2> QED BY <1>0, <2>1, StreamsStill
<1> QED BY <1>0, <1>5, <1>6, <1>7, <1>8, <1>9

-----------------------------------------------------------------------------
(* The steps of the hub.                                                   *)

LEMMA AddKeeps == ASSUME LogInv, NEW o \in Outputs, AddLine(o) PROVE LogInv'
<1> USE DEF LogInv
<1>0. /\ UNCHANGED <<viewerSet, viewer, pipes, capture, starting, printed, stopper>>
      /\ adder[o].at = "add" /\ adder[o] \in AdderRec /\ adder[o].line \in Nat /\ stored \in Seq(Nat)
      /\ printed \in Nat
  BY DEF AddLine, LogTyped, AdderRec
<1>1. adder[o].todo = {} /\ InHandOf(o) = {adder[o].line} /\ starting = "done"
  BY <1>0 DEF LinesPlaced, InHandOf, CapturePlaced, LogTyped
<1>2. CASE ring.closed
  <2>1. UNCHANGED <<ring, stored>> /\ adder' = [adder EXCEPT ![o] = Reading]
    BY <1>2 DEF AddLine
  <2>2. adder'[o] = Reading /\ \A p \in Outputs : p # o => adder'[p] = adder[p]
    BY <2>1 DEF LogTyped
  <2>3. LogTyped'
    <3>1. Reading \in AdderRec
      BY DEF Reading, AdderRec
    <3> QED BY <1>0, <2>1, <3>1 DEF LogTyped
  <2>4. CapturePlaced' /\ StoppersPlaced'
    BY <1>0, <1>1, <2>1, CaptureFrame, StoppersFrame
  <2>5. ViewersPlaced'
    <3>1. \A p \in Outputs : adder'[p].todo \subseteq adder[p].todo /\ adder'[p].over \subseteq adder[p].over
      BY <2>2 DEF Reading
    <3> QED BY <1>0, <2>1, <3>1 DEF ViewersPlaced
  <2>6. LinesPlaced'
    <3>1. InHandOf(o)' = {} /\ adder'[o].at = "read" /\ adder'[o].todo = {}
      BY <2>2 DEF InHandOf, Reading
    <3>2. Unstored(o)' \subseteq Unstored(o) /\ LinesOf(pipes'[o]) \cap InHandOf(o)' = {}
      BY <1>0, <3>1 DEF Unstored
    <3>3. AllDiffer(pipes'[o])
      BY <1>0 DEF LinesPlaced
    <3> QED BY <1>0, <2>1, <2>2, <3>1, <3>2, <3>3, LinesFrame
  <2>7. StreamsWhole'
    <3>1. \A p \in Outputs : adder'[p].todo = adder[p].todo /\ (adder[p].todo # {} => adder'[p].line = adder[p].line)
      BY <1>1, <2>2 DEF Reading
    <3> QED BY <1>0, <2>1, <3>1, StreamsStill
  <2> QED BY <2>1, <2>3, <2>4, <2>5, <2>6, <2>7
<1>3. CASE ~ring.closed
  <2> DEFINE e == adder[o].line
  <2>1. /\ stored' = Append(stored, e) /\ ring' = Added(ring, e)
        /\ adder' = [adder EXCEPT ![o].at = "send", ![o].todo = viewerSet]
    BY <1>3 DEF AddLine, Added
  <2>2. /\ adder'[o] \in AdderRec /\ adder'[o].at = "send" /\ adder'[o].todo = viewerSet
        /\ adder'[o].line = e /\ adder'[o].over = adder[o].over
        /\ \A p \in Outputs : p # o => adder'[p] = adder[p]
    BY <2>1 DEF LogTyped, AdderRec
  <2>3. RingTyped(ring') /\ RingHolds(ring', stored') /\ ring'.closed = ring.closed
    BY <1>0, <2>1, RingAdds DEF LogTyped, RingTyped
  <2>4. /\ stored' \in Seq(Nat) /\ Len(stored') = Len(stored) + 1
        /\ LinesOf(stored') = LinesOf(stored) \cup {e}
        /\ AllDiffer(stored) /\ e \notin LinesOf(stored) => AllDiffer(stored')
    BY <1>0, <2>1, LinesAppended
  <2>5. e \notin LinesOf(stored) /\ e \in 1 .. printed /\ e \notin LinesOf(pipes[o])
        /\ \A p \in Outputs : p # o => e \notin Unstored(p)
    BY <1>1 DEF LinesPlaced, Unstored
  <2>6. LogTyped'
    <3>1. adder' \in [Outputs -> AdderRec]
      BY <2>1, <2>2 DEF LogTyped
    <3> QED BY <1>0, <2>3, <2>4, <3>1 DEF LogTyped, RingTyped
  <2>7. CapturePlaced' /\ StoppersPlaced'
    BY <1>0, <1>1, <2>3, CaptureFrame, StoppersFrame
  <2>8. ViewersPlaced'
    <3>1. \A p \in Outputs : adder'[p].over = adder[p].over
      BY <2>2
    <3>2. \A p \in Outputs : \A v \in adder'[p].todo : v \in adder[p].todo \/ v \in viewerSet
      BY <2>2
    <3> QED BY <1>0, <1>3, <2>3, <3>1, <3>2 DEF ViewersPlaced
  <2>9. LinesPlaced'
    <3>1. /\ InHandOf(o)' = {} /\ Unstored(o)' = LinesOf(pipes[o])
          /\ \A p \in Outputs : p # o => InHandOf(p)' = InHandOf(p) /\ Unstored(p)' = Unstored(p)
      BY <1>0, <2>2 DEF InHandOf, Unstored
    <3>2. \A p \in Outputs : Unstored(p)' \subseteq Unstored(p) /\ e \notin Unstored(p)'
      BY <2>5, <3>1 DEF Unstored
    <3>3. ASSUME NEW p \in Outputs
          PROVE  /\ adder'[p].at # "send" => adder'[p].todo = {}
                 /\ adder'[p].at = "send" => adder'[p].line \in LinesOf(stored')
                 /\ AllDiffer(pipes'[p]) /\ LinesOf(pipes'[p]) \cap InHandOf(p)' = {}
                 /\ Unstored(p)' \subseteq 1 .. printed' /\ Unstored(p)' \cap LinesOf(stored') = {}
      <4>1. AllDiffer(pipes[p]) /\ LinesOf(pipes[p]) \cap InHandOf(p) = {} /\ InHandOf(p)' \subseteq InHandOf(p)
        BY <3>1 DEF LinesPlaced
      <4>2. Unstored(p) \subseteq 1 .. printed /\ Unstored(p) \cap LinesOf(stored) = {}
        BY DEF LinesPlaced
      <4>3. /\ adder'[p].at # "send" => adder'[p].todo = {}
            /\ adder'[p].at = "send" => adder'[p].line \in LinesOf(stored')
        <5>1. CASE p = o
          BY <2>2, <2>4, <5>1
        <5>2. CASE p # o
          BY <2>2, <2>4, <5>2 DEF LinesPlaced
        <5> QED BY <5>1, <5>2
      <4>4. Unstored(p)' \cap LinesOf(stored') = {}
        BY <2>4, <3>2, <4>2
      <4>5. Unstored(p)' \subseteq 1 .. printed'
        BY <1>0, <3>2, <4>2
      <4> QED BY <1>0, <4>1, <4>3, <4>4, <4>5
    <3>4. ASSUME NEW p \in Outputs, NEW q \in Outputs, p # q
          PROVE  /\ Unstored(p)' \cap Unstored(q)' = {}
                 /\ adder'[p].at = "send" /\ adder'[q].at = "send" => adder'[p].line # adder'[q].line
      <4>1. Unstored(p) \cap Unstored(q) = {}
        BY <3>4 DEF LinesPlaced
      <4>2. adder[p].at = "send" /\ adder[q].at = "send" => adder[p].line # adder[q].line
        BY <3>4 DEF LinesPlaced
      <4>3. (adder[p].at = "send" => adder[p].line # e) /\ (adder[q].at = "send" => adder[q].line # e)
        BY <2>5 DEF LinesPlaced
      <4> QED BY <2>2, <3>2, <3>4, <4>1, <4>2, <4>3
    <3>5. AllDiffer(stored') /\ LinesOf(stored') \subseteq 1 .. printed'
      BY <1>0, <2>4, <2>5 DEF LinesPlaced
    <3> QED BY <3>3, <3>4, <3>5 DEF LinesPlaced
  <2>10. StreamsWhole'
    <3>1. SUFFICES ASSUME NEW v \in Viewers PROVE StreamWhole(v)'
      BY DEF StreamsWhole
    <3>2. StreamWhole(v) /\ viewer[v].from \in Nat /\ viewer[v].from <= Len(stored)
      BY DEF StreamsWhole, StreamWhole, LogTyped, ViewerRec
    <3>3. Due(v)' = Due(v) \cup {e}
      BY <1>0, <2>1, <3>2, DueGrows DEF Due
    <3>4. Due(v) \subseteq LinesOf(stored)
      <4>1. Due(v) = {stored[i] : i \in (viewer[v].from + 1) .. Len(stored)}
        BY <1>0, <3>2, DueLines DEF Due
      <4>2. (viewer[v].from + 1) .. Len(stored) \subseteq DOMAIN stored
        BY <1>0, <3>2
      <4> QED BY <4>1, <4>2 DEF LinesOf
    <3>5. Have(v)' = Have(v)
      BY <1>0 DEF Have
    <3>6. OnTheWay(v)' = IF v \in viewerSet THEN OnTheWay(v) \cup {e} ELSE OnTheWay(v)
      <4>1. CASE v \in viewerSet
        <5>1. {p \in Outputs : v \in adder'[p].todo} = {p \in Outputs : v \in adder[p].todo} \cup {o}
          BY <1>1, <2>2, <4>1
        <5>2. \A p \in Outputs : v \in adder[p].todo => adder'[p].line = adder[p].line
          BY <2>2
        <5> QED BY <2>2, <4>1, <5>1, <5>2 DEF OnTheWay
      <4>2. CASE v \notin viewerSet
        <5>1. \A p \in Outputs : v \in adder'[p].todo <=> v \in adder[p].todo
          BY <1>1, <2>2, <4>2
        <5>2. \A p \in Outputs : adder'[p].line = adder[p].line
          BY <2>2
        <5> QED BY <4>2, <5>1, <5>2 DEF OnTheWay
      <4> QED BY <4>1, <4>2
    <3>7. viewer[v].at = "open" /\ ~viewer[v].closed => v \in viewerSet
      <4>1. \A s \in ClosingCalls : stopper[s].todo = {}
        <5>1. \A s \in ClosingCalls : stopper[s].at = "none" /\ s \in Stoppers
          BY <1>3, LogHubAssumption DEF StoppersPlaced
        <5> QED BY <5>1 DEF StoppersPlaced
      <4> QED BY <4>1 DEF ViewersPlaced
    <3>8. viewer'[v] = viewer[v] /\ Len(stored') = Len(stored) + 1 /\ Len(stored) \in Nat
      BY <1>0, <2>4
    <3>9. AllDiffer(Have(v)') /\ viewer'[v].from <= Len(stored')
      BY <3>2, <3>5, <3>8 DEF StreamWhole
    <3>10. viewer[v].at # "none" =>
             /\ LinesOf(Have(v)') \cup OnTheWay(v)' \subseteq Due(v)'
             /\ LinesOf(Have(v)') \cap OnTheWay(v)' = {}
      <4>1. viewer[v].at # "none" =>
              LinesOf(Have(v)) \cup OnTheWay(v) \subseteq Due(v) /\ LinesOf(Have(v)) \cap OnTheWay(v) = {}
        BY <3>2 DEF StreamWhole
      <4> QED BY <2>5, <3>3, <3>4, <3>5, <3>6, <4>1
    <3>11. viewer[v].at = "open" /\ ~viewer[v].closed => Due(v)' = LinesOf(Have(v)') \cup OnTheWay(v)'
      <4>1. viewer[v].at = "open" /\ ~viewer[v].closed => Due(v) = LinesOf(Have(v)) \cup OnTheWay(v)
        BY <3>2 DEF StreamWhole
      <4> QED BY <3>3, <3>5, <3>6, <3>7, <4>1
    <3> QED BY <3>8, <3>9, <3>10, <3>11 DEF StreamWhole
  <2> QED BY <2>3, <2>6, <2>7, <2>8, <2>9, <2>10
<1> QED BY <1>2, <1>3

LEMMA SendLineKeeps == ASSUME LogInv, NEW o \in Outputs, NEW v \in Viewers, SendLine(o, v) PROVE LogInv'
<1> USE DEF LogInv
<1> DEFINE e    == adder[o].line
           full == ~viewer[v].closed /\ Len(viewer[v].ch) = ViewerBuffer
           u    == IF viewer[v].closed THEN viewer[v]
                   ELSE IF full THEN [viewer[v] EXCEPT !.closed = TRUE]
                   ELSE [viewer[v] EXCEPT !.ch = Append(viewer[v].ch, e)]
<1>0. /\ UNCHANGED <<ring, viewerSet, stored, pipes, capture, starting, printed, stopper>>
      /\ adder[o].at = "send" /\ v \in adder[o].todo /\ adder[o] \in AdderRec /\ viewer[v] \in ViewerRec
      /\ adder' = [adder EXCEPT ![o].todo = @ \ {v}, ![o].over = IF full THEN @ \cup {v} ELSE @]
      /\ e \in Nat
  BY DEF SendLine, LogTyped, AdderRec
<1>1. viewer' = [viewer EXCEPT ![v] = u]
  BY DEF SendLine, LogTyped
<1>2. /\ u \in ViewerRec /\ Len(u.ch) <= ViewerBuffer
      /\ u.at = viewer[v].at /\ u.from = viewer[v].from /\ u.got = viewer[v].got
      /\ viewer[v].closed => u = viewer[v]
      /\ full => u.closed /\ u.ch = viewer[v].ch
      /\ ~viewer[v].closed /\ ~full => ~u.closed /\ u.ch = Append(viewer[v].ch, e)
  <2>1. Len(viewer[v].ch) <= ViewerBuffer /\ ViewerBuffer \in Nat
    BY LogHubAssumption DEF LogTyped
  <2>2. CASE viewer[v].closed
    BY <1>0, <2>1, <2>2
  <2>3. CASE full
    BY <1>0, <2>1, <2>3 DEF ViewerRec
  <2>4. CASE ~viewer[v].closed /\ ~full
    <3>1. viewer[v].ch \in Seq(Nat) /\ Len(viewer[v].ch) \in Nat
      BY <1>0 DEF ViewerRec
    <3>2. Append(viewer[v].ch, e) \in Seq(Nat) /\ Len(Append(viewer[v].ch, e)) = Len(viewer[v].ch) + 1
      BY <1>0, <3>1, LinesAppended
    <3>3. u = [viewer[v] EXCEPT !.ch = Append(viewer[v].ch, e)]
      BY <2>4
    <3>4. /\ u \in ViewerRec /\ u.at = viewer[v].at /\ u.from = viewer[v].from /\ u.got = viewer[v].got
          /\ u.closed = viewer[v].closed /\ u.ch = Append(viewer[v].ch, e)
      BY <1>0, <3>2, <3>3 DEF ViewerRec
    <3>5. Len(u.ch) <= ViewerBuffer
      BY <2>1, <2>4, <3>1, <3>2, <3>4
    <3> HIDE DEF u
    <3> QED BY <2>4, <3>4, <3>5
  <2> QED BY <2>2, <2>3, <2>4
<1>3. /\ adder'[o] \in AdderRec /\ adder'[o].at = "send" /\ adder'[o].line = e
      /\ adder'[o].todo = adder[o].todo \ {v}
      /\ adder'[o].over = IF full THEN adder[o].over \cup {v} ELSE adder[o].over
      /\ \A p \in Outputs : p # o => adder'[p] = adder[p]
  BY <1>0 DEF LogTyped, AdderRec
<1>4. viewer'[v] = u /\ \A w \in Viewers : w # v => viewer'[w] = viewer[w]
  BY <1>1 DEF LogTyped
<1>5. starting = "done"
  BY <1>0 DEF CapturePlaced, LogTyped
<1> HIDE DEF u
<1>6. LogTyped'
  <2>1. adder' \in [Outputs -> AdderRec]
    BY <1>0, <1>3 DEF LogTyped
  <2>2. viewer' \in [Viewers -> ViewerRec] /\ \A w \in Viewers : Len(viewer'[w].ch) <= ViewerBuffer
    BY <1>1, <1>2, <1>4 DEF LogTyped
  <2> QED BY <1>0, <2>1, <2>2 DEF LogTyped
<1>7. CapturePlaced' /\ StoppersPlaced'
  BY <1>0, <1>5, CaptureFrame, StoppersFrame
<1>8. viewer[v].at # "none"
  BY <1>0 DEF ViewersPlaced
<1>9. ViewersPlaced'
  <2>1. \A w \in Viewers : /\ viewer'[w].at = viewer[w].at /\ (viewer[w].closed => viewer'[w].closed)
                           /\ viewer'[w].at = "none" => viewer'[w] = viewer[w]
    BY <1>2, <1>4, <1>8
  <2>2. \A p \in Outputs : /\ adder'[p].todo \subseteq adder[p].todo
                           /\ \A w \in adder'[p].over : w \in adder[p].over \/ (viewer'[w].closed /\ viewer[w].at # "none")
    BY <1>2, <1>3, <1>4, <1>8
  <2>3. adder \in [Outputs -> AdderRec]
    BY DEF LogTyped
  <2>4. \A w \in Viewers : viewer'[w].at = "open" /\ ~viewer'[w].closed =>
          viewer[w].at = "open" /\ ~viewer[w].closed /\ (w \in viewerSet => w \in viewerSet')
    BY <1>0, <2>1
  <2> QED BY <1>0, <2>1, <2>2, <2>3, <2>4, ViewersFrame
<1>10. LinesPlaced'
  <2>1. Unstored(o)' \subseteq Unstored(o) /\ InHandOf(o)' = InHandOf(o)
    BY <1>0, <1>3 DEF Unstored, InHandOf
  <2>2. AllDiffer(pipes'[o]) /\ LinesOf(pipes'[o]) \cap InHandOf(o)' = {}
    BY <1>0, <2>1 DEF LinesPlaced
  <2>3. printed \in Nat
    BY DEF LogTyped
  <2> QED BY <1>0, <1>3, <2>1, <2>2, <2>3, LinesFrame
<1>11. \A w \in Viewers : w # v => OnTheWay(w)' = OnTheWay(w)
  <2>1. SUFFICES ASSUME NEW w \in Viewers, w # v PROVE OnTheWay(w)' = OnTheWay(w)
    OBVIOUS
  <2>2. \A p \in Outputs : (w \in adder'[p].todo <=> w \in adder[p].todo) /\ adder'[p].line = adder[p].line
    BY <1>3, <2>1
  <2> QED BY <2>2 DEF OnTheWay
<1>12. OnTheWay(v)' = OnTheWay(v) \ {e} /\ e \in OnTheWay(v)
  <2>1. \A p \in Outputs : v \in adder[p].todo => adder[p].at = "send"
    BY DEF LinesPlaced
  <2>2. \A p \in Outputs : p # o /\ v \in adder[p].todo => adder[p].line # e
    BY <1>0, <2>1 DEF LinesPlaced
  <2>3. \A p \in Outputs : v \in adder'[p].todo <=> p # o /\ v \in adder[p].todo
    BY <1>3
  <2>4. \A p \in Outputs : adder'[p].line = adder[p].line
    BY <1>3
  <2>5. OnTheWay(v)' = {adder[p].line : p \in {q \in Outputs : q # o /\ v \in adder[q].todo}}
    BY <2>3, <2>4, Zenon DEF OnTheWay
  <2>6. e \in OnTheWay(v)
    BY <1>0 DEF OnTheWay
  <2>7. \A x \in OnTheWay(v) \ {e} : x \in {adder[p].line : p \in {q \in Outputs : q # o /\ v \in adder[q].todo}}
    BY DEF OnTheWay
  <2>8. \A x \in {adder[p].line : p \in {q \in Outputs : q # o /\ v \in adder[q].todo}} : x \in OnTheWay(v) /\ x # e
    BY <2>2 DEF OnTheWay
  <2> HIDE DEF e
  <2> QED BY <2>5, <2>6, <2>7, <2>8
<1>13. StreamsWhole'
  <2>1. SUFFICES ASSUME NEW w \in Viewers PROVE StreamWhole(w)'
    BY DEF StreamsWhole
  <2>2. StreamWhole(w)
    BY DEF StreamsWhole
  <2>3. CASE w # v
    <3>1. Have(w)' = Have(w) /\ viewer'[w] = viewer[w] /\ OnTheWay(w)' = OnTheWay(w)
      BY <1>4, <1>11, <2>3 DEF Have
    <3> QED BY <1>0, <2>2, <3>1, StreamFrame
  <2>4. CASE w = v /\ (viewer[v].closed \/ full)
    <3>1. Have(v)' = Have(v) /\ u.from = viewer[v].from /\ u.at = viewer[v].at /\ u.closed
      BY <1>2, <1>4, <2>4 DEF Have
    <3>2. OnTheWay(v)' \subseteq OnTheWay(v)
      BY <1>12
    <3> QED BY <1>0, <1>4, <2>2, <2>4, <3>1, <3>2, StreamFrame
  <2>5. CASE w = v /\ ~viewer[v].closed /\ ~full
    <3>1. u.got = viewer[v].got /\ u.ch = Append(viewer[v].ch, e) /\ u.at = viewer[v].at /\ ~u.closed
          /\ u.from = viewer[v].from
      BY <1>2, <2>5
    <3>2. Have(v)' = Append(Have(v), e) /\ Have(v) \in Seq(Nat)
      <4>1. viewer[v].got \in Seq(Nat) /\ viewer[v].ch \in Seq(Nat)
        BY <1>0 DEF ViewerRec
      <4>2. viewer[v].got \o Append(viewer[v].ch, e) = Append(viewer[v].got \o viewer[v].ch, e)
        BY <1>0, <4>1, HaveGrows
      <4>3. viewer[v].got \o viewer[v].ch \in Seq(Nat)
        BY <4>1
      <4> QED BY <1>4, <3>1, <4>2, <4>3 DEF Have
    <3>3. /\ LinesOf(Have(v)') = LinesOf(Have(v)) \cup {e}
          /\ AllDiffer(Have(v)) /\ e \notin LinesOf(Have(v)) => AllDiffer(Have(v)')
      BY <1>0, <3>2, LinesAppended
    <3>4. /\ AllDiffer(Have(v)) /\ viewer[v].from <= Len(stored)
          /\ LinesOf(Have(v)) \cup OnTheWay(v) \subseteq Due(v) /\ LinesOf(Have(v)) \cap OnTheWay(v) = {}
          /\ viewer[v].at = "open" => Due(v) = LinesOf(Have(v)) \cup OnTheWay(v)
      BY <1>8, <2>2, <2>5 DEF StreamWhole
    <3>5. Due(v)' = Due(v)
      BY <1>0, <1>4, <3>1 DEF Due
    <3>6. AllDiffer(Have(v)') /\ viewer'[v].from <= Len(stored')
      BY <1>0, <1>4, <1>12, <3>1, <3>3, <3>4
    <3>7. LinesOf(Have(v)') \cup OnTheWay(v)' \subseteq Due(v)' /\ LinesOf(Have(v)') \cap OnTheWay(v)' = {}
      BY <1>12, <3>3, <3>4, <3>5
    <3>8. viewer'[v].at = "open" => Due(v)' = LinesOf(Have(v)') \cup OnTheWay(v)'
      BY <1>4, <1>12, <3>1, <3>3, <3>4, <3>5
    <3> QED BY <2>5, <3>6, <3>7, <3>8 DEF StreamWhole
  <2> QED BY <2>3, <2>4, <2>5
<1> QED BY <1>0, <1>6, <1>7, <1>9, <1>10, <1>13

LEMMA EndKeeps == ASSUME LogInv, NEW o \in Outputs, EndAdd(o) PROVE LogInv'
<1> USE DEF LogInv
<1>0. /\ UNCHANGED <<ring, viewer, stored, pipes, capture, starting, printed, stopper>>
      /\ adder[o].at = "send" /\ adder[o].todo = {} /\ adder[o] \in AdderRec
      /\ viewerSet' = viewerSet \ adder[o].over /\ adder' = [adder EXCEPT ![o] = Reading]
  BY DEF EndAdd, LogTyped
<1>1. adder'[o] = Reading /\ \A p \in Outputs : p # o => adder'[p] = adder[p]
  BY <1>0 DEF LogTyped
<1>2. starting = "done"
  BY <1>0 DEF CapturePlaced, LogTyped
<1>3. LogTyped'
  <2>1. Reading \in AdderRec
    BY DEF Reading, AdderRec
  <2> QED BY <1>0, <2>1 DEF LogTyped
<1>4. CapturePlaced' /\ StoppersPlaced'
  BY <1>0, <1>2, CaptureFrame, StoppersFrame
<1>5. ViewersPlaced'
  <2>1. \A p \in Outputs : adder'[p].todo \subseteq adder[p].todo /\ adder'[p].over \subseteq adder[p].over
    BY <1>1 DEF Reading
  <2>2. \A v \in adder[o].over : viewer[v].closed
    BY DEF ViewersPlaced
  <2> QED BY <1>0, <2>1, <2>2 DEF ViewersPlaced
<1>6. LinesPlaced'
  <2>1. InHandOf(o)' = {} /\ adder'[o].at = "read" /\ adder'[o].todo = {}
    BY <1>1 DEF InHandOf, Reading
  <2>2. Unstored(o)' \subseteq Unstored(o) /\ LinesOf(pipes'[o]) \cap InHandOf(o)' = {}
    BY <1>0, <2>1 DEF Unstored
  <2>3. AllDiffer(pipes'[o]) /\ printed \in Nat
    BY <1>0 DEF LinesPlaced, LogTyped
  <2> QED BY <1>0, <1>1, <2>1, <2>2, <2>3, LinesFrame
<1>7. StreamsWhole'
  <2>1. \A p \in Outputs : adder'[p].todo = adder[p].todo /\ (adder[p].todo # {} => adder'[p].line = adder[p].line)
    BY <1>0, <1>1 DEF Reading
  <2> QED BY <1>0, <2>1, StreamsStill
<1> QED BY <1>0, <1>3, <1>4, <1>5, <1>6, <1>7

-----------------------------------------------------------------------------
(* The steps of a stream.                                                  *)

LEMMA SubscribeKeeps == ASSUME LogInv, NEW v \in Viewers, Subscribe(v) PROVE LogInv'
<1> USE DEF LogInv
<1> DEFINE u == [Absent EXCEPT !.at = "open", !.closed = ring.closed, !.from = Len(stored)]
<1>0. /\ UNCHANGED <<ring, stored, adder, pipes, capture, starting, printed, stopper>>
      /\ viewer[v].at = "none" /\ viewer[v] = Absent
      /\ viewerSet' = IF ring.closed THEN viewerSet ELSE viewerSet \cup {v}
      /\ stored \in Seq(Nat) /\ Len(stored) \in Nat /\ ring.closed \in BOOLEAN
  BY DEF Subscribe, ViewersPlaced, LogTyped, capVars
<1>1. viewer' = [viewer EXCEPT ![v] = u]
  <2>1. viewer' = [viewer EXCEPT ![v].at = "open", ![v].closed = ring.closed, ![v].from = Len(stored)]
    BY DEF Subscribe
  <2>2. viewer' = [viewer EXCEPT ![v] = [viewer[v] EXCEPT !.at = "open", !.closed = ring.closed, !.from = Len(stored)]]
    BY <2>1 DEF LogTyped
  <2> QED BY <1>0, <2>2, Zenon
<1>2. /\ u \in ViewerRec /\ u.at = "open" /\ u.closed = ring.closed /\ u.from = Len(stored)
      /\ u.ch = << >> /\ u.got = << >> /\ Len(u.ch) <= ViewerBuffer
  <2>1. /\ Absent \in ViewerRec /\ Absent.ch = << >> /\ Absent.got = << >>
        /\ Len(<< >>) = 0 /\ 0 <= ViewerBuffer
    BY LogHubAssumption DEF Absent, ViewerRec
  <2> QED BY <1>0, <2>1 DEF ViewerRec
<1> HIDE DEF u
<1>3. viewer'[v] = u /\ \A w \in Viewers : w # v => viewer'[w] = viewer[w]
  BY <1>1 DEF LogTyped
<1>4. LogTyped'
  BY <1>0, <1>1, <1>2, <1>3 DEF LogTyped
<1>5. CapturePlaced' /\ StoppersPlaced' /\ LinesPlaced'
  BY <1>0, LinesStill DEF CapturePlaced, StoppersPlaced
<1>6. ViewersPlaced'
  <2>1. (ring.closed => viewerSet = {})'
    BY <1>0 DEF ViewersPlaced
  <2>2. ASSUME NEW w \in Viewers, viewer'[w].at = "none"
        PROVE  /\ viewer'[w] = Absent /\ w \notin viewerSet'
               /\ \A o \in Outputs : w \notin adder'[o].todo \cup adder'[o].over
               /\ \A s \in Stoppers : w \notin stopper'[s].todo
    <3>1. w # v
      BY <1>2, <1>3, <2>2
    <3> QED BY <1>0, <1>3, <2>2, <3>1 DEF ViewersPlaced
  <2>3. ASSUME NEW o \in Outputs, NEW w \in adder'[o].over PROVE viewer'[w].closed
    <3>1. w \in Viewers /\ w \in adder[o].over /\ v \notin adder[o].over
      BY <1>0 DEF LogTyped, AdderRec, ViewersPlaced
    <3> QED BY <1>3, <3>1 DEF ViewersPlaced
  <2>4. ASSUME NEW w \in Viewers, viewer'[w].at = "open", ~viewer'[w].closed
        PROVE  w \in viewerSet' \/ \E s \in ClosingCalls : w \in stopper'[s].todo
    <3>1. CASE w = v
      BY <1>0, <1>2, <1>3, <2>4, <3>1
    <3>2. CASE w # v
      BY <1>0, <1>3, <2>4, <3>2 DEF ViewersPlaced
    <3> QED BY <3>1, <3>2
  <2> QED BY <2>1, <2>2, <2>3, <2>4 DEF ViewersPlaced
<1>7. StreamsWhole'
  <2>1. SUFFICES ASSUME NEW w \in Viewers PROVE StreamWhole(w)'
    BY DEF StreamsWhole
  <2>2. StreamWhole(w) /\ OnTheWay(w)' = OnTheWay(w)
    BY <1>0 DEF StreamsWhole, OnTheWay
  <2>3. CASE w # v
    <3>1. Have(w)' = Have(w) /\ viewer'[w] = viewer[w]
      BY <1>3, <2>3 DEF Have
    <3> QED BY <1>0, <2>2, <3>1, StreamFrame
  <2>4. CASE w = v
    <3>1. Have(v)' = << >>
      BY <1>2, <1>3 DEF Have
    <3>2. OnTheWay(v) = {}
      BY <1>0 DEF OnTheWay, ViewersPlaced
    <3>3. Due(v)' = {}
      <4>1. LinesOf(SubSeq(stored, Len(stored) + 1, Len(stored))) = {stored[i] : i \in (Len(stored) + 1) .. Len(stored)}
        BY <1>0, DueLines
      <4>2. (Len(stored) + 1) .. Len(stored) = {}
        BY <1>0
      <4> QED BY <1>0, <1>2, <1>3, <4>1, <4>2 DEF Due
    <3>4. AllDiffer(Have(v)') /\ LinesOf(Have(v)') = {}
      BY <3>1 DEF AllDiffer, LinesOf
    <3>5. viewer'[v].from <= Len(stored')
      BY <1>0, <1>2, <1>3
    <3> QED BY <2>2, <2>4, <3>2, <3>3, <3>4, <3>5 DEF StreamWhole
  <2> QED BY <2>3, <2>4
<1> QED BY <1>0, <1>4, <1>5, <1>6, <1>7

\* A subscriber reads, leaves or is closed; nothing is sent to it.
LEMMA ViewerMoves ==
  ASSUME LogInv, NEW v \in Viewers, NEW u \in ViewerRec, viewer' = [viewer EXCEPT ![v] = u],
         UNCHANGED <<ring, stored, adder, pipes, capture, starting, printed>>,
         viewerSet' = viewerSet \/ (viewerSet' = viewerSet \ {v} /\ u.at # "open"),
         Len(u.ch) <= ViewerBuffer, u.from = viewer[v].from, u.got \o u.ch = viewer[v].got \o viewer[v].ch,
         viewer[v].at # "none" /\ u.at # "none" /\ (u.at = "open" => viewer[v].at = "open"),
         viewer[v].closed => u.closed
  PROVE  /\ viewer'[v] = u
         /\ (stopper' \in [Stoppers -> StopperRec] => LogTyped') /\ LinesPlaced' /\ StreamsWhole'
         /\ UNCHANGED stopper => LogInv'
<1> USE DEF LogInv
<1>1. viewer'[v] = u /\ \A w \in Viewers : w # v => viewer'[w] = viewer[w]
  BY DEF LogTyped
<1>2. stopper' \in [Stoppers -> StopperRec] => LogTyped'
  <2>1. \A w \in Viewers : Len(viewer'[w].ch) <= ViewerBuffer
    BY <1>1 DEF LogTyped
  <2>2. viewerSet' \in SUBSET Viewers
    BY DEF LogTyped
  <2> QED BY <2>1, <2>2 DEF LogTyped
<1>3. LinesPlaced'
  BY LinesStill
<1>4. StreamsWhole'
  <2>1. SUFFICES ASSUME NEW w \in Viewers PROVE StreamWhole(w)'
    BY DEF StreamsWhole
  <2>2. StreamWhole(w) /\ OnTheWay(w)' = OnTheWay(w)
    BY DEF StreamsWhole, OnTheWay
  <2>3. Have(w)' = Have(w) /\ viewer'[w].from = viewer[w].from
    BY <1>1 DEF Have
  <2>4. /\ viewer'[w].at # "none" => viewer[w].at # "none"
        /\ viewer'[w].at = "open" /\ ~viewer'[w].closed => viewer[w].at = "open" /\ ~viewer[w].closed
    BY <1>1
  <2> QED BY <2>2, <2>3, <2>4, StreamFrame
<1>5. ASSUME UNCHANGED stopper PROVE LogInv'
  <2>1. stopper' \in [Stoppers -> StopperRec]
    BY <1>5 DEF LogTyped
  <2>2. CapturePlaced' /\ StoppersPlaced'
    BY <1>5 DEF CapturePlaced, StoppersPlaced
  <2>3. ViewersPlaced'
    <3>1. \A w \in Viewers : /\ viewer'[w].at = "none" => viewer'[w] = viewer[w]
                             /\ viewer[w].closed => viewer'[w].closed
                             /\ viewer'[w].at = "open" /\ ~viewer'[w].closed =>
                                  viewer[w].at = "open" /\ ~viewer[w].closed /\ (w \in viewerSet => w \in viewerSet')
      BY <1>1
    <3>2. adder \in [Outputs -> AdderRec] /\ viewerSet' \subseteq viewerSet
      BY DEF LogTyped
    <3> QED BY <1>5, <3>1, <3>2, ViewersFrame
  <2>4. RingHolds(ring, stored)'
    OBVIOUS
  <2> QED BY <1>2, <1>3, <1>4, <2>1, <2>2, <2>3, <2>4
<1> QED BY <1>1, <1>2, <1>3, <1>4, <1>5

LEMMA ReceiveKeeps == ASSUME LogInv, NEW v \in Viewers, ReceiveLine(v) PROVE LogInv'
<1>1. /\ UNCHANGED <<ring, viewerSet, stored, adder, pipes, capture, starting, printed, stopper>>
      /\ viewer[v].at = "open" /\ viewer[v] \in ViewerRec /\ Len(viewer[v].ch) <= ViewerBuffer /\ ViewerBuffer \in Nat
  BY LogHubAssumption DEF ReceiveLine, LogInv, LogTyped, capVars
<1>2. CASE viewer[v].ch # << >> /\ viewer' = [viewer EXCEPT ![v].ch = Tail(@), ![v].got = Append(@, Head(viewer[v].ch))]
  <2> DEFINE u == [viewer[v] EXCEPT !.ch = Tail(viewer[v].ch), !.got = Append(viewer[v].got, Head(viewer[v].ch))]
  <2>1. viewer' = [viewer EXCEPT ![v] = u]
    BY <1>2 DEF LogInv, LogTyped
  <2>2. viewer[v].ch \in Seq(Nat) /\ viewer[v].got \in Seq(Nat) /\ Len(viewer[v].ch) \in Nat
    BY <1>1 DEF ViewerRec
  <2>3. /\ Tail(viewer[v].ch) \in Seq(Nat) /\ Head(viewer[v].ch) \in Nat
        /\ Len(Tail(viewer[v].ch)) <= Len(viewer[v].ch) /\ Len(Tail(viewer[v].ch)) \in Nat
    BY <1>2, <2>2, LinesTaken
  <2>4. Append(viewer[v].got, Head(viewer[v].ch)) \in Seq(Nat)
    BY <2>2, <2>3
  <2>5. /\ u \in ViewerRec /\ u.at = viewer[v].at /\ u.from = viewer[v].from /\ u.closed = viewer[v].closed
        /\ u.ch = Tail(viewer[v].ch) /\ u.got = Append(viewer[v].got, Head(viewer[v].ch))
    BY <1>1, <2>3, <2>4 DEF ViewerRec
  <2>6. u.got \o u.ch = viewer[v].got \o viewer[v].ch
    BY <1>2, <2>2, <2>5, HaveKept
  <2>7. Len(u.ch) <= ViewerBuffer
    BY <1>1, <2>2, <2>3, <2>5
  <2> HIDE DEF u
  <2> QED BY <1>1, <2>1, <2>5, <2>6, <2>7, ViewerMoves
<1>3. CASE viewer' = [viewer EXCEPT ![v].at = "leaving"]
  <2> DEFINE u == [viewer[v] EXCEPT !.at = "leaving"]
  <2>1. viewer' = [viewer EXCEPT ![v] = u]
    BY <1>3 DEF LogInv, LogTyped
  <2>2. /\ u \in ViewerRec /\ u.at = "leaving" /\ u.from = viewer[v].from /\ u.closed = viewer[v].closed
        /\ u.ch = viewer[v].ch /\ u.got = viewer[v].got
    BY <1>1 DEF ViewerRec
  <2> HIDE DEF u
  <2> QED BY <1>1, <2>1, <2>2, ViewerMoves
<1> QED BY <1>2, <1>3 DEF ReceiveLine

LEMMA GoneKeeps == ASSUME LogInv, NEW v \in Viewers, ViewerGone(v) PROVE LogInv'
<1>1. /\ UNCHANGED <<ring, viewerSet, stored, adder, pipes, capture, starting, printed, stopper>>
      /\ viewer[v].at = "open" /\ viewer[v] \in ViewerRec /\ Len(viewer[v].ch) <= ViewerBuffer
  BY DEF ViewerGone, LogInv, LogTyped, capVars
<1> DEFINE u == [viewer[v] EXCEPT !.at = "leaving"]
<1>2. viewer' = [viewer EXCEPT ![v] = u]
  BY DEF ViewerGone, LogInv, LogTyped
<1>3. /\ u \in ViewerRec /\ u.at = "leaving" /\ u.from = viewer[v].from /\ u.closed = viewer[v].closed
      /\ u.ch = viewer[v].ch /\ u.got = viewer[v].got
  BY <1>1 DEF ViewerRec
<1> HIDE DEF u
<1> QED BY <1>1, <1>2, <1>3, ViewerMoves

LEMMA UnsubscribeKeeps == ASSUME LogInv, NEW v \in Viewers, Unsubscribe(v) PROVE LogInv'
<1>1. /\ UNCHANGED <<ring, stored, adder, pipes, capture, starting, printed, stopper>>
      /\ viewer[v].at \in {"leaving", "closing"} /\ viewer[v] \in ViewerRec /\ Len(viewer[v].ch) <= ViewerBuffer
  BY DEF Unsubscribe, LogInv, LogTyped, capVars
<1>2. CASE viewer[v].at = "leaving"
  <2> DEFINE u == [viewer[v] EXCEPT !.at = IF v \in viewerSet THEN "closing" ELSE "gone"]
  <2>1. viewer' = [viewer EXCEPT ![v] = u] /\ viewerSet' = viewerSet \ {v}
    BY <1>2 DEF Unsubscribe, LogInv, LogTyped
  <2>2. /\ u \in ViewerRec /\ u.at \in {"closing", "gone"} /\ u.from = viewer[v].from /\ u.closed = viewer[v].closed
        /\ u.ch = viewer[v].ch /\ u.got = viewer[v].got
    BY <1>1 DEF ViewerRec
  <2> HIDE DEF u
  <2> QED BY <1>1, <2>1, <2>2, ViewerMoves
<1>3. CASE viewer[v].at = "closing"
  <2> DEFINE u == [viewer[v] EXCEPT !.at = "gone", !.closed = TRUE]
  <2>1. viewer' = [viewer EXCEPT ![v] = u] /\ viewerSet' = viewerSet
    BY <1>3 DEF Unsubscribe, LogInv, LogTyped
  <2>2. /\ u \in ViewerRec /\ u.at = "gone" /\ u.from = viewer[v].from /\ u.closed
        /\ u.ch = viewer[v].ch /\ u.got = viewer[v].got
    BY <1>1 DEF ViewerRec
  <2> HIDE DEF u
  <2> QED BY <1>1, <2>1, <2>2, ViewerMoves
<1> QED BY <1>1, <1>2, <1>3

-----------------------------------------------------------------------------
(* Close and StopCapture.                                                  *)

LEMMA CloseHubKeeps == ASSUME LogInv, NEW s \in Stoppers, CloseHub(s) PROVE LogInv'
<1> USE DEF LogInv
<1>0. /\ UNCHANGED <<viewer, stored, adder, pipes, capture, starting, printed>>
      /\ s \in ClosingCalls /\ stopper[s].at = "none" /\ stopper[s].todo = {} /\ viewerSet' = {}
      /\ viewerSet \in SUBSET Viewers
  BY DEF CloseHub, StoppersPlaced, LogTyped, capVars
<1>1. /\ ring' = [ring EXCEPT !.closed = TRUE]
      /\ stopper' = [stopper EXCEPT ![s] = [at |-> "close", todo |-> viewerSet]]
  BY DEF CloseHub
<1>2. /\ ring'.closed /\ ring'.lines = ring.lines /\ ring'.start = ring.start /\ ring'.count = ring.count
      /\ RingTyped(ring')
  BY <1>1 DEF LogTyped, RingTyped
<1>3. /\ stopper'[s].at = "close" /\ stopper'[s].todo = viewerSet
      /\ \A t \in Stoppers : t # s => stopper'[t] = stopper[t]
      /\ stopper' \in [Stoppers -> StopperRec]
  <2>1. [at |-> "close", todo |-> viewerSet] \in StopperRec
    BY <1>0 DEF StopperRec
  <2> QED BY <1>1, <2>1 DEF LogTyped
<1>4. LogTyped'
  BY <1>0, <1>2, <1>3 DEF LogTyped, RingTyped
<1>5. CapturePlaced'
  <2>1. \A t \in Stoppers : stopper'[t].at = "wait" => stopper[t].at = "wait"
    BY <1>3
  <2> QED BY <1>0, <2>1, CaptureFrame
<1>6. StoppersPlaced'
  BY <1>0, <1>2, <1>3, LogHubAssumption DEF StoppersPlaced
<1>7. ViewersPlaced'
  <2>1. \A v \in Viewers : viewer[v].at = "none" => \A t \in Stoppers : v \notin stopper'[t].todo
    BY <1>3 DEF ViewersPlaced
  <2>2. ASSUME NEW v \in Viewers, viewer[v].at = "open", ~viewer[v].closed
        PROVE  \E t \in ClosingCalls : v \in stopper'[t].todo
    <3>1. CASE v \in viewerSet
      BY <1>0, <1>3, <3>1
    <3>2. CASE v \notin viewerSet
      <4>1. PICK t \in ClosingCalls : v \in stopper[t].todo
        BY <2>2, <3>2 DEF ViewersPlaced
      <4>2. t # s /\ t \in Stoppers
        BY <1>0, <4>1, LogHubAssumption
      <4> QED BY <1>3, <4>1, <4>2
    <3> QED BY <3>1, <3>2
  <2> QED BY <1>0, <1>2, <2>1, <2>2 DEF ViewersPlaced
<1>8. LinesPlaced' /\ StreamsWhole'
  BY <1>0, LinesStill, StreamsStill
<1>9. RingHolds(ring, stored)'
  BY <1>0, <1>2 DEF RingHolds
<1> QED BY <1>4, <1>5, <1>6, <1>7, <1>8, <1>9

LEMMA CloseViewerKeeps == ASSUME LogInv, NEW s \in Stoppers, CloseViewer(s) PROVE LogInv'
<1>0. /\ UNCHANGED <<ring, viewerSet, stored, adder, pipes, capture, starting, printed>>
      /\ stopper[s] \in StopperRec
  BY DEF CloseViewer, LogInv, LogTyped, capVars
<1>1. PICK v \in stopper[s].todo : /\ viewer' = [viewer EXCEPT ![v].closed = TRUE]
                                   /\ stopper' = [stopper EXCEPT ![s].todo = @ \ {v}]
  BY DEF CloseViewer
<1>2. v \in Viewers /\ viewer[v] \in ViewerRec /\ Len(viewer[v].ch) <= ViewerBuffer /\ viewer[v].at # "none"
  BY <1>0, <1>1 DEF LogInv, LogTyped, StopperRec, ViewersPlaced
<1> DEFINE u == [viewer[v] EXCEPT !.closed = TRUE]
<1>3. viewer' = [viewer EXCEPT ![v] = u]
  BY <1>1 DEF LogInv, LogTyped
<1>4. /\ u \in ViewerRec /\ u.at = viewer[v].at /\ u.from = viewer[v].from /\ u.closed
      /\ u.ch = viewer[v].ch /\ u.got = viewer[v].got
  BY <1>2 DEF ViewerRec
<1> HIDE DEF u
<1>5. /\ stopper' \in [Stoppers -> StopperRec]
      /\ stopper'[s].at = stopper[s].at /\ stopper'[s].todo = stopper[s].todo \ {v}
      /\ \A t \in Stoppers : t # s => stopper'[t] = stopper[t]
  BY <1>0, <1>1 DEF LogInv, LogTyped, StopperRec
<1>6. LogTyped' /\ LinesPlaced' /\ StreamsWhole' /\ viewer'[v] = u
  BY <1>0, <1>2, <1>3, <1>4, <1>5, ViewerMoves
<1>7. \A w \in Viewers : w # v => viewer'[w] = viewer[w]
  BY <1>3 DEF LogInv, LogTyped
<1>8. CapturePlaced' /\ StoppersPlaced'
  <2>1. \A t \in Stoppers : stopper'[t].at = stopper[t].at /\ stopper'[t].todo \subseteq stopper[t].todo
    BY <1>5
  <2> QED BY <1>0, <2>1, LogHubAssumption DEF LogInv, CapturePlaced, StoppersPlaced
<1>9. ViewersPlaced'
  <2>1. \A t \in Stoppers : stopper'[t].todo \subseteq stopper[t].todo /\ \A w \in stopper[t].todo : w = v \/ w \in stopper'[t].todo
    BY <1>5
  <2>2. \A w \in Viewers : viewer'[w].at = viewer[w].at /\ (viewer[w].closed => viewer'[w].closed)
    BY <1>4, <1>6, <1>7
  <2>3. ASSUME NEW w \in Viewers, viewer'[w].at = "none"
        PROVE  /\ viewer'[w] = Absent /\ w \notin viewerSet'
               /\ \A o \in Outputs : w \notin adder'[o].todo \cup adder'[o].over
               /\ \A t \in Stoppers : w \notin stopper'[t].todo
    <3>1. w # v
      BY <1>2, <1>4, <1>6, <2>3
    <3>2. viewer'[w] = viewer[w]
      BY <1>7, <3>1
    <3> QED BY <1>0, <2>1, <2>3, <3>2 DEF LogInv, ViewersPlaced
  <2>4. ASSUME NEW w \in Viewers, viewer'[w].at = "open", ~viewer'[w].closed
        PROVE  w \in viewerSet' \/ \E t \in ClosingCalls : w \in stopper'[t].todo
    <3>1. w # v
      BY <1>4, <1>6, <2>4
    <3>2. w \in viewerSet \/ \E t \in ClosingCalls : w \in stopper[t].todo
      BY <1>7, <2>4, <3>1 DEF LogInv, ViewersPlaced
    <3> QED BY <1>0, <2>1, <3>1, <3>2, LogHubAssumption
  <2>5. \A o \in Outputs : \A w \in adder'[o].over : viewer'[w].closed
    <3>1. \A o \in Outputs : \A w \in adder[o].over : viewer[w].closed /\ w \in Viewers
      BY DEF LogInv, ViewersPlaced, LogTyped, AdderRec
    <3> QED BY <1>0, <2>2, <3>1
  <2>6. (ring.closed => viewerSet = {})'
    BY <1>0 DEF LogInv, ViewersPlaced
  <2> QED BY <2>3, <2>4, <2>5, <2>6 DEF ViewersPlaced
<1> QED BY <1>0, <1>6, <1>8, <1>9 DEF LogInv

LEMMA StopCaptureKeeps == ASSUME LogInv, NEW s \in Stoppers, StopCapture(s) PROVE LogInv'
<1> USE DEF LogInv
<1>0. /\ UNCHANGED <<ring, viewerSet, viewer, stored, adder, pipes, starting, printed>>
      /\ capture.lock = Free /\ stopper[s].todo = {} /\ stopper[s].at = IF s \in ClosingCalls THEN "close" ELSE "none"
      /\ stopper[s] \in StopperRec
  <2>1. /\ stopper[s] = [at |-> IF s \in ClosingCalls THEN "close" ELSE "none", todo |-> {}]
        /\ stopper[s] \in StopperRec
    BY DEF StopCapture, LogTyped
  <2>2. stopper[s].todo = {} /\ stopper[s].at = IF s \in ClosingCalls THEN "close" ELSE "none"
    BY <2>1
  <2>3. UNCHANGED <<ring, viewerSet, viewer, stored, adder, pipes, starting, printed>> /\ capture.lock = Free
    BY DEF StopCapture, hubVars
  <2> QED BY <2>1, <2>2, <2>3
<1>1. \A t \in Stoppers : stopper[t].at # "wait"
  BY <1>0 DEF CapturePlaced, Free
<1>2. starting # "install"
  BY <1>0 DEF CapturePlaced, Free
<1>3. \E a \in {"wait", "done"} :
        /\ stopper' = [stopper EXCEPT ![s].at = a]
        /\ a = "wait" => capture.active /\ capture' = [capture EXCEPT !.lock = "stopper", !.reading = FALSE]
        /\ a = "done" => ~capture.active /\ capture' = capture
  BY DEF StopCapture
<1>4. PICK a \in {"wait", "done"} :
        /\ stopper' = [stopper EXCEPT ![s].at = a]
        /\ a = "wait" => capture.active /\ capture' = [capture EXCEPT !.lock = "stopper", !.reading = FALSE]
        /\ a = "done" => ~capture.active /\ capture' = capture
  BY <1>3
<1>5. /\ capture' \in [lock : {Free, "starter", "stopper"}, active : BOOLEAN, reading : BOOLEAN]
      /\ capture'.active = capture.active /\ (capture'.reading => capture.reading)
      /\ a = "wait" => capture'.lock = "stopper"
      /\ a = "done" => capture' = capture
  BY <1>4 DEF LogTyped
<1>6. /\ stopper' \in [Stoppers -> StopperRec] /\ stopper'[s].at = a
      /\ \A t \in Stoppers : stopper'[t].todo = stopper[t].todo /\ (t # s => stopper'[t] = stopper[t])
  BY <1>0, <1>4 DEF LogTyped, StopperRec
<1>7. LogTyped'
  BY <1>0, <1>5, <1>6 DEF LogTyped
<1>8. CapturePlaced'
  <2>1. CASE a = "wait"
    <3>1. starting = "done" /\ capture'.lock = "stopper"
      BY <1>4, <1>5, <2>1 DEF CapturePlaced, LogTyped
    <3> QED BY <1>0, <1>1, <1>5, <1>6, <3>1 DEF CapturePlaced
  <2>2. CASE a = "done"
    <3>1. capture' = capture /\ \A t \in Stoppers : stopper'[t].at # "wait"
      BY <1>1, <1>5, <1>6, <2>2
    <3> QED BY <1>0, <3>1 DEF CapturePlaced
  <2> QED BY <2>1, <2>2
<1>9. StoppersPlaced'
  BY <1>0, <1>2, <1>4, <1>5, <1>6, LogHubAssumption DEF StoppersPlaced
<1>10. ViewersPlaced'
  BY <1>0, <1>6, LogHubAssumption DEF ViewersPlaced
<1>11. LinesPlaced' /\ StreamsWhole'
  BY <1>0, LinesStill, StreamsStill
<1> QED BY <1>0, <1>7, <1>8, <1>9, <1>10, <1>11

LEMMA StoppedKeeps == ASSUME LogInv, NEW s \in Stoppers, CaptureStopped(s) PROVE LogInv'
<1> USE DEF LogInv
<1>0. /\ UNCHANGED <<ring, viewerSet, viewer, stored, adder, starting, printed>>
      /\ stopper[s].at = "wait" /\ stopper[s] \in StopperRec /\ \A o \in Outputs : adder[o].at = "off"
      /\ stopper' = [stopper EXCEPT ![s].at = "done"]
      /\ capture' = [lock |-> Free, active |-> FALSE, reading |-> FALSE]
      /\ pipes' = [o \in Outputs |-> << >>]
  BY DEF CaptureStopped, LogTyped, hubVars
<1>1. capture.lock = "stopper" /\ starting # "install" /\ \A t \in Stoppers : t # s => stopper[t].at # "wait"
  BY <1>0 DEF CapturePlaced
<1>2. /\ stopper' \in [Stoppers -> StopperRec] /\ stopper'[s].at = "done" /\ stopper'[s].todo = stopper[s].todo
      /\ \A t \in Stoppers : t # s => stopper'[t] = stopper[t]
  BY <1>0 DEF LogTyped, StopperRec
<1>3. LogTyped'
  <2>1. << >> \in Seq(Nat)
    OBVIOUS
  <2> QED BY <1>0, <1>2, <2>1 DEF LogTyped
<1>4. CapturePlaced'
  <2>1. \A t \in Stoppers : stopper'[t].at # "wait"
    BY <1>1, <1>2
  <2> QED BY <1>0, <1>1, <2>1 DEF CapturePlaced, Free
<1>5. StoppersPlaced'
  BY <1>0, <1>1, <1>2, LogHubAssumption DEF StoppersPlaced
<1>6. ViewersPlaced'
  <2>1. \A t \in Stoppers : stopper'[t].todo = stopper[t].todo
    BY <1>2
  <2> QED BY <1>0, <2>1, LogHubAssumption DEF ViewersPlaced
<1>7. LinesPlaced'
  <2>1. \A o \in Outputs : InHandOf(o)' = {} /\ LinesOf(pipes'[o]) = {} /\ AllDiffer(pipes'[o]) /\ Unstored(o)' = {}
    BY <1>0 DEF InHandOf, LinesOf, AllDiffer, Unstored
  <2> QED BY <1>0, <2>1 DEF LinesPlaced
<1>8. StreamsWhole'
  BY <1>0, StreamsStill
<1> QED BY <1>0, <1>3, <1>4, <1>5, <1>6, <1>7, <1>8

LEMMA LogStep == ASSUME LogInv, [LogNext]_logVars PROVE LogInv'
<1>1. ASSUME NEW o \in Outputs, LogOutput(o) PROVE LogInv'
  BY <1>1, ReadLineKeeps, AddKeeps, SendLineKeeps, EndKeeps DEF LogOutput
<1>2. ASSUME NEW v \in Viewers, Subscribe(v) \/ ViewerGone(v) \/ LogViewer(v) PROVE LogInv'
  BY <1>2, SubscribeKeeps, GoneKeeps, ReceiveKeeps, UnsubscribeKeeps DEF LogViewer
<1>3. ASSUME NEW s \in Stoppers, LogStopper(s) PROVE LogInv'
  BY <1>3, CloseHubKeeps, CloseViewerKeeps, StopCaptureKeeps, StoppedKeeps DEF LogStopper
<1>4. CASE UNCHANGED logVars
  <2>1. UNCHANGED <<ring, viewerSet, viewer, stored, adder, pipes, capture, starting, printed, stopper>>
    BY <1>4 DEF logVars, hubVars, capVars
  <2>2. LogTyped' /\ CapturePlaced' /\ StoppersPlaced' /\ ViewersPlaced'
    BY <2>1 DEF LogInv, LogTyped, CapturePlaced, StoppersPlaced, ViewersPlaced
  <2> QED BY <2>1, <2>2, LinesStill, StreamsStill DEF LogInv
<1> QED BY <1>1, <1>2, <1>3, <1>4, StartCaptureKeeps, PrintKeeps DEF LogNext

(* The inductive invariant of the hub, for any outputs, viewers, lines and   *)
(* limits: whatever add, SubscribeWithSnapshot, the cancel function, Close    *)
(* and the start and stop of the capture do, the ring is the end of the log   *)
(* and each open stream holds the lines since its snapshot but those dropped. *)
THEOREM LogInvariant == LogSpec => []LogInv
<1>1. LogInit => LogInv
  BY LogBegins
<1>2. LogInv /\ [LogNext]_logVars => LogInv'
  BY LogStep
<1> QED BY <1>1, <1>2, PTL DEF LogSpec

-----------------------------------------------------------------------------
(* What follows from it.                                                   *)

LEMMA LogTypesFollow == LogInv => LogTypeOK
<1>1. LogInv => LogTypeOK
  BY DEF LogInv, LogTyped, LogTypeOK, ViewerRec, AdderRec
<1> QED BY <1>1

\* The runs' type invariant.
THEOREM LogTypeCorrect == LogSpec => []LogTypeOK
BY LogInvariant, LogTypesFollow, PTL

LEMMA NoHolesFollow == LogInv => StreamsHaveNoHoles
<1>1. ASSUME LogInv PROVE StreamsHaveNoHoles
  <2>1. /\ ring.count \in Nat /\ ring.count <= Len(stored) /\ Len(stored) \in Nat /\ stored \in Seq(Nat)
        /\ ring.count = IF Len(stored) < RingLimit THEN Len(stored) ELSE RingLimit
    BY <1>1, LogHubAssumption DEF LogInv, LogTyped, RingHolds
  <2>2. Snapshot = SubSeq(stored, Len(stored) - ring.count + 1, Len(stored))
    <3> DEFINE d == SubSeq(stored, Len(stored) - ring.count + 1, Len(stored))
    <3>1. d = [i \in 1 .. ring.count |-> stored[Len(stored) - ring.count + i]]
      BY <2>1
    <3>2. \A i \in 1 .. ring.count : ring.lines[(ring.start + i - 1) % RingLimit] = stored[Len(stored) - ring.count + i]
      BY <1>1 DEF LogInv, RingHolds, RingSlot
    <3> HIDE DEF d
    <3>3. Snapshot = d
      BY <3>1, <3>2, Zenon DEF Snapshot
    <3> QED BY <3>3 DEF d
  <2>3. ASSUME NEW v \in Viewers
        PROVE  LET have == viewer[v].got \o viewer[v].ch
                   due  == ToSet(SubSeq(stored, viewer[v].from + 1, Len(stored))) IN
               /\ IsInjective(have)
               /\ viewer[v].at # "none" => ToSet(have) \cup OnTheWay(v) \subseteq due /\ ToSet(have) \cap OnTheWay(v) = {}
               /\ viewer[v].at = "open" /\ ~viewer[v].closed => due = ToSet(have) \cup OnTheWay(v)
    <3>1. StreamWhole(v)
      BY <1>1 DEF LogInv, StreamsWhole
    <3> QED BY <3>1, Zenon DEF StreamWhole, Have, Due, LinesOf, AllDiffer, ToSet, IsInjective
  <2> QED BY <2>1, <2>2, <2>3, Zenon DEF StreamsHaveNoHoles
<1> QED BY <1>1

\* The snapshot is the end of the log, and an open stream has no hole and nothing
\* twice, however the goroutines that send, slow readers and those who come and
\* go interleave.
THEOREM NoHolesInStreams == LogSpec => []StreamsHaveNoHoles
BY LogInvariant, NoHolesFollow, PTL

LEMMA QuietFollows == LogInv => ClosedHubIsQuiet
<1>1. ASSUME LogInv PROVE ClosedHubIsQuiet
  <2>1. SUFFICES ASSUME NEW s \in ClosingCalls, stopper[s].at = "done"
                 PROVE  /\ ~capture.active
                        /\ \A v \in Viewers :
                             viewer[v].at = "open" => viewer[v].closed \/ \E t \in ClosingCalls : v \in stopper[t].todo
    BY DEF ClosedHubIsQuiet
  <2>2. ring.closed /\ ~capture.active /\ viewerSet = {}
    BY <1>1, <2>1 DEF LogInv, StoppersPlaced, ViewersPlaced
  <2> QED BY <1>1, <2>2 DEF LogInv, ViewersPlaced
<1> QED BY <1>1

\* After Close nothing is captured, and every stream that only it would have
\* ended is closed or about to be, whoever else stops or starts the capture.
THEOREM ClosedHubsAreQuiet == LogSpec => []ClosedHubIsQuiet
BY LogInvariant, QuietFollows, PTL
=============================================================================
