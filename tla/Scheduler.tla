----------------------------- MODULE Scheduler -----------------------------
(***************************************************************************)
(* The scheduler (internal/scheduler/scheduler.go) and those who call it:  *)
(* the start and the shutdown of the server, one request at a time that    *)
(* saves or reloads schedules.yaml (they exclude each other by             *)
(* schedulesMu), and requests that trigger an entry by hand.               *)
(*                                                                         *)
(* Start, Stop and Reload exclude each other by lifecycleMu (variable      *)
(* lifecycle); everything below it is a sequence of critical sections of   *)
(* sc.mu, one step each.  Stop and Reload wait, with lifecycleMu but       *)
(* without sc.mu, until the loop goroutines are gone.  Interval and daily  *)
(* loops differ only in when they fire; the clock is not modelled, so a    *)
(* loop that waits may fire at any time.                                   *)
(***************************************************************************)
EXTENDS Naturals, Sequences, FiniteSets

CONSTANTS
  Ids,         \* the entry IDs
  Versions,    \* what else an entry says (type, target, times, options)
  Files,       \* the schedules.yaml that may be written, as sequences of entries
  FirstFiles,  \* those, or Bad, that the server may find when it starts
  Bad,         \* a file that cannot be read or parsed, or is invalid
  Clients,     \* the requests that trigger entries
  NoEntry,
  MaxLaunches  \* bound: how often the loops are launched

Entry == [id : Ids, version : Versions, enabled : BOOLEAN, onStart : BOOLEAN]

\* NormalizeEntries gives every entry an ID of its own.
UniqueIds(f) == \A i, j \in DOMAIN f : f[i].id = f[j].id => i = j

ASSUME SchedulerAssumption ==
  /\ \A f \in Files : f \in Seq(Entry) /\ UniqueIds(f)
  /\ Bad \notin Files
  /\ FirstFiles \subseteq Files \cup {Bad}
  /\ NoEntry \notin Entry
  /\ MaxLaunches \in Nat

VARIABLES
  file,        \* the content of schedules.yaml
  entries,     \* sc.entries (sc.parsed belongs to it)
  triggering,  \* sc.statuses[i].Triggering
  recorded,    \* the IDs whose executions sc.statuses[i] counts
  nextFrom,    \* the entry sc.statuses[i].NextRunAt was computed from, or NoEntry
  generation,  \* sc.generation
  started,     \* sc.started
  stopRequested,
  firstStart,
  hasEverStarted,
  launch,      \* how often goroutines were launched: which sc.ctx is current
  loops,       \* the loop goroutines
  lifecycle,   \* who holds lifecycleMu, or "free"
  trigger,     \* what the requests that trigger by hand are doing
  installed,   \* s.scheduler is not nil
  boot,        \* Server.Start: before, or after it has started the scheduler
  request,     \* where the request that reloads is
  wasStarted,  \* its local variable in Reload
  closer,      \* where the graceful shutdown is
  startRuns,   \* how often an entry was executed by its run_on_start
  owed         \* the IDs with run_on_start in the first launch

statusVars == <<triggering, recorded, nextFrom>>
configVars == <<entries, generation>>
flagVars   == <<started, stopRequested, firstStart, hasEverStarted>>
serverVars == <<installed, boot, request, wasStarted, closer>>
history    == <<startRuns, owed>>
vars == <<file, configVars, statusVars, flagVars, launch, loops, lifecycle, trigger,
          serverVars, history>>

-----------------------------------------------------------------------------
Slots == DOMAIN entries

\* A loop goroutine: where it is, and what its entrySnapshot returned.
Loop == [idx : Nat \ {0}, launch : Nat, entry : Entry \cup {NoEntry}, gen : Nat,
         at : {"begin", "first", "plan", "write", "wait", "fire", "busy"}]

Trigger == [at : {"idle", "found", "busy"}, idx : Nat, entry : Entry \cup {NoEntry}, gen : Nat]

Idle == [at |-> "idle", idx |-> 0, entry |-> NoEntry, gen |-> 0]

\* sc.ctx of the launch that started l is cancelled: Stop cancels the current
\* one, and only a stopped scheduler is launched again.
Cancelled(l) == l.launch # launch \/ ~started

\* A goroutine has called downloadFunc for slot i, under the present
\* configuration, and not returned from it.
Executing(i) ==
  \/ \E l \in loops   : l.at = "busy" /\ l.idx = i /\ l.gen = generation
  \/ \E c \in Clients : trigger[c].at = "busy" /\ trigger[c].idx = i /\ trigger[c].gen = generation

TypeOK ==
  /\ file       \in Files \cup {Bad}
  /\ entries    \in Files \cup {<<>>}
  /\ triggering \in [Slots -> BOOLEAN]
  /\ recorded   \in [Slots -> SUBSET Ids]
  /\ nextFrom   \in [Slots -> Entry \cup {NoEntry}]
  /\ generation \in Nat
  /\ started \in BOOLEAN /\ stopRequested \in BOOLEAN
  /\ firstStart \in BOOLEAN /\ hasEverStarted \in BOOLEAN
  /\ installed \in BOOLEAN /\ wasStarted \in BOOLEAN
  /\ launch     \in Nat
  /\ loops      \subseteq Loop
  /\ lifecycle  \in {"free", "request", "closer"}
  /\ trigger    \in [Clients -> Trigger]
  /\ boot       \in {"down", "starting", "up"}
  /\ request    \in {"idle", "reload", "stopping", "read", "recover", "restart", "check",
                     "start", "install"}
  /\ closer     \in {"open", "closing", "stop", "waiting", "stopped", "skipped"}
  /\ startRuns  \in [Ids -> Nat]
  /\ owed       \subseteq Ids

\* (mistake: the statuses are kept over a reload)
KeptStatuses(f) == UNCHANGED statusVars

\* readConfig makes an empty status for every entry.
Blank(f) ==
  /\ triggering' = [i \in DOMAIN f |-> FALSE]
  /\ recorded'   = [i \in DOMAIN f |-> {}]
  /\ nextFrom'   = [i \in DOMAIN f |-> NoEntry]

Init ==
  /\ file \in FirstFiles
  /\ installed = (file # Bad)
  /\ entries   = IF file = Bad THEN <<>> ELSE file
  /\ triggering = [i \in Slots |-> FALSE]
  /\ recorded   = [i \in Slots |-> {}]
  /\ nextFrom   = [i \in Slots |-> NoEntry]
  /\ generation = 0
  /\ started = FALSE /\ stopRequested = FALSE /\ firstStart = FALSE /\ hasEverStarted = FALSE
  /\ launch = 0 /\ loops = {}
  /\ lifecycle = "free"
  /\ trigger = [c \in Clients |-> Idle]
  /\ boot = "down" /\ request = "idle" /\ wasStarted = FALSE /\ closer = "open"
  /\ startRuns = [i \in Ids |-> 0] /\ owed = {}

-----------------------------------------------------------------------------
(* The pieces of Start and Stop that run under sc.mu.                      *)

EnabledSlots == {i \in Slots : entries[i].enabled}

\* launchGoroutinesLocked: one goroutine per enabled entry.
LaunchGoroutines ==
  /\ loops' = loops \cup
       {[idx |-> i, launch |-> launch + 1, entry |-> NoEntry, gen |-> 0,
         at |-> "begin"] : i \in EnabledSlots}
  /\ nextFrom' = [i \in Slots |-> IF entries[i].enabled THEN entries[i] ELSE nextFrom[i]]
  /\ launch'  = launch + 1
  /\ started' = TRUE

\* startLocked: the first start of the process is the one with run_on_start.
StartLocked ==
  /\ LaunchGoroutines
  /\ hasEverStarted' = TRUE
  /\ firstStart' = (firstStart \/ ~hasEverStarted)
  /\ owed' = IF hasEverStarted THEN owed
             ELSE {entries[i].id : i \in {j \in EnabledSlots : entries[j].onStart}}
  /\ UNCHANGED <<configVars, triggering, recorded, stopRequested, startRuns>>

\* Start, under lifecycleMu: nothing is launched after a stop, or twice.
Start ==
  IF stopRequested \/ started
    THEN UNCHANGED <<configVars, statusVars, flagVars, launch, loops, history>>
    ELSE StartLocked

\* (mistake: the first start is never over)
StopKeepsFirst ==
  /\ stopRequested' = TRUE
  /\ started' = FALSE
  /\ UNCHANGED <<firstStart, hasEverStarted>>

\* (mistake: a scheduler that was not running is not told of the stop)
StopIfStarted ==
  /\ stopRequested' = (stopRequested \/ started)
  /\ started' = FALSE
  /\ firstStart' = (firstStart /\ ~started)
  /\ UNCHANGED hasEverStarted

\* stopLocked up to the wait: sc.ctx is cancelled when started is reset.
StopLocked ==
  /\ stopRequested' = TRUE
  /\ started' = FALSE
  /\ firstStart' = (firstStart /\ ~started)
  /\ UNCHANGED hasEverStarted

\* wg.Wait() returns.
AllGone == loops = {}

-----------------------------------------------------------------------------
(* The start of the server and its graceful shutdown.                      *)

\* Server.Start looks whether a shutdown has begun, then starts the scheduler.
BootChecks ==
  /\ boot = "down" /\ closer = "open"
  /\ boot' = "starting"
  /\ UNCHANGED <<file, configVars, statusVars, flagVars, launch, loops, lifecycle, trigger,
                 installed, request, wasStarted, closer, history>>

BootStarts ==
  /\ boot = "starting" /\ lifecycle = "free"
  /\ boot' = "up"
  /\ IF installed
       THEN Start
       ELSE UNCHANGED <<configVars, statusVars, flagVars, launch, loops, history>>
  /\ UNCHANGED <<file, lifecycle, trigger, installed, request, wasStarted, closer>>

\* From here on requests are refused; those admitted go on.
ShutdownBegins ==
  /\ closer = "open"
  /\ closer' = "closing"
  /\ UNCHANGED <<file, configVars, statusVars, flagVars, launch, loops, lifecycle, trigger,
                 installed, boot, request, wasStarted, history>>

\* Only a scheduler that exists is stopped.
ShutdownFinds ==
  /\ closer = "closing"
  /\ closer' = IF installed THEN "stop" ELSE "skipped"
  /\ UNCHANGED <<file, configVars, statusVars, flagVars, launch, loops, lifecycle, trigger,
                 installed, boot, request, wasStarted, history>>

StopBegins ==
  /\ closer = "stop" /\ lifecycle = "free"
  /\ StopLocked
  /\ IF started
       THEN closer' = "waiting" /\ lifecycle' = "closer"
       ELSE closer' = "stopped" /\ UNCHANGED lifecycle
  /\ UNCHANGED <<file, configVars, statusVars, launch, loops, trigger,
                 installed, boot, request, wasStarted, history>>

\* (mistake: lifecycleMu stays locked)
StopEndsLocked ==
  /\ closer = "waiting" /\ AllGone
  /\ closer' = "stopped"
  /\ UNCHANGED <<file, configVars, statusVars, flagVars, launch, loops, lifecycle, trigger,
                 installed, boot, request, wasStarted, history>>

StopEnds ==
  /\ closer = "waiting" /\ AllGone
  /\ closer' = "stopped" /\ lifecycle' = "free"
  /\ UNCHANGED <<file, configVars, statusVars, flagVars, launch, loops, trigger,
                 installed, boot, request, wasStarted, history>>

-----------------------------------------------------------------------------
(* The request that saves or reloads schedules.yaml.                       *)

\* It is admitted, takes schedulesMu and writes the file, or finds what was
\* edited by hand.
RequestBegins ==
  /\ request = "idle" /\ boot = "up" /\ closer = "open" /\ launch < MaxLaunches
  /\ file' \in Files \cup {Bad}
  /\ request' = IF installed THEN "reload" ELSE "install"
  /\ UNCHANGED <<configVars, statusVars, flagVars, launch, loops, lifecycle, trigger,
                 installed, boot, wasStarted, closer, history>>

ReloadBegins ==
  /\ request = "reload" /\ lifecycle = "free"
  /\ lifecycle' = "request"
  /\ wasStarted' = started
  /\ IF started
       THEN StopLocked /\ request' = "stopping"
       ELSE UNCHANGED flagVars /\ request' = "read"
  /\ UNCHANGED <<file, configVars, statusVars, launch, loops, trigger, installed, boot, closer, history>>

\* (mistake: Reload does not wait for the loops)
ReloadWaitsNot ==
  /\ request = "stopping"
  /\ request' = "read"
  /\ UNCHANGED <<file, configVars, statusVars, flagVars, launch, loops, lifecycle, trigger,
                 installed, boot, wasStarted, closer, history>>

ReloadWaits ==
  /\ request = "stopping" /\ AllGone
  /\ request' = "read"
  /\ UNCHANGED <<file, configVars, statusVars, flagVars, launch, loops, lifecycle, trigger,
                 installed, boot, wasStarted, closer, history>>

\* readConfig and applyConfig: a bad file leaves the configuration as it is.
ReloadReads ==
  /\ request = "read"
  /\ IF file = Bad
       THEN /\ request' = "recover"
            /\ UNCHANGED <<configVars, statusVars>>
       ELSE /\ request' = "restart"
            /\ entries' = file /\ generation' = generation + 1 /\ Blank(file)
  /\ UNCHANGED <<file, flagVars, launch, loops, lifecycle, trigger,
                 installed, boot, wasStarted, closer, history>>

\* (mistake: after a failed reload the loops stay stopped)
ReloadRestartsGood ==
  /\ request \in {"recover", "restart"}
  /\ IF wasStarted /\ request = "restart"
       THEN StartLocked
       ELSE UNCHANGED <<configVars, statusVars, flagVars, launch, loops, history>>
  /\ lifecycle' = "free"
  /\ request' = IF request = "restart" THEN "check" ELSE "idle"
  /\ UNCHANGED <<file, trigger, installed, boot, wasStarted, closer>>

ReloadRestarts ==
  /\ request \in {"recover", "restart"}
  /\ IF wasStarted
       THEN StartLocked
       ELSE UNCHANGED <<configVars, statusVars, flagVars, launch, loops, history>>
  /\ lifecycle' = "free"
  /\ request' = IF request = "restart" THEN "check" ELSE "idle"
  /\ UNCHANGED <<file, trigger, installed, boot, wasStarted, closer>>

\* The handler starts a scheduler that does not run but has something to do.
RequestChecks ==
  /\ request = "check"
  /\ request' = IF ~started /\ EnabledSlots # {} THEN "start" ELSE "idle"
  /\ UNCHANGED <<file, configVars, statusVars, flagVars, launch, loops, lifecycle, trigger,
                 installed, boot, wasStarted, closer, history>>

RequestStarts ==
  /\ request = "start" /\ lifecycle = "free"
  /\ Start
  /\ request' = "idle"
  /\ UNCHANGED <<file, lifecycle, trigger, installed, boot, wasStarted, closer>>

\* There is no scheduler yet: make one from the file, then start it.
RequestInstalls ==
  /\ request = "install"
  /\ IF file = Bad
       THEN /\ request' = "idle"
            /\ UNCHANGED <<configVars, statusVars, installed>>
       ELSE /\ request' = "start" /\ installed' = TRUE
            /\ entries' = file /\ Blank(file) /\ UNCHANGED generation
  /\ UNCHANGED <<file, flagVars, launch, loops, lifecycle, trigger, boot, wasStarted, closer, history>>

RequestStep ==
  \/ ReloadBegins \/ ReloadWaits \/ ReloadReads \/ ReloadRestarts
  \/ RequestChecks \/ RequestStarts \/ RequestInstalls

-----------------------------------------------------------------------------
(* Executions: what the loops and the manual triggers share.               *)

\* (mistake: the flag is cleared whatever was reloaded in the meantime)
ReleaseAlways(x) ==
  IF x.idx \in Slots
    THEN /\ triggering' = [triggering EXCEPT ![x.idx] = FALSE]
         /\ recorded'   = [recorded EXCEPT ![x.idx] = @ \cup {x.entry.id}]
         /\ UNCHANGED nextFrom
    ELSE UNCHANGED statusVars

\* releaseAndUpdateStatus, and releaseTriggeringLocked when that declined.
Release(x) ==
  IF generation = x.gen /\ x.idx \in Slots
    THEN /\ triggering' = [triggering EXCEPT ![x.idx] = FALSE]
         /\ recorded'   = IF entries[x.idx].id = x.entry.id
                            THEN [recorded EXCEPT ![x.idx] = @ \cup {x.entry.id}]
                            ELSE recorded
         /\ UNCHANGED nextFrom
    ELSE UNCHANGED statusVars

\* (mistake: who acquires does not look at the flag)
FreeAnyway(x) == x.idx \in Slots /\ entries[x.idx].id = x.entry.id

\* tryAcquireExecution's conditions, but for the generation.
Free(x) == x.idx \in Slots /\ entries[x.idx].id = x.entry.id /\ ~triggering[x.idx]

Acquire(x) ==
  /\ triggering' = [triggering EXCEPT ![x.idx] = TRUE]
  /\ UNCHANGED <<recorded, nextFrom>>

-----------------------------------------------------------------------------
(* Manual triggers.  A request that triggers all entries goes on to the    *)
(* next one even when the shutdown has begun.                              *)

TriggerVars(c, r) ==
  /\ trigger' = [trigger EXCEPT ![c] = r]
  /\ UNCHANGED <<file, configVars, flagVars, launch, loops, lifecycle, serverVars, history>>

\* findEnabledEntryByID.
TriggerFinds(c) ==
  /\ trigger[c].at = "idle" /\ installed /\ boot = "up"
  /\ \E i \in EnabledSlots :
       TriggerVars(c, [at |-> "found", idx |-> i, entry |-> entries[i], gen |-> 0])
  /\ UNCHANGED statusVars

TriggerAcquires(c) ==
  /\ trigger[c].at = "found"
  /\ IF Free(trigger[c])
       THEN /\ Acquire(trigger[c])
            /\ TriggerVars(c, [at |-> "busy", idx |-> trigger[c].idx, entry |-> trigger[c].entry, gen |-> generation])
       ELSE UNCHANGED statusVars /\ TriggerVars(c, Idle)

\* downloadFunc returned, with a task, an error or a panic.
TriggerEnds(c) ==
  /\ trigger[c].at = "busy"
  /\ Release(trigger[c])
  /\ TriggerVars(c, Idle)

-----------------------------------------------------------------------------
(* The loops.                                                              *)

LoopVars(S) ==
  /\ loops' = S
  /\ UNCHANGED <<file, configVars, flagVars, launch, lifecycle, trigger, serverVars, owed>>

At(l, a)   == [l EXCEPT !.at = a]
Move(l, m) == LoopVars((loops \ {l}) \cup {m})
Exit(l)    == LoopVars(loops \ {l})

\* entrySnapshot, and the check that follows it at once.
LoopBegins(l) ==
  /\ l.at = "begin"
  /\ IF l.idx \in Slots
       THEN Move(l, [idx |-> l.idx, launch |-> l.launch, entry |-> entries[l.idx], gen |-> generation,
                     at |-> IF entries[l.idx].onStart /\ firstStart THEN "first" ELSE "plan"])
       ELSE Exit(l)
  /\ UNCHANGED <<statusVars, startRuns>>

\* (mistake: a loop that finds its entry triggered ends)
LoopExecutesOrLeaves(l) ==
  /\ l.at \in {"first", "fire"}
  /\ IF generation = l.gen /\ Free(l)
       THEN /\ Acquire(l)
            /\ Move(l, At(l, "busy"))
            /\ startRuns' = IF l.at = "first" THEN [startRuns EXCEPT ![l.entry.id] = @ + 1] ELSE startRuns
       ELSE Exit(l) /\ UNCHANGED <<statusVars, startRuns>>

\* execute: an execution that cannot begin is skipped.
LoopExecutes(l) ==
  /\ l.at \in {"first", "fire"}
  /\ IF generation = l.gen /\ Free(l)
       THEN /\ Acquire(l)
            /\ Move(l, At(l, "busy"))
            /\ startRuns' = IF l.at = "first" THEN [startRuns EXCEPT ![l.entry.id] = @ + 1] ELSE startRuns
       ELSE Move(l, At(l, "plan")) /\ UNCHANGED <<statusVars, startRuns>>

LoopEnds(l) ==
  /\ l.at = "busy"
  /\ Release(l)
  /\ Move(l, At(l, "plan"))
  /\ UNCHANGED startRuns

\* updateNextRunAt looks at the generation first, and writes in a second step
\* that looks at the ID only.
LoopPlans(l) ==
  /\ l.at = "plan"
  /\ Move(l, At(l, IF generation = l.gen THEN "write" ELSE "wait"))
  /\ UNCHANGED <<statusVars, startRuns>>

LoopWrites(l) ==
  /\ l.at = "write"
  /\ nextFrom' = IF l.idx \in Slots /\ entries[l.idx].id = l.entry.id
                   THEN [nextFrom EXCEPT ![l.idx] = l.entry] ELSE nextFrom
  /\ Move(l, At(l, "wait"))
  /\ UNCHANGED <<triggering, recorded, startRuns>>

\* The timer fires; when sc.ctx is cancelled too, select takes either.
LoopFires(l) ==
  /\ l.at = "wait"
  /\ IF generation = l.gen THEN Move(l, At(l, "fire")) ELSE Exit(l)
  /\ UNCHANGED <<statusVars, startRuns>>

\* (mistake: a loop only looks at sc.ctx until it has once run)
LoopExitsFresh(l) ==
  /\ l.at = "wait" /\ Cancelled(l) /\ l.entry.id \notin recorded[l.idx]
  /\ Exit(l)
  /\ UNCHANGED <<statusVars, startRuns>>

LoopExits(l) ==
  /\ l.at = "wait" /\ Cancelled(l)
  /\ Exit(l)
  /\ UNCHANGED <<statusVars, startRuns>>

LoopStep(l) ==
  LoopBegins(l) \/ LoopExecutes(l) \/ LoopEnds(l) \/ LoopPlans(l) \/ LoopWrites(l)

-----------------------------------------------------------------------------
CloserStep == ShutdownFinds \/ StopBegins \/ StopEnds

Next ==
  \/ BootChecks \/ BootStarts
  \/ ShutdownBegins \/ CloserStep
  \/ RequestBegins \/ RequestStep
  \/ \E c \in Clients : TriggerFinds(c) \/ TriggerAcquires(c) \/ TriggerEnds(c)
  \/ \E l \in loops : LoopStep(l) \/ LoopFires(l) \/ LoopExits(l)

Spec == Init /\ [][Next]_vars

\* The loop that a launch made for a slot.
TheLoop(i, n) == {l \in loops : l.idx = i /\ l.launch = n}

\* Goroutines that can go on do.  A loop that waits sees the cancellation one
\* day, because its timer does not fire all the time; nothing is assumed of
\* timers, manual triggers, requests that begin or the shutdown.
Fairness ==
  /\ WF_vars(BootStarts) /\ WF_vars(CloserStep) /\ WF_vars(RequestStep)
  /\ \A i \in UNION {DOMAIN f : f \in Files}, n \in 1 .. MaxLaunches :
       /\ WF_vars(\E l \in TheLoop(i, n) : LoopStep(l))
       /\ SF_vars(\E l \in TheLoop(i, n) : LoopExits(l))

FairSpec == Spec /\ Fairness

-----------------------------------------------------------------------------
(* Safety.                                                                 *)

\* API_DOCUMENTATION.md, "triggering": an entry says that it is being triggered
\* exactly while an execution acquired under the present configuration calls
\* downloadFunc, whatever executions of older configurations are still under
\* way and whenever they end.
TriggeringIsExact ==
  \A i \in Slots : triggering[i] <=> Executing(i)

\* The same entry is not executed twice at the same time, by its loop and by
\* hand or by two requests, under one configuration.
OneExecution ==
  /\ \A c, d \in Clients :
       c # d /\ trigger[c].at = "busy" /\ trigger[d].at = "busy"
         => <<trigger[c].idx, trigger[c].gen>> # <<trigger[d].idx, trigger[d].gen>>
  /\ \A c \in Clients, l \in loops :
       trigger[c].at = "busy" /\ l.at = "busy"
         => <<trigger[c].idx, trigger[c].gen>> # <<l.idx, l.gen>>
  /\ \A l, m \in loops :
       l # m /\ l.at = "busy" /\ m.at = "busy" => <<l.idx, l.gen>> # <<m.idx, m.gen>>

\* Executions belong to the present configuration or to an older one.
PastGenerations ==
  /\ \A c \in Clients : trigger[c].at = "busy" => trigger[c].gen <= generation
  /\ \A l \in loops   : l.at = "busy" => l.gen <= generation

\* A scheduler that is not installed yet has no loops and is not triggered.
InstalledFirst ==
  IF installed
    THEN request # "install"
    ELSE /\ request \in {"idle", "install"} /\ loops = {}
         /\ \A c \in Clients : trigger[c].at = "idle"

\* Why TriggeringIsExact holds: an inductive invariant of the executions.
ExecutionDiscipline ==
  PastGenerations /\ TriggeringIsExact /\ OneExecution /\ InstalledFirst

\* A result is counted for the entry that was executed, and NextRunAt comes
\* from the entry it is shown with, even when a reload moved the entries.
StatusOfOwnEntry ==
  \A i \in Slots :
    /\ recorded[i] \subseteq {entries[i].id}
    /\ nextFrom[i] \in {NoEntry, entries[i]}

\* Whenever no one is starting or stopping it, a scheduler that runs has one
\* loop for every enabled entry and no other, and one that does not has none.
LoopsMatchEntries ==
  lifecycle = "free" =>
    \A i \in Slots \cup {l.idx : l \in loops} :
      Cardinality({l \in loops : l.idx = i}) = IF started /\ i \in EnabledSlots THEN 1 ELSE 0

\* Between the requests of a server that is up, an installed scheduler runs: a
\* reload that failed, or found it stopped, leaves it running.
ReloadKeepsRunning ==
  boot = "up" /\ closer = "open" /\ request = "idle" /\ installed => started

\* Once the shutdown has stopped the scheduler, no loop executes anything,
\* although requests that were admitted before go on to reload and start it.
StoppedForGood == closer = "stopped" => ~started /\ loops = {}

\* run_on_start is for the first start of the process: neither a reload nor a
\* recovery from a bad file executes an entry at its start again.
StartRunsOnce == \A i \in Ids : startRuns[i] <= IF i \in owed THEN 1 ELSE 0

\* Starts, reloads and the shutdown in any order: the scheduler executes at its
\* first start only, survives every reload, and stays stopped when it was.
LifecycleKept == StartRunsOnce /\ ReloadKeepsRunning /\ StoppedForGood

\* A new configuration comes into force only when no loop of the old one is
\* left, which is why their writes need no check of the generation.
SwapWithoutLoops == [][generation' # generation => loops = {}]_vars

\* Over all reloads an entry has the loop, the result and the next time that are
\* its own.
EntriesServed == SwapWithoutLoops /\ [](StatusOfOwnEntry /\ LoopsMatchEntries)

-----------------------------------------------------------------------------
(* Liveness.                                                               *)

\* Stop and Reload, which wait for the loops, return.
StopReturns   == (closer = "stop") ~> (closer = "stopped")
ReloadReturns == (request # "idle") ~> (request = "idle")

\* Whoever waits for the loops to end, the shutdown or a request, returns.
CallersReturn == StopReturns /\ ReloadReturns

-----------------------------------------------------------------------------
(* What the documentation says and the code does not do.                   *)

\* scheduler.go: after the shutdown no loop is left without anyone to stop it.
\* A request that installs a scheduler after the shutdown looked for one
\* starts it.
NothingLeftRunning == closer \in {"stopped", "skipped"} => loops = {}
=============================================================================
