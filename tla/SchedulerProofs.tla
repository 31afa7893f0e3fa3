-------------------------- MODULE SchedulerProofs --------------------------
(***************************************************************************)
(* Proofs about Scheduler, for any files, any entries and any number of    *)
(* manual triggers: the types, and that an entry's Triggering flag tells   *)
(* exactly whether it is being executed, once, under the configuration in  *)
(* force; that starts, stops and reloads keep their order and their        *)
(* promises; and that every entry has the loop and the results of its own. *)
(***************************************************************************)
EXTENDS Scheduler, FiniteSetTheorems, TLAPS

\* A file is a sequence of entries; so is the empty configuration.
LEMMA EntriesAreEntries ==
  ASSUME NEW f \in Files \cup {<<>>}, NEW i \in DOMAIN f
  PROVE  f[i] \in Entry /\ i \in Nat \ {0}
<1>1. CASE f \in Files
  BY <1>1, SchedulerAssumption
<1>2. CASE f = <<>>
  BY <1>2
<1> QED BY <1>1, <1>2

-----------------------------------------------------------------------------
(* Types.                                                                  *)

LEMMA TypeInit == Init => TypeOK
<1> SUFFICES ASSUME Init PROVE TypeOK
  OBVIOUS
<1> USE DEF Init
<1>1. file \in Files \cup {Bad}
  BY SchedulerAssumption
<1>2. entries \in Files \cup {<<>>} /\ installed \in BOOLEAN
  BY <1>1
<1>3. trigger \in [Clients -> Trigger]
  BY DEF Idle, Trigger
<1> QED BY <1>1, <1>2, <1>3 DEF TypeOK

\* Blank statuses of a file.
LEMMA BlankTyped ==
  ASSUME NEW f \in Files \cup {<<>>}, Blank(f), entries' = f
  PROVE  /\ triggering' \in [Slots' -> BOOLEAN]
         /\ recorded'   \in [Slots' -> SUBSET Ids]
         /\ nextFrom'   \in [Slots' -> Entry \cup {NoEntry}]
BY DEF Blank, Slots

\* A start, whether or not it launches the loops.
LEMMA StartTyped ==
  ASSUME TypeOK, StartLocked
  PROVE  /\ entries' \in Files \cup {<<>>}
         /\ triggering' \in [Slots' -> BOOLEAN]
         /\ recorded'   \in [Slots' -> SUBSET Ids]
         /\ nextFrom'   \in [Slots' -> Entry \cup {NoEntry}]
         /\ generation' \in Nat /\ launch' \in Nat
         /\ started' \in BOOLEAN /\ stopRequested' \in BOOLEAN
         /\ firstStart' \in BOOLEAN /\ hasEverStarted' \in BOOLEAN
         /\ loops' \subseteq Loop
         /\ startRuns' \in [Ids -> Nat] /\ owed' \subseteq Ids
<1> USE DEF StartLocked, LaunchGoroutines, TypeOK, configVars
<1>1. \A i \in Slots : entries[i] \in Entry /\ i \in Nat \ {0}
  BY EntriesAreEntries DEF Slots
<1>2. \A i \in Slots : entries[i].id \in Ids
  BY <1>1 DEF Entry
<1>3. \A i \in EnabledSlots :
        [idx |-> i, launch |-> launch + 1, entry |-> NoEntry, gen |-> 0,
         at |-> "begin"] \in Loop
  BY <1>1 DEF Loop, EnabledSlots
<1>4. loops' \subseteq Loop
  BY <1>3
<1>5. owed' \subseteq Ids
  BY <1>2 DEF EnabledSlots
<1>6. nextFrom' \in [Slots' -> Entry \cup {NoEntry}]
  BY <1>1 DEF Slots
<1> QED BY <1>4, <1>5, <1>6 DEF Slots

\* A release leaves the statuses typed.
LEMMA ReleaseTyped ==
  ASSUME TypeOK, NEW x, Release(x), entries' = entries
  PROVE  /\ triggering' \in [Slots' -> BOOLEAN]
         /\ recorded'   \in [Slots' -> SUBSET Ids]
         /\ nextFrom'   \in [Slots' -> Entry \cup {NoEntry}]
<1>1. \A i \in Slots : entries[i].id \in Ids
  BY EntriesAreEntries DEF TypeOK, Entry, Slots
<1> USE DEF TypeOK, Release, Slots, statusVars
<1>2. triggering' \in [Slots' -> BOOLEAN]
  OBVIOUS
<1>3. recorded' \in [Slots' -> SUBSET Ids]
  <2>1. CASE generation = x.gen /\ x.idx \in Slots /\ entries[x.idx].id = x.entry.id
    <3>1. recorded' = [recorded EXCEPT ![x.idx] = @ \cup {x.entry.id}]
      BY <2>1
    <3>2. recorded[x.idx] \cup {x.entry.id} \in SUBSET Ids
      BY <2>1, <1>1
    <3> QED BY <3>1, <3>2
  <2>2. CASE ~(generation = x.gen /\ x.idx \in Slots /\ entries[x.idx].id = x.entry.id)
    BY <2>2
  <2> QED BY <2>1, <2>2
<1>4. nextFrom' \in [Slots' -> Entry \cup {NoEntry}]
  OBVIOUS
<1> QED BY <1>2, <1>3, <1>4

\* A loop that has moved on.
LEMMA AtLoop ==
  ASSUME NEW l \in Loop, NEW a \in {"first", "plan", "write", "wait", "fire", "busy"}
  PROVE  /\ At(l, a) \in Loop
         /\ At(l, a).at = a /\ At(l, a).idx = l.idx /\ At(l, a).gen = l.gen
         /\ At(l, a).entry = l.entry /\ At(l, a).launch = l.launch
BY DEF At, Loop

LEMMA TypeNext == TypeOK /\ [Next]_vars => TypeOK'
<1> SUFFICES ASSUME TypeOK, [Next]_vars PROVE TypeOK'
  OBVIOUS
<1> USE DEF TypeOK
<1>1. CASE BootChecks
  BY <1>1, SMT DEF BootChecks, configVars, statusVars, flagVars, serverVars, history, Slots
<1>2. CASE BootStarts
  BY <1>2, StartTyped, SMT DEF BootStarts, Start, configVars, statusVars, flagVars, serverVars, history, Slots
<1>3. CASE ShutdownBegins
  BY <1>3, SMT DEF ShutdownBegins, configVars, statusVars, flagVars, serverVars, history, Slots
<1>4. CASE ShutdownFinds
  BY <1>4, SMT DEF ShutdownFinds, configVars, statusVars, flagVars, serverVars, history, Slots
<1>5. CASE StopBegins
  <2>1. /\ started' \in BOOLEAN /\ stopRequested' \in BOOLEAN
        /\ firstStart' \in BOOLEAN /\ hasEverStarted' \in BOOLEAN
    BY <1>5, Zenon DEF StopBegins, StopLocked, flagVars
  <2> QED BY <1>5, <2>1, SMT DEF StopBegins, configVars, statusVars, flagVars, serverVars, history, Slots
<1>6. CASE StopEnds
  BY <1>6, SMT DEF StopEnds, configVars, statusVars, flagVars, serverVars, history, Slots
<1>7. CASE RequestBegins
  BY <1>7, SMT DEF RequestBegins, configVars, statusVars, flagVars, serverVars, history, Slots
<1>8. CASE ReloadBegins
  <2>1. /\ started' \in BOOLEAN /\ stopRequested' \in BOOLEAN
        /\ firstStart' \in BOOLEAN /\ hasEverStarted' \in BOOLEAN
    BY <1>8, Zenon DEF ReloadBegins, StopLocked, flagVars
  <2> QED BY <1>8, <2>1, SMT DEF ReloadBegins, configVars, statusVars, flagVars, serverVars, history, Slots
<1>9. CASE ReloadWaits
  BY <1>9, SMT DEF ReloadWaits, configVars, statusVars, flagVars, serverVars, history, Slots
<1>10. CASE ReloadReads
  BY <1>10, BlankTyped, SMT DEF ReloadReads, configVars, statusVars, flagVars, serverVars, history, Slots
<1>11. CASE ReloadRestarts
  BY <1>11, StartTyped, SMT DEF ReloadRestarts, Start, configVars, statusVars, flagVars, serverVars, history, Slots
<1>12. CASE RequestChecks
  BY <1>12, SMT DEF RequestChecks, configVars, statusVars, flagVars, serverVars, history, Slots
<1>13. CASE RequestStarts
  BY <1>13, StartTyped, SMT DEF RequestStarts, Start, configVars, statusVars, flagVars, serverVars, history, Slots
<1>14. CASE RequestInstalls
  <2>1. CASE file = Bad
    BY <1>14, <2>1, SMT DEF RequestInstalls, configVars, statusVars, flagVars, serverVars, history, Slots
  <2>2. CASE file # Bad
    <3>1. entries' = file /\ Blank(file) /\ file \in Files
      BY <1>14, <2>2 DEF RequestInstalls
    <3> QED BY <1>14, <2>2, <3>1, BlankTyped, SMT DEF RequestInstalls, configVars, statusVars, flagVars, serverVars, history, Slots
  <2> QED BY <2>1, <2>2
<1>15. ASSUME NEW c \in Clients, TriggerFinds(c) PROVE TypeOK'
  <2>1. PICK i \in EnabledSlots :
          trigger' = [trigger EXCEPT ![c] = [at |-> "found", idx |-> i, entry |-> entries[i], gen |-> 0]]
    BY <1>15 DEF TriggerFinds, TriggerVars
  <2>2. i \in Slots /\ entries[i] \in Entry /\ i \in Nat
    BY EntriesAreEntries DEF EnabledSlots, Slots
  <2>3. trigger' \in [Clients -> Trigger]
    BY <2>1, <2>2 DEF Trigger
  <2> QED BY <1>15, <2>3 DEF TriggerFinds, TriggerVars, configVars, statusVars, flagVars, serverVars, history, Slots
<1>16. ASSUME NEW c \in Clients, TriggerAcquires(c) PROVE TypeOK'
  <2>1. trigger' \in [Clients -> Trigger]
    <3>1. trigger[c] \in Trigger
      OBVIOUS
    <3>2. /\ Idle \in Trigger
          /\ [at |-> "busy", idx |-> trigger[c].idx, entry |-> trigger[c].entry, gen |-> generation] \in Trigger
      BY <3>1 DEF Trigger, Idle
    <3> QED BY <1>16, <3>2 DEF TriggerAcquires, TriggerVars
  <2>2. triggering' \in [Slots' -> BOOLEAN]
    BY <1>16 DEF TriggerAcquires, TriggerVars, Acquire, configVars, statusVars, flagVars, serverVars, history, Slots
  <2> QED BY <1>16, <2>1, <2>2 DEF TriggerAcquires, TriggerVars, Acquire, configVars, statusVars, flagVars, serverVars, history, Slots
<1>17. ASSUME NEW c \in Clients, TriggerEnds(c) PROVE TypeOK'
  <2>1. trigger' \in [Clients -> Trigger]
    BY <1>17 DEF TriggerEnds, TriggerVars, Trigger, Idle
  <2> QED BY <1>17, <2>1, ReleaseTyped DEF TriggerEnds, TriggerVars, Trigger, configVars, statusVars, flagVars, serverVars, history, Slots
<1>18. ASSUME NEW l \in loops, LoopStep(l) \/ LoopFires(l) \/ LoopExits(l) PROVE TypeOK'
  <2> USE DEF LoopVars, Move, Exit, configVars, statusVars, flagVars, serverVars, history, Slots
  <2>1. \A a \in {"first", "plan", "write", "wait", "fire", "busy"} : At(l, a) \in Loop
    BY AtLoop
  <2>2. CASE LoopBegins(l)
    <3>1. CASE l.idx \in Slots
      <4>1. entries[l.idx] \in Entry
        BY <3>1, EntriesAreEntries
      <4>2. loops' \subseteq Loop
        BY <2>2, <3>1, <4>1 DEF LoopBegins, Loop
      <4> QED BY <2>2, <4>2 DEF LoopBegins
    <3>2. CASE l.idx \notin Slots
      BY <2>2, <3>2 DEF LoopBegins
    <3> QED BY <3>1, <3>2
  <2>3. CASE LoopExecutes(l)
    <3>1. loops' \subseteq Loop
      BY <2>1, <2>3 DEF LoopExecutes
    <3>2. startRuns' \in [Ids -> Nat]
      BY <2>3 DEF LoopExecutes
    <3>3. triggering' \in [Slots' -> BOOLEAN]
      BY <2>3 DEF LoopExecutes, Acquire
    <3> QED BY <2>3, <3>1, <3>2, <3>3 DEF LoopExecutes, Acquire
  <2>4. CASE LoopEnds(l)
    BY <2>1, <2>4, ReleaseTyped DEF LoopEnds
  <2>5. CASE LoopPlans(l)
    BY <2>1, <2>5 DEF LoopPlans
  <2>6. CASE LoopWrites(l)
    <3>1. l.entry \in Entry \cup {NoEntry}
      BY DEF Loop
    <3> QED BY <2>1, <2>6, <3>1 DEF LoopWrites
  <2>7. CASE LoopFires(l)
    BY <2>1, <2>7 DEF LoopFires
  <2>8. CASE LoopExits(l)
    BY <2>8 DEF LoopExits
  <2> QED BY <1>18, <2>2, <2>3, <2>4, <2>5, <2>6, <2>7, <2>8 DEF LoopStep
<1>19. CASE UNCHANGED vars
  BY <1>19 DEF vars, configVars, statusVars, flagVars, serverVars, history, Slots
<1> QED
  BY <1>1, <1>2, <1>3, <1>4, <1>5, <1>6, <1>7, <1>8, <1>9, <1>10, <1>11, <1>12, <1>13, <1>14, <1>15, <1>16, <1>17, <1>18, <1>19 DEF Next, CloserStep, RequestStep

\* The variables of the scheduler keep their types.
THEOREM SchedulerTypes == Spec => []TypeOK
BY TypeInit, TypeNext, PTL DEF Spec

-----------------------------------------------------------------------------
(* Executions.  Most steps change nothing that an execution is told by:    *)
(* they keep the busy loops, the busy triggers and the flags.              *)

BusyLoop(l)    == l.at = "busy"
Busy(c)        == trigger[c].at = "busy"
SameExecutions ==
  /\ \A l : BusyLoop(l) => (l \in loops' <=> l \in loops)
  /\ \A c \in Clients : /\ Busy(c)' <=> Busy(c)
                        /\ Busy(c) => trigger'[c] = trigger[c]

LEMMA Undisturbed ==
  ASSUME PastGenerations, TriggeringIsExact, OneExecution, SameExecutions,
         generation' = generation, triggering' = triggering, Slots' = Slots
  PROVE  PastGenerations' /\ TriggeringIsExact' /\ OneExecution'
<1> USE DEF SameExecutions, BusyLoop, Busy
<1>1. PastGenerations'
  BY DEF PastGenerations
<1>2. TriggeringIsExact'
  <2>1. \A i : Executing(i)' <=> Executing(i)
    BY DEF Executing
  <2> QED BY <2>1 DEF TriggeringIsExact
<1>3. OneExecution'
  BY DEF OneExecution
<1> QED BY <1>1, <1>2, <1>3

\* A start adds loops that have not begun.
LEMMA StartAddsIdleLoops ==
  ASSUME StartLocked
  PROVE  /\ \A l : BusyLoop(l) => (l \in loops' <=> l \in loops)
         /\ generation' = generation /\ triggering' = triggering /\ entries' = entries
BY DEF StartLocked, LaunchGoroutines, BusyLoop, configVars

\* A new configuration has a generation of its own, so nothing executes yet.
LEMMA NewGeneration ==
  ASSUME TypeOK, PastGenerations, OneExecution, NEW f \in Files \cup {<<>>},
         entries' = f, Blank(f), generation' = generation + 1,
         loops' = loops, trigger' = trigger
  PROVE  PastGenerations' /\ TriggeringIsExact' /\ OneExecution'
<1>1. /\ \A c \in Clients : trigger[c].gen \in Nat
      /\ \A l \in loops : l.gen \in Nat
  BY DEF TypeOK, Trigger, Loop
<1>2. generation \in Nat
  BY DEF TypeOK
<1>3. PastGenerations'
  BY <1>1, <1>2 DEF PastGenerations
<1>4. \A i : ~ Executing(i)'
  BY <1>1, <1>2 DEF PastGenerations, Executing
<1>5. TriggeringIsExact'
  BY <1>4 DEF TriggeringIsExact, Blank, Slots
<1>6. OneExecution'
  BY DEF OneExecution
<1> QED BY <1>3, <1>5, <1>6

\* A free slot is not being executed, so whoever acquires it is alone.
LEMMA TriggerAcquiresAlone ==
  ASSUME TypeOK, PastGenerations, TriggeringIsExact, OneExecution,
         NEW c \in Clients, TriggerAcquires(c)
  PROVE  PastGenerations' /\ TriggeringIsExact' /\ OneExecution'
<1>1. CASE ~Free(trigger[c])
  <2>1. SameExecutions
    BY <1>1 DEF TriggerAcquires, TriggerVars, Idle, SameExecutions, BusyLoop, Busy, TypeOK
  <2> QED BY <1>1, <2>1, Undisturbed DEF TriggerAcquires, TriggerVars, statusVars, configVars, Slots
<1>2. CASE Free(trigger[c])
  <2> DEFINE k == trigger[c].idx
  <2>1. k \in Slots /\ ~triggering[k] /\ trigger[c].at = "found"
    BY <1>2 DEF Free, TriggerAcquires
  <2>2. ~Executing(k)
    BY <2>1 DEF TriggeringIsExact
  <2>3. /\ trigger' = [trigger EXCEPT ![c] = [at |-> "busy", idx |-> k, entry |-> trigger[c].entry, gen |-> generation]]
        /\ triggering' = [triggering EXCEPT ![k] = TRUE]
        /\ loops' = loops /\ generation' = generation /\ Slots' = Slots
    BY <1>2 DEF TriggerAcquires, TriggerVars, Acquire, configVars, Slots
  <2>4. /\ trigger'[c].at = "busy" /\ trigger'[c].idx = k /\ trigger'[c].gen = generation
        /\ \A d \in Clients \ {c} : trigger'[d] = trigger[d]
    BY <2>3 DEF TypeOK
  <2>5. PastGenerations'
    BY <2>3, <2>4 DEF PastGenerations, TypeOK
  <2>6. \A i \in Slots : Executing(i)' <=> (i = k \/ Executing(i))
    BY <2>1, <2>3, <2>4 DEF Executing
  <2>7. TriggeringIsExact'
    BY <2>1, <2>3, <2>6 DEF TriggeringIsExact, TypeOK
  <2>8. OneExecution'
    BY <2>2, <2>3, <2>4 DEF OneExecution, Executing
  <2> QED BY <2>5, <2>7, <2>8
<1> QED BY <1>1, <1>2

LEMMA LoopAcquiresAlone ==
  ASSUME TypeOK, PastGenerations, TriggeringIsExact, OneExecution,
         NEW l \in loops, LoopExecutes(l)
  PROVE  PastGenerations' /\ TriggeringIsExact' /\ OneExecution'
<1>0. l \in Loop /\ l.at # "busy"
  BY DEF TypeOK, LoopExecutes
<1>1. CASE ~(generation = l.gen /\ Free(l))
  <2>1. loops' = (loops \ {l}) \cup {At(l, "plan")} /\ trigger' = trigger
    BY <1>1 DEF LoopExecutes, Move, LoopVars
  <2>2. At(l, "plan").at = "plan"
    BY <1>0, AtLoop
  <2>3. SameExecutions
    BY <1>0, <2>1, <2>2 DEF SameExecutions, BusyLoop, Busy
  <2> QED BY <1>1, <2>3, Undisturbed DEF LoopExecutes, Move, LoopVars, statusVars, configVars, Slots
<1>2. CASE generation = l.gen /\ Free(l)
  <2> DEFINE k == l.idx
             m == At(l, "busy")
  <2>1. k \in Slots /\ ~triggering[k]
    BY <1>2 DEF Free
  <2>2. ~Executing(k)
    BY <2>1 DEF TriggeringIsExact
  <2>3. /\ loops' = (loops \ {l}) \cup {m}
        /\ triggering' = [triggering EXCEPT ![k] = TRUE]
        /\ trigger' = trigger /\ generation' = generation /\ Slots' = Slots
    BY <1>2 DEF LoopExecutes, Move, LoopVars, Acquire, configVars, Slots
  <2>4. m.at = "busy" /\ m.idx = k /\ m.gen = generation
    BY <1>0, <1>2, AtLoop
  <2> HIDE DEF m
  <2>5. PastGenerations'
    BY <2>3, <2>4 DEF PastGenerations, TypeOK
  <2>6. \A i \in Slots : Executing(i)' <=> (i = k \/ Executing(i))
    BY <1>0, <2>1, <2>3, <2>4 DEF Executing
  <2>7. TriggeringIsExact'
    BY <2>1, <2>3, <2>6 DEF TriggeringIsExact, TypeOK
  <2>8. OneExecution'
    BY <1>0, <2>2, <2>3, <2>4 DEF OneExecution, Executing
  <2> QED BY <2>5, <2>7, <2>8
<1> QED BY <1>1, <1>2

\* An execution that ends clears the flag if it was set for itself: no other
\* execution has its slot and its generation.
LEMMA TriggerReleasesOwn ==
  ASSUME TypeOK, PastGenerations, TriggeringIsExact, OneExecution,
         NEW c \in Clients, TriggerEnds(c)
  PROVE  PastGenerations' /\ TriggeringIsExact' /\ OneExecution'
<1> DEFINE k == trigger[c].idx
           g == trigger[c].gen
<1>1. /\ trigger' = [trigger EXCEPT ![c] = Idle] /\ trigger[c].at = "busy"
      /\ loops' = loops /\ generation' = generation /\ Slots' = Slots
      /\ Release(trigger[c])
  BY DEF TriggerEnds, TriggerVars, configVars, Slots
<1>2. /\ trigger'[c].at = "idle"
      /\ \A d \in Clients \ {c} : trigger'[d] = trigger[d]
  BY <1>1 DEF TypeOK, Idle
<1>3. PastGenerations' /\ OneExecution'
  BY <1>1, <1>2 DEF PastGenerations, OneExecution
<1>4. \A i \in Slots : Executing(i)' <=> (Executing(i) /\ ~(i = k /\ g = generation))
  BY <1>1, <1>2 DEF Executing, OneExecution
<1>5. TriggeringIsExact'
  <2>1. CASE g = generation /\ k \in Slots
    <3>1. triggering' = [triggering EXCEPT ![k] = FALSE]
      BY <1>1, <2>1 DEF Release
    <3> QED BY <1>1, <1>4, <2>1, <3>1 DEF TriggeringIsExact, TypeOK
  <2>2. CASE ~(g = generation /\ k \in Slots)
    <3>1. triggering' = triggering
      BY <1>1, <2>2 DEF Release, statusVars
    <3> QED BY <1>1, <1>4, <2>2, <3>1 DEF TriggeringIsExact
  <2> QED BY <2>1, <2>2
<1> QED BY <1>3, <1>5

LEMMA LoopReleasesOwn ==
  ASSUME TypeOK, PastGenerations, TriggeringIsExact, OneExecution,
         NEW l \in loops, LoopEnds(l)
  PROVE  PastGenerations' /\ TriggeringIsExact' /\ OneExecution'
<1> DEFINE k == l.idx
           g == l.gen
           m == At(l, "plan")
<1>0. l \in Loop /\ l.at = "busy"
  BY DEF TypeOK, LoopEnds
<1>1. /\ loops' = (loops \ {l}) \cup {m}
      /\ trigger' = trigger /\ generation' = generation /\ Slots' = Slots
      /\ Release(l)
  BY DEF LoopEnds, Move, LoopVars, configVars, Slots
<1>2. m.at = "plan"
  BY <1>0, AtLoop
<1> HIDE DEF m
<1>3. PastGenerations' /\ OneExecution'
  BY <1>1, <1>2 DEF PastGenerations, OneExecution
<1>4. \A i \in Slots : Executing(i)' <=> (Executing(i) /\ ~(i = k /\ g = generation))
  BY <1>0, <1>1, <1>2 DEF Executing, OneExecution
<1>5. TriggeringIsExact'
  <2>1. CASE g = generation /\ k \in Slots
    <3>1. triggering' = [triggering EXCEPT ![k] = FALSE]
      BY <1>1, <2>1 DEF Release
    <3> QED BY <1>1, <1>4, <2>1, <3>1 DEF TriggeringIsExact, TypeOK
  <2>2. CASE ~(g = generation /\ k \in Slots)
    <3>1. triggering' = triggering
      BY <1>1, <2>2 DEF Release, statusVars
    <3> QED BY <1>1, <1>4, <2>2, <3>1 DEF TriggeringIsExact
  <2> QED BY <2>1, <2>2
<1> QED BY <1>3, <1>5

LEMMA DisciplineInit == Init => ExecutionDiscipline
BY DEF Init, ExecutionDiscipline, PastGenerations, TriggeringIsExact, OneExecution, InstalledFirst,
       Executing, Idle, Slots

LEMMA DisciplineNext == TypeOK /\ ExecutionDiscipline /\ [Next]_vars => ExecutionDiscipline'
<1> SUFFICES ASSUME TypeOK, ExecutionDiscipline, [Next]_vars PROVE ExecutionDiscipline'
  OBVIOUS
<1> USE DEF ExecutionDiscipline
<1> DEFINE Kept == /\ SameExecutions /\ generation' = generation
                   /\ triggering' = triggering /\ Slots' = Slots
<1>1. ASSUME Kept, InstalledFirst' PROVE ExecutionDiscipline'
  BY <1>1, Undisturbed
<1> DEFINE Untouched == UNCHANGED <<configVars, statusVars, loops, trigger>>
<1>2. ASSUME Untouched PROVE Kept
  BY <1>2 DEF configVars, statusVars, Slots, SameExecutions, BusyLoop, Busy
<1>3. CASE BootChecks \/ ShutdownBegins \/ ShutdownFinds \/ StopBegins \/ StopEnds
  <2>1. Untouched /\ installed' = installed /\ request' = request
    BY <1>3 DEF BootChecks, ShutdownBegins, ShutdownFinds, StopBegins, StopEnds
  <2>2. InstalledFirst'
    BY <2>1 DEF InstalledFirst
  <2> QED BY <1>1, <1>2, <2>1, <2>2
<1>4. CASE RequestBegins \/ ReloadBegins \/ ReloadWaits \/ RequestChecks
  <2>1. Untouched /\ installed' = installed
    BY <1>4 DEF RequestBegins, ReloadBegins, ReloadWaits, RequestChecks
  <2>2. InstalledFirst'
    BY <1>4, <2>1 DEF InstalledFirst, RequestBegins, ReloadBegins, ReloadWaits, RequestChecks, TypeOK
  <2> QED BY <1>1, <1>2, <2>1, <2>2
<1>5. CASE BootStarts \/ ReloadRestarts \/ RequestStarts
  <2>1. trigger' = trigger /\ installed' = installed
    BY <1>5 DEF BootStarts, ReloadRestarts, RequestStarts
  <2>2. CASE StartLocked
    <3>1. installed
      <4>1. CASE BootStarts /\ ~installed
        <5>1. launch' = launch
          BY <4>1 DEF BootStarts
        <5>2. launch' = launch + 1 /\ launch \in Nat
          BY <2>2 DEF StartLocked, LaunchGoroutines, TypeOK
        <5> QED BY <5>1, <5>2
      <4>2. CASE ReloadRestarts \/ RequestStarts
        BY <4>2 DEF ReloadRestarts, RequestStarts, InstalledFirst
      <4> QED BY <1>5, <4>1, <4>2
    <3>2. InstalledFirst'
      BY <1>5, <2>1, <3>1 DEF InstalledFirst, BootStarts, ReloadRestarts, RequestStarts
    <3> QED BY <1>1, <2>1, <2>2, <3>2, StartAddsIdleLoops DEF SameExecutions, Busy, Slots
  <2>3. CASE Untouched
    <3>1. InstalledFirst'
      BY <1>5, <2>1, <2>3 DEF InstalledFirst, BootStarts, ReloadRestarts, RequestStarts
    <3> QED BY <1>1, <1>2, <2>3, <3>1
  <2> QED BY <1>5, <2>1, <2>2, <2>3 DEF BootStarts, ReloadRestarts, RequestStarts, Start
<1>6. CASE ReloadReads
  <2>1. loops' = loops /\ trigger' = trigger /\ installed' = installed
    BY <1>6 DEF ReloadReads
  <2>2. InstalledFirst'
    BY <1>6, <2>1 DEF InstalledFirst, ReloadReads
  <2>3. CASE file = Bad
    <3>1. Untouched
      BY <1>6, <2>1, <2>3 DEF ReloadReads
    <3> QED BY <1>1, <1>2, <2>2, <3>1
  <2>4. CASE file # Bad
    <3>1. /\ entries' = file /\ Blank(file) /\ generation' = generation + 1
          /\ file \in Files \cup {<<>>}
      BY <1>6, <2>4 DEF ReloadReads, TypeOK
    <3> QED BY <2>1, <2>2, <3>1, NewGeneration
  <2> QED BY <2>3, <2>4
<1>7. CASE RequestInstalls
  <2>1. /\ loops' = loops /\ trigger' = trigger /\ generation' = generation
        /\ loops = {} /\ \A c \in Clients : trigger[c].at = "idle"
    BY <1>7 DEF RequestInstalls, InstalledFirst, configVars
  <2>2. InstalledFirst'
    BY <1>7, <2>1 DEF RequestInstalls, InstalledFirst
  <2>3. PastGenerations' /\ OneExecution' /\ \A i : ~Executing(i)' /\ ~Executing(i)
    BY <2>1 DEF PastGenerations, OneExecution, Executing
  <2>4. TriggeringIsExact'
    <3>1. CASE file = Bad
      BY <1>7, <2>3, <3>1 DEF RequestInstalls, TriggeringIsExact, configVars, statusVars, Slots
    <3>2. CASE file # Bad
      BY <1>7, <2>3, <3>2 DEF RequestInstalls, TriggeringIsExact, Blank, Slots
    <3> QED BY <3>1, <3>2
  <2> QED BY <2>2, <2>3, <2>4
<1>8. ASSUME NEW c \in Clients, TriggerFinds(c) PROVE ExecutionDiscipline'
  <2>1. /\ Kept /\ installed /\ installed' = installed /\ request' = request
    BY <1>8 DEF TriggerFinds, TriggerVars, SameExecutions, BusyLoop, Busy, TypeOK,
                configVars, statusVars, serverVars, Slots
  <2>2. InstalledFirst'
    BY <2>1 DEF InstalledFirst
  <2> QED BY <1>1, <2>1, <2>2
<1>9. ASSUME NEW c \in Clients, TriggerAcquires(c) \/ TriggerEnds(c) PROVE ExecutionDiscipline'
  <2>1. installed' = installed /\ request' = request /\ installed
    BY <1>9 DEF TriggerAcquires, TriggerEnds, TriggerVars, serverVars, InstalledFirst
  <2>2. InstalledFirst'
    BY <2>1 DEF InstalledFirst
  <2> QED BY <1>9, <2>2, TriggerAcquiresAlone, TriggerReleasesOwn
<1>10. ASSUME NEW l \in loops, LoopStep(l) \/ LoopFires(l) \/ LoopExits(l) PROVE ExecutionDiscipline'
  <2>1. l \in Loop
    BY DEF TypeOK
  <2>2. /\ installed' = installed /\ request' = request /\ installed
        /\ trigger' = trigger /\ generation' = generation /\ Slots' = Slots
    BY <1>10 DEF LoopStep, LoopBegins, LoopExecutes, LoopEnds, LoopPlans, LoopWrites, LoopFires,
                 LoopExits, Move, Exit, LoopVars, serverVars, configVars, Slots, InstalledFirst
  <2>3. InstalledFirst'
    BY <2>2 DEF InstalledFirst
  <2>4. CASE LoopExecutes(l)
    BY <2>3, <2>4, LoopAcquiresAlone
  <2>5. CASE LoopEnds(l)
    BY <2>3, <2>5, LoopReleasesOwn
  <2>6. CASE LoopBegins(l) \/ LoopPlans(l) \/ LoopWrites(l) \/ LoopFires(l) \/ LoopExits(l)
    <3>1. l.at # "busy" /\ triggering' = triggering
      BY <2>6 DEF LoopBegins, LoopPlans, LoopWrites, LoopFires, LoopExits, statusVars
    <3>2. \E m : m.at # "busy" /\ loops' \in {loops \ {l}, (loops \ {l}) \cup {m}}
      <4>1. CASE LoopBegins(l)
        BY <4>1 DEF LoopBegins, Move, Exit, LoopVars
      <4>2. CASE LoopPlans(l) \/ LoopWrites(l) \/ LoopFires(l) \/ LoopExits(l)
        <5>1. \A a \in {"write", "wait", "fire"} : At(l, a).at = a
          BY <2>1, AtLoop
        <5> QED BY <4>2, <5>1 DEF LoopPlans, LoopWrites, LoopFires, LoopExits, Move, Exit, LoopVars
      <4> QED BY <2>6, <4>1, <4>2
    <3>3. SameExecutions
      BY <2>2, <3>1, <3>2 DEF SameExecutions, BusyLoop, Busy
    <3> QED BY <1>1, <2>2, <2>3, <3>1, <3>3
  <2> QED BY <1>10, <2>4, <2>5, <2>6 DEF LoopStep
<1>11. CASE UNCHANGED vars
  <2>1. Untouched /\ installed' = installed /\ request' = request
    BY <1>11 DEF vars, serverVars
  <2>2. InstalledFirst'
    BY <2>1 DEF InstalledFirst
  <2> QED BY <1>1, <1>2, <2>1, <2>2
<1> QED
  BY <1>3, <1>4, <1>5, <1>6, <1>7, <1>8, <1>9, <1>10, <1>11 DEF Next, CloserStep, RequestStep

\* The inductive invariant of the executions holds always.
THEOREM SchedulerDiscipline == Spec => []ExecutionDiscipline
BY TypeInit, TypeNext, DisciplineInit, DisciplineNext, PTL DEF Spec

\* An entry's Triggering flag is set exactly while it is being executed under
\* the configuration in force (API_DOCUMENTATION.md, "triggering").
THEOREM FlagIsExact == Spec => []TriggeringIsExact
BY SchedulerDiscipline, PTL DEF ExecutionDiscipline

\* No entry is executed twice at the same time under one configuration.
THEOREM ExecutionsAreSingle == Spec => []OneExecution
BY SchedulerDiscipline, PTL DEF ExecutionDiscipline

-----------------------------------------------------------------------------
(* Starts, stops and reloads in any order.                                 *)

\* The steps of Reload between its stop and its restart.
InReload == request \in {"stopping", "read", "recover", "restart"}

\* Who holds lifecycleMu, and what that says of the loops: none is left when the
\* configuration is read, nor when a scheduler stands still with no one at work on
\* it.  A stop is for good, because Start refuses after it, and Reload restarts
\* only what it has stopped itself.
LifecycleHeld ==
  /\ lifecycle = "request" <=> InReload
  /\ lifecycle = "closer"  <=> closer = "waiting"
  /\ InReload \/ closer \in {"waiting", "stopped"} => ~started
  /\ request \in {"read", "recover", "restart"} => loops = {}
  /\ ~started /\ lifecycle = "free" => loops = {}
  /\ closer \in {"waiting", "stopped"} => stopRequested
  /\ closer = "stopped" => loops = {} /\ (InReload => ~wasStarted)
  /\ ~installed =>
       ~started /\ ~stopRequested /\ loops = {} /\ closer \notin {"stop", "waiting", "stopped"}

\* Where a server that is not shutting down has its scheduler running, or will
\* have it when the request returns.
KeptRunning ==
  /\ boot # "up" => request = "idle"
  /\ closer = "open" =>
       IF boot # "up"
         THEN ~started /\ ~stopRequested
         ELSE installed =>
                /\ request \in {"idle", "reload", "check"} => started
                /\ InReload => wasStarted
                /\ request = "start" => started \/ ~stopRequested

\* The loops are those of the present launch and configuration: at most one for a
\* slot, one for each enabled slot of a scheduler that runs.
LoopsServe ==
  /\ \A l \in loops :
       /\ l.idx \in EnabledSlots /\ l.launch = launch
       /\ l.at # "begin" => l.entry = entries[l.idx] /\ l.gen = generation
  /\ \A l, m \in loops : l.idx = m.idx => l = m
  /\ started => \A i \in EnabledSlots : \E l \in loops : l.idx = i

\* The loops that have yet to run an entry at its start are of the first launch,
\* and none has run it before.
FirstRuns ==
  /\ firstStart => started
  /\ started => hasEverStarted
  /\ ~hasEverStarted => owed = {} /\ \A i \in Ids : startRuns[i] = 0
  /\ \A l \in loops :
       l.at = "first" \/ (l.at = "begin" /\ firstStart /\ entries[l.idx].onStart) =>
         entries[l.idx].id \in owed /\ startRuns[entries[l.idx].id] = 0
  /\ StartRunsOnce

\* What keeps the scheduler's promises over all starts, stops and reloads.
ServiceKept == LifecycleHeld /\ KeptRunning /\ LoopsServe /\ FirstRuns /\ StatusOfOwnEntry

\* Stops, and steps that leave the launch and the configuration alone.
LEMMA SameLaunch ==
  ASSUME LoopsServe, FirstRuns, UNCHANGED <<entries, generation, launch, loops, startRuns, owed>>,
         UNCHANGED hasEverStarted,
         started' => started, firstStart' => firstStart /\ started'
  PROVE  LoopsServe' /\ FirstRuns'
<1>1. LoopsServe'
  BY DEF LoopsServe, EnabledSlots, Slots
<1>2. FirstRuns'
  BY DEF FirstRuns, StartRunsOnce
<1> QED BY <1>1, <1>2

\* Statuses that nobody writes.
LEMMA SameStatuses ==
  ASSUME StatusOfOwnEntry, UNCHANGED <<entries, recorded, nextFrom>>
  PROVE  StatusOfOwnEntry'
BY DEF StatusOfOwnEntry, Slots

\* A start makes a loop for each enabled slot; only the first has loops that run
\* an entry at once.
LEMMA StartServes ==
  ASSUME TypeOK, FirstRuns, StatusOfOwnEntry, loops = {}, ~started, StartLocked
  PROVE  LoopsServe' /\ FirstRuns' /\ StatusOfOwnEntry'
<1>1. /\ entries' = entries /\ generation' = generation /\ recorded' = recorded
      /\ startRuns' = startRuns /\ started' /\ hasEverStarted' /\ ~firstStart
      /\ launch' = launch + 1 /\ EnabledSlots' = EnabledSlots /\ Slots' = Slots
      /\ firstStart' = ~hasEverStarted
  BY DEF StartLocked, LaunchGoroutines, configVars, FirstRuns, EnabledSlots, Slots
<1> DEFINE new(i) == [idx |-> i, launch |-> launch + 1, entry |-> NoEntry, gen |-> 0,
                      at |-> "begin"]
<1>2. /\ \A l \in loops' : /\ l.idx \in EnabledSlots /\ l.launch = launch' /\ l.at = "begin"
                           /\ l = new(l.idx)
      /\ \A i \in EnabledSlots : \E l \in loops' : l.idx = i
  <2>1. loops' = {new(i) : i \in EnabledSlots}
    BY DEF StartLocked, LaunchGoroutines
  <2>2. \A i \in EnabledSlots : /\ new(i).idx = i /\ new(i).launch = launch + 1
                                /\ new(i).at = "begin" /\ new(i) \in loops'
    BY <2>1
  <2>3. \A l \in loops' : \E i \in EnabledSlots : l = new(i)
    BY <2>1
  <2> HIDE DEF new
  <2> QED BY <1>1, <2>2, <2>3
<1> HIDE DEF new
<1>3. LoopsServe'
  BY <1>1, <1>2 DEF LoopsServe
<1>4. nextFrom' = [i \in Slots |-> IF entries[i].enabled THEN entries[i] ELSE nextFrom[i]]
  BY DEF StartLocked, LaunchGoroutines
<1>5. StatusOfOwnEntry'
  BY <1>1, <1>4 DEF StatusOfOwnEntry
<1>6. FirstRuns'
  <2>1. CASE hasEverStarted
    <3>1. owed' = owed /\ ~firstStart'
      BY <1>1, <2>1 DEF StartLocked
    <3> QED BY <1>1, <1>2, <3>1 DEF FirstRuns, StartRunsOnce
  <2>2. CASE ~hasEverStarted
    <3>1. owed' = {entries[i].id : i \in {j \in EnabledSlots : entries[j].onStart}}
      BY <2>2 DEF StartLocked
    <3>2. \A i \in Ids : startRuns[i] = 0
      BY <2>2 DEF FirstRuns
    <3>3. \A i \in Slots : entries[i].id \in Ids
      BY EntriesAreEntries DEF TypeOK, Entry, Slots
    <3>4. ASSUME NEW l \in loops', entries[l.idx].onStart
          PROVE  entries[l.idx].id \in owed' /\ startRuns[entries[l.idx].id] = 0
      BY <1>2, <3>1, <3>2, <3>3, <3>4 DEF EnabledSlots
    <3>5. StartRunsOnce'
      BY <1>1, <3>2 DEF StartRunsOnce
    <3> QED BY <1>1, <1>2, <3>4, <3>5 DEF FirstRuns
  <2> QED BY <2>1, <2>2
<1> QED BY <1>3, <1>5, <1>6

\* A configuration comes into force when there is no loop.
LEMMA SwapServes ==
  ASSUME FirstRuns, loops = {}, ~started, NEW f \in Files, entries' = f, Blank(f),
         UNCHANGED <<loops, launch, started, firstStart, hasEverStarted, startRuns, owed>>
  PROVE  LoopsServe' /\ FirstRuns' /\ StatusOfOwnEntry'
<1>1. LoopsServe'
  BY DEF LoopsServe
<1>2. FirstRuns'
  BY DEF FirstRuns, StartRunsOnce
<1>3. StatusOfOwnEntry'
  BY DEF StatusOfOwnEntry, Blank, Slots
<1> QED BY <1>1, <1>2, <1>3

\* A loop moves on with the entry and the generation in force.
LEMMA LoopMoves ==
  ASSUME LoopsServe, NEW l \in loops, NEW m, loops' = (loops \ {l}) \cup {m},
         m.idx = l.idx, m.launch = l.launch, m.entry = entries[l.idx], m.gen = generation,
         UNCHANGED <<entries, generation, launch, started>>
  PROVE  LoopsServe'
<1>1. \A k \in loops' : (k = m /\ k.idx = l.idx) \/ (k \in loops /\ k.idx # l.idx)
  BY DEF LoopsServe
<1>2. EnabledSlots' = EnabledSlots
  BY DEF EnabledSlots, Slots
<1>3. \A k \in loops' : /\ k.idx \in EnabledSlots /\ k.launch = launch
                        /\ k.at # "begin" => k.entry = entries[k.idx] /\ k.gen = generation
  BY <1>1 DEF LoopsServe
<1>4. \A k, n \in loops' : k.idx = n.idx => k = n
  BY <1>1 DEF LoopsServe
<1>5. started => \A i \in EnabledSlots : \E k \in loops' : k.idx = i
  <2> SUFFICES ASSUME started, NEW i \in EnabledSlots PROVE \E k \in loops' : k.idx = i
    OBVIOUS
  <2>1. PICK k \in loops : k.idx = i
    BY DEF LoopsServe
  <2>2. m \in loops'
    OBVIOUS
  <2> QED BY <2>1, <2>2
<1> QED BY <1>2, <1>3, <1>4, <1>5 DEF LoopsServe

\* A loop that has not run its entry at the start, or does so now.
LEMMA LoopFirstRuns ==
  ASSUME TypeOK, LoopsServe, FirstRuns, NEW l \in loops, NEW m,
         loops' \subseteq (loops \ {l}) \cup {m}, m.idx = l.idx, m.at # "begin",
         m.at = "first" =>
           l.at = "begin" /\ firstStart /\ entries[l.idx].onStart,
         \/ startRuns' = startRuns
         \/ /\ l.at = "first" /\ m.at # "first"
            /\ startRuns' = [startRuns EXCEPT ![entries[l.idx].id] = @ + 1],
         UNCHANGED <<entries, started, firstStart, hasEverStarted, owed>>
  PROVE  FirstRuns'
<1>1. \A k \in loops' : (k = m /\ k.idx = l.idx) \/ (k \in loops /\ k.idx # l.idx)
  BY DEF LoopsServe
<1>2. /\ entries \in Files \cup {<<>>} /\ startRuns \in [Ids -> Nat]
      /\ \A i \in Slots : entries[i].id \in Ids
  BY EntriesAreEntries DEF TypeOK, Entry, Slots
<1>3. \A k \in loops : k.idx \in Slots
  BY DEF LoopsServe, EnabledSlots
<1>4. l.at = "first" => entries[l.idx].id \in owed /\ startRuns[entries[l.idx].id] = 0
  BY DEF FirstRuns
<1>5. StartRunsOnce'
  BY <1>2, <1>3, <1>4 DEF FirstRuns, StartRunsOnce
<1>6. ~hasEverStarted => owed = {} /\ \A i \in Ids : startRuns'[i] = 0
  BY <1>2, <1>3, <1>4 DEF FirstRuns
<1>7. ASSUME NEW k \in loops',
             k.at = "first" \/ (k.at = "begin" /\ firstStart /\ entries[k.idx].onStart)
      PROVE  entries[k.idx].id \in owed /\ startRuns'[entries[k.idx].id] = 0
  <2>1. CASE k = m
    BY <1>3, <1>7, <2>1 DEF FirstRuns
  <2>2. CASE k \in loops /\ k.idx # l.idx
    <3>1. entries[k.idx].id \in owed /\ startRuns[entries[k.idx].id] = 0
      BY <1>7, <2>2 DEF FirstRuns
    <3>2. k.idx \in Slots /\ l.idx \in Slots
      BY <1>3, <2>2
    <3>3. UniqueIds(entries)
      BY <1>2, SchedulerAssumption DEF UniqueIds
    <3>4. entries[k.idx].id # entries[l.idx].id
      BY <2>2, <3>2, <3>3 DEF UniqueIds, Slots
    <3> QED BY <1>2, <3>1, <3>2, <3>4
  <2> QED BY <1>1, <2>1, <2>2
<1> QED BY <1>5, <1>6, <1>7 DEF FirstRuns

\* A release counts for the entry in force, and for its own ID only.
LEMMA ReleaseCountsOwn ==
  ASSUME TypeOK, StatusOfOwnEntry, NEW x, Release(x), entries' = entries
  PROVE  StatusOfOwnEntry'
<1>1. nextFrom' = nextFrom /\ recorded \in [Slots -> SUBSET Ids]
  BY DEF Release, statusVars, TypeOK
<1>2. \A i \in Slots : recorded'[i] \subseteq {entries[i].id}
  <2>1. CASE generation = x.gen /\ x.idx \in Slots /\ entries[x.idx].id = x.entry.id
    <3>1. recorded' = [recorded EXCEPT ![x.idx] = @ \cup {x.entry.id}]
      BY <2>1 DEF Release
    <3> QED BY <1>1, <2>1, <3>1 DEF StatusOfOwnEntry
  <2>2. CASE ~(generation = x.gen /\ x.idx \in Slots /\ entries[x.idx].id = x.entry.id)
    <3>1. recorded' = recorded
      BY <2>2 DEF Release, statusVars
    <3> QED BY <3>1 DEF StatusOfOwnEntry
  <2> QED BY <2>1, <2>2
<1> QED BY <1>1, <1>2 DEF StatusOfOwnEntry, Slots

\* Who holds lifecycleMu, and what a server that is up has running, when a loop or
\* a trigger moves.
LEMMA LifecycleUndisturbed ==
  ASSUME LifecycleHeld, KeptRunning, UNCHANGED <<flagVars, lifecycle, serverVars>>,
         loops = {} => loops' = {}
  PROVE  LifecycleHeld' /\ KeptRunning'
BY DEF LifecycleHeld, KeptRunning, InReload, flagVars, serverVars

\* The steps of a loop.
LEMMA LoopServes ==
  ASSUME TypeOK, ServiceKept, NEW l \in loops, LoopStep(l) \/ LoopFires(l) \/ LoopExits(l)
  PROVE  ServiceKept'
<1> USE DEF ServiceKept
<1>1. /\ UNCHANGED <<file, entries, generation, flagVars, launch, lifecycle, trigger, serverVars>>
      /\ UNCHANGED <<started, firstStart, hasEverStarted, owed>>
  BY DEF LoopStep, LoopBegins, LoopExecutes, LoopEnds, LoopPlans, LoopWrites, LoopFires, LoopExits,
         Move, Exit, LoopVars, configVars, flagVars
<1>2. /\ l \in Loop /\ l.idx \in Slots /\ l.launch = launch
      /\ l.at # "begin" => l.entry = entries[l.idx] /\ l.gen = generation
      /\ l.idx \in EnabledSlots
  BY DEF TypeOK, LoopsServe, EnabledSlots
<1>3. LifecycleHeld' /\ KeptRunning'
  BY <1>1, LifecycleUndisturbed
<1>4. ASSUME NEW m, Move(l, m), m.idx = l.idx, m.launch = l.launch, m.at # "begin",
             m.entry = entries[l.idx], m.gen = generation,
             m.at = "first" => l.at = "begin" /\ firstStart /\ entries[l.idx].onStart,
             \/ startRuns' = startRuns
             \/ /\ l.at = "first" /\ m.at # "first"
                /\ startRuns' = [startRuns EXCEPT ![entries[l.idx].id] = @ + 1]
      PROVE  LoopsServe' /\ FirstRuns'
  <2>1. loops' = (loops \ {l}) \cup {m}
    BY <1>4 DEF Move, LoopVars
  <2>2. LoopsServe'
    BY <1>1, <1>4, <2>1, LoopMoves
  <2>3. FirstRuns'
    BY <1>1, <1>4, <2>1, LoopFirstRuns
  <2> QED BY <2>2, <2>3
<1>0. ASSUME NEW a \in {"plan", "write", "wait", "fire", "busy"}, Move(l, At(l, a)),
             l.at # "begin",
             \/ startRuns' = startRuns
             \/ l.at = "first" /\ startRuns' = [startRuns EXCEPT ![l.entry.id] = @ + 1]
      PROVE  LoopsServe' /\ FirstRuns'
  <2> DEFINE m == At(l, a)
  <2>1. /\ m.idx = l.idx /\ m.launch = l.launch /\ m.at # "begin" /\ m.at # "first"
        /\ m.entry = entries[l.idx] /\ m.gen = generation /\ Move(l, m)
    BY <1>0, <1>2, AtLoop
  <2> HIDE DEF m
  <2> QED BY <1>0, <1>2, <1>4, <2>1
<1>5. CASE LoopBegins(l)
  <2> DEFINE m == [idx |-> l.idx, launch |-> l.launch, entry |-> entries[l.idx], gen |-> generation,
                   at |-> IF entries[l.idx].onStart /\ firstStart THEN "first" ELSE "plan"]
  <2>1. Move(l, m) /\ UNCHANGED <<statusVars, startRuns>> /\ l.at = "begin"
    BY <1>2, <1>5 DEF LoopBegins
  <2>2. /\ m.idx = l.idx /\ m.launch = l.launch /\ m.at # "begin" /\ m.entry = entries[l.idx]
        /\ m.gen = generation
        /\ m.at = "first" => l.at = "begin" /\ firstStart /\ entries[l.idx].onStart
    BY <2>1
  <2> HIDE DEF m
  <2>3. LoopsServe' /\ FirstRuns'
    BY <1>4, <2>1, <2>2
  <2> QED BY <1>1, <1>3, <2>1, <2>3, SameStatuses DEF statusVars
<1>6. CASE LoopExecutes(l)
  <2>1. l.at \in {"first", "fire"} /\ UNCHANGED <<recorded, nextFrom>>
    BY <1>6 DEF LoopExecutes, Acquire, statusVars
  <2>2. PICK a \in {"plan", "write", "wait", "fire", "busy"} : /\ Move(l, At(l, a))
           /\ \/ startRuns' = startRuns
              \/ l.at = "first" /\ startRuns' = [startRuns EXCEPT ![l.entry.id] = @ + 1]
    BY <1>6 DEF LoopExecutes
  <2>3. LoopsServe' /\ FirstRuns'
    BY <1>0, <2>1, <2>2
  <2> QED BY <1>1, <1>3, <2>1, <2>3, SameStatuses
<1>7. CASE LoopEnds(l)
  <2>1. Release(l) /\ Move(l, At(l, "plan")) /\ startRuns' = startRuns /\ l.at = "busy"
    BY <1>7 DEF LoopEnds
  <2>2. LoopsServe' /\ FirstRuns'
    BY <1>0, <2>1
  <2> QED BY <1>1, <1>3, <2>1, <2>2, ReleaseCountsOwn
<1>8. CASE LoopPlans(l)
  <2>1. /\ UNCHANGED <<recorded, nextFrom, startRuns>> /\ l.at = "plan"
        /\ \E a \in {"write", "wait"} : Move(l, At(l, a))
    BY <1>8 DEF LoopPlans, statusVars
  <2>2. LoopsServe' /\ FirstRuns'
    BY <1>0, <2>1
  <2> QED BY <1>1, <1>3, <2>1, <2>2, SameStatuses
<1>9. CASE LoopWrites(l)
  <2>1. /\ UNCHANGED <<recorded, startRuns>> /\ l.at = "write" /\ Move(l, At(l, "wait"))
        /\ nextFrom' = [nextFrom EXCEPT ![l.idx] = entries[l.idx]]
    BY <1>2, <1>9 DEF LoopWrites
  <2>2. LoopsServe' /\ FirstRuns'
    BY <1>0, <2>1
  <2>3. StatusOfOwnEntry'
    BY <1>1, <2>1 DEF StatusOfOwnEntry, Slots, TypeOK
  <2> QED BY <1>3, <2>2, <2>3
<1>10. CASE LoopFires(l)
  <2>1. /\ UNCHANGED <<recorded, nextFrom, startRuns>> /\ l.at = "wait" /\ Move(l, At(l, "fire"))
    BY <1>2, <1>10 DEF LoopFires, statusVars
  <2>2. LoopsServe' /\ FirstRuns'
    BY <1>0, <2>1
  <2> QED BY <1>1, <1>3, <2>1, <2>2, SameStatuses
<1>11. CASE LoopExits(l)
  <2>1. /\ UNCHANGED <<recorded, nextFrom, startRuns>> /\ loops' = loops \ {l} /\ ~started
    BY <1>2, <1>11 DEF LoopExits, Exit, LoopVars, statusVars, Cancelled
  <2>2. LoopsServe'
    BY <1>1, <2>1 DEF LoopsServe, EnabledSlots, Slots
  <2>3. FirstRuns'
    BY <1>1, <2>1 DEF FirstRuns, StartRunsOnce
  <2> QED BY <1>1, <1>3, <2>1, <2>2, <2>3, SameStatuses
<1> QED BY <1>5, <1>6, <1>7, <1>8, <1>9, <1>10, <1>11 DEF LoopStep

\* A trigger by hand changes nothing but its own state and the flag and the result
\* of its entry.
LEMMA TriggerServes ==
  ASSUME TypeOK, ServiceKept, NEW c \in Clients,
         TriggerFinds(c) \/ TriggerAcquires(c) \/ TriggerEnds(c)
  PROVE  ServiceKept'
<1> USE DEF ServiceKept
<1>1. /\ UNCHANGED <<entries, generation, launch, loops, lifecycle, startRuns, owed>>
      /\ UNCHANGED <<flagVars, serverVars, started, firstStart, hasEverStarted>>
  BY DEF TriggerFinds, TriggerAcquires, TriggerEnds, TriggerVars, configVars, flagVars, history
<1>2. LifecycleHeld' /\ KeptRunning'
  BY <1>1, LifecycleUndisturbed
<1>3. LoopsServe' /\ FirstRuns'
  BY <1>1, SameLaunch DEF FirstRuns
<1>4. StatusOfOwnEntry'
  <2>1. CASE TriggerFinds(c) \/ TriggerAcquires(c)
    BY <1>1, <2>1, SameStatuses DEF TriggerFinds, TriggerAcquires, Acquire, statusVars
  <2>2. CASE TriggerEnds(c)
    BY <1>1, <2>2, ReleaseCountsOwn DEF TriggerEnds
  <2> QED BY <2>1, <2>2
<1> QED BY <1>2, <1>3, <1>4

\* Steps that launch nothing and change no configuration: what they stop they stop
\* under lifecycleMu, or for good.
LEMMA StopServes ==
  ASSUME TypeOK, InstalledFirst, ServiceKept,
         \/ BootChecks \/ ShutdownBegins \/ CloserStep \/ RequestBegins \/ ReloadBegins
         \/ ReloadWaits \/ RequestChecks
  PROVE  ServiceKept'
<1> USE DEF ServiceKept, CloserStep
<1>1. UNCHANGED <<entries, generation, launch, loops, startRuns, owed, recorded, nextFrom>>
  BY DEF BootChecks, ShutdownBegins, ShutdownFinds, StopBegins, StopEnds, RequestBegins,
         ReloadBegins, ReloadWaits, RequestChecks, configVars, statusVars, history
<1>2. /\ hasEverStarted' = hasEverStarted /\ (started' => started)
      /\ firstStart' => firstStart /\ started'
  <2>1. UNCHANGED flagVars \/ StopLocked
    BY DEF BootChecks, ShutdownBegins, ShutdownFinds, StopBegins, StopEnds, RequestBegins,
           ReloadBegins, ReloadWaits, RequestChecks
  <2>2. firstStart => started
    BY DEF FirstRuns
  <2>3. CASE UNCHANGED flagVars
    BY <2>2, <2>3 DEF flagVars
  <2>4. CASE StopLocked
    BY <2>2, <2>4 DEF StopLocked
  <2> QED BY <2>1, <2>3, <2>4
<1>3. LoopsServe' /\ FirstRuns' /\ StatusOfOwnEntry'
  BY <1>1, <1>2, SameLaunch, SameStatuses
<1>4. LifecycleHeld'
  <2>1. CASE BootChecks \/ ShutdownBegins \/ RequestBegins \/ RequestChecks
    BY <1>1, <2>1 DEF BootChecks, ShutdownBegins, RequestBegins, RequestChecks, LifecycleHeld, InReload,
                      flagVars
  <2>2. CASE ShutdownFinds \/ StopBegins \/ StopEnds
    BY <1>1, <2>2
    DEF ShutdownFinds, StopBegins, StopEnds, AllGone, StopLocked, LifecycleHeld, InReload, flagVars
  <2>3. CASE ReloadBegins \/ ReloadWaits
    BY <1>1, <2>3
    DEF ReloadBegins, ReloadWaits, AllGone, StopLocked, LifecycleHeld, InReload, flagVars, InstalledFirst
  <2> QED BY <2>1, <2>2, <2>3
<1>5. KeptRunning'
  <2>1. CASE BootChecks \/ ShutdownBegins \/ RequestBegins \/ RequestChecks
    BY <2>1 DEF BootChecks, ShutdownBegins, RequestBegins, RequestChecks, KeptRunning, InReload,
                flagVars
  <2>2. CASE ShutdownFinds \/ StopBegins \/ StopEnds
    BY <2>2 DEF ShutdownFinds, StopBegins, StopEnds, KeptRunning, InReload
  <2>3. CASE ReloadBegins \/ ReloadWaits
    BY <2>3 DEF ReloadBegins, ReloadWaits, StopLocked, KeptRunning, InReload, flagVars, TypeOK
  <2> QED BY <2>1, <2>2, <2>3
<1> QED BY <1>3, <1>4, <1>5

\* Starts: only a scheduler that stands still is launched, and none after the stop.
LEMMA LaunchServes ==
  ASSUME TypeOK, InstalledFirst, ServiceKept, BootStarts \/ ReloadRestarts \/ RequestStarts
  PROVE  ServiceKept'
<1> USE DEF ServiceKept
<1>1. \/ StartLocked /\ ~started /\ loops = {}
      \/ UNCHANGED <<configVars, statusVars, flagVars, launch, loops, history>>
  BY DEF BootStarts, ReloadRestarts, RequestStarts, Start, LifecycleHeld, InReload
<1>2. LoopsServe' /\ FirstRuns' /\ StatusOfOwnEntry'
  BY <1>1, StartServes, SameLaunch, SameStatuses
  DEF configVars, statusVars, flagVars, history, FirstRuns
<1>3. StartLocked => started' /\ stopRequested' = stopRequested
  BY DEF StartLocked, LaunchGoroutines
<1>4. CASE BootStarts
  <2>1. LifecycleHeld'
    BY <1>3, <1>4 DEF BootStarts, Start, LifecycleHeld, InReload, flagVars
  <2>2. KeptRunning'
    BY <1>3, <1>4 DEF BootStarts, Start, KeptRunning, InReload, flagVars
  <2> QED BY <1>2, <2>1, <2>2
<1>5. CASE ReloadRestarts
  <2>1. LifecycleHeld'
    BY <1>3, <1>5 DEF ReloadRestarts, LifecycleHeld, InReload, flagVars, InstalledFirst
  <2>2. KeptRunning'
    BY <1>3, <1>5 DEF ReloadRestarts, KeptRunning, InReload, flagVars
  <2> QED BY <1>2, <2>1, <2>2
<1>6. CASE RequestStarts
  <2>1. LifecycleHeld'
    BY <1>3, <1>6 DEF RequestStarts, Start, LifecycleHeld, InReload, flagVars, InstalledFirst
  <2>2. KeptRunning'
    BY <1>3, <1>6 DEF RequestStarts, Start, KeptRunning, InReload, flagVars
  <2> QED BY <1>2, <2>1, <2>2
<1> QED BY <1>4, <1>5, <1>6

\* New configurations.
LEMMA ConfigurationServes ==
  ASSUME TypeOK, InstalledFirst, ServiceKept, ReloadReads \/ RequestInstalls
  PROVE  ServiceKept'
<1> USE DEF ServiceKept
<1>1. loops = {} /\ ~started
  BY DEF ReloadReads, RequestInstalls, LifecycleHeld, InReload, InstalledFirst
<1>2. UNCHANGED <<flagVars, launch, loops, started, firstStart, hasEverStarted, startRuns, owed>>
  BY DEF ReloadReads, RequestInstalls, flagVars, history
<1>3. LoopsServe' /\ FirstRuns' /\ StatusOfOwnEntry'
  <2>1. CASE file = Bad
    <3>1. UNCHANGED <<entries, generation, recorded, nextFrom>>
      BY <2>1 DEF ReloadReads, RequestInstalls, configVars, statusVars
    <3> QED BY <1>2, <3>1, SameLaunch, SameStatuses DEF FirstRuns
  <2>2. CASE file # Bad
    <3>1. file \in Files /\ entries' = file /\ Blank(file)
      BY <2>2 DEF ReloadReads, RequestInstalls, TypeOK
    <3> QED BY <1>1, <1>2, <3>1, SwapServes
  <2> QED BY <2>1, <2>2
<1>4. LifecycleHeld'
  BY <1>1, <1>2 DEF ReloadReads, RequestInstalls, LifecycleHeld, InReload, flagVars, InstalledFirst
<1>5. KeptRunning'
  BY <1>2 DEF ReloadReads, RequestInstalls, KeptRunning, InReload, flagVars, LifecycleHeld,
              InstalledFirst
<1> QED BY <1>3, <1>4, <1>5

\* Each step keeps them.
LEMMA ServiceStep == ASSUME TypeOK, InstalledFirst, ServiceKept, [Next]_vars PROVE ServiceKept'
<1>1. CASE UNCHANGED vars
  <2>1. LifecycleHeld' /\ KeptRunning'
    BY <1>1, LifecycleUndisturbed DEF vars, ServiceKept
  <2>2. LoopsServe' /\ FirstRuns' /\ StatusOfOwnEntry'
    BY <1>1, SameLaunch, SameStatuses
    DEF vars, ServiceKept, configVars, statusVars, flagVars, history, FirstRuns
  <2> QED BY <2>1, <2>2 DEF ServiceKept
<1>2. CASE Next
  BY <1>2, LoopServes, TriggerServes, StopServes, LaunchServes, ConfigurationServes
  DEF Next, RequestStep
<1> QED BY <1>1, <1>2

\* Before the start nothing is promised yet.
LEMMA ServiceInit == Init => ServiceKept
<1> SUFFICES ASSUME Init PROVE ServiceKept
  OBVIOUS
<1>1. LifecycleHeld /\ KeptRunning /\ LoopsServe
  BY DEF Init, LifecycleHeld, KeptRunning, LoopsServe, InReload
<1>2. FirstRuns
  BY DEF Init, FirstRuns, StartRunsOnce
<1>3. StatusOfOwnEntry
  BY DEF Init, StatusOfOwnEntry, Slots
<1> QED BY <1>1, <1>2, <1>3 DEF ServiceKept

\* The scheduler's service is kept over all starts, stops and reloads.
THEOREM SchedulerService == Spec => []ServiceKept
<1>1. TypeOK /\ ExecutionDiscipline /\ ServiceKept /\ [Next]_vars => ServiceKept'
  BY ServiceStep DEF ExecutionDiscipline
<1> QED BY <1>1, ServiceInit, SchedulerTypes, SchedulerDiscipline, PTL DEF Spec

\* The scheduler runs an entry at its start for the first start of the process only,
\* runs on after every reload, and stays stopped when the shutdown has stopped it.
THEOREM LifecycleIsKept == Spec => []LifecycleKept
<1>1. ServiceKept => LifecycleKept
  BY DEF ServiceKept, LifecycleHeld, KeptRunning, FirstRuns, LifecycleKept, ReloadKeepsRunning,
         StoppedForGood
<1> QED BY <1>1, SchedulerService, PTL

\* One loop for each enabled entry when it runs, none else.
LEMMA ServiceMatchesLoops == ServiceKept => LoopsMatchEntries
<1> SUFFICES ASSUME ServiceKept, lifecycle = "free",
                    NEW i \in Slots \cup {l.idx : l \in loops}
             PROVE  Cardinality({l \in loops : l.idx = i})
                      = IF started /\ i \in EnabledSlots THEN 1 ELSE 0
  BY DEF LoopsMatchEntries
<1> USE DEF ServiceKept
<1>1. CASE started /\ i \in EnabledSlots
  <2>1. PICK k \in loops : k.idx = i
    BY <1>1 DEF LoopsServe
  <2>2. {l \in loops : l.idx = i} = {k}
    BY <2>1 DEF LoopsServe
  <2> QED BY <1>1, <2>2, FS_Singleton
<1>2. CASE ~(started /\ i \in EnabledSlots)
  <2>1. {l \in loops : l.idx = i} = {}
    BY <1>2 DEF LoopsServe, LifecycleHeld
  <2> QED BY <1>2, <2>1, FS_EmptySet
<1> QED BY <1>1, <1>2

\* Over all reloads an entry has the loop, the result and the next time that are its
\* own, and no loop is left when a new configuration comes into force.
THEOREM EntriesAreServed == Spec => EntriesServed
<1>1. TypeOK /\ ServiceKept /\ [Next]_vars => [generation' # generation => loops = {}]_vars
  <2> SUFFICES ASSUME TypeOK, ServiceKept, Next, generation' # generation PROVE loops = {}
    OBVIOUS
  <2>1. ReloadReads
    BY DEF Next, RequestStep, CloserStep, LoopStep, BootChecks, BootStarts, ShutdownBegins,
           ShutdownFinds, StopBegins, StopEnds, RequestBegins, ReloadBegins, ReloadWaits,
           ReloadRestarts, RequestChecks, RequestStarts, RequestInstalls, Start, StartLocked,
           TriggerFinds, TriggerAcquires, TriggerEnds, TriggerVars, LoopBegins, LoopExecutes,
           LoopEnds, LoopPlans, LoopWrites, LoopFires, LoopExits, Move, Exit, LoopVars, configVars
  <2> QED BY <2>1 DEF ReloadReads, ServiceKept, LifecycleHeld
<1>2. ServiceKept => StatusOfOwnEntry
  BY DEF ServiceKept
<1> QED BY <1>1, <1>2, ServiceMatchesLoops, SchedulerTypes, SchedulerService, PTL
        DEF Spec, EntriesServed, SwapWithoutLoops

=============================================================================
