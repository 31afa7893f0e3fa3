--------------------------- MODULE ExclusiveRuns ---------------------------
(***************************************************************************)
(* What the download queue promises to those who give it tasks: a task is  *)
(* run at most once, after it was admitted, and never while another run is *)
(* working on one of its accounts.  There is no queue, no worker, no lock  *)
(* and no order here; DownloadQueue implements this.                       *)
(***************************************************************************)
CONSTANTS Tasks, Names

VARIABLES
  phase,    \* where a task is in its life
  reach     \* the accounts it works on

Phases == {"absent", "waiting", "active", "ended"}

Init ==
  /\ phase = [t \in Tasks |-> "absent"]
  /\ reach = [t \in Tasks |-> {}]

\* A new task, with the accounts it will work on.
Admit(t) ==
  /\ phase[t] = "absent"
  /\ phase' = [phase EXCEPT ![t] = "waiting"]
  /\ \E A \in SUBSET Names : reach' = [reach EXCEPT ![t] = A]

Start(t) ==
  /\ phase[t] = "waiting"
  /\ \A s \in Tasks : phase[s] = "active" => reach[s] \cap reach[t] = {}
  /\ phase' = [phase EXCEPT ![t] = "active"]
  /\ UNCHANGED reach

Finish(t) ==
  /\ phase[t] = "active"
  /\ phase' = [phase EXCEPT ![t] = "ended"]
  /\ UNCHANGED reach

\* Tasks that will not run: cancelled while they waited, or rejected.
Drop(S) ==
  /\ S # {} /\ \A t \in S : phase[t] = "waiting"
  /\ phase' = [t \in Tasks |-> IF t \in S THEN "ended" ELSE phase[t]]
  /\ UNCHANGED reach

Next ==
  \/ \E t \in Tasks : Admit(t) \/ Start(t) \/ Finish(t)
  \/ \E S \in SUBSET Tasks : Drop(S)

Spec == Init /\ [][Next]_<<phase, reach>>

Exclusive ==
  \A s, t \in Tasks :
    s # t /\ phase[s] = "active" /\ phase[t] = "active" => reach[s] \cap reach[t] = {}
=============================================================================
