----------------------------- MODULE MCEventBus -----------------------------
(* An instance of EventBus with two publishers for TLC; MCComponents has   *)
(* those with one.                                                         *)
EXTENDS EventBus, TLC

TasksOnly == {"tasks"}

\* Nobody shuts the server down.
NoShutdown == pub[Server].at = "idle"
=============================================================================
