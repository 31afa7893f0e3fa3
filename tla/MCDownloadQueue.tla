-------------------------- MODULE MCDownloadQueue --------------------------
(* Instances of DownloadQueue for TLC: values for its constants and bounds *)
(* on what a run explores.                                                 *)
EXTENDS DownloadQueue, TLC

CONSTANTS alice, atAlice, bob, bad, invalid

\* "@alice" is another spelling of "alice"; bad is no screen name at all.
MCNames    == {alice, bob}
MCRawNames == {alice, atAlice, bob, bad}
MCNormal   == (alice :> alice) @@ (atAlice :> alice) @@ (bob :> bob) @@ (bad :> invalid)

Task(ns) == [names |-> ns, wide |-> FALSE, upload |-> FALSE]
Upload   == [names |-> {}, wide |-> TRUE, upload |-> TRUE]

MixedTasks  == {Task({alice}), Upload}
NamedTasks  == {Task({atAlice}), Task({alice, bob})}
AliceTasks  == {Task({alice})}
TwoAccounts == {Task({alice}), Task({bob})}

NoShutdown == closer = "open"

\* One cancellation of queued tasks at a time, and none while the queue closes.
FewWakeups == wakeups <= 1 /\ (wakeups = 1 => closer = "open")

\* Nor are tasks deleted then.
NoLateDeletion == closer # "open" => \A t \in Tasks : status[t] # "deleted"

NoDeletion == \A t \in Tasks : status[t] # "deleted"

NoWakeup   == wakeups = 0
NoProgress == \A t \in Tasks : stage[t] # "working"

NoErrors   == \A t \in Tasks : run[t] \notin {"error", "deadline"}

\* Without a Wakeup to come only a bot cancels.
Plain == NoShutdown /\ NoDeletion /\ NoProgress /\ NoWakeup

TaskSymmetry == Permutations(Tasks)
=============================================================================
