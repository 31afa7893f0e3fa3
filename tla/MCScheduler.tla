---------------------------- MODULE MCScheduler ----------------------------
(* Instances of Scheduler for TLC: what schedules.yaml may say.            *)
EXTENDS Scheduler, TLC

CONSTANTS a, b, v1, v2

E(i, v, on, onStart) == [id |-> i, version |-> v, enabled |-> on, onStart |-> onStart]

Alone     == <<E(a, v1, TRUE, TRUE)>>
Edited    == <<E(a, v2, TRUE, TRUE)>>
Disabled  == <<E(a, v1, FALSE, TRUE)>>
AfterNew  == <<E(b, v1, TRUE, FALSE), E(a, v1, TRUE, TRUE)>>

\* The entry changes, is disabled, or gets another one before it.
OneEntryFiles == {Alone, Edited, Disabled}
MovedFiles    == {Alone, AfterNew}
AllFiles      == OneEntryFiles \cup MovedFiles
FirstAlone    == {Alone}
FirstAny      == {Alone, Bad}
FirstBad      == {Bad}

ClientSymmetry == Permutations(Clients)
=============================================================================
