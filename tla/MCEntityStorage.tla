-------------------------- MODULE MCEntityStorage --------------------------
(* Instances of EntityStorage for TLC.                                     *)
EXTENDS EntityStorage, TLC

foo    == [stem |-> "foo", caps |-> FALSE, dotted |-> FALSE]
fooDot == [foo EXCEPT !.dotted = TRUE]
Foo    == [foo EXCEPT !.caps = TRUE]
bar    == [foo EXCEPT !.stem = "bar"]

AllNames == {foo, fooDot, Foo, bar}
OldNames == {foo, fooDot}
Both     == {"linux", "windows"}

\* Operations, failures and crashes altogether, with fewer operations when there are crashes; one of
\* three operations fails on Windows only, where more names meet.
Budget ==
  /\ used.ops + used.faults + used.crashes <= 4
  /\ used.ops + used.crashes <= 3
  /\ used.ops = 3 => used.faults = 0 \/ goos = "windows"

Symmetry == Permutations(Owners)
=============================================================================
