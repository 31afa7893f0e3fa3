---------------------------- MODULE MCMediaFiles ----------------------------
(***************************************************************************)
(* Instances of MediaFiles in which its comments' claims fail.             *)
(***************************************************************************)
EXTENDS MediaFiles, TLC

CONSTANTS a, b  \* jobs

NoFiles == << >>
OneSlot == [x \in {"A", "B"} |-> "slot"]
MCCalls == [j \in Jobs |-> <<j>>]

\* One tweet with a photo, listed in two files that are imported at the same time.
OnePhoto == [id |-> "p", base |-> "A", legacy |-> <<"A">>, differs |-> FALSE]
Photos   == [j \in Jobs |-> <<OnePhoto>>]

\* A tweet with two videos for which other URLs are chosen than by earlier releases.
Film(id) == [id |-> id, base |-> "B", legacy |-> <<"B">>, differs |-> TRUE]
Films    == [j \in Jobs |-> <<Film("v"), Film("w")>>]
=============================================================================
