---------------------------- MODULE ProfileFiles ----------------------------
(***************************************************************************)
(* One file of a user's profile and its versions: how the file writer      *)
(* replaces a file whose former content is kept                            *)
(* (internal/downloader/file_writer.go, version_manager.go) on behalf of   *)
(* the profile downloader.                                                 *)
(*                                                                         *)
(* Contents are numbers that only distinguish them; a version is a file    *)
(* named by the time at which its name was reserved.  Runs write one after *)
(* the other, each with a writer and locks of its own.                     *)
(***************************************************************************)
EXTENDS Integers, FiniteSets, FiniteSetsExt

CONSTANTS
  Contents,     \* what the profile shows over time
  VersionLimit, \* maxVersions
  MaxClock,     \* bound: the clock
  MaxUpdates,   \* bound: how many runs write the file
  Spoilers      \* bound: which of "copy", "write", "size", "remove", "crash", "back" happen, each once

ASSUME ProfileFilesAssumption ==
  /\ Contents \subseteq Nat \ {0} /\ VersionLimit \in Nat /\ MaxClock \in Nat /\ MaxUpdates \in Nat
  /\ Spoilers \subseteq {"copy", "write", "size", "remove", "crash", "back"}

VARIABLES
  current,    \* the content of the file, Nothing if there is no file, TornVersion if it is a part
  versions,   \* the versions by time: a function from some times to contents
  clock,      \* local time in milliseconds, which may be set back
  update,     \* the write in progress: where it is, its content, mode and backup
  updates,    \* history: how many writes began
  pruned,     \* history: contents of versions that were pruned
  spoiled     \* history: what has gone wrong

profileFileVars == <<current, versions, clock, update, updates, pruned, spoiled>>

Nothing == 0
TornVersion == -1
NoTime  == -1
NoWriting == [at |-> "idle", new |-> Nothing, stream |-> FALSE, backup |-> NoTime, whole |-> TRUE]

PFInit ==
  /\ current = Nothing /\ versions = << >> /\ clock = 0 /\ update = NoWriting
  /\ updates = 0 /\ pruned = {} /\ spoiled = {}

Step(at) == update' = [update EXCEPT !.at = at]
Goes(what) == what \in Spoilers \ spoiled /\ spoiled' = spoiled \cup {what}
Times == DOMAIN versions
WithVersion(t, c) == [s \in Times \cup {t} |-> IF s = t THEN c ELSE versions[s]]
WithoutTimes(S) == [s \in Times \ S |-> versions[s]]

-----------------------------------------------------------------------------
Tick ==
  /\ \/ clock < MaxClock /\ clock' = clock + 1 /\ UNCHANGED spoiled
     \/ clock > 0 /\ Goes("back") /\ clock' = clock - 1
  /\ UNCHANGED <<current, versions, update, updates, pruned>>

\* Write: a buffered write of the same content is skipped.  (So is a streamed one of the same
\* size; contents of one size are not told apart here.)
BeginWrite ==
  /\ update.at = "idle" /\ updates < MaxUpdates /\ updates' = updates + 1
  /\ \E new \in Contents, stream \in BOOLEAN :
       update' = IF new = current THEN NoWriting
                 ELSE [NoWriting EXCEPT !.at = IF current = Nothing THEN "replace" ELSE "reserve",
                                   !.new = new, !.stream = stream]
  /\ UNCHANGED <<current, versions, clock, pruned, spoiled>>

\* (mistake: the file is renamed before its version is written)
ReserveLate ==
  /\ update.at = "reserve"
  /\ current' = update.new /\ update' = NoWriting
  /\ UNCHANGED <<versions, clock, updates, pruned, spoiled>>

\* reserveVersionPath: the first free time from now on, as an empty file.
Reserve ==
  /\ update.at = "reserve"
  /\ LET t == CHOOSE s \in clock..(clock + Cardinality(Times)) : s \notin Times /\ \A r \in clock..(s - 1) : r \in Times
     IN  /\ versions' = WithVersion(t, Nothing)
         /\ update' = [update EXCEPT !.at = "copy", !.backup = t]
  /\ UNCHANGED <<current, clock, updates, pruned, spoiled>>

\* CreateVersion: the content is copied into it; if that fails the write fails.
CopyVersion ==
  /\ update.at = "copy"
  /\ \/ /\ versions' = WithVersion(update.backup, current) /\ Step("prune") /\ UNCHANGED spoiled
     \/ /\ Goes("copy") /\ versions' = WithoutTimes({update.backup}) /\ update' = NoWriting
  /\ UNCHANGED <<current, clock, updates, pruned>>

\* (mistake: the version just written counts like the others)
StaleAll ==
  LET n == Cardinality(Times) - VersionLimit IN
  IF VersionLimit = 0 \/ n <= 0 THEN {}
  ELSE CHOOSE S \in SUBSET Times : Cardinality(S) = n /\ \A s \in S, t \in Times \ S : s < t

\* The oldest ones by name that are too many, never the one just written.
Stale ==
  LET others == Times \ {update.backup}
      n      == Cardinality(Times) - VersionLimit
  IN  IF VersionLimit = 0 \/ n <= 0 THEN {}
      ELSE CHOOSE S \in SUBSET others :
             Cardinality(S) = Min({n, Cardinality(others)}) /\ \A s \in S, t \in others \ S : s < t

\* pruneVersions: a removal may fail, which is only logged.  Then the version is looked for: if
\* it is gone the write fails.
Prune ==
  /\ update.at = "prune"
  /\ \E S \in SUBSET Stale :
       /\ IF S = Stale THEN UNCHANGED spoiled ELSE Goes("remove")
       /\ versions' = WithoutTimes(S)
       /\ pruned' = pruned \cup {versions[t] : t \in S}
       /\ IF update.backup \in S THEN update' = NoWriting ELSE Step("replace")
  /\ UNCHANGED <<current, clock, updates>>

\* atomicWriteFromReader: another file takes the name, whole or, streamed, of another size.
Replace ==
  /\ update.at = "replace"
  /\ \/ /\ current' = update.new /\ update' = NoWriting /\ UNCHANGED spoiled
     \/ /\ Goes("write") /\ update' = NoWriting /\ UNCHANGED current
     \/ /\ Goes("size") /\ update.stream
        /\ current' = TornVersion /\ update' = [update EXCEPT !.at = "discard", !.whole = FALSE]
  /\ UNCHANGED <<versions, clock, updates, pruned>>

\* doDownloadStream removes a file of another size; the next attempt finds none and keeps no
\* version.
Discard ==
  /\ update.at = "discard"
  /\ current' = Nothing
  /\ update' = [update EXCEPT !.at = "replace", !.whole = TRUE]
  /\ UNCHANGED <<versions, clock, updates, pruned, spoiled>>

\* The process ends.
CrashWrite ==
  /\ update.at # "idle" /\ Goes("crash")
  /\ update' = NoWriting
  /\ UNCHANGED <<current, versions, clock, updates, pruned>>

PFWrite == BeginWrite \/ Reserve \/ CopyVersion \/ Prune \/ Replace \/ Discard

PFNext == Tick \/ PFWrite \/ CrashWrite

PFSpec == PFInit /\ [][PFNext]_profileFileVars

-----------------------------------------------------------------------------
(* What the versions promise.                                              *)

(* Every variable has its type, and no more versions are kept than the limit and those whose     *)
(* removal failed or whose writing is under way.                                                 *)
PFTypeOK ==
  /\ current \in Contents \cup {Nothing, TornVersion}
  /\ \A t \in Times : versions[t] \in Contents \cup {Nothing, TornVersion}
  /\ update.at \in {"idle", "reserve", "copy", "prune", "replace", "discard"}
  /\ VersionLimit > 0 =>
       Cardinality(Times) <= VersionLimit + 1 + Cardinality(spoiled \cap {"remove", "crash"})

(* A content the file has had is not lost before it is old.  When another one takes its place or *)
(* the file is removed, it is among the versions, whichever step failed, even if the clock was   *)
(* set back and the version's name sorts before all others.  A version only goes when it is      *)
(* pruned: that spares the one just written and stops at the limit.                              *)
ContentsAreKept ==
  [][/\ current # current' /\ current \in Contents
          => \E t \in DOMAIN versions' : versions'[t] = current
     /\ \A t \in Times \ DOMAIN versions' :
          \/ versions[t] = Nothing
          \/ t # update.backup /\ Cardinality(DOMAIN versions') >= VersionLimit]_profileFileVars
=============================================================================
