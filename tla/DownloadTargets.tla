-------------------------- MODULE DownloadTargets --------------------------
(***************************************************************************)
(* Which accounts a task works on, and the target keys the download queue  *)
(* holds for it (internal/api/download_targets.go).                        *)
(*                                                                         *)
(* A task's Data is abstracted to what taskTargetKeys tells apart:         *)
(*   names   the screen names of a user, profile, mark or batch task, raw  *)
(*   wide    the task is taken to reach every account: a list, a           *)
(*           following, a JSON import, a batch mark, retry-all, or a batch *)
(*           that has lists or followings                                  *)
(*   upload  a JSON import whose files were uploaded with the request      *)
(***************************************************************************)
CONSTANTS Names,      \* the normalised, valid screen names
          RawNames,   \* the strings a request may carry as a screen name
          Normal,     \* normalizeTargetScreenName, as a function on RawNames
          Invalid,    \* its result for a string that is not a screen name
          Wildcard    \* targetWildcard

ASSUME TargetsAssumption ==
  /\ Normal \in [RawNames -> Names \cup {Invalid}]
  /\ Invalid \notin Names
  /\ Wildcard \notin Names

Data == [names : SUBSET RawNames, wide : BOOLEAN, upload : BOOLEAN]

Keys == Names \cup {Wildcard}

\* One bad name, or none at all, makes the whole task exclusive.
TaskTargetKeys(d) ==
  IF d.wide \/ d.names = {} \/ \E n \in d.names : Normal[n] = Invalid
    THEN {Wildcard}
    ELSE {Normal[n] : n \in d.names}

\* All keys have the scope "user", so only the values matter.
TargetsConflict(a, b) == a = Wildcard \/ b = Wildcard \/ a = b

\* The accounts a run with this Data may download into.
Accounts(d) ==
  IF d.wide THEN Names ELSE {Normal[n] : n \in d.names} \ {Invalid}
=============================================================================
