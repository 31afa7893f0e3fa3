----------------------------- MODULE ProfileRun -----------------------------
(***************************************************************************)
(* The profile phase of a run: DownloadMultiple and its workers            *)
(* (internal/downloading/profile/downloader.go), and what downloadProfile  *)
(* makes of their results (internal/service/download_service.go).          *)
(*                                                                         *)
(* The requests are in a closed channel from the start; workers take them, *)
(* download, note the result under one mutex, count it under another and   *)
(* report the count after they have released it.  The end of the context,  *)
(* a full disk and a panic make a worker empty the channel itself.         *)
(***************************************************************************)
EXTENDS Naturals, Sequences, FiniteSets

CONSTANTS
  Profiles,        \* the requests, an initial segment of Nat \ {0}
  ProfileWorkers,  \* numRoutine of them
  Mishaps          \* bound: which of "panic", "nospace", "cancel" happen, each once

ASSUME ProfileRunAssumption ==
  /\ IsFiniteSet(Profiles) /\ Profiles = 1..Cardinality(Profiles) /\ Profiles # {}
  /\ ProfileWorkers # {} /\ Mishaps \subseteq {"panic", "nospace", "cancel"}

VARIABLES
  requests,    \* reqChan
  results,     \* what is known of each request: "nil", "ok", "failed" or "cancelled"
  fetcher,     \* each worker: where it is and the request it holds, 0 for none
  profileCtx,  \* whether the context is live
  counts,      \* completedCount, failedCount, and those each worker is about to report
  reported,    \* the counts that were reported last
  verdict,     \* what downloadProfile returns: "running", "done" or "allfailed", with its counts
  mishaps      \* history: what has happened, and the requests it happened to

profileVars == <<requests, results, fetcher, profileCtx, counts, reported, verdict, mishaps>>

Total == Cardinality(Profiles)

ProfileInit ==
  /\ requests = [i \in Profiles |-> i]
  /\ results = [i \in Profiles |-> "nil"]
  /\ fetcher = [w \in ProfileWorkers |-> [at |-> "select", req |-> 0, seen |-> <<0, 0>>]]
  /\ profileCtx = TRUE
  /\ counts = <<0, 0>> /\ reported = <<0, 0>>
  /\ verdict = [is |-> "running", downloaded |-> 0, failed |-> 0]
  /\ mishaps = [happened |-> {}, hit |-> {}]

Set(w, at, i) == fetcher' = [fetcher EXCEPT ![w] = [@ EXCEPT !.at = at, !.req = i]]
Happens(what) == what \in Mishaps \ mishaps.happened

-----------------------------------------------------------------------------
(* A worker.                                                               *)

\* Both branches of the select may be ready: then either is taken.
TakeRequest(w) ==
  /\ fetcher[w].at = "select" /\ requests # <<>>
  /\ Set(w, "download", Head(requests)) /\ requests' = Tail(requests)
  /\ UNCHANGED <<results, profileCtx, counts, reported, verdict, mishaps>>

SeeDone(w) ==
  /\ fetcher[w].at = "select" /\ ~profileCtx
  /\ Set(w, "drain", 0)
  /\ UNCHANGED <<requests, results, profileCtx, counts, reported, verdict, mishaps>>

\* (mistake: the channel is not closed, only a cancellation ends the wait for another request)
FinishedWaiting(w) ==
  /\ fetcher[w].at = "select" /\ requests = <<>> /\ ~profileCtx
  /\ Set(w, "gone", 0)
  /\ UNCHANGED <<requests, results, profileCtx, counts, reported, verdict, mishaps>>

Finished(w) ==
  /\ fetcher[w].at = "select" /\ requests = <<>>
  /\ Set(w, "gone", 0)
  /\ UNCHANGED <<requests, results, profileCtx, counts, reported, verdict, mishaps>>

\* Download: the profile is stored or something fails.  A result is noted.
FetchProfile(w) ==
  /\ fetcher[w].at = "download"
  /\ \E r \in {"ok", "failed"} : results' = [results EXCEPT ![fetcher[w].req] = r]
  /\ Set(w, "count", fetcher[w].req)
  /\ UNCHANGED <<requests, profileCtx, counts, reported, verdict, mishaps>>

\* The disk is full, or the worker panics: there is no result of this request, the context is
\* cancelled and the worker empties the channel.
Upset(w, what) ==
  /\ fetcher[w].at = "download" /\ Happens(what)
  /\ profileCtx' = FALSE
  /\ mishaps' = [happened |-> mishaps.happened \cup {what}, hit |-> mishaps.hit \cup {fetcher[w].req}]
  /\ Set(w, "drain", 0)
  /\ UNCHANGED <<requests, results, counts, reported, verdict>>

\* (mistake: what remains in the channel is thrown away)
DrainUnmarked(w) ==
  /\ fetcher[w].at = "drain"
  /\ requests' = <<>> /\ Set(w, "gone", 0)
  /\ UNCHANGED <<results, profileCtx, counts, reported, verdict, mishaps>>

\* Several workers may be emptying the channel at once.
Drain(w) ==
  /\ fetcher[w].at = "drain"
  /\ \/ /\ requests # <<>>
        /\ results' = [results EXCEPT ![Head(requests)] = "cancelled"]
        /\ requests' = Tail(requests) /\ UNCHANGED fetcher
     \/ /\ requests = <<>> /\ Set(w, "gone", 0) /\ UNCHANGED <<requests, results>>
  /\ UNCHANGED <<profileCtx, counts, reported, verdict, mishaps>>

\* reportProgress: counted under the lock ...
Count(w) ==
  LET more == <<counts[1] + 1, counts[2] + (IF results[fetcher[w].req] = "ok" THEN 0 ELSE 1)>> IN
  /\ fetcher[w].at = "count"
  /\ counts' = more
  /\ fetcher' = [fetcher EXCEPT ![w].at = "report", ![w].seen = more]
  /\ UNCHANGED <<requests, results, profileCtx, reported, verdict, mishaps>>

\* ... and reported after it: a later count may have overtaken this one.
ReportCount(w) ==
  /\ fetcher[w].at = "report"
  /\ reported' = fetcher[w].seen
  /\ Set(w, "select", 0)
  /\ UNCHANGED <<requests, results, profileCtx, counts, verdict, mishaps>>

-----------------------------------------------------------------------------
(* The caller.                                                             *)

CancelProfiles ==
  /\ Happens("cancel") /\ verdict.is = "running"
  /\ profileCtx' = FALSE
  /\ mishaps' = [mishaps EXCEPT !.happened = @ \cup {"cancel"}]
  /\ UNCHANGED <<requests, results, fetcher, counts, reported, verdict>>

Having(r) == {i \in Profiles : results[i] \in r}

\* wg.Wait, and the statistics of downloadProfile: a missing result is a failure.
ProfileReturn ==
  /\ verdict.is = "running" /\ \A w \in ProfileWorkers : fetcher[w].at = "gone"
  /\ LET good == Cardinality(Having({"ok"}))
         bad  == Cardinality(Having({"nil", "failed", "cancelled"}))
     IN  verdict' = [is |-> IF good = 0 /\ bad > 0 THEN "allfailed" ELSE "done", downloaded |-> good, failed |-> bad]
  /\ UNCHANGED <<requests, results, fetcher, profileCtx, counts, reported, mishaps>>

ProfileWorker(w) ==
  \/ TakeRequest(w) \/ SeeDone(w) \/ Finished(w) \/ FetchProfile(w) \/ Upset(w, "panic") \/ Upset(w, "nospace")
  \/ Drain(w) \/ Count(w) \/ ReportCount(w)

ProfileNext == (\E w \in ProfileWorkers : ProfileWorker(w)) \/ CancelProfiles \/ ProfileReturn

ProfileSpec == ProfileInit /\ [][ProfileNext]_profileVars

-----------------------------------------------------------------------------
(* What the phase promises.                                                *)

(* Every variable has its type.                                                                  *)
ProfileTypeOK ==
  /\ \A k \in DOMAIN requests : requests[k] \in Profiles
  /\ \A i \in Profiles : results[i] \in {"nil", "ok", "failed", "cancelled"}
  /\ \A w \in ProfileWorkers : fetcher[w].at \in {"select", "download", "drain", "count", "report", "gone"}
  /\ counts[2] <= counts[1] /\ counts[1] <= Total
  /\ verdict.is \in {"running", "done", "allfailed"}

(* No profile is forgotten: when the phase returns, each request has the result of its download  *)
(* or of its cancellation, all but those whose worker panicked or found the disk full.  The      *)
(* counts the workers keep are those of the downloads that were finished, and the run's two      *)
(* numbers add up to the profiles that were asked for.                                           *)
EveryProfileAccounted ==
  /\ \A i \in Profiles :
       results[i] = "nil" => \/ i \in mishaps.hit \/ \E k \in DOMAIN requests : requests[k] = i
                             \/ \E w \in ProfileWorkers : fetcher[w].req = i
  /\ counts[1] = Cardinality(Having({"ok", "failed"}))
                   - Cardinality({w \in ProfileWorkers : fetcher[w].at = "count"})
  /\ verdict.is # "running" =>
       /\ Having({"nil"}) = mishaps.hit
       /\ verdict.downloaded + verdict.failed = Total
       /\ Having({"cancelled"}) # {} => ~profileCtx
=============================================================================
