--------------------------- MODULE ComponentProofs ---------------------------
(***************************************************************************)
(* Theorems about the components that share no state, as they run side by  *)
(* side in MCComponents: the profile phase here, the files, the streams,   *)
(* the server with the migration, and the batch with the limiter in        *)
(* modules of their own.                                                   *)
(***************************************************************************)
EXTENDS MCComponents, FileProofs, BatchDownloadProofs, ServerLifecycleProofs, StreamProofs,
        FiniteSetTheorems, TLAPS
-----------------------------------------------------------------------------
(* The profile phase: who answers for each request.                        *)

Queued(i)      == \E k \in DOMAIN requests : requests[k] = i
Fetching(w, i) == fetcher[w].at = "download" /\ fetcher[w].req = i
Counting       == {w \in ProfileWorkers : fetcher[w].at = "count"}

ProfileTyped ==
  /\ requests \in Seq(Profiles)
  /\ results \in [Profiles -> {"nil", "ok", "failed", "cancelled"}]
  /\ fetcher \in [ProfileWorkers -> [at : {"select", "download", "drain", "count", "report", "gone"},
                                     req : Profiles \cup {0}, seen : Nat \X Nat]]
  /\ counts \in Nat \X Nat
  /\ verdict \in [is : {"running", "done", "allfailed"}, downloaded : Nat, failed : Nat]
  /\ mishaps \in [happened : SUBSET Mishaps, hit : SUBSET Profiles]

\* A request without a result is in the channel, was lost to a mishap or is held by one worker:
\* by exactly one of these.
HeldOnce ==
  /\ \A j, k \in DOMAIN requests : requests[j] = requests[k] => j = k
  /\ \A i \in Profiles :
       results[i] = "nil" <=> Queued(i) \/ i \in mishaps.hit \/ \E w \in ProfileWorkers : Fetching(w, i)
  /\ \A i \in Profiles : Queued(i) => i \notin mishaps.hit
  /\ \A i \in Profiles, w \in ProfileWorkers : Fetching(w, i) => ~Queued(i) /\ i \notin mishaps.hit
  /\ \A i \in Profiles, v, w \in ProfileWorkers : Fetching(v, i) /\ Fetching(w, i) => v = w

\* Workers leave when the channel is empty, and empty it themselves only after a cancellation.
WorkersLeave ==
  /\ \A w \in ProfileWorkers : fetcher[w].at \in {"download", "count"} => fetcher[w].req \in Profiles
  /\ \A w \in ProfileWorkers : fetcher[w].at = "gone" => requests = <<>>
  /\ \A w \in ProfileWorkers : fetcher[w].at = "drain" => ~profileCtx
  /\ \A i \in Profiles : results[i] = "cancelled" => ~profileCtx

CountsMatch ==
  /\ IsFiniteSet(Counting)
  /\ counts[1] + Cardinality(Counting) = Cardinality(Having({"ok", "failed"}))
  /\ counts[2] <= counts[1]

VerdictStands ==
  verdict.is # "running" =>
    /\ \A w \in ProfileWorkers : fetcher[w].at = "gone"
    /\ verdict.downloaded = Cardinality(Having({"ok"}))
    /\ verdict.failed = Cardinality(Having({"nil", "failed", "cancelled"}))

ProfileInv == ProfileTyped /\ HeldOnce /\ WorkersLeave /\ CountsMatch /\ VerdictStands

(* The request at the head of the channel is in it once, and gone when it is taken.              *)
LEMMA TakesHead ==
  ASSUME requests \in Seq(Profiles), requests # <<>>, requests' = Tail(requests),
         \A j, k \in DOMAIN requests : requests[j] = requests[k] => j = k,
         NEW h, h = Head(requests)
  PROVE  /\ h \in Profiles /\ requests' \in Seq(Profiles)
         /\ \A i : Queued(i) <=> i = h \/ Queued(i)'
         /\ ~Queued(h)'
         /\ \A j, k \in DOMAIN requests' : requests'[j] = requests'[k] => j = k
<1> DEFINE n == Len(requests)
<1>1. n \in Nat \ {0} /\ DOMAIN requests = 1..n /\ h = requests[1] /\ h \in Profiles
  OBVIOUS
<1>2. requests' \in Seq(Profiles) /\ DOMAIN requests' = 1..(n - 1)
      /\ \A k \in 1..(n - 1) : requests'[k] = requests[k + 1]
  OBVIOUS
<1> HIDE DEF n
<1>3. /\ \A i : Queued(i)  <=> \E k \in 1..n : requests[k] = i
      /\ \A i : Queued(i)' <=> \E k \in 1..(n - 1) : requests'[k] = i
  BY <1>1, <1>2 DEF Queued
<1>4. /\ \A k \in 1..n : k = 1 \/ (k - 1 \in 1..(n - 1) /\ (k - 1) + 1 = k)
      /\ \A k \in 1..(n - 1) : k + 1 \in 1..n /\ k + 1 # 1
  BY <1>1
<1>5. ASSUME NEW i, Queued(i), i # h PROVE Queued(i)'
  <2>1. PICK k \in 1..n : requests[k] = i
    BY <1>3, <1>5
  <2>2. k - 1 \in 1..(n - 1) /\ requests'[k - 1] = i
    BY <1>1, <1>2, <1>4, <1>5, <2>1
  <2> QED BY <1>3, <2>2
<1>6. ASSUME NEW i, Queued(i)' PROVE Queued(i) /\ i # h
  <2>1. PICK k \in 1..(n - 1) : requests'[k] = i
    BY <1>3, <1>6
  <2>2. k + 1 \in 1..n /\ requests[k + 1] = i /\ k + 1 # 1
    BY <1>2, <1>4, <2>1
  <2>3. 1 \in 1..n
    BY <1>1
  <2> QED BY <1>1, <1>3, <2>2, <2>3
<1>7. Queued(h)
  BY <1>1, <1>3
<1>8. \A j, k \in DOMAIN requests' : requests'[j] = requests'[k] => j = k
  BY <1>1, <1>2, <1>4
<1> QED BY <1>1, <1>2, <1>5, <1>6, <1>7, <1>8

(* There are finitely many requests, and a worker at least.                                      *)
LEMMA SomeProfiles == IsFiniteSet(Profiles) /\ 0 \notin Profiles /\ ProfileWorkers # {}
<1>1. Cardinality(Profiles) \in Nat
  BY ProfileRunAssumption, FS_CardinalityType
<1> QED BY <1>1, ProfileRunAssumption

(* The requests with a result of some kind can be counted.                                       *)
LEMMA HavingFinite ==
  ASSUME NEW r PROVE IsFiniteSet(Having(r)) /\ Cardinality(Having(r)) \in Nat
<1>1. Having(r) \in SUBSET Profiles
  BY DEF Having
<1> QED BY <1>1, SomeProfiles, FS_Subset, FS_CardinalityType

WorkerPlaces == {"select", "download", "drain", "count", "report", "gone"}

\* A worker goes to another place.
LEMMA WorkerMoves ==
  ASSUME ProfileTyped, NEW w \in ProfileWorkers, NEW at \in WorkerPlaces, NEW i \in Profiles \cup {0},
         Set(w, at, i)
  PROVE  /\ fetcher' \in [ProfileWorkers -> [at : WorkerPlaces, req : Profiles \cup {0}, seen : Nat \X Nat]]
         /\ fetcher'[w].at = at /\ fetcher'[w].req = i
         /\ \A v \in ProfileWorkers : v # w => fetcher'[v] = fetcher[v]
         /\ \A v \in ProfileWorkers : \A j : Fetching(v, j)' <=>
              IF v = w THEN at = "download" /\ i = j ELSE Fetching(v, j)
         /\ Counting' = IF at = "count" THEN Counting \cup {w} ELSE Counting \ {w}
<1>1. fetcher[w] \in [at : WorkerPlaces, req : Profiles \cup {0}, seen : Nat \X Nat]
      /\ fetcher' = [fetcher EXCEPT ![w] = [fetcher[w] EXCEPT !.at = at, !.req = i]]
  BY DEF ProfileTyped, Set, WorkerPlaces
<1> DEFINE f == [fetcher[w] EXCEPT !.at = at, !.req = i]
<1>2. f \in [at : WorkerPlaces, req : Profiles \cup {0}, seen : Nat \X Nat] /\ f.at = at /\ f.req = i
  BY <1>1
<1>3. fetcher' = [fetcher EXCEPT ![w] = f]
  BY <1>1
<1> HIDE DEF f
<1>4. /\ fetcher' \in [ProfileWorkers -> [at : WorkerPlaces, req : Profiles \cup {0}, seen : Nat \X Nat]]
      /\ fetcher'[w].at = at /\ fetcher'[w].req = i
      /\ \A v \in ProfileWorkers : v # w => fetcher'[v] = fetcher[v]
  BY <1>2, <1>3 DEF ProfileTyped, WorkerPlaces
<1>5. \A v \in ProfileWorkers : \A j : Fetching(v, j)' <=>
              IF v = w THEN at = "download" /\ i = j ELSE Fetching(v, j)
  BY <1>4 DEF Fetching
<1>6. Counting' = IF at = "count" THEN Counting \cup {w} ELSE Counting \ {w}
  BY <1>4 DEF Counting
<1> QED BY <1>4, <1>5, <1>6

\* The results, counts and verdict stand.
LEMMA CountsStand ==
  ASSUME CountsMatch, VerdictStands, UNCHANGED <<results, counts, verdict>>, Counting' = Counting,
         verdict.is # "running" => UNCHANGED fetcher
  PROVE  CountsMatch' /\ VerdictStands'
BY DEF CountsMatch, VerdictStands, Having

LEMMA TakeRequestKeeps ==
  ASSUME ProfileInv, NEW w \in ProfileWorkers, TakeRequest(w) PROVE ProfileInv'
<1> USE DEF ProfileInv
<1> DEFINE h == Head(requests)
<1>1. /\ requests # <<>> /\ requests' = Tail(requests) /\ requests \in Seq(Profiles)
      /\ fetcher[w].at = "select" /\ Set(w, "download", h)
      /\ UNCHANGED <<results, profileCtx, counts, verdict, mishaps>>
  BY DEF TakeRequest, ProfileTyped
<1>2. PICK q : q = h
  OBVIOUS
<1>3. /\ q \in Profiles /\ requests' \in Seq(Profiles)
      /\ \A i : Queued(i) <=> i = q \/ Queued(i)'
      /\ ~Queued(q)'
      /\ \A j, k \in DOMAIN requests' : requests'[j] = requests'[k] => j = k
  BY <1>1, <1>2, TakesHead DEF HeldOnce
<1>4. Set(w, "download", q)
  BY <1>1, <1>2
<1>5. /\ fetcher' \in [ProfileWorkers -> [at : WorkerPlaces, req : Profiles \cup {0}, seen : Nat \X Nat]]
      /\ fetcher'[w].at = "download" /\ fetcher'[w].req = q
      /\ \A v \in ProfileWorkers : v # w => fetcher'[v] = fetcher[v]
      /\ \A v \in ProfileWorkers : \A j : Fetching(v, j)' <=> IF v = w THEN q = j ELSE Fetching(v, j)
      /\ Counting' = Counting \ {w}
  BY <1>3, <1>4, WorkerMoves DEF WorkerPlaces
<1>6. Counting' = Counting
  BY <1>1, <1>5 DEF Counting
<1>7. \A j : ~Fetching(w, j)
  BY <1>1 DEF Fetching
<1>8. ProfileTyped'
  BY <1>1, <1>3, <1>5 DEF ProfileTyped, WorkerPlaces
<1> HIDE DEF h
<1>9. HeldOnce'
  <2>1. \A i \in Profiles : results[i] = "nil" <=>
          Queued(i) \/ i \in mishaps.hit \/ \E v \in ProfileWorkers : Fetching(v, i)
    BY DEF HeldOnce
  <2>2. ~(\E v \in ProfileWorkers : Fetching(v, q)) /\ q \notin mishaps.hit
    BY <1>3 DEF HeldOnce
  <2>3. \A i \in Profiles : results'[i] = "nil" <=>
          Queued(i)' \/ i \in mishaps'.hit \/ \E v \in ProfileWorkers : Fetching(v, i)'
    BY <1>1, <1>3, <1>5, <1>7, <2>1
  <2>4. \A i \in Profiles : Queued(i)' => i \notin mishaps'.hit
    BY <1>1, <1>3 DEF HeldOnce
  <2>5. \A i \in Profiles, v \in ProfileWorkers : Fetching(v, i)' => ~Queued(i)' /\ i \notin mishaps'.hit
    BY <1>1, <1>3, <1>5, <2>2 DEF HeldOnce
  <2>6. ASSUME NEW i \in Profiles, NEW u \in ProfileWorkers, NEW v \in ProfileWorkers,
               Fetching(u, i)', Fetching(v, i)'
        PROVE  u = v
    <3>1. CASE i = q
      BY <1>5, <2>2, <2>6, <3>1
    <3>2. CASE i # q
      <4>1. Fetching(u, i) /\ Fetching(v, i)
        BY <1>5, <2>6, <3>2
      <4> QED BY <4>1 DEF HeldOnce
    <3> QED BY <3>1, <3>2
  <2> QED BY <1>3, <2>3, <2>4, <2>5, <2>6 DEF HeldOnce
<1>10. WorkersLeave'
  <2>1. \A v \in ProfileWorkers : fetcher[v].at # "gone" /\ fetcher'[v].at # "gone"
    BY <1>1, <1>5 DEF WorkersLeave
  <2>2. \A v \in ProfileWorkers : /\ fetcher'[v].at \in {"download", "count"} => fetcher'[v].req \in Profiles
                                  /\ fetcher'[v].at = "drain" => fetcher[v].at = "drain"
    BY <1>3, <1>5 DEF WorkersLeave
  <2>. QED  BY <1>1, <2>1, <2>2 DEF WorkersLeave
<1>11. CountsMatch' /\ VerdictStands'
  <2>1. verdict.is = "running"
    BY <1>1 DEF VerdictStands
  <2> QED BY <1>1, <1>6, <2>1, CountsStand
<1> QED BY <1>8, <1>9, <1>10, <1>11

\* A worker goes on, with or without the request that it has.
LEMMA MoveKeeps ==
  ASSUME ProfileInv, NEW w \in ProfileWorkers,
         SeeDone(w) \/ Finished(w) \/ ReportCount(w)
         \/ (Drain(w) /\ UNCHANGED requests)
  PROVE  ProfileInv'
<1> USE DEF ProfileInv
<1>1. /\ UNCHANGED <<requests, results, profileCtx, counts, verdict, mishaps>>
      /\ fetcher[w].at \in {"select", "report", "drain"}
      /\ \E at \in {"select", "drain", "gone"} :
           /\ Set(w, at, 0)
           /\ at = "gone" => requests = <<>>
           /\ at = "drain" => ~profileCtx
  <2>1. CASE SeeDone(w)
    BY <2>1 DEF SeeDone
  <2>2. CASE Finished(w)
    BY <2>2 DEF Finished
  <2>3. CASE ReportCount(w)
    BY <2>3 DEF ReportCount
  <2>4. CASE Drain(w) /\ UNCHANGED requests
    <3>1. requests \in Seq(Profiles)
      BY DEF ProfileTyped
    <3>2. requests # <<>> => Tail(requests) # requests
      <4>1. requests # <<>> => Len(Tail(requests)) = Len(requests) - 1 /\ Len(requests) \in Nat
        BY <3>1
      <4> QED BY <4>1
    <3> QED BY <2>4, <3>2 DEF Drain
  <2> QED BY <2>1, <2>2, <2>3, <2>4
<1>2. PICK at \in {"select", "drain", "gone"} : /\ Set(w, at, 0)
                                                /\ at = "gone" => requests = <<>>
                                                /\ at = "drain" => ~profileCtx
  BY <1>1
<1>3. /\ fetcher' \in [ProfileWorkers -> [at : WorkerPlaces, req : Profiles \cup {0}, seen : Nat \X Nat]]
      /\ fetcher'[w].at = at
      /\ \A v \in ProfileWorkers : v # w => fetcher'[v] = fetcher[v]
      /\ \A v \in ProfileWorkers : \A j : Fetching(v, j)' <=> v # w /\ Fetching(v, j)
      /\ Counting' = Counting \ {w}
  BY <1>2, WorkerMoves DEF WorkerPlaces
<1>4. /\ Counting' = Counting
      /\ \A v \in ProfileWorkers : \A j : Fetching(v, j)' <=> Fetching(v, j)
      /\ \A i : Queued(i)' <=> Queued(i)
  BY <1>1, <1>3 DEF Counting, Fetching, Queued
<1>5. ProfileTyped'
  BY <1>1, <1>3 DEF ProfileTyped, WorkerPlaces
<1>6. HeldOnce'
  BY <1>1, <1>4 DEF HeldOnce
<1>7. WorkersLeave'
  BY <1>1, <1>2, <1>3 DEF WorkersLeave
<1>8. CountsMatch' /\ VerdictStands'
  <2>1. verdict.is = "running"
    BY <1>1 DEF VerdictStands
  <2> QED BY <1>1, <1>4, <2>1, CountsStand
<1> QED BY <1>5, <1>6, <1>7, <1>8

\* Download ends with a result, which the request did not have.
LEMMA FetchKeeps ==
  ASSUME ProfileInv, NEW w \in ProfileWorkers, FetchProfile(w) PROVE ProfileInv'
<1> USE DEF ProfileInv
<1>1. PICK q : q = fetcher[w].req
  OBVIOUS
<1>2. /\ Fetching(w, q) /\ q \in Profiles /\ results[q] = "nil" /\ ~Queued(q) /\ q \notin mishaps.hit
      /\ \A v \in ProfileWorkers : Fetching(v, q) => v = w
  BY <1>1 DEF FetchProfile, Fetching, WorkersLeave, HeldOnce
<1>3. PICK r \in {"ok", "failed"} : results' = [results EXCEPT ![q] = r]
  BY <1>1 DEF FetchProfile
<1>4. UNCHANGED <<requests, profileCtx, counts, verdict, mishaps>> /\ Set(w, "count", q)
  BY <1>1 DEF FetchProfile
<1>5. /\ fetcher' \in [ProfileWorkers -> [at : WorkerPlaces, req : Profiles \cup {0}, seen : Nat \X Nat]]
      /\ fetcher'[w].at = "count" /\ fetcher'[w].req = q
      /\ \A v \in ProfileWorkers : v # w => fetcher'[v] = fetcher[v]
      /\ \A v \in ProfileWorkers : \A j : Fetching(v, j)' <=> v # w /\ Fetching(v, j)
      /\ Counting' = Counting \cup {w}
  BY <1>2, <1>4, WorkerMoves DEF WorkerPlaces
<1>6. results' \in [Profiles -> {"nil", "ok", "failed", "cancelled"}]
      /\ results'[q] = r /\ \A i \in Profiles : i # q => results'[i] = results[i]
  BY <1>2, <1>3 DEF ProfileTyped
<1>7. \A i : Queued(i)' <=> Queued(i)
  BY <1>4 DEF Queued
<1>8. ProfileTyped'
  BY <1>4, <1>5, <1>6 DEF ProfileTyped, WorkerPlaces
<1>9. HeldOnce'
  <2>1. \A i \in Profiles : results'[i] = "nil" <=>
          Queued(i)' \/ i \in mishaps'.hit \/ \E v \in ProfileWorkers : Fetching(v, i)'
    <3> SUFFICES ASSUME NEW i \in Profiles
                 PROVE  results'[i] = "nil" <=>
                          Queued(i)' \/ i \in mishaps'.hit \/ \E v \in ProfileWorkers : Fetching(v, i)'
      OBVIOUS
    <3>1. CASE i = q
      BY <1>2, <1>4, <1>5, <1>6, <1>7, <3>1
    <3>2. CASE i # q
      <4>1. \A v \in ProfileWorkers : Fetching(v, i)' <=> Fetching(v, i)
        BY <1>2, <1>5, <3>2 DEF Fetching
      <4> QED BY <1>4, <1>6, <1>7, <3>2, <4>1 DEF HeldOnce
    <3> QED BY <3>1, <3>2
  <2>2. /\ \A i \in Profiles : Queued(i)' => i \notin mishaps'.hit
        /\ \A i \in Profiles, v \in ProfileWorkers : Fetching(v, i)' => ~Queued(i)' /\ i \notin mishaps'.hit
        /\ \A i \in Profiles, u, v \in ProfileWorkers : Fetching(u, i)' /\ Fetching(v, i)' => u = v
    BY <1>4, <1>5, <1>7 DEF HeldOnce
  <2>3. \A j, k \in DOMAIN requests' : requests'[j] = requests'[k] => j = k
    BY <1>4 DEF HeldOnce
  <2> QED BY <2>1, <2>2, <2>3 DEF HeldOnce
<1>10. WorkersLeave'
  BY <1>2, <1>4, <1>5, <1>6 DEF WorkersLeave
<1>11. CountsMatch'
  <2>1. Having({"ok", "failed"})' = Having({"ok", "failed"}) \cup {q} /\ q \notin Having({"ok", "failed"})
    BY <1>2, <1>6 DEF Having
  <2>2. w \notin Counting /\ IsFiniteSet(Counting)
    BY <1>2 DEF Counting, Fetching, CountsMatch
  <2>3. /\ IsFiniteSet(Counting') /\ Cardinality(Counting') = Cardinality(Counting) + 1
        /\ Cardinality(Counting) \in Nat
    BY <1>5, <2>2, FS_AddElement, FS_CardinalityType
  <2>4. Cardinality(Having({"ok", "failed"})') = Cardinality(Having({"ok", "failed"})) + 1
    BY <2>1, HavingFinite, FS_AddElement
  <2> QED BY <1>4, <2>3, <2>4 DEF CountsMatch, ProfileTyped
<1>12. VerdictStands'
  <2>1. verdict.is = "running"
    BY <1>2 DEF VerdictStands, Fetching
  <2> QED BY <1>4, <2>1 DEF VerdictStands
<1> QED BY <1>8, <1>9, <1>10, <1>11, <1>12

\* A mishap: the request has no result, and is noted as lost.
LEMMA UpsetKeeps ==
  ASSUME ProfileInv, NEW w \in ProfileWorkers, NEW what, Upset(w, what) PROVE ProfileInv'
<1> USE DEF ProfileInv
<1>1. PICK q : q = fetcher[w].req
  OBVIOUS
<1>2. /\ Fetching(w, q) /\ q \in Profiles /\ results[q] = "nil" /\ ~Queued(q) /\ q \notin mishaps.hit
      /\ \A v \in ProfileWorkers : Fetching(v, q) => v = w
  BY <1>1 DEF Upset, Fetching, WorkersLeave, HeldOnce
<1>3. /\ UNCHANGED <<requests, results, counts, verdict>> /\ Set(w, "drain", 0) /\ profileCtx' = FALSE
      /\ mishaps' = [happened |-> mishaps.happened \cup {what}, hit |-> mishaps.hit \cup {q}]
      /\ what \in Mishaps
  BY <1>1 DEF Upset, Happens
<1>4. /\ fetcher' \in [ProfileWorkers -> [at : WorkerPlaces, req : Profiles \cup {0}, seen : Nat \X Nat]]
      /\ fetcher'[w].at = "drain"
      /\ \A v \in ProfileWorkers : v # w => fetcher'[v] = fetcher[v]
      /\ \A v \in ProfileWorkers : \A j : Fetching(v, j)' <=> v # w /\ Fetching(v, j)
      /\ Counting' = Counting \ {w}
  BY <1>3, WorkerMoves DEF WorkerPlaces
<1>5. \A i : Queued(i)' <=> Queued(i)
  BY <1>3 DEF Queued
<1>6. ProfileTyped'
  BY <1>2, <1>3, <1>4 DEF ProfileTyped, WorkerPlaces
<1>7. HeldOnce'
  <2>1. \A i \in Profiles : results'[i] = "nil" <=>
          Queued(i)' \/ i \in mishaps'.hit \/ \E v \in ProfileWorkers : Fetching(v, i)'
    <3> SUFFICES ASSUME NEW i \in Profiles
                 PROVE  results'[i] = "nil" <=>
                          Queued(i)' \/ i \in mishaps'.hit \/ \E v \in ProfileWorkers : Fetching(v, i)'
      OBVIOUS
    <3>1. CASE i = q
      BY <1>2, <1>3, <3>1
    <3>2. CASE i # q
      <4>1. \A v \in ProfileWorkers : Fetching(v, i)' <=> Fetching(v, i)
        BY <1>2, <1>4, <3>2 DEF Fetching
      <4> QED BY <1>3, <1>5, <3>2, <4>1 DEF HeldOnce
    <3> QED BY <3>1, <3>2
  <2>2. /\ \A i \in Profiles : Queued(i)' => i \notin mishaps'.hit
        /\ \A i \in Profiles, v \in ProfileWorkers : Fetching(v, i)' => ~Queued(i)' /\ i \notin mishaps'.hit
        /\ \A i \in Profiles, u, v \in ProfileWorkers : Fetching(u, i)' /\ Fetching(v, i)' => u = v
    BY <1>2, <1>3, <1>4, <1>5 DEF HeldOnce
  <2>3. \A j, k \in DOMAIN requests' : requests'[j] = requests'[k] => j = k
    BY <1>3 DEF HeldOnce
  <2> QED BY <2>1, <2>2, <2>3 DEF HeldOnce
<1>8. WorkersLeave'
  BY <1>3, <1>4 DEF WorkersLeave
<1>9. CountsMatch' /\ VerdictStands'
  <2>1. Counting' = Counting
    BY <1>2, <1>4 DEF Counting, Fetching
  <2>2. verdict.is = "running"
    BY <1>2 DEF VerdictStands, Fetching
  <2> QED BY <1>3, <2>1, <2>2, CountsStand
<1> QED BY <1>6, <1>7, <1>8, <1>9

\* A worker that empties the channel marks what it takes from it.
LEMMA DrainKeeps ==
  ASSUME ProfileInv, NEW w \in ProfileWorkers, Drain(w), requests # <<>> PROVE ProfileInv'
<1> USE DEF ProfileInv
<1>1. PICK q : q = Head(requests)
  OBVIOUS
<1>2. /\ results' = [results EXCEPT ![q] = "cancelled"] /\ requests' = Tail(requests)
      /\ requests \in Seq(Profiles) /\ fetcher[w].at = "drain"
      /\ UNCHANGED <<fetcher, profileCtx, counts, verdict, mishaps>>
  BY <1>1 DEF Drain, ProfileTyped
<1>3. /\ q \in Profiles /\ requests' \in Seq(Profiles)
      /\ \A i : Queued(i) <=> i = q \/ Queued(i)'
      /\ ~Queued(q)'
      /\ \A j, k \in DOMAIN requests' : requests'[j] = requests'[k] => j = k
  BY <1>1, <1>2, TakesHead DEF HeldOnce
<1>4. /\ results[q] = "nil" /\ q \notin mishaps.hit
      /\ \A v \in ProfileWorkers : ~Fetching(v, q)
  BY <1>3 DEF HeldOnce
<1>5. results' \in [Profiles -> {"nil", "ok", "failed", "cancelled"}]
      /\ results'[q] = "cancelled" /\ \A i \in Profiles : i # q => results'[i] = results[i]
  BY <1>2, <1>3 DEF ProfileTyped
<1>6. \A v, i : Fetching(v, i)' <=> Fetching(v, i)
  BY <1>2 DEF Fetching
<1>7. ProfileTyped'
  BY <1>2, <1>3, <1>5 DEF ProfileTyped
<1>8. HeldOnce'
  <2>1. ASSUME NEW i \in Profiles
        PROVE  results'[i] = "nil" <=>
                 Queued(i)' \/ i \in mishaps'.hit \/ \E v \in ProfileWorkers : Fetching(v, i)'
    <3>1. CASE i = q
      BY <1>2, <1>3, <1>4, <1>5, <1>6, <3>1
    <3>2. CASE i # q
      BY <1>2, <1>3, <1>5, <1>6, <3>2 DEF HeldOnce
    <3> QED BY <3>1, <3>2
  <2>2. \A i \in Profiles : Queued(i)' => i \notin mishaps'.hit
    BY <1>2, <1>3 DEF HeldOnce
  <2>3. \A i \in Profiles, v \in ProfileWorkers : Fetching(v, i)' => ~Queued(i)' /\ i \notin mishaps'.hit
    BY <1>2, <1>3, <1>6 DEF HeldOnce
  <2>4. \A i \in Profiles, u, v \in ProfileWorkers : Fetching(u, i)' /\ Fetching(v, i)' => u = v
    BY <1>6 DEF HeldOnce
  <2> QED BY <1>3, <2>1, <2>2, <2>3, <2>4 DEF HeldOnce
<1>9. WorkersLeave'
  <2>1. ~profileCtx /\ \A v \in ProfileWorkers : fetcher[v].at # "gone"
    BY <1>2 DEF WorkersLeave
  <2> QED BY <1>2, <2>1 DEF WorkersLeave
<1>10. CountsMatch'
  <2>1. Having({"ok", "failed"})' = Having({"ok", "failed"}) /\ Counting' = Counting
    BY <1>2, <1>4, <1>5 DEF Having, Counting
  <2> QED BY <1>2, <2>1 DEF CountsMatch
<1>11. VerdictStands'
  BY <1>2 DEF VerdictStands
<1> QED BY <1>7, <1>8, <1>9, <1>10, <1>11

\* A result is counted.
LEMMA CountKeeps ==
  ASSUME ProfileInv, NEW w \in ProfileWorkers, Count(w) PROVE ProfileInv'
<1> USE DEF ProfileInv
<1> DEFINE more == <<counts[1] + 1, counts[2] + (IF results[fetcher[w].req] = "ok" THEN 0 ELSE 1)>>
<1>1. /\ fetcher[w].at = "count" /\ counts' = more
      /\ fetcher' = [fetcher EXCEPT ![w] = [fetcher[w] EXCEPT !.at = "report", !.seen = more]]
      /\ UNCHANGED <<requests, results, profileCtx, verdict, mishaps>>
  BY DEF Count
<1>2. counts[1] \in Nat /\ counts[2] \in Nat /\ counts[2] <= counts[1]
  BY DEF ProfileTyped, CountsMatch
<1>3. more \in Nat \X Nat /\ more[1] = counts[1] + 1 /\ more[2] \in Nat /\ more[2] <= more[1]
  BY <1>2
<1> HIDE DEF more
<1> DEFINE f == [fetcher[w] EXCEPT !.at = "report", !.seen = more]
<1>4. f \in [at : WorkerPlaces, req : Profiles \cup {0}, seen : Nat \X Nat] /\ f.at = "report"
  BY <1>3 DEF ProfileTyped, WorkerPlaces
<1>5. fetcher' = [fetcher EXCEPT ![w] = f]
  BY <1>1
<1> HIDE DEF f
<1>6. /\ fetcher' \in [ProfileWorkers -> [at : WorkerPlaces, req : Profiles \cup {0}, seen : Nat \X Nat]]
      /\ fetcher'[w].at = "report"
      /\ \A v \in ProfileWorkers : v # w => fetcher'[v] = fetcher[v]
  BY <1>4, <1>5 DEF ProfileTyped, WorkerPlaces
<1>7. /\ \A v \in ProfileWorkers : \A i : Fetching(v, i)' <=> Fetching(v, i)
      /\ \A i : Queued(i)' <=> Queued(i)
      /\ Counting' = Counting \ {w} /\ w \in Counting
  BY <1>1, <1>6 DEF Fetching, Queued, Counting
<1>8. ProfileTyped'
  BY <1>1, <1>3, <1>6 DEF ProfileTyped, WorkerPlaces
<1>9. HeldOnce'
  BY <1>1, <1>7 DEF HeldOnce
<1>10. WorkersLeave'
  BY <1>1, <1>6 DEF WorkersLeave
<1>11. CountsMatch'
  <2>1. /\ IsFiniteSet(Counting') /\ Cardinality(Counting') = Cardinality(Counting) - 1
        /\ Cardinality(Counting) \in Nat
    BY <1>7, FS_RemoveElement, FS_CardinalityType DEF CountsMatch
  <2>2. Having({"ok", "failed"})' = Having({"ok", "failed"})
    BY <1>1 DEF Having
  <2>3. counts'[1] = counts[1] + 1 /\ counts'[2] <= counts'[1]
    BY <1>1, <1>3
  <2> QED BY <1>2, <2>1, <2>2, <2>3, HavingFinite DEF CountsMatch
<1>12. VerdictStands'
  BY <1>1 DEF VerdictStands
<1> QED BY <1>8, <1>9, <1>10, <1>11, <1>12

(* The caller: it gives the verdict when every worker has left.                                  *)
LEMMA CallerKeeps ==
  ASSUME ProfileInv, CancelProfiles \/ ProfileReturn \/ UNCHANGED profileVars PROVE ProfileInv'
<1> USE DEF ProfileInv
<1>1. /\ UNCHANGED <<requests, results, fetcher, counts>>
      /\ mishaps'.hit = mishaps.hit /\ mishaps' \in [happened : SUBSET Mishaps, hit : SUBSET Profiles]
      /\ (profileCtx' = profileCtx) \/ (profileCtx' = FALSE)
  BY DEF CancelProfiles, ProfileReturn, profileVars, ProfileTyped, Happens
<1>2. \/ verdict' = verdict
      \/ /\ \A w \in ProfileWorkers : fetcher[w].at = "gone"
         /\ verdict' \in [is : {"allfailed", "done"}, downloaded : Nat, failed : Nat]
         /\ verdict'.downloaded = Cardinality(Having({"ok"}))
         /\ verdict'.failed = Cardinality(Having({"nil", "failed", "cancelled"}))
  <2>1. CASE ProfileReturn
    <3>1. \A r : Cardinality(Having(r)) \in Nat
      BY HavingFinite
    <3> QED BY <2>1, <3>1 DEF ProfileReturn
  <2> QED BY <2>1 DEF CancelProfiles, profileVars
<1>3. ProfileTyped'
  BY <1>1, <1>2 DEF ProfileTyped
<1>4. HeldOnce'
  BY <1>1 DEF HeldOnce, Queued, Fetching
<1>5. WorkersLeave'
  BY <1>1 DEF WorkersLeave
<1>6. CountsMatch'
  BY <1>1 DEF CountsMatch, Having, Counting
<1>7. VerdictStands'
  BY <1>1, <1>2 DEF VerdictStands, Having
<1> QED BY <1>3, <1>4, <1>5, <1>6, <1>7

(* All requests are in the channel, each once.                                                   *)
LEMMA ProfileStarts == ProfileInit => ProfileInv
<1> SUFFICES ASSUME ProfileInit PROVE ProfileInv
  OBVIOUS
<1> USE DEF ProfileInit
<1> DEFINE n == Cardinality(Profiles)
<1>1. n \in Nat /\ Profiles = 1..n
  BY ProfileRunAssumption, FS_CardinalityType
<1> HIDE DEF n
<1>2. requests \in Seq(Profiles) /\ DOMAIN requests = Profiles /\ \A i \in Profiles : requests[i] = i
  BY <1>1
<1>3. ProfileTyped
  BY <1>2 DEF ProfileTyped
<1>4. HeldOnce
  BY <1>2 DEF HeldOnce, Queued, Fetching
<1>5. WorkersLeave
  BY DEF WorkersLeave
<1>6. CountsMatch
  <2>1. Counting = {} /\ Having({"ok", "failed"}) = {}
    BY DEF Counting, Having
  <2>2. IsFiniteSet({}) /\ Cardinality({}) = 0
    BY FS_EmptySet
  <2>3. IsFiniteSet(Counting) /\ Cardinality(Counting) = 0 /\ Cardinality(Having({"ok", "failed"})) = 0
    BY <2>1, <2>2, Zenon
  <2>4. counts[1] = 0 /\ counts[2] = 0
    OBVIOUS
  <2> QED BY <2>3, <2>4 DEF CountsMatch
<1> QED BY <1>3, <1>4, <1>5, <1>6 DEF ProfileInv, VerdictStands

(* Every step keeps the invariant.                                                               *)
LEMMA ProfileStep == ProfileInv /\ [ProfileNext]_profileVars => ProfileInv'
<1> SUFFICES ASSUME ProfileInv, [ProfileNext]_profileVars PROVE ProfileInv'
  OBVIOUS
<1>1. ASSUME NEW w \in ProfileWorkers, Drain(w) PROVE ProfileInv'
  <2>1. requests = <<>> => UNCHANGED requests
    BY <1>1 DEF Drain
  <2> QED BY <1>1, <2>1, DrainKeeps, MoveKeeps
<1>2. ASSUME NEW w \in ProfileWorkers, ProfileWorker(w) PROVE ProfileInv'
  BY <1>1, <1>2, TakeRequestKeeps, MoveKeeps, FetchKeeps, UpsetKeeps, CountKeeps DEF ProfileWorker
<1> QED BY <1>2, CallerKeeps DEF ProfileNext

(* When the verdict is given, what has no result was lost to a mishap, and the others add up.    *)
LEMMA ProfilesAccounted == ProfileInv => EveryProfileAccounted
<1> SUFFICES ASSUME ProfileInv PROVE EveryProfileAccounted
  OBVIOUS
<1> USE DEF ProfileInv
<1>1. \A i \in Profiles : results[i] = "nil" =>
        i \in mishaps.hit \/ Queued(i) \/ \E w \in ProfileWorkers : fetcher[w].req = i
  BY DEF HeldOnce, Fetching
<1>2. counts[1] = Cardinality(Having({"ok", "failed"})) - Cardinality(Counting)
  <2>1. Cardinality(Counting) \in Nat /\ counts[1] \in Nat
    BY FS_CardinalityType DEF CountsMatch, ProfileTyped
  <2> QED BY <2>1 DEF CountsMatch
<1>3. ASSUME verdict.is # "running"
      PROVE  /\ Having({"nil"}) = mishaps.hit
             /\ verdict.downloaded + verdict.failed = Total
             /\ Having({"cancelled"}) # {} => ~profileCtx
  <2>1. \A w \in ProfileWorkers : fetcher[w].at = "gone"
    BY <1>3 DEF VerdictStands
  <2>2. requests = <<>>
    BY <2>1, SomeProfiles DEF WorkersLeave
  <2>3. \A i \in Profiles : results[i] = "nil" <=> i \in mishaps.hit
    BY <2>1, <2>2 DEF HeldOnce, Queued, Fetching
  <2>4. Having({"nil"}) = mishaps.hit
    BY <2>3 DEF Having, ProfileTyped
  <2> DEFINE A == Having({"ok"})
  <2> DEFINE B == Having({"nil", "failed", "cancelled"})
  <2>5. A \cup B = Profiles /\ A \cap B = {}
    BY DEF Having, ProfileTyped
  <2>6. /\ IsFiniteSet(A) /\ Cardinality(A) \in Nat
        /\ IsFiniteSet(B) /\ Cardinality(B) \in Nat
        /\ verdict.downloaded = Cardinality(A) /\ verdict.failed = Cardinality(B)
    BY <1>3, HavingFinite DEF VerdictStands
  <2> HIDE DEF A, B
  <2>7. Cardinality(A \cup B) = Cardinality(A) + Cardinality(B)
    BY <2>5, <2>6, FS_Union, FS_EmptySet
  <2>8. verdict.downloaded + verdict.failed = Total
    BY <2>5, <2>6, <2>7 DEF Total
  <2>9. Having({"cancelled"}) # {} => ~profileCtx
    BY DEF Having, WorkersLeave
  <2> QED BY <2>4, <2>8, <2>9
<1> QED BY <1>1, <1>2, <1>3 DEF EveryProfileAccounted, Queued, Counting

(* Each profile request has one result when DownloadProfiles (profile/downloader.go) returns,    *)
(* however many workers there are, and is counted once: only a panic or a full disk loses a      *)
(* result, and a request is called cancelled only after a cancellation.                          *)
THEOREM ProfilesAreAccounted == ProfileSpec => []EveryProfileAccounted
<1>1. ProfileInit => ProfileInv
  BY ProfileStarts
<1>2. ProfileInv /\ [ProfileNext]_profileVars => ProfileInv'
  BY ProfileStep
<1>3. ProfileInv => EveryProfileAccounted
  BY ProfilesAccounted
<1> QED BY <1>1, <1>2, <1>3, PTL DEF ProfileSpec

(* The requests, results, counts and verdict have their types: no more downloads are counted than *)
(* there are requests.                                                                           *)
LEMMA ProfileTypesFollow == ASSUME ProfileInv PROVE ProfileTypeOK
<1>1. /\ \A k \in DOMAIN requests : requests[k] \in Profiles
      /\ \A i \in Profiles : results[i] \in {"nil", "ok", "failed", "cancelled"}
      /\ \A w \in ProfileWorkers : fetcher[w].at \in {"select", "download", "drain", "count", "report", "gone"}
      /\ counts[1] \in Nat /\ verdict.is \in {"running", "done", "allfailed"}
  <2>1. requests \in Seq(Profiles)
    BY DEF ProfileInv, ProfileTyped
  <2>. QED  BY <2>1 DEF ProfileInv, ProfileTyped
<1>2. Cardinality(Having({"ok", "failed"})) <= Total /\ Total \in Nat
  <2>1. Having({"ok", "failed"}) \subseteq Profiles
    BY DEF Having
  <2>. QED  BY <2>1, SomeProfiles, FS_Subset, FS_CardinalityType DEF Total
<1>3. Cardinality(Counting) \in Nat /\ Cardinality(Having({"ok", "failed"})) \in Nat
  BY HavingFinite, FS_CardinalityType DEF ProfileInv, CountsMatch
<1>4. counts[2] <= counts[1] /\ counts[1] <= Total
  BY <1>1, <1>2, <1>3 DEF ProfileInv, CountsMatch
<1>. QED  BY <1>1, <1>4 DEF ProfileTypeOK

-----------------------------------------------------------------------------
(* Side by side: the properties as the run of all components checks them.  *)

(* A step of the composition is one of the component that runs, and of no other.                 *)
LEMMA OnePartMoves ==
  [PartsNext]_partsVars =>
    /\ part' = part
    /\ [LimiterNext]_limiterVars
    /\ [ConfigNext]_configVars /\ [MediaNext]_mediaVars /\ [PFNext]_profileFileVars
    /\ part = "batch" => [BatchNext]_batchVars
    /\ part = "ledger" => [LedgerNext]_ledgerVars
    /\ part = "server" => [ServerNext]_serverVars
    /\ part = "profiles" => [ProfileNext]_profileVars
    /\ part = "log" => [LogNext]_logVars
    /\ part = "migration" => [MigrationNext]_migrationVars
    /\ part = "bots" => [BotNext]_botVars
    /\ part = "bus" => [Next]_vars
BY DEF PartsNext, partsVars, Only

\* What is inductive in the composition: each component keeps its own invariant while it runs.
PartsInv ==
  /\ LimiterInv
  /\ ConfigInv
  /\ part = "batch" => BatchInv /\ Counted
  /\ part = "ledger" => LedgerInv
  /\ part = "server" => ServerInv
  /\ part = "profiles" => ProfileInv
  /\ part = "log" => LogInv
  /\ part = "migration" => MigrationInv
  /\ part = "bots" => BotInv
  /\ part = "bus" => BusInv

(* Every component that runs starts with its invariant and keeps it.                             *)
LEMMA PartsKeepTheirInvariants == PartsSpec => []PartsInv
<1>1. PartsInit => PartsInv
  BY LimiterStarts, LimiterAssumption, ConfigStarts, BatchStarts, CountingStarts, LedgerStarts, ServerStarts, ProfileStarts,
     LogBegins, MigrationBegins, BotBegins, BusInit DEF PartsInit, PartsInv
<1>2. PartsInv /\ [PartsNext]_partsVars => PartsInv'
  BY OnePartMoves, LimiterStep, ConfigStep, BatchStep, CountingStays, LedgerStep, ServerStep, ProfileStep,
     LogStep, MigrationStep, BotStep, BusStep DEF PartsInv
<1>. QED  BY <1>1, <1>2, PTL DEF PartsSpec

(* Whatever component runs beside it: no request sleeps for ever on the limiter of an account.    *)
THEOREM PartsSleepersAreWoken == PartsSpec => []SleepersAreWoken
<1>1. PartsInv => SleepersAreWoken
  BY SleepersFollow DEF PartsInv
<1>. QED  BY <1>1, PartsKeepTheirInvariants, PTL

(* Whatever component runs beside it: no edit of conf.yaml or schedules.yaml is lost.             *)
THEOREM PartsEditsAddUp == PartsSpec => []EditsAddUp
<1>1. PartsInv => EditsAddUp
  BY EditsAddUpWhenInv DEF PartsInv
<1>. QED  BY <1>1, PartsKeepTheirInvariants, PTL

(* When the server runs, a shutdown waits for what it has to, in its order, before the database   *)
(* is closed.                                                                                    *)
THEOREM PartsShutdownCompletes == PartsSpec => []ServerPromises
<1>1. PartsInv => ServerPromises
  BY ShutdownFollows DEF PartsInv, ServerPromises
<1>. QED  BY <1>1, PartsKeepTheirInvariants, PTL

(* When the profile phase runs, each of its requests gets one result and is counted once.         *)
THEOREM PartsProfilesAccounted == PartsSpec => []ProfilePromises
<1>1. PartsInv => ProfilePromises
  BY ProfilesAccounted DEF PartsInv, ProfilePromises
<1>. QED  BY <1>1, PartsKeepTheirInvariants, PTL

(* When a batch runs: no goroutine sends on a closed channel, no user has two producers, no tweet *)
(* that was handed over is dropped, and the users add up.                                        *)
THEOREM PartsBatchPromises == PartsSpec => []BatchPromises
<1>1. PartsInv => BatchPromises
  BY ClosesBehindEveryone, EachInOnePlace, WhatWasSentIsHeld, TheUsersAddUp DEF PartsInv, BatchPromises
<1>. QED  BY <1>1, PartsKeepTheirInvariants, PTL

(* When the error ledgers run: without an accident what is owed is in a file or with a run, and   *)
(* between runs the files hold exactly that; a failed batch or a crash loses nothing recorded.    *)
THEOREM PartsLedgersExact == PartsSpec => []LedgerPromises
<1>1. PartsInv => LedgerPromises
  BY LedgerFollows DEF PartsInv, LedgerPromises
<1>. QED  BY <1>1, PartsKeepTheirInvariants, PTL

(* When the console log runs: the streams of its viewers have no holes and nothing twice, and a   *)
(* closed hub captures nothing.                                                                  *)
THEOREM PartsLogHasNoHoles == PartsSpec => []LogPromises
<1>1. PartsInv => LogPromises
  BY NoHolesFollow, QuietFollows DEF PartsInv, LogPromises
<1>. QED  BY <1>1, PartsKeepTheirInvariants, PTL

(* When the database starts: no row is lost, over failed and interrupted migrations.              *)
THEOREM PartsDatabaseKept == PartsSpec => []MigrationPromises
<1>1. PartsInv => MigrationPromises
  BY MigrationInvMeans DEF PartsInv, MigrationPromises
<1>. QED  BY <1>1, PartsKeepTheirInvariants, PTL

(* When the bots run: the end of a task is announced to the chat that began it, once.             *)
THEOREM PartsEndsAnnounced == PartsSpec => []BotPromises
<1>1. PartsInv => BotPromises
  BY BotInvMeans DEF PartsInv, BotPromises
<1>. QED  BY <1>1, PartsKeepTheirInvariants, PTL

(* When the bus runs: each open stream is given each notification once, the bus knows exactly the *)
(* open streams, and a shutdown ends them.                                                       *)
THEOREM PartsStreamsServed == PartsSpec => []StreamsAreServed
<1>1. PartsInv => StreamsAreServed
  BY DeliveryFollows, RegistryFollows, FarewellsFollow DEF PartsInv, StreamsAreServed
<1>. QED  BY <1>1, PartsKeepTheirInvariants, PTL

(* When the bus runs and its publishers take turns: a client whose stream is quiet shows the state *)
(* last announced, the Last-Event-ID it reconnects with skips no notification, and each open stream *)
(* is given each notification once.                                                               *)
THEOREM PartsClientsAgree == PartsSpec /\ [](part = "bus" => TakingTurns) => []ClientsAgree
<1> DEFINE Turns == part = "bus" => TakingTurns
           Follow == part = "bus" => ClientsInv
<1>1. PartsInit => Follow
  BY ClientsInit DEF PartsInit
<1>2. PartsInv /\ Turns /\ Turns' /\ Follow /\ [PartsNext]_partsVars => Follow'
  BY OnePartMoves, ClientsStep DEF PartsInv
<1>3. PartsInv /\ Follow => ClientsAgree
  BY ClientsFollow, DeliveryFollows DEF PartsInv, ClientsAgree
<1> HIDE DEF Follow
<1>. QED  BY <1>1, <1>2, <1>3, PartsKeepTheirInvariants, PTL DEF PartsSpec

(* Whatever component runs beside them: what was downloaded, under a name that no other call gave  *)
(* meanwhile, is on disk, whole and as that medium; a call gives no two jobs one name; and a file  *)
(* that is not whole is about to be verified or was left by a failure or a crash.                  *)
THEOREM PartsMediaKept == PartsSpec => []MediaPromises
<1>1. PartsInit => MediaInit
  BY DEF PartsInit
<1>2. [PartsNext]_partsVars => [MediaNext]_mediaVars
  BY OnePartMoves
<1>3. PartsSpec => MediaSpec
  BY <1>1, <1>2, PTL DEF PartsSpec, MediaSpec
<1>4. DownloadedIsThere /\ OneResolverOneName /\ TornFilesAreTaken => MediaPromises
  BY DEF MediaPromises
<1>. QED  BY <1>3, <1>4, DownloadsAreThere, ResolversGiveOneName, TornFilesAreKnown, PTL

(* Whatever component runs beside them: media files, contents of profiles and saved configuration *)
(* files are only replaced when they are torn, kept as versions or backed up; or, of media, under *)
(* a name that two calls gave while both had it, and never what earlier releases left.           *)
THEOREM PartsOverwriteNothing == PartsSpec => NothingOverwritten
<1>1. PartsInit => MediaInit /\ PFInit /\ ConfigInit
  BY DEF PartsInit
<1>2. [PartsNext]_partsVars => [MediaNext]_mediaVars /\ [PFNext]_profileFileVars /\ [ConfigNext]_configVars
  BY OnePartMoves
<1>3. PartsSpec => MediaSpec /\ PFSpec /\ ConfigSpec
  BY <1>1, <1>2, PTL DEF PartsSpec, MediaSpec, PFSpec, ConfigSpec
<1>. QED  BY <1>3, FilesStay, VersionsKeepContents, SavesAreBackedUp DEF NothingOverwritten

\* What the types need besides: the bounds of the channels, the accidents, the backups, the media
\* and the versions.
TypesInv ==
  /\ part \in Parts
  /\ part = "batch" => BatchBounded
  /\ part = "ledger" => AccidentsKnown
  /\ BackupsCounted
  /\ MediaInv
  /\ VersionsInv /\ VersionsCounted

(* Whatever component runs: its variables have their types.  In particular the two channels of a  *)
(* batch never hold more than their capacity, there are never more backups or versions of a file *)
(* than their limits allow (one more version while it is being written, or where one could not   *)
(* be removed or a crash left it), and no more profiles are counted than there are requests.     *)
THEOREM PartsTypesHold == PartsSpec => []PartsTypeOK
<1>1. PartsInit => TypesInv
  <2>. SUFFICES ASSUME PartsInit PROVE TypesInv
    OBVIOUS
  <2>1. part \in Parts /\ MediaInit /\ PFInit /\ ConfigInit
        /\ (part = "batch" => BatchInit) /\ (part = "ledger" => LedgerInit)
    BY DEF PartsInit
  <2>2. part = "ledger" => AccidentsKnown
    BY <2>1 DEF LedgerInit, AccidentsKnown
  <2>. QED  BY <2>1, <2>2, BatchStartsBounded, NoBackupsYet, MediaStarts, VersionsStart, NoVersionsYet
            DEF TypesInv
<1>2. PartsInv /\ TypesInv /\ [PartsNext]_partsVars => TypesInv'
  <2>. SUFFICES ASSUME PartsInv, TypesInv, [PartsNext]_partsVars PROVE TypesInv'
    OBVIOUS
  <2>1. part' = part /\ part' \in Parts
    BY OnePartMoves DEF TypesInv
  <2>2. part' = "batch" => BatchBounded'
    BY <2>1, OnePartMoves, BatchStaysBounded DEF TypesInv, PartsInv
  <2>3. part' = "ledger" => AccidentsKnown'
    BY <2>1, OnePartMoves, AccidentsStayKnown DEF TypesInv
  <2>4. BackupsCounted'
    BY OnePartMoves, BackupsStep DEF TypesInv, PartsInv
  <2>5. MediaInv'
    BY OnePartMoves, MediaStepKeeps DEF TypesInv
  <2>6. VersionsInv' /\ VersionsCounted'
    BY OnePartMoves, VersionsStep, VersionsStayCounted DEF TypesInv
  <2>. QED  BY <2>1, <2>2, <2>3, <2>4, <2>5, <2>6 DEF TypesInv
<1>3. PartsInv /\ TypesInv => PartsTypeOK
  <2>. SUFFICES ASSUME PartsInv, TypesInv PROVE PartsTypeOK
    OBVIOUS
  <2>1. part = "server" => ServerTypeOK
    BY PhaseFacts DEF PartsInv, ServerInv, ServerTypes, ServerTypeOK
  <2>2. LimiterTypeOK /\ MediaTypeOK /\ PFTypeOK /\ ConfigTypeOK
    BY MediaTypesFollow, VersionTypesFollow, ConfigTypesFollow DEF PartsInv, TypesInv, LimiterInv
  <2>3. /\ part = "batch" => BatchTypeOK
        /\ part = "ledger" => LedgerTypeOK
        /\ part = "profiles" => ProfileTypeOK
    BY BatchTypesFollow, LedgerTypesFollow, ProfileTypesFollow DEF PartsInv, TypesInv
  <2>4. /\ part = "log" => LogTypeOK
        /\ part = "migration" => MigrationTypeOK
        /\ part = "bots" => BotTypeOK
        /\ part = "bus" => TypeOK
    BY LogTypesFollow, MigrationInvMeans, BotInvMeans, BusTypesFollow DEF PartsInv
  <2>. QED  BY <2>1, <2>2, <2>3, <2>4 DEF PartsTypeOK, TypesInv
<1>. QED  BY <1>1, <1>2, <1>3, PartsKeepTheirInvariants, PTL DEF PartsSpec
=============================================================================
