--------------------------- MODULE BatchDownload ---------------------------
(***************************************************************************)
(* One batch of the downloader (internal/downloading: BatchDownloadAny,    *)
(* BatchUserDownload, tweetDownloader and BatchDownloadTweet).             *)
(*                                                                         *)
(* The lists are collected, the packaged users preprocessed one by one,    *)
(* and a scheduling goroutine then takes users from a heap, in rounds that *)
(* the depth of their timelines bounds.  The producer of a user fetches    *)
(* its tweets and sends them to the workers, which download the media and  *)
(* report the tweets that failed on a second channel, from which the       *)
(* calling goroutine reads until it is closed.  Both channels are bounded; *)
(* whoever cancels the context may do so at any step.                      *)
(*                                                                         *)
(* A tweet is <<u, i>>, the i-th of user u.  What a producer or a worker   *)
(* does between two channel operations is one step; the state of its       *)
(* select statements, and a Submit that waits for the pool, are states.    *)
(***************************************************************************)
EXTENDS Integers, Sequences, FiniteSets, SequencesExt

CONSTANTS
  Users,
  Lists,          \* the lists to download, in any order
  MembersOf,      \* the users of each list
  Requested,      \* users asked for by name: a sequence
  Invisible,      \* users whose media the accounts cannot see
  Priority,       \* protected users that the main account follows
  Media,          \* how many new tweets each user has
  MediaCount,     \* how many media the profile of each user claims
  Exist,          \* how many of them an earlier run has seen
  PageSize,       \* AvgTweetsPerPage
  DepthLimit,     \* userTweetRateLimit
  Workers,        \* maxDownloadRoutine: also the capacity of both channels
  PoolSize,       \* the producers that run at a time
  MaxFetchRetries,\* maxUserFetchRetries
  Upsets,         \* which of the rare events may happen: a subset of
                  \* {"cancel", "panic", "nospace", "noclient", "list"}
  MaxBlocks       \* bound: how often a fetch meets a limit or a locked account

ASSUME BatchAssumption ==
  /\ Priority \subseteq Users /\ Invisible \subseteq Users
  /\ MembersOf \in [Lists -> Seq(Users)] /\ Requested \in Seq(Users)
  /\ Media \in [Users -> Nat] /\ MediaCount \in [Users -> Nat] /\ Exist \in [Users -> Nat]
  /\ PageSize \in Nat \ {0} /\ DepthLimit \in Nat \ {0} /\ PoolSize \in Nat \ {0}
  /\ IsFiniteSet(Workers) /\ Workers # {}
  /\ MaxFetchRetries \in Nat /\ MaxBlocks \in Nat

VARIABLES
  cause,        \* why the context was cancelled, or "none"
  caller,       \* the calling goroutine: collect, preprocess, read, returned
  collected,    \* lists whose members are known
  packaged,     \* packgedUsers that are still to be preprocessed: <<user, list or NoList>>
  syncState,    \* users and <<list, user>> links already seen
  heap,         \* userEntityHeap
  round,        \* the scheduling goroutine: where it is, whom it peeked at, how deep the round is
  prod,         \* the producer of each user
  fetchTries,   \* retryCounts
  retryUsers,   \* retryEntities
  blocks,       \* history: limits met
  sent,         \* how many of its tweets each producer has sent
  advanced,     \* users whose latest release time was moved past these tweets
  tweetCh, tweetClosed,
  errCh, errClosed,
  worker,       \* each worker
  saved,        \* tweets whose media are on disk, or can never be
  fails,        \* what the batch returns
  usersDone,    \* completedUsers
  completed,    \* history: how often each user was counted as completed
  lost,         \* history: users who were taken off the heap in the place of another, and not fetched
  openTweets,   \* userProgress: the tweets of a user still to be completed
  totalUsers,
  panics        \* history

fetchVars    == <<heap, prod, fetchTries, retryUsers, blocks, sent, advanced>>
chanVars     == <<tweetCh, tweetClosed, errCh, errClosed>>
workVars     == <<worker, saved, fails>>
doneVars     == <<usersDone, completed, lost>>
progressVars == <<doneVars, openTweets, totalUsers>>
startVars    == <<collected, packaged, syncState>>
batchVars    == <<cause, caller, startVars, round, fetchVars, chanVars, workVars,
                  progressVars, panics>>

\* calcUserDepth: how many pages a user's timeline will take.
CalcUserDepth(exist, total) ==
  IF exist >= total THEN 1
  ELSE (total - exist + PageSize - 1) \div PageSize + (IF exist = 0 THEN 1 ELSE 0)
Depth == [u \in Users |-> CalcUserDepth(Exist[u], MediaCount[u])]

NoList  == "nolist"
Nobody  == "nobody"
NoTweet == <<Nobody, 0>>
Tweets  == UNION {{u} \X (1..Media[u]) : u \in Users}
Cap     == Cardinality(Workers)
AtTweet(st, t) == [st |-> st, tweet |-> t]
Idle    == AtTweet("take", NoTweet)

Live == cause = "none"

\* cancel of a CancelCauseFunc: the first cause stays.
CancelWith(c) == cause' = IF Live THEN c ELSE cause

\* markUserDone
MarkDone(u) == usersDone' = usersDone + 1 /\ completed' = [completed EXCEPT ![u] = @ + 1]

BatchInit ==
  /\ cause = "none" /\ caller = "collect"
  /\ collected = {} /\ packaged = <<>>
  /\ syncState = [users |-> {}, links |-> {}]
  /\ heap = {} /\ round = [at |-> "top", peeked |-> Nobody, depth |-> 0]
  /\ prod = [u \in Users |-> "out"] /\ fetchTries = [u \in Users |-> 0]
  /\ retryUsers = {} /\ blocks = 0 /\ sent = [u \in Users |-> 0] /\ advanced = {}
  /\ tweetCh = <<>> /\ tweetClosed = FALSE /\ errCh = <<>> /\ errClosed = FALSE
  /\ worker = [w \in Workers |-> AtTweet("none", NoTweet)]
  /\ saved = {} /\ fails = {}
  /\ usersDone = 0 /\ completed = [u \in Users |-> 0] /\ lost = {}
  /\ openTweets = [u \in Users |-> 0] /\ totalUsers = 0
  /\ panics = 0

-----------------------------------------------------------------------------
(* The calling goroutine.                                                  *)

\* A list is synchronised and its members are fetched; the first error cancels the rest.
CollectList(l) ==
  /\ caller = "collect" /\ l \in Lists \ collected
  /\ collected' = collected \cup {l}
  /\ \/ /\ Live
        /\ packaged' = packaged \o [i \in 1..Len(MembersOf[l]) |-> <<MembersOf[l][i], l>>]
        /\ UNCHANGED cause
     \/ /\ "list" \in Upsets \/ ~Live
        /\ CancelWith("list") /\ UNCHANGED packaged
  /\ UNCHANGED <<caller, syncState, round, fetchVars, chanVars, workVars, progressVars, panics>>

\* All lists are there: the requested users follow, or the cause is returned.
EndCollect ==
  /\ caller = "collect" /\ collected = Lists
  /\ \/ /\ ~Live /\ caller' = "returned" /\ UNCHANGED packaged
     \/ /\ Live /\ caller' = "preprocess"
        /\ packaged' = packaged \o [i \in 1..Len(Requested) |-> <<Requested[i], NoList>>]
  /\ UNCHANGED <<cause, collected, syncState, round, fetchVars, chanVars, workVars, progressVars,
                 panics>>

\* One packaged user: its entity is synchronised once and, if there is something to fetch, put
\* on the heap; its link in the list is made once.  The user may be one that is ignored (blocked
\* or muted), or its entity may fail.
Preprocess ==
  /\ caller = "preprocess" /\ packaged # <<>>
  /\ LET u == packaged[1][1]
         l == packaged[1][2]
         first == u \notin syncState.users
     IN  /\ packaged' = Tail(packaged)
         /\ \/ UNCHANGED <<syncState, heap>>
            \/ /\ syncState' = [users |-> syncState.users \cup {u},
                                links |-> syncState.links \cup
                                            (IF l = NoList THEN {} ELSE {<<l, u>>})]
               /\ heap' = IF first /\ MediaCount[u] # 0 /\ u \notin Invisible THEN heap \cup {u} ELSE heap
  /\ UNCHANGED <<cause, caller, collected, round, prod, fetchTries, retryUsers, blocks, sent, advanced,
                 chanVars, workVars, progressVars, panics>>

\* A panic ends the preprocessing, not the batch.
PreprocessPanic ==
  /\ "panic" \in Upsets /\ panics = 0
  /\ caller = "preprocess" /\ packaged # <<>>
  /\ packaged' = <<>> /\ CancelWith("panic") /\ panics' = panics + 1
  /\ UNCHANGED <<caller, collected, syncState, round, fetchVars, chanVars, workVars, progressVars>>

\* Nothing on the heap is a success; otherwise the workers and the scheduling goroutine start.
Launch ==
  /\ caller = "preprocess" /\ packaged = <<>>
  /\ IF heap = {}
     THEN caller' = "returned" /\ UNCHANGED <<totalUsers, worker>>
     ELSE /\ caller' = "read"
          /\ totalUsers' = Cardinality(heap)
          /\ worker' = [w \in Workers |-> Idle]
  /\ UNCHANGED <<cause, startVars, round, fetchVars, chanVars, saved, fails, doneVars, openTweets,
                 panics>>

ReadFail ==
  /\ caller = "read" /\ errCh # <<>>
  /\ fails' = fails \cup {Head(errCh)} /\ errCh' = Tail(errCh)
  /\ UNCHANGED <<cause, caller, startVars, round, fetchVars, tweetCh, tweetClosed, errClosed,
                 worker, saved, progressVars, panics>>

BatchReturn ==
  /\ caller = "read" /\ errCh = <<>> /\ errClosed
  /\ caller' = "returned"
  /\ UNCHANGED <<cause, startVars, round, fetchVars, chanVars, workVars, progressVars, panics>>

\* The task is cancelled, or its time is up.
CancelBatch ==
  /\ "cancel" \in Upsets /\ Live /\ caller # "returned"
  /\ cause' = "cancel"
  /\ UNCHANGED <<caller, startVars, round, fetchVars, chanVars, workVars, progressVars, panics>>

-----------------------------------------------------------------------------
(* The scheduling goroutine.                                               *)

Round(at, u, d) == [at |-> at, peeked |-> u, depth |-> d]

RoundUnchanged == UNCHANGED <<caller, startVars, worker, saved, fails, openTweets, totalUsers, panics>>

\* The users to be fetched again return to the heap; the loop ends when that is empty.
RoundTop ==
  /\ caller = "read" /\ round.at = "top"
  /\ IF ~Live THEN round' = Round("close", Nobody, 0) /\ UNCHANGED <<heap, retryUsers>>
     ELSE /\ heap' = heap \cup retryUsers /\ retryUsers' = {}
          /\ round' = Round(IF heap' = {} THEN "close" ELSE "select", Nobody, 0)
  /\ UNCHANGED <<cause, prod, fetchTries, blocks, sent, advanced, chanVars, doneVars>>
  /\ RoundUnchanged

\* u may be at the top of the heap.
Above(u, v) == IF (u \in Priority) = (v \in Priority) THEN Depth[u] > Depth[v] ELSE u \in Priority
IsTop(u) == u \in heap /\ \A v \in heap : ~Above(v, u)

\* popNextBatchEntity looks at the top first ...
Peek ==
  /\ round.at = "select" /\ Live /\ round.depth < DepthLimit
  /\ \E u \in heap :
       /\ IsTop(u)
       /\ round' = IF Depth[u] <= DepthLimit /\ round.depth + Depth[u] > DepthLimit
                   THEN Round("wait", Nobody, 0)
                   ELSE Round("pop", u, round.depth)
  /\ UNCHANGED <<cause, fetchVars, chanVars, doneVars>>
  /\ RoundUnchanged

\* ... and takes it in a second step.  What was on top still is, unless a producer gave back a user
\* above it in between.  A user that is too deep for any round is given up: the one that was
\* peeked at is counted, whoever was taken.
Pop ==
  /\ round.at = "pop"
  /\ \E u \in heap :
       /\ IsTop(u) /\ (IsTop(round.peeked) => u = round.peeked)
       /\ heap' = heap \ {u}
       /\ IF Depth[round.peeked] > DepthLimit
          THEN /\ MarkDone(round.peeked)
               /\ lost' = IF u = round.peeked THEN lost ELSE lost \cup {u}
               /\ round' = Round("select", Nobody, round.depth) /\ UNCHANGED prod
          ELSE /\ prod' = [prod EXCEPT ![u] = "submitted"]
               /\ round' = Round("submit", u, round.depth + Depth[round.peeked])
               /\ UNCHANGED doneVars
  /\ UNCHANGED <<cause, fetchTries, retryUsers, blocks, sent, advanced, chanVars>>
  /\ RoundUnchanged

\* Submit waits until the pool has room.
Submit ==
  /\ round.at = "submit"
  /\ Cardinality({u \in Users : prod[u] \notin {"out", "submitted"}}) < PoolSize
  /\ prod' = [prod EXCEPT ![round.peeked] = "select"]
  /\ round' = Round("select", Nobody, round.depth)
  /\ UNCHANGED <<cause, heap, fetchTries, retryUsers, blocks, sent, advanced, chanVars, doneVars>>
  /\ RoundUnchanged

EndSelect ==
  /\ round.at = "select" /\ (~Live \/ round.depth >= DepthLimit \/ heap = {})
  /\ round' = Round("wait", Nobody, 0)
  /\ UNCHANGED <<cause, fetchVars, chanVars, doneVars>>
  /\ RoundUnchanged

\* (mistake: the next round does not wait for the producers of this one)
WaitRoundNot ==
  /\ round.at = "wait"
  /\ round' = Round(IF ~Live THEN "close"
                    ELSE IF heap # {} THEN "select"
                    ELSE IF retryUsers = {} THEN "close" ELSE "delay", Nobody, 0)
  /\ UNCHANGED <<cause, fetchVars, chanVars, doneVars>>
  /\ RoundUnchanged

\* prodwg.Wait(), and what comes after it: another round, the delay before the retries, the end.
WaitRound ==
  /\ round.at = "wait" /\ \A u \in Users : prod[u] = "out"
  /\ round' = Round(IF ~Live THEN "close"
                    ELSE IF heap # {} THEN "select"
                    ELSE IF retryUsers = {} THEN "close" ELSE "delay", Nobody, 0)
  /\ UNCHANGED <<cause, fetchVars, chanVars, doneVars>>
  /\ RoundUnchanged

RetryDelay ==
  /\ round.at = "delay"
  /\ round' = Round(IF Live THEN "top" ELSE "close", Nobody, 0)
  /\ UNCHANGED <<cause, fetchVars, chanVars, doneVars>>
  /\ RoundUnchanged

CloseTweets ==
  /\ round.at = "close"
  /\ tweetClosed' = TRUE /\ round' = Round("join", Nobody, 0)
  /\ UNCHANGED <<cause, fetchVars, tweetCh, errCh, errClosed, doneVars>>
  /\ RoundUnchanged

CloseErrors ==
  /\ round.at = "join" /\ \A w \in Workers : worker[w].st = "gone"
  /\ errClosed' = TRUE /\ round' = Round("ended", Nobody, 0)
  /\ UNCHANGED <<cause, fetchVars, tweetCh, tweetClosed, errCh, doneVars>>
  /\ RoundUnchanged

-----------------------------------------------------------------------------
(* The producer of user u.                                                 *)

ProducerUnchanged ==
  UNCHANGED <<caller, startVars, round, workVars, tweetClosed, errCh, errClosed, totalUsers>>

Leave(u)    == prod' = [prod EXCEPT ![u] = "out"]
\* (mistake: the producer goes on after it gave its user back)
GiveBackAndStay(u) == heap' = heap \cup {u} /\ UNCHANGED prod

GiveBack(u) == heap' = heap \cup {u} /\ Leave(u)
UserDone(u) == MarkDone(u) /\ UNCHANGED lost

\* An account is chosen; the entity may be broken, and there may be no account left.
SelectClient(u) ==
  /\ prod[u] = "select"
  /\ \/ /\ prod' = [prod EXCEPT ![u] = "fetch"] /\ Live
        /\ UNCHANGED <<cause, heap, doneVars>>
     \/ /\ Leave(u) /\ UserDone(u) /\ UNCHANGED <<cause, heap>>
     \/ /\ ~Live /\ GiveBack(u) /\ UNCHANGED <<cause, doneVars>>
     \/ /\ "noclient" \in Upsets
        /\ GiveBack(u) /\ CancelWith("noclient") /\ UNCHANGED doneVars
  /\ UNCHANGED <<fetchTries, retryUsers, blocks, sent, advanced, tweetCh, openTweets, panics>>
  /\ ProducerUnchanged

\* GetMedias: blocked, interrupted, failed (perhaps to be tried again in the next round),
\* nothing new, or tweets to send.
Fetch(u) ==
  /\ prod[u] = "fetch"
  /\ \/ /\ blocks < MaxBlocks /\ blocks' = blocks + 1
        /\ prod' = [prod EXCEPT ![u] = "backoff"]
        /\ UNCHANGED <<heap, fetchTries, retryUsers, doneVars, openTweets>>
     \/ /\ ~Live /\ GiveBack(u)
        /\ UNCHANGED <<fetchTries, retryUsers, blocks, doneVars, openTweets>>
     \/ /\ Live /\ Leave(u)
        /\ fetchTries' = [fetchTries EXCEPT ![u] = @ + 1]
        /\ \/ fetchTries[u] < MaxFetchRetries /\ retryUsers' = retryUsers \cup {u}
              /\ UNCHANGED doneVars
           \/ UserDone(u) /\ UNCHANGED retryUsers
        /\ UNCHANGED <<heap, blocks, openTweets>>
     \/ /\ Live /\ Leave(u) /\ UserDone(u)
        /\ UNCHANGED <<heap, fetchTries, retryUsers, blocks, openTweets>>
     \/ /\ Live /\ Media[u] > 0
        /\ prod' = [prod EXCEPT ![u] = "send"]
        /\ openTweets' = [openTweets EXCEPT ![u] = Media[u]]
        /\ UNCHANGED <<heap, fetchTries, retryUsers, blocks, doneVars>>
  /\ UNCHANGED <<cause, sent, advanced, tweetCh, panics>>
  /\ ProducerUnchanged

\* After a limit the producer sleeps; if the context ends meanwhile, the user may not be given back.
Backoff(u) ==
  /\ prod[u] = "backoff"
  /\ \/ GiveBack(u)
     \/ ~Live /\ Leave(u) /\ UNCHANGED heap
  /\ UNCHANGED <<cause, fetchTries, retryUsers, blocks, sent, advanced, tweetCh, doneVars, openTweets,
                 panics>>
  /\ ProducerUnchanged

SendTweet(u) ==
  /\ prod[u] = "send" /\ sent[u] < Media[u] /\ Len(tweetCh) < Cap
  /\ tweetCh' = Append(tweetCh, <<u, sent[u] + 1>>)
  /\ sent' = [sent EXCEPT ![u] = @ + 1]
  /\ UNCHANGED <<cause, heap, prod, fetchTries, retryUsers, blocks, advanced, doneVars, openTweets,
                 panics>>
  /\ ProducerUnchanged

StopSending(u) ==
  /\ prod[u] = "send" /\ sent[u] < Media[u] /\ ~Live
  /\ Leave(u)
  /\ UNCHANGED <<cause, heap, fetchTries, retryUsers, blocks, sent, advanced, tweetCh, doneVars,
                 openTweets, panics>>
  /\ ProducerUnchanged

\* All tweets are handed over: the next run begins after them (unless the update fails).
AdvanceRelease(u) ==
  /\ prod[u] = "send" /\ sent[u] = Media[u]
  /\ Leave(u)
  /\ advanced' \in {advanced, advanced \cup {u}}
  /\ UNCHANGED <<cause, heap, fetchTries, retryUsers, blocks, sent, tweetCh, doneVars, openTweets,
                 panics>>
  /\ ProducerUnchanged

ProducerPanic(u) ==
  /\ "panic" \in Upsets /\ panics = 0 /\ prod[u] \in {"select", "fetch"}
  /\ panics' = panics + 1 /\ CancelWith("panic") /\ Leave(u)
  /\ UNCHANGED <<heap, fetchTries, retryUsers, blocks, sent, advanced, tweetCh, doneVars, openTweets>>
  /\ ProducerUnchanged

Producer(u) ==
  \/ SelectClient(u) \/ Fetch(u) \/ Backoff(u) \/ SendTweet(u) \/ StopSending(u)
  \/ AdvanceRelease(u)

-----------------------------------------------------------------------------
(* Worker w (tweetDownloader).                                             *)

WorkerUnchanged ==
  UNCHANGED <<caller, startVars, round, fetchVars, tweetClosed, errClosed, fails, totalUsers>>

Become(w, st, t) == worker' = [worker EXCEPT ![w] = AtTweet(st, t)]

Take(w) ==
  /\ worker[w].st = "take" /\ tweetCh # <<>>
  /\ Become(w, "work", Head(tweetCh)) /\ tweetCh' = Tail(tweetCh)
  /\ UNCHANGED <<cause, errCh, saved, doneVars, openTweets, panics>> /\ WorkerUnchanged

\* (mistake: a worker leaves a cancelled batch without draining the channel)
NoticeAndLeave(w) ==
  /\ worker[w].st = "take"
  /\ \/ ~Live /\ Become(w, "gone", NoTweet)
     \/ tweetClosed /\ tweetCh = <<>> /\ Become(w, "gone", NoTweet)
  /\ UNCHANGED <<cause, tweetCh, errCh, saved, doneVars, openTweets, panics>> /\ WorkerUnchanged

\* The context is done: the select may choose to drain; the channel is empty and closed: the end.
Notice(w) ==
  /\ worker[w].st = "take"
  /\ \/ ~Live /\ Become(w, "drain", NoTweet)
     \/ tweetClosed /\ tweetCh = <<>> /\ Become(w, "gone", NoTweet)
  /\ UNCHANGED <<cause, tweetCh, errCh, saved, doneVars, openTweets, panics>> /\ WorkerUnchanged

\* downloadTweetMedia: the media are there (or will never be), or some are to be tried again,
\* perhaps because the disk is full.
Download(w) ==
  LET t == worker[w].tweet IN
  /\ worker[w].st = "work"
  /\ \/ saved' = saved \cup {t} /\ Become(w, "told", t)
     \/ UNCHANGED saved /\ Become(w, "report", t)
     \/ "nospace" \in Upsets /\ UNCHANGED saved /\ Become(w, "reportFull", t)
  /\ UNCHANGED <<cause, tweetCh, errCh, doneVars, openTweets, panics>> /\ WorkerUnchanged

\* errch <- pt
Report(w) ==
  /\ worker[w].st \in {"report", "reportFull", "drained"} /\ Len(errCh) < Cap
  /\ errCh' = Append(errCh, worker[w].tweet)
  /\ CASE worker[w].st = "report"     -> Become(w, "told", worker[w].tweet)
       [] worker[w].st = "reportFull" -> Become(w, "toldFull", worker[w].tweet)
       [] worker[w].st = "drained"    -> Become(w, "drain", NoTweet)
  /\ UNCHANGED <<cause, tweetCh, saved, doneVars, openTweets, panics>> /\ WorkerUnchanged

\* (mistake: every tweet completes its user)
TweetDoneEach(w) ==
  LET u == worker[w].tweet[1] IN
  /\ worker[w].st \in {"told", "toldFull"}
  /\ openTweets' = [openTweets EXCEPT ![u] = @ - 1] /\ UserDone(u)
  /\ IF worker[w].st = "toldFull" THEN CancelWith("nospace") ELSE UNCHANGED cause
  /\ worker' = [worker EXCEPT ![w] = Idle]
  /\ UNCHANGED <<tweetCh, errCh, saved, panics>> /\ WorkerUnchanged

\* onTweetDone, and the cancellation when the disk is full.
TweetDone(w) ==
  LET u == worker[w].tweet[1] IN
  /\ worker[w].st \in {"told", "toldFull"}
  /\ openTweets' = [openTweets EXCEPT ![u] = @ - 1]
  /\ IF openTweets[u] = 1 THEN UserDone(u) ELSE UNCHANGED doneVars
  /\ IF worker[w].st = "toldFull" THEN CancelWith("nospace") ELSE UNCHANGED cause
  /\ worker' = [worker EXCEPT ![w] = Idle]
  /\ UNCHANGED <<tweetCh, errCh, saved, panics>> /\ WorkerUnchanged

\* for pt := range twech, of a worker that drains and of one that recovers from a panic
DrainTweet(w) ==
  /\ worker[w].st \in {"drain", "discard"}
  /\ IF tweetCh # <<>>
     THEN /\ tweetCh' = Tail(tweetCh)
          /\ Become(w, IF worker[w].st = "drain" THEN "drained" ELSE "recover", Head(tweetCh))
     ELSE tweetClosed /\ Become(w, "gone", NoTweet) /\ UNCHANGED tweetCh
  /\ UNCHANGED <<cause, errCh, saved, doneVars, openTweets, panics>> /\ WorkerUnchanged

WorkerPanic(w) ==
  /\ "panic" \in Upsets /\ panics = 0 /\ worker[w].st \in {"work", "told", "toldFull"}
  /\ panics' = panics + 1 /\ CancelWith("panic")
  /\ \/ worker[w].tweet \in Range(errCh) \cup fails /\ Become(w, "discard", NoTweet)
     \/ worker[w].tweet \notin Range(errCh) \cup fails /\ Become(w, "recover", worker[w].tweet)
  /\ UNCHANGED <<tweetCh, errCh, saved, doneVars, openTweets>> /\ WorkerUnchanged

\* safeSend: a recovering worker drops what does not fit.
SafeSend(w) ==
  /\ worker[w].st = "recover"
  /\ errCh' = IF Len(errCh) < Cap THEN Append(errCh, worker[w].tweet) ELSE errCh
  /\ Become(w, "discard", NoTweet)
  /\ UNCHANGED <<cause, tweetCh, saved, doneVars, openTweets, panics>> /\ WorkerUnchanged

Worker(w) ==
  \/ Take(w) \/ Notice(w) \/ Download(w) \/ Report(w) \/ TweetDone(w) \/ DrainTweet(w) \/ SafeSend(w)

Schedule ==
  \/ RoundTop \/ Peek \/ Pop \/ Submit \/ EndSelect \/ WaitRound \/ RetryDelay
  \/ CloseTweets \/ CloseErrors

Caller ==
  (\E l \in Lists : CollectList(l)) \/ EndCollect \/ Preprocess \/ Launch \/ ReadFail \/ BatchReturn

BatchNext ==
  \/ Caller \/ PreprocessPanic \/ CancelBatch \/ Schedule
  \/ \E u \in Users : Producer(u) \/ ProducerPanic(u)
  \/ \E w \in Workers : Worker(w) \/ WorkerPanic(w)

BatchSpec == BatchInit /\ [][BatchNext]_batchVars

-----------------------------------------------------------------------------
(* What a batch promises.                                                  *)

WorkerStates == {"none", "take", "work", "report", "reportFull", "told", "toldFull", "drain",
                 "drained", "recover", "discard", "gone"}

(* Every variable has its type, and a channel never holds more than its buffer.                  *)
BatchTypeOK ==
  /\ cause \in {"none", "cancel", "panic", "nospace", "noclient", "list"}
  /\ caller \in {"collect", "preprocess", "read", "returned"}
  /\ heap \subseteq Users /\ retryUsers \subseteq Users /\ advanced \subseteq Users
  /\ prod \in [Users -> {"out", "submitted", "select", "fetch", "backoff", "send"}]
  /\ round.depth \in Nat /\ sent \in [Users -> Nat] /\ usersDone \in Nat
  /\ tweetCh \in Seq(Tweets) /\ Len(tweetCh) <= Cap
  /\ errCh \in Seq(Tweets) /\ Len(errCh) <= Cap
  /\ worker \in [Workers -> [st : WorkerStates, tweet : Tweets \cup {NoTweet}]]
  /\ saved \subseteq Tweets /\ fails \subseteq Tweets

(* No goroutine sends on a closed channel, which would be a panic that takes the process down:   *)
(* the tweet channel is closed after the producers, the other one after the workers.             *)
NoSendAfterClose ==
  /\ tweetClosed => \A u \in Users : prod[u] = "out"
  /\ errClosed => \A w \in Workers : worker[w].st = "gone"

\* A tweet that was sent is in a channel, with a worker, on disk or among the failures.
Held(t) == t \in Range(tweetCh) \/ t \in Range(errCh) \/ t \in saved \/ t \in fails
           \/ \E w \in Workers : worker[w].tweet = t

(* No tweet that a producer handed over is lost, whatever is cancelled and when; only a worker   *)
(* that panicked may drop one (safeSend).  When the batch returns each is on disk or was handed  *)
(* back: the release time of the user has moved past it, so no later run will find it again.     *)
HandedOverKept ==
  panics = 0 =>
    \A u \in Users : \A i \in 1..sent[u] :
      IF caller = "returned" THEN <<u, i>> \in saved \cup fails ELSE Held(<<u, i>>)

\* The users that the batch put on its heap: those that were found and have something to fetch.
Entrants == {u \in syncState.users : MediaCount[u] # 0 /\ u \notin Invisible}

(* The progress never shows more users than the total, and a batch that was not cancelled has    *)
(* completed every user of its total, however often one was blocked, given back or fetched       *)
(* again - but for those that were lost: while a user too deep for any round is given up, one    *)
(* that a producer gives back above it is removed in its place (popNextBatchEntity).  Nobody     *)
(* else is counted twice, nobody is lost unless a user is too deep, and a user that was lost is  *)
(* within the limit and was never counted.                                                       *)
UsersAddUp ==
  /\ caller \in {"read", "returned"} => usersDone <= totalUsers
  /\ \A u \in Users : completed[u] > 1 => Depth[u] > DepthLimit /\ lost # {}
  /\ lost # {} => \E u \in Entrants : Depth[u] > DepthLimit
  /\ \A u \in lost : Depth[u] <= DepthLimit /\ completed[u] = 0
  /\ caller = "returned" /\ Live =>
        /\ usersDone = totalUsers /\ heap = {} /\ retryUsers = {}
        /\ {u \in Users : completed[u] > 0} = Entrants \ lost

(* A batch that returns without an error has completed every user that it put on its heap once.  *)
(* batch_download_test.go:177 says of a user that is not selected that it stays in the heap.     *)
EveryUserOnce ==
  caller = "returned" /\ Live => \A u \in Entrants : completed[u] = 1

(* A user is in one place only, so that no two producers ever fetch and advance the same user.   *)
OneProducerPerUser ==
  \A u \in Users : Cardinality({x \in {"heap", "retry", "prod"} :
                                  \/ x = "heap"  /\ u \in heap
                                  \/ x = "retry" /\ u \in retryUsers
                                  \/ x = "prod"  /\ prod[u] # "out"}) <= 1
=============================================================================
