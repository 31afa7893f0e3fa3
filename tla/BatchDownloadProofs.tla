------------------------- MODULE BatchDownloadProofs -------------------------
(***************************************************************************)
(* Theorems about BatchDownload: the channels of a batch are closed in     *)
(* order, no user is fetched by two producers, no tweet that was handed    *)
(* over is lost, and the users add up.  And about RateLimiter, which every *)
(* fetch of a batch goes through: no request sleeps on it for ever.        *)
(***************************************************************************)
EXTENDS BatchDownload, RateLimiter, FiniteSetTheorems, TLAPS

-----------------------------------------------------------------------------
(* The inductive invariant.                                                *)

RoundPlaces == {"top", "select", "pop", "submit", "wait", "delay", "close", "join", "ended"}

\* The states of a worker that has a tweet to complete, and those of one that has none.
Busy == {"work", "report", "reportFull", "told", "toldFull"}
Bare == {"none", "take", "drain", "discard", "gone"}

BatchTyped ==
  /\ packaged \in Seq(Users \X (Lists \cup {NoList}))
  /\ caller \in {"collect", "preprocess", "read", "returned"}
  /\ heap \subseteq Users /\ retryUsers \subseteq Users
  /\ prod \in [Users -> {"out", "submitted", "select", "fetch", "backoff", "send"}]
  /\ round.at \in RoundPlaces
  /\ sent \in [Users -> Nat] /\ openTweets \in [Users -> Int]
  /\ tweetCh \in Seq(Tweets) /\ errCh \in Seq(Tweets)
  /\ worker \in [Workers -> [st : WorkerStates, tweet : Tweets \cup {NoTweet}]]
  /\ usersDone \in Nat /\ totalUsers \in Nat /\ panics \in Nat

\* Until the workers and the scheduling goroutine start, and if they never do, nothing has moved.
BeforeStart ==
  caller # "read" /\ ~errClosed =>
    /\ round.at = "top" /\ retryUsers = {} /\ usersDone = 0 /\ totalUsers = 0
    /\ \A u \in Users : prod[u] = "out" /\ sent[u] = 0 /\ openTweets[u] = 0
    /\ tweetCh = <<>> /\ errCh = <<>>
    /\ \A w \in Workers : worker[w] = AtTweet("none", NoTweet)
    /\ caller \in {"collect", "returned"} => heap = {}

\* The channels are closed in order: the tweet channel when every producer has left, the other
\* one when every worker has, and workers only leave a tweet channel that is closed and empty.
ClosesInOrder ==
  /\ tweetClosed <=> round.at \in {"join", "ended"}
  /\ errClosed <=> round.at = "ended"
  /\ round.at \in {"top", "delay", "close", "join", "ended"} => \A u \in Users : prod[u] = "out"
  /\ round.at = "submit" => round.peeked \in Users /\ prod[round.peeked] = "submitted"
  /\ \A w \in Workers : worker[w].st = "gone" => tweetClosed /\ tweetCh = <<>>
  /\ errClosed => \A w \in Workers : worker[w].st = "gone"
  /\ errClosed => caller \in {"read", "returned"}
  /\ errClosed /\ caller = "returned" => errCh = <<>>
  /\ Live /\ round.at \in {"close", "join", "ended"} => heap = {} /\ retryUsers = {}

\* A user is on the heap, waits for its next try or has a producer; what is not fetched yet has
\* sent nothing.
OnePlace ==
  /\ \A u \in heap : prod[u] = "out" /\ u \notin retryUsers
  /\ \A u \in retryUsers : prod[u] = "out"
Unfetched(u) == u \in heap \/ u \in retryUsers \/ prod[u] \notin {"out", "send"}
FetchedOnce == \A u \in Users : Unfetched(u) => sent[u] = 0 /\ openTweets[u] = 0

\* A user still counts as long as it is not fetched or has tweets to complete.
StillToDo == {u \in Users : Unfetched(u) \/ openTweets[u] > 0}
UsersCount ==
  /\ IsFiniteSet(StillToDo)
  /\ caller \in {"read", "returned"} => usersDone + Cardinality(StillToDo) <= totalUsers
  /\ Live /\ caller \in {"read", "returned"} => usersDone + Cardinality(StillToDo) = totalUsers

\* Until something is cancelled: the open tweets of a user are those to be sent, those in the
\* channel and those with a worker, each tweet is in one of these places only, and no worker drains.
WithWorker(t) == \E w \in Workers : worker[w].st \in Busy /\ worker[w].tweet = t
InFlight(u)   == {i \in 1..sent[u] : <<u, i>> \in Range(tweetCh) \/ WithWorker(<<u, i>>)}
TweetsCount ==
  Live => \A u \in Users :
            openTweets[u] = Cardinality(InFlight(u)) + IF prod[u] = "send" THEN Media[u] - sent[u] ELSE 0
SentBefore ==
  /\ \A u \in Users : sent[u] <= Media[u]
  /\ \A t \in Range(tweetCh) : t[2] <= sent[t[1]]
  /\ \A w \in Workers : worker[w].tweet # NoTweet => worker[w].tweet[2] <= sent[worker[w].tweet[1]]
  /\ \A w \in Workers : worker[w].st \in Bare <=> worker[w].tweet = NoTweet
TweetsApart ==
  Live =>
    /\ \A j, k \in DOMAIN tweetCh : tweetCh[j] = tweetCh[k] => j = k
    /\ \A w \in Workers : worker[w].st \in Busy => worker[w].tweet \notin Range(tweetCh)
    /\ \A v, w \in Workers : worker[v].st \in Busy /\ worker[w].st \in Busy /\ worker[v].tweet = worker[w].tweet
                             => v = w
    /\ \A w \in Workers : worker[w].st \notin {"drain", "drained", "recover", "discard"}

\* Without a panic nothing that was sent gets lost, and what a worker is done with was reported
\* or is on disk.
NothingDropped ==
  panics = 0 =>
    /\ \A t \in Tweets : t[2] <= sent[t[1]] => Held(t)
    /\ \A w \in Workers : worker[w].st \in {"told", "toldFull"} =>
                            worker[w].tweet \in Range(errCh) \cup saved \cup fails
    /\ \A w \in Workers : worker[w].st \notin {"recover", "discard"}

BatchInv ==
  /\ BatchTyped /\ BeforeStart /\ ClosesInOrder /\ OnePlace /\ FetchedOnce /\ UsersCount
  /\ TweetsCount /\ SentBefore /\ TweetsApart /\ NothingDropped

-----------------------------------------------------------------------------
(* Tweets and channels.                                                    *)

LEMMA TweetFacts ==
  /\ \A t \in Tweets : t[1] \in Users /\ t[2] \in 1..Media[t[1]] /\ t = <<t[1], t[2]>> /\ t[2] \in Nat \ {0}
  /\ \A u \in Users : \A i \in 1..Media[u] : <<u, i>> \in Tweets
  /\ NoTweet \notin Tweets
<1>1. \A u \in Users : Media[u] \in Nat
  BY BatchAssumption
<1>2. ASSUME NEW t \in Tweets
      PROVE  t[1] \in Users /\ t[2] \in 1..Media[t[1]] /\ t = <<t[1], t[2]>> /\ t[2] \in Nat \ {0}
  <2>1. PICK u \in Users : t \in {u} \X (1..Media[u])
    BY DEF Tweets
  <2>. QED  BY <1>1, <2>1
<1>3. \A u \in Users : \A i \in 1..Media[u] : <<u, i>> \in Tweets
  BY DEF Tweets
<1>4. NoTweet \notin Tweets
  BY <1>2 DEF NoTweet
<1>. QED  BY <1>2, <1>3, <1>4

(* What is in a channel after a send and after a receive.                                        *)
LEMMA ChannelSend ==
  ASSUME NEW S, NEW s \in Seq(S), NEW e \in S
  PROVE  Append(s, e) \in Seq(S) /\ Range(Append(s, e)) = Range(s) \cup {e}
<1>1. Append(s, e) \in Seq(S) /\ Len(Append(s, e)) = Len(s) + 1 /\ DOMAIN Append(s, e) = 1..(Len(s) + 1)
  OBVIOUS
<1>2. \A i \in 1..(Len(s) + 1) : Append(s, e)[i] = IF i = Len(s) + 1 THEN e ELSE s[i]
  OBVIOUS
<1>3. Len(s) \in Nat /\ DOMAIN s = 1..Len(s)
  OBVIOUS
<1>4. Range(Append(s, e)) \subseteq Range(s) \cup {e}
  BY <1>1, <1>2, <1>3 DEF Range
<1>5. ASSUME NEW x \in Range(s) \cup {e} PROVE x \in Range(Append(s, e))
  <2>1. CASE x = e
    BY <1>1, <1>2, <1>3, <2>1 DEF Range
  <2>2. CASE x \in Range(s)
    <3>1. PICK i \in 1..Len(s) : x = s[i]
      BY <1>3, <2>2 DEF Range
    <3>. QED  BY <1>1, <1>2, <1>3, <3>1 DEF Range
  <2>. QED  BY <2>1, <2>2
<1>. QED  BY <1>1, <1>4, <1>5

LEMMA ChannelReceive ==
  ASSUME NEW S, NEW s \in Seq(S), s # <<>>
  PROVE  /\ Head(s) \in S /\ Tail(s) \in Seq(S)
         /\ Range(s) = Range(Tail(s)) \cup {Head(s)}
         /\ Len(Tail(s)) = Len(s) - 1
         /\ \A i \in DOMAIN Tail(s) : i + 1 \in DOMAIN s /\ Tail(s)[i] = s[i + 1] /\ i \in Nat /\ i # 0
         /\ 1 \in DOMAIN s /\ Head(s) = s[1]
<1>1. /\ Head(s) \in S /\ Tail(s) \in Seq(S) /\ Len(Tail(s)) = Len(s) - 1 /\ Len(s) \in Nat /\ Len(s) # 0
      /\ Head(s) = s[1] /\ DOMAIN s = 1..Len(s) /\ DOMAIN Tail(s) = 1..(Len(s) - 1)
      /\ \A i \in 1..(Len(s) - 1) : Tail(s)[i] = s[i + 1]
  OBVIOUS
<1>2. Range(Tail(s)) \cup {Head(s)} \subseteq Range(s)
  BY <1>1 DEF Range
<1>3. ASSUME NEW x \in Range(s) PROVE x \in Range(Tail(s)) \cup {Head(s)}
  <2>1. PICK i \in 1..Len(s) : x = s[i]
    BY <1>1 DEF Range
  <2>2. CASE i = 1
    BY <1>1, <2>1, <2>2
  <2>3. CASE i # 1
    <3>1. i - 1 \in 1..(Len(s) - 1) /\ Tail(s)[i - 1] = s[i]
      BY <1>1, <2>3
    <3>. QED  BY <1>1, <2>1, <3>1 DEF Range
  <2>. QED  BY <2>2, <2>3
<1>. QED  BY <1>1, <1>2, <1>3

LEMMA EmptyChannel == Range(<<>>) = {}
BY DEF Range

-----------------------------------------------------------------------------
(* The calling goroutine.                                                  *)

LEMMA JoinedNames == ASSUME NEW S, NEW s \in Seq(S), NEW t \in Seq(S) PROVE s \o t \in Seq(S)
OBVIOUS

(* Before the workers start only the packaged users, the heap and the caller change; what is     *)
(* still to be done is the heap.                                                                 *)
LEMMA StartMoves ==
  ASSUME BatchInv, (\E l \in Lists : CollectList(l)) \/ EndCollect \/ Preprocess \/ PreprocessPanic \/ Launch
  PROVE  /\ UNCHANGED <<round, prod, retryUsers, sent, openTweets, tweetCh, tweetClosed, errCh, errClosed, usersDone>>
         /\ caller \in {"collect", "preprocess"} /\ ~errClosed
         /\ caller' \in {"collect", "preprocess", "read", "returned"}
         /\ panics' \in {panics, panics + 1}
         /\ (Live' => Live)
         /\ heap' = heap \/ \E u \in Users : heap' = heap \cup {u}
         /\ caller' \in {"collect", "returned"} => heap' = {}
         /\ \/ caller' = "read" /\ worker' = [w \in Workers |-> Idle] /\ totalUsers' = Cardinality(heap)
               /\ heap' = heap
            \/ caller' # "read" /\ worker' = worker /\ totalUsers' = totalUsers
         /\ packaged' \in Seq(Users \X (Lists \cup {NoList}))
<1>. USE DEF BatchInv
<1>. DEFINE Names == Users \X (Lists \cup {NoList})
<1>1. packaged \in Seq(Names) /\ (caller \in {"collect", "preprocess"} => ~errClosed /\ (caller = "collect" => heap = {}))
  BY DEF BatchTyped, ClosesInOrder, BeforeStart
<1>2. ASSUME NEW l \in Lists, CollectList(l)
      PROVE  packaged' \in Seq(Names)
  <2>1. MembersOf[l] \in Seq(Users)
    BY BatchAssumption
  <2>. DEFINE more == [i \in 1..Len(MembersOf[l]) |-> <<MembersOf[l][i], l>>]
  <2>2. more \in Seq(Names)
    BY <2>1
  <2>3. packaged' = packaged \/ packaged' = packaged \o more
    BY <1>2 DEF CollectList
  <2>. HIDE DEF Names, more
  <2>. QED  BY <1>1, <2>2, <2>3, JoinedNames
<1>3. ASSUME EndCollect PROVE packaged' \in Seq(Names)
  <2>. DEFINE more == [i \in 1..Len(Requested) |-> <<Requested[i], NoList>>]
  <2>1. more \in Seq(Names)
    BY BatchAssumption
  <2>2. packaged' = packaged \/ packaged' = packaged \o more
    BY <1>3 DEF EndCollect
  <2>. HIDE DEF Names, more
  <2>. QED  BY <1>1, <2>1, <2>2, JoinedNames
<1>4. ASSUME Preprocess
      PROVE  /\ packaged' \in Seq(Names)
             /\ heap' = heap \/ \E u \in Users : heap' = heap \cup {u}
  <2>1. packaged # <<>> /\ packaged' = Tail(packaged)
    BY <1>4 DEF Preprocess
  <2>2. Tail(packaged) \in Seq(Names) /\ packaged[1] \in Names
    <3>. HIDE DEF Names
    <3>. QED  BY <1>1, <2>1
  <2>3. packaged[1][1] \in Users
    BY <2>2
  <2>4. heap' = heap \/ heap' = heap \cup {packaged[1][1]}
    BY <1>4 DEF Preprocess
  <2>. QED  BY <2>1, <2>2, <2>3, <2>4
<1>5. ASSUME PreprocessPanic PROVE packaged' \in Seq(Names)
  BY <1>5 DEF PreprocessPanic
<1>. USE DEF fetchVars, chanVars, workVars, progressVars, doneVars, startVars
<1>6. CASE \E l \in Lists : CollectList(l)
  <2>1. PICK l \in Lists : CollectList(l)
    BY <1>6
  <2>2. packaged' \in Seq(Names)
    BY <1>2, <2>1
  <2>3. /\ caller = "collect" /\ (Live' => Live)
        /\ UNCHANGED <<caller, syncState, round, fetchVars, chanVars, workVars, progressVars, panics>>
    BY <2>1 DEF CollectList, CancelWith, Live
  <2>. QED  BY <1>1, <2>2, <2>3
<1>7. CASE EndCollect
  BY <1>1, <1>3, <1>7 DEF EndCollect, Live
<1>8. CASE Preprocess
  <2>1. packaged' \in Seq(Names) /\ (heap' = heap \/ \E u \in Users : heap' = heap \cup {u})
    BY <1>4, <1>8
  <2>2. /\ caller = "preprocess" /\ (Live' => Live)
        /\ UNCHANGED <<cause, caller, collected, round, prod, fetchTries, retryUsers, blocks, sent, advanced,
                       chanVars, workVars, progressVars, panics>>
    BY <1>8 DEF Preprocess, Live
  <2>. QED  BY <1>1, <2>1, <2>2
<1>9. CASE PreprocessPanic
  BY <1>1, <1>5, <1>9 DEF PreprocessPanic, CancelWith, Live
<1>10. CASE Launch
  BY <1>1, <1>10 DEF Launch, Live
<1>. QED  BY <1>6, <1>7, <1>8, <1>9, <1>10

LEMMA StartKeeps ==
  ASSUME BatchInv, (\E l \in Lists : CollectList(l)) \/ EndCollect \/ Preprocess \/ PreprocessPanic \/ Launch
  PROVE  BatchInv'
<1>1. /\ UNCHANGED <<round, prod, retryUsers, sent, openTweets, tweetCh, tweetClosed, errCh, errClosed, usersDone>>
      /\ caller \in {"collect", "preprocess"} /\ ~errClosed
      /\ caller' \in {"collect", "preprocess", "read", "returned"}
      /\ panics' \in {panics, panics + 1}
      /\ caller' \in {"collect", "returned"} => heap' = {}
      /\ packaged' \in Seq(Users \X (Lists \cup {NoList}))
      /\ Live' => Live
  BY StartMoves
<1>2. heap' = heap \/ \E u \in Users : heap' = heap \cup {u}
  BY StartMoves
<1>3. \/ caller' = "read" /\ worker' = [w \in Workers |-> Idle] /\ totalUsers' = Cardinality(heap) /\ heap' = heap
      \/ caller' # "read" /\ worker' = worker /\ totalUsers' = totalUsers
  BY StartMoves
<1>. USE DEF BatchInv
<1>4. /\ round.at = "top" /\ retryUsers = {} /\ usersDone = 0 /\ totalUsers = 0 /\ tweetCh = <<>> /\ errCh = <<>>
      /\ \A u \in Users : prod[u] = "out" /\ sent[u] = 0 /\ openTweets[u] = 0
      /\ \A w \in Workers : worker[w] = AtTweet("none", NoTweet)
  BY <1>1 DEF BeforeStart
<1>5. /\ \A w \in Workers : worker'[w] \in {AtTweet("none", NoTweet), Idle}
      /\ worker' \in [Workers -> [st : WorkerStates, tweet : Tweets \cup {NoTweet}]]
      /\ \A w \in Workers : worker'[w].st \in {"none", "take"} /\ worker'[w].tweet = NoTweet
  BY <1>3, <1>4 DEF BatchTyped, Idle, AtTweet, WorkerStates
<1>6. IsFiniteSet(heap) /\ Cardinality(heap) \in Nat
  <2>1. StillToDo = heap
    BY <1>4 DEF StillToDo, Unfetched, BatchTyped
  <2>. QED  BY <2>1, FS_CardinalityType DEF UsersCount
<1>7. BatchTyped'
  <2>1. heap' \subseteq Users
    BY <1>2 DEF BatchTyped
  <2>. QED  BY <1>1, <1>3, <1>5, <1>6, <2>1 DEF BatchTyped
<1>8. BeforeStart'
  BY <1>1, <1>3, <1>4 DEF BeforeStart
<1>9. ClosesInOrder'
  BY <1>1, <1>4, <1>5 DEF ClosesInOrder
<1>10. OnePlace' /\ FetchedOnce'
  BY <1>1, <1>2, <1>4 DEF OnePlace, FetchedOnce, BatchTyped
<1>11. UsersCount'
  <2>1. StillToDo' = heap'
    BY <1>1, <1>2, <1>4 DEF StillToDo, Unfetched, BatchTyped
  <2>2. IsFiniteSet(heap')
    BY <1>2, <1>6, FS_AddElement
  <2>3. caller' = "returned" => heap' = {} /\ Cardinality(heap') = 0 /\ totalUsers' = 0 /\ usersDone' = 0
    BY <1>1, <1>3, <1>4, FS_EmptySet
  <2>4. caller' = "read" => usersDone' = 0 /\ totalUsers' = Cardinality(heap')
    BY <1>1, <1>3, <1>4
  <2>. QED  BY <1>6, <2>1, <2>2, <2>3, <2>4, FS_CardinalityType DEF UsersCount
<1>12. TweetsCount'
  <2>1. \A u \in Users : InFlight(u)' = {}
    <3>1. \A u \in Users : sent'[u] = 0 /\ 1..0 = {}
      BY <1>1, <1>4
    <3>. QED  BY <3>1 DEF InFlight
  <2>2. SUFFICES ASSUME NEW u \in Users
                 PROVE  openTweets'[u] = Cardinality(InFlight(u)') + IF prod'[u] = "send" THEN Media[u] - sent'[u] ELSE 0
    BY DEF TweetsCount
  <2>3. InFlight(u)' = {} /\ openTweets'[u] = 0 /\ prod'[u] = "out"
    BY <1>1, <1>4, <2>1
  <2>. QED  BY <2>3, FS_EmptySet
<1>13. SentBefore' /\ TweetsApart'
  <2>1. \A u \in Users : sent'[u] <= Media[u]
    BY <1>1, <1>4, BatchAssumption
  <2>. QED  BY <1>1, <1>4, <1>5, <2>1, EmptyChannel DEF SentBefore, TweetsApart, Busy, Bare
<1>14. NothingDropped'
  BY <1>1, <1>4, <1>5, TweetFacts DEF NothingDropped
<1>. QED  BY <1>7, <1>8, <1>9, <1>10, <1>11, <1>12, <1>13, <1>14

-----------------------------------------------------------------------------
(* What does not disturb a part of the invariant.                          *)

LEMMA TweetsStand ==
  ASSUME TweetsCount, SentBefore, TweetsApart, UNCHANGED <<sent, openTweets, tweetCh, worker>>, Live' => Live,
         \A u \in Users : prod'[u] = "send" <=> prod[u] = "send"
  PROVE  TweetsCount' /\ SentBefore' /\ TweetsApart'
<1>1. \A u \in Users : InFlight(u)' = InFlight(u)
  BY DEF InFlight, WithWorker
<1>2. TweetsCount'
  <2>1. SUFFICES ASSUME Live, NEW u \in Users
                 PROVE  openTweets'[u] = Cardinality(InFlight(u)') + IF prod'[u] = "send" THEN Media[u] - sent'[u] ELSE 0
    BY DEF TweetsCount
  <2>. QED  BY <1>1, <2>1 DEF TweetsCount
<1>. QED  BY <1>2 DEF SentBefore, TweetsApart

LEMMA NothingFalls ==
  ASSUME NothingDropped, UNCHANGED <<sent, tweetCh, worker, saved>>, panics' = 0 => panics = 0,
         Range(errCh) \cup fails \subseteq Range(errCh') \cup fails'
  PROVE  NothingDropped'
BY DEF NothingDropped, Held

LEMMA UsersStand ==
  ASSUME UsersCount, StillToDo' = StillToDo, UNCHANGED <<usersDone, totalUsers>>, Live' => Live,
         caller' \in {"read", "returned"} => caller \in {"read", "returned"}
  PROVE  UsersCount'
BY DEF UsersCount

(* A user is done with, and no longer counts.                                                    *)
LEMMA UserLeaves ==
  ASSUME BatchTyped, UsersCount, NEW u \in StillToDo, StillToDo' = StillToDo \ {u}, usersDone' = usersDone + 1,
         totalUsers' = totalUsers, Live' => Live, caller' = caller
  PROVE  UsersCount'
<1>1. /\ IsFiniteSet(StillToDo) /\ IsFiniteSet(StillToDo \ {u}) /\ Cardinality(StillToDo) \in Nat
      /\ Cardinality(StillToDo \ {u}) = Cardinality(StillToDo) - 1
  BY FS_RemoveElement, FS_CardinalityType DEF UsersCount
<1>2. Cardinality(StillToDo') = Cardinality(StillToDo) - 1 /\ IsFiniteSet(StillToDo')
  BY <1>1
<1>. QED  BY <1>1, <1>2 DEF UsersCount, BatchTyped

(* A user is lost, which only a cancellation brings about.                                       *)
LEMMA UserIsLost ==
  ASSUME BatchTyped, UsersCount, NEW u \in StillToDo, StillToDo' = StillToDo \ {u}, usersDone' = usersDone,
         totalUsers' = totalUsers, ~Live', caller' = caller
  PROVE  UsersCount'
<1>1. /\ IsFiniteSet(StillToDo) /\ IsFiniteSet(StillToDo \ {u}) /\ Cardinality(StillToDo) \in Nat
      /\ Cardinality(StillToDo \ {u}) = Cardinality(StillToDo) - 1
  BY FS_RemoveElement, FS_CardinalityType DEF UsersCount
<1>2. Cardinality(StillToDo') = Cardinality(StillToDo) - 1 /\ IsFiniteSet(StillToDo')
  BY <1>1
<1>. QED  BY <1>1, <1>2 DEF UsersCount, BatchTyped

-----------------------------------------------------------------------------
(* The caller reads failures, returns, or the context is cancelled.        *)

LEMMA CallKeeps ==
  ASSUME BatchInv, ReadFail \/ BatchReturn \/ CancelBatch
  PROVE  BatchInv'
<1>. USE DEF BatchInv
<1>1. /\ UNCHANGED <<packaged, round, heap, retryUsers, prod, sent, openTweets, tweetCh, tweetClosed, errClosed, worker,
                     saved, usersDone, totalUsers, panics>>
      /\ Live' => Live
      /\ \/ caller = "read" /\ errCh # <<>> /\ fails' = fails \cup {Head(errCh)} /\ errCh' = Tail(errCh)
            /\ UNCHANGED <<caller, cause>>
         \/ caller = "read" /\ errClosed /\ errCh = <<>> /\ caller' = "returned" /\ UNCHANGED <<errCh, fails, cause>>
         \/ ~Live' /\ UNCHANGED <<caller, errCh, fails>>
  <2>. USE DEF startVars, fetchVars, chanVars, workVars, progressVars, doneVars, Live
  <2>1. CASE ReadFail
    BY <2>1 DEF ReadFail
  <2>2. CASE BatchReturn
    BY <2>2 DEF BatchReturn
  <2>3. CASE CancelBatch
    BY <2>3 DEF CancelBatch
  <2>. QED  BY <2>1, <2>2, <2>3
<1>2. errCh' \in Seq(Tweets) /\ Range(errCh) \cup fails \subseteq Range(errCh') \cup fails'
  <2>1. errCh \in Seq(Tweets)
    BY DEF BatchTyped
  <2>2. errCh # <<>> => Tail(errCh) \in Seq(Tweets) /\ Range(errCh) = Range(Tail(errCh)) \cup {Head(errCh)}
    BY <2>1, ChannelReceive
  <2>. QED  BY <1>1, <2>1, <2>2
<1>3. BatchTyped'
  BY <1>1, <1>2 DEF BatchTyped
<1>4. BeforeStart'
  BY <1>1 DEF BeforeStart
<1>5. ClosesInOrder'
  BY <1>1 DEF ClosesInOrder
<1>6. OnePlace' /\ FetchedOnce' /\ StillToDo' = StillToDo
  BY <1>1 DEF OnePlace, FetchedOnce, Unfetched, StillToDo
<1>7. UsersCount'
  BY <1>1, <1>6, UsersStand
<1>8. TweetsCount' /\ SentBefore' /\ TweetsApart'
  BY <1>1, TweetsStand
<1>9. NothingDropped'
  BY <1>1, <1>2, NothingFalls
<1>. QED  BY <1>3, <1>4, <1>5, <1>6, <1>7, <1>8, <1>9

-----------------------------------------------------------------------------
(* The scheduling goroutine.                                               *)

(* It moves users from place to place, and gives one up that is too deep.                        *)
LEMMA ScheduleMoves ==
  ASSUME BatchInv, Schedule
  PROVE  /\ UNCHANGED <<packaged, caller, worker, saved, fails, openTweets, totalUsers, panics, sent, tweetCh, errCh, cause>>
         /\ caller = "read" /\ ~errClosed
         /\ heap' \subseteq Users /\ retryUsers' \subseteq Users /\ usersDone' \in Nat
         /\ prod' \in [Users -> {"out", "submitted", "select", "fetch", "backoff", "send"}]
         /\ round'.at \in RoundPlaces
         /\ \A u \in Users : prod'[u] = "send" <=> prod[u] = "send"
         /\ OnePlace'
         /\ \A u \in Users : Unfetched(u)' => Unfetched(u)
         /\ \/ StillToDo' = StillToDo /\ usersDone' = usersDone
            \/ \E u \in StillToDo : StillToDo' = StillToDo \ {u} /\ usersDone' = usersDone + 1
<1>. USE DEF BatchInv
<1>1. caller = "read" /\ ~errClosed
  <2>1. round.at # "ended"
    BY DEF Schedule, RoundTop, Peek, Pop, Submit, EndSelect, WaitRound, RetryDelay, CloseTweets, CloseErrors
  <2>2. ~errClosed
    BY <2>1 DEF ClosesInOrder
  <2>3. caller = "read" \/ round.at # "top"
    BY DEF Schedule, RoundTop, Peek, Pop, Submit, EndSelect, WaitRound, RetryDelay, CloseTweets, CloseErrors
  <2>. QED  BY <2>2, <2>3 DEF BeforeStart
<1>2. UNCHANGED <<packaged, caller, worker, saved, fails, openTweets, totalUsers, panics, sent, tweetCh, errCh, cause>>
  BY DEF Schedule, RoundTop, Peek, Pop, Submit, EndSelect, WaitRound, RetryDelay, CloseTweets, CloseErrors,
     RoundUnchanged, startVars, fetchVars, chanVars
<1>3. round'.at \in RoundPlaces
  BY DEF Schedule, RoundTop, Peek, Pop, Submit, EndSelect, WaitRound, RetryDelay, CloseTweets, CloseErrors,
     Round, RoundPlaces
<1>4. CASE RoundTop
  <2>1. UNCHANGED <<prod, usersDone>> /\ heap' \cup retryUsers' = heap \cup retryUsers
        /\ (retryUsers' = {} \/ UNCHANGED <<heap, retryUsers>>)
    BY <1>4 DEF RoundTop, doneVars
  <2>2. \A u \in Users : Unfetched(u)' <=> Unfetched(u)
    BY <2>1 DEF Unfetched
  <2>3. OnePlace'
    BY <2>1 DEF OnePlace
  <2>. QED  BY <1>1, <1>2, <1>3, <2>1, <2>2, <2>3 DEF BatchTyped, StillToDo
<1>5. CASE Pop
  <2>1. PICK u \in heap :
          /\ heap' = heap \ {u} /\ UNCHANGED retryUsers
          /\ \/ usersDone' = usersDone + 1 /\ UNCHANGED prod
             \/ prod' = [prod EXCEPT ![u] = "submitted"] /\ UNCHANGED usersDone
    BY <1>5 DEF Pop, MarkDone, doneVars
  <2>2. u \in Users /\ prod[u] = "out" /\ u \notin retryUsers /\ openTweets[u] = 0 /\ u \in StillToDo
    BY DEF BatchTyped, OnePlace, FetchedOnce, Unfetched, StillToDo
  <2>3. CASE usersDone' = usersDone + 1 /\ UNCHANGED prod
    <3>1. \A v \in Users : Unfetched(v)' <=> Unfetched(v) /\ v # u
      BY <2>1, <2>2, <2>3 DEF Unfetched
    <3>2. StillToDo' = StillToDo \ {u}
      BY <1>2, <2>2, <3>1 DEF StillToDo
    <3>3. OnePlace'
      BY <2>1, <2>3 DEF OnePlace
    <3>. QED  BY <1>1, <1>2, <1>3, <2>1, <2>2, <2>3, <3>1, <3>2, <3>3 DEF BatchTyped
  <2>4. CASE prod' = [prod EXCEPT ![u] = "submitted"] /\ UNCHANGED usersDone
    <3>0. prod' \in [Users -> {"out", "submitted", "select", "fetch", "backoff", "send"}] /\ prod'[u] = "submitted"
          /\ \A v \in Users \ {u} : prod'[v] = prod[v]
      BY <2>2, <2>4 DEF BatchTyped
    <3>1. \A v \in Users : Unfetched(v)' <=> Unfetched(v)
      BY <2>1, <2>2, <3>0 DEF Unfetched
    <3>2. StillToDo' = StillToDo
      BY <1>2, <3>1 DEF StillToDo
    <3>3. OnePlace'
      BY <2>1, <2>2, <3>0 DEF OnePlace, BatchTyped
    <3>. QED  BY <1>1, <1>2, <1>3, <2>1, <2>2, <2>4, <3>0, <3>1, <3>2, <3>3 DEF BatchTyped
  <2>. QED  BY <2>1, <2>3, <2>4
<1>6. CASE Submit
  <2>. DEFINE u == round.peeked
  <2>1. prod' = [prod EXCEPT ![u] = "select"] /\ UNCHANGED <<heap, retryUsers, usersDone>> /\ round.at = "submit"
    BY <1>6 DEF Submit, doneVars
  <2>2. u \in Users /\ prod[u] = "submitted"
    BY <2>1 DEF ClosesInOrder
  <2>3. prod' \in [Users -> {"out", "submitted", "select", "fetch", "backoff", "send"}] /\ prod'[u] = "select"
        /\ \A v \in Users \ {u} : prod'[v] = prod[v]
    BY <2>1, <2>2 DEF BatchTyped
  <2>. HIDE DEF u
  <2>4. \A v \in Users : Unfetched(v)' <=> Unfetched(v)
    BY <2>1, <2>2, <2>3 DEF Unfetched
  <2>5. OnePlace'
    BY <2>1, <2>2, <2>3 DEF OnePlace, BatchTyped
  <2>. QED  BY <1>1, <1>2, <1>3, <2>1, <2>2, <2>3, <2>4, <2>5 DEF BatchTyped, StillToDo
<1>7. CASE Peek \/ EndSelect \/ WaitRound \/ RetryDelay \/ CloseTweets \/ CloseErrors
  <2>1. UNCHANGED <<heap, retryUsers, prod, usersDone>>
    BY <1>7 DEF Peek, EndSelect, WaitRound, RetryDelay, CloseTweets, CloseErrors, fetchVars, doneVars
  <2>2. \A v \in Users : Unfetched(v)' <=> Unfetched(v)
    BY <2>1 DEF Unfetched
  <2>3. OnePlace'
    BY <2>1 DEF OnePlace
  <2>. QED  BY <1>1, <1>2, <1>3, <2>1, <2>2, <2>3 DEF BatchTyped, StillToDo
<1>. QED  BY <1>4, <1>5, <1>6, <1>7 DEF Schedule

LEMMA ScheduleKeeps ==
  ASSUME BatchInv, Schedule
  PROVE  BatchInv'
<1>. USE DEF BatchInv
<1>1. /\ UNCHANGED <<packaged, caller, worker, saved, fails, openTweets, totalUsers, panics, sent, tweetCh, errCh, cause>>
      /\ caller = "read" /\ ~errClosed
      /\ heap' \subseteq Users /\ retryUsers' \subseteq Users /\ usersDone' \in Nat
      /\ prod' \in [Users -> {"out", "submitted", "select", "fetch", "backoff", "send"}]
      /\ round'.at \in RoundPlaces
      /\ \A u \in Users : prod'[u] = "send" <=> prod[u] = "send"
      /\ OnePlace'
      /\ \A u \in Users : Unfetched(u)' => Unfetched(u)
  BY ScheduleMoves
<1>2. \/ StillToDo' = StillToDo /\ usersDone' = usersDone
      \/ \E u \in StillToDo : StillToDo' = StillToDo \ {u} /\ usersDone' = usersDone + 1
  BY ScheduleMoves
<1>3. Live' => Live
  BY <1>1 DEF Live
<1>4. BatchTyped'
  BY <1>1 DEF BatchTyped
<1>5. BeforeStart'
  BY <1>1 DEF BeforeStart
<1>6. FetchedOnce'
  BY <1>1 DEF FetchedOnce
<1>7. UsersCount'
  BY <1>1, <1>2, <1>3, UsersStand, UserLeaves
<1>8. TweetsCount' /\ SentBefore' /\ TweetsApart'
  BY <1>1, <1>3, TweetsStand
<1>9. NothingDropped'
  BY <1>1, NothingFalls
<1>10. ClosesInOrder'
  <2>. USE DEF ClosesInOrder
  <2>1. CASE RoundTop
    BY <1>1, <2>1 DEF RoundTop, Round, chanVars, Live
  <2>2. CASE Peek
    <3>1. round'.at \in {"wait", "pop"} /\ round.at = "select" /\ UNCHANGED <<tweetClosed, errClosed>>
      BY <2>2 DEF Peek, Round, chanVars
    <3>. QED  BY <1>1, <3>1
  <2>3. CASE Pop
    <3>1. PICK u \in heap :
            /\ UNCHANGED <<tweetClosed, errClosed>> /\ round.at = "pop"
            /\ \/ round'.at = "select" /\ UNCHANGED prod
               \/ prod' = [prod EXCEPT ![u] = "submitted"] /\ round'.at = "submit" /\ round'.peeked = u
      BY <2>3 DEF Pop, Round, chanVars
    <3>2. u \in Users
      BY DEF BatchTyped
    <3>3. round'.at = "submit" => round'.peeked \in Users /\ prod'[round'.peeked] = "submitted"
      BY <3>1, <3>2 DEF BatchTyped
    <3>. QED  BY <1>1, <3>1, <3>3
  <2>4. CASE Submit
    <3>1. round'.at = "select" /\ round.at = "submit" /\ UNCHANGED <<tweetClosed, errClosed>>
      BY <2>4 DEF Submit, Round, chanVars
    <3>. QED  BY <1>1, <3>1
  <2>5. CASE EndSelect
    <3>1. round'.at = "wait" /\ round.at = "select" /\ UNCHANGED <<tweetClosed, errClosed>>
      BY <2>5 DEF EndSelect, Round, chanVars
    <3>. QED  BY <1>1, <3>1
  <2>6. CASE WaitRound
    <3>1. /\ UNCHANGED <<tweetClosed, errClosed, prod, heap, retryUsers>> /\ round.at = "wait"
          /\ \A u \in Users : prod[u] = "out"
          /\ round'.at \in {"close", "select", "delay"}
          /\ Live /\ round'.at = "close" => heap = {} /\ retryUsers = {}
      BY <2>6 DEF WaitRound, Round, chanVars, fetchVars
    <3>. QED  BY <1>1, <1>3, <3>1
  <2>7. CASE RetryDelay
    <3>1. /\ UNCHANGED <<tweetClosed, errClosed, prod, heap, retryUsers>> /\ round.at = "delay"
          /\ round'.at = IF Live THEN "top" ELSE "close"
      BY <2>7 DEF RetryDelay, Round, chanVars, fetchVars
    <3>. QED  BY <1>1, <1>3, <3>1
  <2>8. CASE CloseTweets
    <3>1. /\ UNCHANGED <<errClosed, prod, heap, retryUsers>> /\ round.at = "close"
          /\ round'.at = "join" /\ tweetClosed' = TRUE
      BY <2>8 DEF CloseTweets, Round, fetchVars
    <3>. QED  BY <1>1, <1>3, <3>1
  <2>9. CASE CloseErrors
    <3>1. /\ UNCHANGED <<tweetClosed, prod, heap, retryUsers>> /\ round.at = "join"
          /\ round'.at = "ended" /\ errClosed' = TRUE /\ \A w \in Workers : worker[w].st = "gone"
      BY <2>9 DEF CloseErrors, Round, fetchVars
    <3>. QED  BY <1>1, <1>3, <3>1
  <2>. QED  BY <2>1, <2>2, <2>3, <2>4, <2>5, <2>6, <2>7, <2>8, <2>9 DEF Schedule
<1>. QED  BY <1>1, <1>4, <1>5, <1>6, <1>7, <1>8, <1>9, <1>10

-----------------------------------------------------------------------------
(* Producers.                                                              *)

(* A producer has nothing to do before the start, nor after a channel is closed.                 *)
LEMMA ProducerRuns ==
  ASSUME BatchInv, NEW u \in Users, prod[u] # "out"
  PROVE  /\ round.at \notin {"top", "delay", "close", "join", "ended"} /\ ~tweetClosed /\ ~errClosed
         /\ caller = "read" /\ u \notin heap /\ u \notin retryUsers
         /\ \A w \in Workers : worker[w].st # "gone"
<1>. USE DEF BatchInv
<1>1. round.at \notin {"top", "delay", "close", "join", "ended"}
  BY DEF ClosesInOrder
<1>. QED  BY <1>1 DEF ClosesInOrder, BeforeStart, OnePlace

(* A producer that has not fetched its user yet goes on with it, gives it back or is done with   *)
(* it: nothing else changes than where that user is.                                             *)
LEMMA UnfetchedKeeps ==
  ASSUME BatchInv, NEW u \in Users, prod[u] \in {"select", "fetch", "backoff"},
         NEW where \in {"out", "select", "fetch", "backoff"}, prod' = [prod EXCEPT ![u] = where],
         UNCHANGED <<packaged, caller, worker, saved, fails, openTweets, totalUsers, sent, tweetCh, tweetClosed,
                     errCh, errClosed, round>>,
         Live' => Live, panics' \in {panics, panics + 1},
         \/ where # "out" /\ UNCHANGED <<heap, retryUsers, usersDone>>
         \/ where = "out" /\ heap' = heap \cup {u} /\ UNCHANGED <<retryUsers, usersDone>>
         \/ where = "out" /\ retryUsers' = retryUsers \cup {u} /\ UNCHANGED <<heap, usersDone>>
         \/ where = "out" /\ usersDone' = usersDone + 1 /\ UNCHANGED <<heap, retryUsers>>
         \/ where = "out" /\ ~Live' /\ UNCHANGED <<heap, retryUsers, usersDone>>
  PROVE  BatchInv'
<1>. USE DEF BatchInv
<1>1. /\ prod' \in [Users -> {"out", "submitted", "select", "fetch", "backoff", "send"}]
      /\ prod'[u] = where /\ \A v \in Users \ {u} : prod'[v] = prod[v]
  BY DEF BatchTyped
<1>2. /\ round.at \notin {"top", "delay", "close", "join", "ended"} /\ ~tweetClosed /\ ~errClosed
      /\ caller = "read" /\ u \notin heap /\ u \notin retryUsers
      /\ \A w \in Workers : worker[w].st # "gone"
  BY ProducerRuns
<1>3. sent[u] = 0 /\ openTweets[u] = 0 /\ Unfetched(u) /\ u \in StillToDo
  BY DEF FetchedOnce, Unfetched, StillToDo
<1>4. BatchTyped'
  BY <1>1 DEF BatchTyped
<1>5. BeforeStart'
  BY <1>2 DEF BeforeStart
<1>6. ClosesInOrder'
  <2>1. round.at = "submit" => round.peeked # u
    BY DEF ClosesInOrder
  <2>. QED  BY <1>1, <1>2, <2>1 DEF ClosesInOrder
<1>7. OnePlace'
  BY <1>1, <1>2 DEF OnePlace, BatchTyped
<1>8. \A v \in Users \ {u} : Unfetched(v)' <=> Unfetched(v)
  BY <1>1 DEF Unfetched
<1>9. FetchedOnce'
  BY <1>3, <1>8 DEF FetchedOnce
<1>10. UsersCount'
  <2>1. Live' => Live
    OBVIOUS
  <2>2. CASE Unfetched(u)'
    <3>1. StillToDo' = StillToDo
      BY <1>3, <1>8, <2>2 DEF StillToDo
    <3>2. CASE usersDone' = usersDone
      BY <2>1, <3>1, <3>2, UsersStand
    <3>3. CASE usersDone' = usersDone + 1 /\ where = "out" /\ UNCHANGED <<heap, retryUsers>>
      BY <1>1, <1>2, <2>2, <3>3 DEF Unfetched
    <3>. QED  BY <3>2, <3>3
  <2>3. CASE ~Unfetched(u)'
    <3>1. StillToDo' = StillToDo \ {u}
      BY <1>3, <1>8, <2>3 DEF StillToDo
    <3>2. usersDone' = usersDone + 1 \/ (~Live' /\ usersDone' = usersDone)
      BY <1>1, <2>3 DEF Unfetched
    <3>. QED  BY <1>3, <3>1, <3>2, UserLeaves, UserIsLost
  <2>. QED  BY <2>2, <2>3
<1>11. TweetsCount' /\ SentBefore' /\ TweetsApart'
  <2>1. \A v \in Users : prod'[v] = "send" <=> prod[v] = "send"
    BY <1>1
  <2>. QED  BY <2>1, TweetsStand
<1>12. NothingDropped'
  BY NothingFalls DEF BatchTyped
<1>. QED  BY <1>4, <1>5, <1>6, <1>7, <1>9, <1>10, <1>11, <1>12

(* A producer chooses an account, meets a limit, fails, finds nothing or panics.                 *)
LEMMA FetchingKeeps ==
  ASSUME BatchInv, NEW u \in Users,
         SelectClient(u) \/ (Fetch(u) /\ prod' # [prod EXCEPT ![u] = "send"]) \/ Backoff(u) \/ ProducerPanic(u)
  PROVE  BatchInv'
<1>. DEFINE Elsewhere(where) ==
       \/ where # "out" /\ UNCHANGED <<heap, retryUsers, usersDone>>
       \/ where = "out" /\ heap' = heap \cup {u} /\ UNCHANGED <<retryUsers, usersDone>>
       \/ where = "out" /\ retryUsers' = retryUsers \cup {u} /\ UNCHANGED <<heap, usersDone>>
       \/ where = "out" /\ usersDone' = usersDone + 1 /\ UNCHANGED <<heap, retryUsers>>
       \/ where = "out" /\ ~Live' /\ UNCHANGED <<heap, retryUsers, usersDone>>
<1>1. /\ prod[u] \in {"select", "fetch", "backoff"}
      /\ UNCHANGED <<packaged, caller, worker, saved, fails, openTweets, totalUsers, sent, tweetCh, tweetClosed,
                     errCh, errClosed, round>>
      /\ Live' => Live
      /\ panics' \in {panics, panics + 1}
      /\ \E where \in {"out", "select", "fetch", "backoff"} :
           prod' = [prod EXCEPT ![u] = where] /\ Elsewhere(where)
  <2>. USE DEF ProducerUnchanged, startVars, workVars, Live, CancelWith, Leave, GiveBack, UserDone, MarkDone, doneVars
  <2>1. CASE SelectClient(u)
    BY <2>1 DEF SelectClient
  <2>2. CASE Fetch(u) /\ prod' # [prod EXCEPT ![u] = "send"]
    BY <2>2 DEF Fetch
  <2>3. CASE Backoff(u)
    BY <2>3 DEF Backoff
  <2>4. CASE ProducerPanic(u)
    BY <2>4 DEF ProducerPanic
  <2>. QED  BY <2>1, <2>2, <2>3, <2>4
<1>2. PICK where \in {"out", "select", "fetch", "backoff"} : prod' = [prod EXCEPT ![u] = where] /\ Elsewhere(where)
  BY <1>1
<1>. QED  BY <1>1, <1>2, UnfetchedKeeps

(* The fetch found new tweets: none of them is sent yet.                                         *)
LEMMA FoundKeeps ==
  ASSUME BatchInv, NEW u \in Users, Fetch(u), prod' = [prod EXCEPT ![u] = "send"]
  PROVE  BatchInv'
<1>. USE DEF BatchInv
<1>1. /\ prod[u] = "fetch" /\ Media[u] > 0 /\ openTweets' = [openTweets EXCEPT ![u] = Media[u]]
      /\ UNCHANGED <<packaged, caller, cause, worker, saved, fails, totalUsers, sent, tweetCh, tweetClosed,
                     errCh, errClosed, round, heap, retryUsers, usersDone, panics>>
  <2>1. prod'[u] = "send"
    BY DEF BatchTyped
  <2>2. Fetch(u) => \/ \E where \in {"out", "backoff"} : prod' = [prod EXCEPT ![u] = where]
                    \/ Media[u] > 0 /\ openTweets' = [openTweets EXCEPT ![u] = Media[u]]
                       /\ UNCHANGED <<heap, retryUsers, usersDone>>
    BY DEF Fetch, GiveBack, Leave, doneVars
  <2>3. \A where \in {"out", "backoff"} : prod' # [prod EXCEPT ![u] = where]
    BY <2>1 DEF BatchTyped
  <2>. QED  BY <2>2, <2>3 DEF Fetch, ProducerUnchanged, startVars, workVars, doneVars
<1>2. /\ prod' \in [Users -> {"out", "submitted", "select", "fetch", "backoff", "send"}]
      /\ prod'[u] = "send" /\ \A v \in Users \ {u} : prod'[v] = prod[v]
  BY DEF BatchTyped
<1>3. /\ openTweets' \in [Users -> Int] /\ openTweets'[u] = Media[u] /\ Media[u] \in Nat
      /\ \A v \in Users \ {u} : openTweets'[v] = openTweets[v]
  <2>1. Media[u] \in Nat /\ Media[u] \in Int
    BY BatchAssumption
  <2>. QED  BY <1>1, <2>1 DEF BatchTyped
<1>4. /\ round.at \notin {"top", "delay", "close", "join", "ended"} /\ ~tweetClosed /\ ~errClosed
      /\ caller = "read" /\ u \notin heap /\ u \notin retryUsers
      /\ \A w \in Workers : worker[w].st # "gone"
  BY <1>1, ProducerRuns
<1>5. sent[u] = 0 /\ Unfetched(u) /\ u \in StillToDo
  BY <1>1 DEF FetchedOnce, Unfetched, StillToDo
<1>6. Live' => Live
  BY <1>1 DEF Live
<1>7. BatchTyped'
  BY <1>1, <1>2, <1>3 DEF BatchTyped
<1>8. BeforeStart'
  BY <1>1, <1>4 DEF BeforeStart
<1>9. ClosesInOrder'
  <2>1. round.at = "submit" => round.peeked # u
    BY <1>1 DEF ClosesInOrder
  <2>. QED  BY <1>1, <1>2, <1>4, <1>6, <2>1 DEF ClosesInOrder
<1>10. OnePlace'
  BY <1>1, <1>2, <1>4 DEF OnePlace, BatchTyped
<1>11. \A v \in Users \ {u} : Unfetched(v)' <=> Unfetched(v)
  BY <1>1, <1>2 DEF Unfetched
<1>12. ~Unfetched(u)'
  BY <1>1, <1>2, <1>4 DEF Unfetched
<1>13. FetchedOnce'
  BY <1>1, <1>3, <1>11, <1>12 DEF FetchedOnce
<1>14. UsersCount'
  <2>1. StillToDo' = StillToDo
    BY <1>1, <1>3, <1>5, <1>11, <1>12 DEF StillToDo
  <2>. QED  BY <1>1, <1>6, <2>1, UsersStand
<1>15. TweetsCount'
  <2>1. SUFFICES ASSUME Live, NEW v \in Users
                 PROVE  openTweets'[v] = Cardinality(InFlight(v)') + IF prod'[v] = "send" THEN Media[v] - sent'[v] ELSE 0
    BY <1>6 DEF TweetsCount
  <2>2. CASE v = u
    <3>1. InFlight(u)' = {} /\ sent'[u] = 0
      <4>1. 1..0 = {}
        OBVIOUS
      <4>. QED  BY <1>1, <1>5, <4>1 DEF InFlight
    <3>. QED  BY <1>2, <1>3, <2>2, <3>1, FS_EmptySet
  <2>3. CASE v # u
    <3>1. InFlight(v)' = InFlight(v)
      BY <1>1 DEF InFlight, WithWorker
    <3>. QED  BY <1>1, <1>2, <1>3, <2>1, <2>3, <3>1 DEF TweetsCount
  <2>. QED  BY <2>2, <2>3
<1>16. SentBefore' /\ TweetsApart'
  BY <1>1, <1>6 DEF SentBefore, TweetsApart
<1>17. NothingDropped'
  BY <1>1, NothingFalls
<1>. QED  BY <1>7, <1>8, <1>9, <1>10, <1>13, <1>14, <1>15, <1>16, <1>17

(* A producer that sends is done: all its tweets are sent, or the context has ended.             *)
LEMMA SentKeeps ==
  ASSUME BatchInv, NEW u \in Users, StopSending(u) \/ AdvanceRelease(u)
  PROVE  BatchInv'
<1>. USE DEF BatchInv
<1>1. /\ prod[u] = "send" /\ prod' = [prod EXCEPT ![u] = "out"] /\ (Live => sent[u] = Media[u])
      /\ UNCHANGED <<packaged, caller, cause, worker, saved, fails, openTweets, totalUsers, sent, tweetCh, tweetClosed,
                     errCh, errClosed, round, heap, retryUsers, usersDone, panics>>
  BY DEF StopSending, AdvanceRelease, ProducerUnchanged, startVars, workVars, doneVars, Leave
<1>2. /\ prod' \in [Users -> {"out", "submitted", "select", "fetch", "backoff", "send"}]
      /\ prod'[u] = "out" /\ \A v \in Users \ {u} : prod'[v] = prod[v]
  BY <1>1 DEF BatchTyped
<1>3. /\ round.at \notin {"top", "delay", "close", "join", "ended"} /\ ~tweetClosed /\ ~errClosed
      /\ caller = "read" /\ u \notin heap /\ u \notin retryUsers
      /\ \A w \in Workers : worker[w].st # "gone"
  BY <1>1, ProducerRuns
<1>4. Live' => Live
  BY <1>1 DEF Live
<1>5. BatchTyped' /\ BeforeStart'
  BY <1>1, <1>2, <1>3 DEF BatchTyped, BeforeStart
<1>6. ClosesInOrder'
  <2>1. round.at = "submit" => round.peeked # u
    BY <1>1 DEF ClosesInOrder
  <2>. QED  BY <1>1, <1>2, <1>3, <1>4, <2>1 DEF ClosesInOrder
<1>7. OnePlace'
  BY <1>1, <1>2, <1>3 DEF OnePlace, BatchTyped
<1>8. \A v \in Users : Unfetched(v)' <=> Unfetched(v)
  BY <1>1, <1>2, <1>3 DEF Unfetched
<1>9. FetchedOnce' /\ StillToDo' = StillToDo
  BY <1>1, <1>8 DEF FetchedOnce, StillToDo
<1>10. UsersCount'
  BY <1>1, <1>4, <1>9, UsersStand
<1>11. TweetsCount'
  <2>1. SUFFICES ASSUME Live, NEW v \in Users
                 PROVE  openTweets'[v] = Cardinality(InFlight(v)') + IF prod'[v] = "send" THEN Media[v] - sent'[v] ELSE 0
    BY <1>4 DEF TweetsCount
  <2>2. InFlight(v)' = InFlight(v)
    BY <1>1 DEF InFlight, WithWorker
  <2>3. openTweets[v] = Cardinality(InFlight(v)) + IF prod[v] = "send" THEN Media[v] - sent[v] ELSE 0
    BY <2>1 DEF TweetsCount
  <2>4. Media[v] \in Nat /\ Media[v] - Media[v] = 0
    BY BatchAssumption
  <2>. QED  BY <1>1, <1>2, <2>1, <2>2, <2>3, <2>4
<1>12. SentBefore' /\ TweetsApart'
  BY <1>1, <1>4 DEF SentBefore, TweetsApart
<1>13. NothingDropped'
  BY <1>1, NothingFalls
<1>. QED  BY <1>5, <1>6, <1>7, <1>9, <1>10, <1>11, <1>12, <1>13

(* A tweet that is sent was in no channel and with no worker before.                             *)
LEMMA FlightIsFinite == ASSUME BatchTyped, NEW u \in Users PROVE IsFiniteSet(InFlight(u)) /\ Cardinality(InFlight(u)) \in Nat
<1>1. sent[u] \in Nat /\ IsFiniteSet(1..sent[u])
  BY FS_Interval DEF BatchTyped
<1>2. InFlight(u) \subseteq 1..sent[u]
  BY DEF InFlight
<1>. QED  BY <1>1, <1>2, FS_Subset, FS_CardinalityType

LEMMA SendKeeps ==
  ASSUME BatchInv, NEW u \in Users, SendTweet(u)
  PROVE  BatchInv'
<1>. USE DEF BatchInv
<1>. DEFINE new == <<u, sent[u] + 1>>
<1>1. /\ prod[u] = "send" /\ sent[u] < Media[u] /\ tweetCh' = Append(tweetCh, new)
      /\ sent' = [sent EXCEPT ![u] = @ + 1]
      /\ UNCHANGED <<packaged, caller, cause, worker, saved, fails, openTweets, totalUsers, prod, tweetClosed,
                     errCh, errClosed, round, heap, retryUsers, usersDone, panics>>
  BY DEF SendTweet, ProducerUnchanged, startVars, workVars, doneVars
<1>2. /\ sent' \in [Users -> Nat] /\ sent[u] \in Nat /\ sent'[u] = sent[u] + 1
      /\ \A v \in Users \ {u} : sent'[v] = sent[v]
      /\ \A v \in Users : sent[v] \in Nat /\ sent[v] <= sent'[v]
  BY <1>1 DEF BatchTyped
<1>3. new \in Tweets /\ new[1] = u /\ new[2] = sent[u] + 1 /\ Media[u] \in Nat
  <2>1. Media[u] \in Nat
    BY BatchAssumption
  <2>2. sent[u] + 1 \in 1..Media[u]
    BY <1>1, <1>2, <2>1
  <2>. QED  BY <2>1, <2>2, TweetFacts
<1>. HIDE DEF new
<1>4. tweetCh \in Seq(Tweets) /\ tweetCh' \in Seq(Tweets) /\ Range(tweetCh') = Range(tweetCh) \cup {new}
  BY <1>1, <1>3, ChannelSend DEF BatchTyped
<1>5. new \notin Range(tweetCh) /\ ~WithWorker(new)
  <2>1. ~(sent[u] + 1 <= sent[u])
    BY <1>2
  <2>2. \A w \in Workers : worker[w].tweet = new => worker[w].tweet # NoTweet
    BY <1>3, TweetFacts
  <2>. QED  BY <1>3, <2>1, <2>2 DEF SentBefore, WithWorker
<1>6. /\ round.at \notin {"top", "delay", "close", "join", "ended"} /\ ~tweetClosed /\ ~errClosed
      /\ caller = "read" /\ u \notin heap /\ u \notin retryUsers
      /\ \A w \in Workers : worker[w].st # "gone"
  BY <1>1, ProducerRuns
<1>7. Live' <=> Live
  BY <1>1 DEF Live
<1>8. BatchTyped'
  BY <1>1, <1>2, <1>4 DEF BatchTyped
<1>9. BeforeStart'
  BY <1>1, <1>6 DEF BeforeStart
<1>10. ClosesInOrder' /\ OnePlace'
  BY <1>1, <1>6, <1>7 DEF ClosesInOrder, OnePlace
<1>11. (\A v \in Users : Unfetched(v)' <=> Unfetched(v)) /\ ~Unfetched(u)
  BY <1>1, <1>6 DEF Unfetched
<1>12. FetchedOnce' /\ StillToDo' = StillToDo
  BY <1>1, <1>2, <1>11 DEF FetchedOnce, StillToDo
<1>13. UsersCount'
  BY <1>1, <1>7, <1>12, UsersStand
<1>14. TweetsCount'
  <2>1. SUFFICES ASSUME Live, NEW v \in Users
                 PROVE  openTweets'[v] = Cardinality(InFlight(v)') + IF prod'[v] = "send" THEN Media[v] - sent'[v] ELSE 0
    BY <1>7 DEF TweetsCount
  <2>2. openTweets[v] = Cardinality(InFlight(v)) + IF prod[v] = "send" THEN Media[v] - sent[v] ELSE 0
    BY <2>1 DEF TweetsCount
  <2>3. \A t : WithWorker(t)' <=> WithWorker(t)
    BY <1>1 DEF WithWorker
  <2>4. CASE v = u
    <3>1. InFlight(u)' = InFlight(u) \cup {sent[u] + 1} /\ sent[u] + 1 \notin InFlight(u)
      <4>1. 1..sent'[u] = (1..sent[u]) \cup {sent[u] + 1} /\ sent[u] + 1 \notin 1..sent[u]
        BY <1>2
      <4>2. new = <<u, sent[u] + 1>>
        BY DEF new
      <4>3. \A i \in 1..sent[u] : <<u, i>> # new
        BY <4>1, <4>2
      <4>. QED  BY <1>4, <2>3, <4>1, <4>2, <4>3 DEF InFlight
    <3>2. Cardinality(InFlight(u)') = Cardinality(InFlight(u)) + 1 /\ Cardinality(InFlight(u)) \in Nat
      BY <3>1, FlightIsFinite, FS_AddElement
    <3>. QED  BY <1>1, <1>2, <1>3, <2>2, <2>4, <3>2
  <2>5. CASE v # u
    <3>1. InFlight(v)' = InFlight(v)
      <4>1. \A i \in 1..sent[v] : <<v, i>> # new
        BY <2>5 DEF new
      <4>2. sent'[v] = sent[v]
        BY <1>2, <2>5
      <4>. QED  BY <1>4, <2>3, <4>1, <4>2 DEF InFlight
    <3>. QED  BY <1>1, <1>2, <2>2, <2>5, <3>1
  <2>. QED  BY <2>4, <2>5
<1>15. SentBefore'
  <2>1. \A t \in Tweets : t[2] <= sent[t[1]] => t[2] <= sent'[t[1]]
    <3>1. SUFFICES ASSUME NEW t \in Tweets, t[2] <= sent[t[1]] PROVE t[2] <= sent'[t[1]]
      OBVIOUS
    <3>2. t[1] \in Users /\ t[2] \in Nat
      BY TweetFacts
    <3>. QED  BY <1>2, <3>1, <3>2
  <2>2. Range(tweetCh) \subseteq Tweets
    BY <1>4 DEF Range
  <2>3. \A w \in Workers : worker[w].tweet # NoTweet => worker[w].tweet \in Tweets
    BY DEF BatchTyped
  <2>4. new[2] <= sent'[new[1]]
    BY <1>2, <1>3
  <2>5. \A v \in Users : sent'[v] <= Media[v]
    BY <1>1, <1>2, <1>3 DEF SentBefore
  <2>. QED  BY <1>1, <1>4, <2>1, <2>2, <2>3, <2>4, <2>5 DEF SentBefore
<1>16. TweetsApart'
  <2>1. SUFFICES ASSUME Live PROVE TweetsApart'
    BY <1>7 DEF TweetsApart
  <2>2. \A w \in Workers : worker'[w].st \in Busy => worker'[w].tweet \notin Range(tweetCh')
    BY <1>1, <1>4, <1>5, <2>1 DEF TweetsApart, WithWorker
  <2>3. \A j, k \in DOMAIN tweetCh' : tweetCh'[j] = tweetCh'[k] => j = k
    <3>1. DOMAIN tweetCh' = 1..(Len(tweetCh) + 1) /\ DOMAIN tweetCh = 1..Len(tweetCh) /\ Len(tweetCh) \in Nat
      BY <1>1, <1>3, <1>4
    <3>2. \A i \in 1..(Len(tweetCh) + 1) : tweetCh'[i] = IF i = Len(tweetCh) + 1 THEN new ELSE tweetCh[i]
      BY <1>1, <1>3, <1>4
    <3>3. \A i \in 1..Len(tweetCh) : tweetCh[i] # new
      BY <1>5, <3>1 DEF Range
    <3>4. \A j, k \in 1..Len(tweetCh) : tweetCh[j] = tweetCh[k] => j = k
      BY <2>1, <3>1 DEF TweetsApart
    <3>. QED  BY <3>1, <3>2, <3>3, <3>4
  <2>4. /\ \A v, w \in Workers : worker'[v].st \in Busy /\ worker'[w].st \in Busy /\ worker'[v].tweet = worker'[w].tweet
                                 => v = w
        /\ \A w \in Workers : worker'[w].st \notin {"drain", "drained", "recover", "discard"}
    BY <1>1, <2>1 DEF TweetsApart
  <2>. QED  BY <2>2, <2>3, <2>4 DEF TweetsApart
<1>17. NothingDropped'
  <2>1. SUFFICES ASSUME panics = 0 PROVE NothingDropped'
    BY <1>1 DEF NothingDropped
  <2>2. ASSUME NEW t \in Tweets, t[2] <= sent'[t[1]] PROVE Held(t)'
    <3>1. t[1] \in Users /\ t[2] \in Nat /\ t = <<t[1], t[2]>>
      BY TweetFacts
    <3>2. t[2] <= sent[t[1]] \/ t = new
      BY <1>2, <2>2, <3>1 DEF new
    <3>3. CASE t = new
      BY <1>4, <3>3 DEF Held
    <3>4. CASE t[2] <= sent[t[1]]
      <4>1. Held(t)
        BY <2>1, <3>4 DEF NothingDropped
      <4>. QED  BY <1>1, <1>4, <4>1 DEF Held
    <3>. QED  BY <3>2, <3>3, <3>4
  <2>. QED  BY <1>1, <2>1, <2>2 DEF NothingDropped
<1>. QED  BY <1>8, <1>9, <1>10, <1>12, <1>13, <1>14, <1>15, <1>16, <1>17

-----------------------------------------------------------------------------
(* Workers.                                                                *)

\* What all steps of a worker have in common.
WorkerGoes(w, st, t) ==
  /\ worker[w].st \notin {"none", "gone"} /\ st \in WorkerStates \ {"none"} /\ t \in Tweets \cup {NoTweet}
  /\ worker' = [worker EXCEPT ![w] = AtTweet(st, t)]
  /\ UNCHANGED <<packaged, caller, round, heap, retryUsers, prod, sent, tweetClosed, errClosed, fails, totalUsers>>
  /\ tweetCh' \in Seq(Tweets) /\ errCh' \in Seq(Tweets) /\ (tweetCh = <<>> => tweetCh' = <<>>)
  /\ st = "gone" => tweetClosed /\ tweetCh' = <<>>
  /\ (Live' => Live) /\ panics' \in {panics, panics + 1}
  /\ openTweets' \in [Users -> Int] /\ usersDone' \in Nat

(* A worker at work finds the caller reading; whatever it does, only these parts depend on it.   *)
LEMMA WorkerFrame ==
  ASSUME BatchInv, NEW w \in Workers, NEW st, NEW t, WorkerGoes(w, st, t)
  PROVE  /\ caller = "read" /\ ~errClosed
         /\ worker'[w].st = st /\ worker'[w].tweet = t
         /\ \A v \in Workers \ {w} : worker'[v] = worker[v]
         /\ BatchTyped' /\ BeforeStart' /\ ClosesInOrder' /\ OnePlace'
<1>. USE DEF BatchInv
<1>1. ~errClosed /\ caller = "read"
  <2>1. ~errClosed
    BY DEF ClosesInOrder, WorkerGoes
  <2>2. worker[w].st # AtTweet("none", NoTweet).st
    BY DEF AtTweet, WorkerGoes
  <2>. QED  BY <2>1, <2>2 DEF BeforeStart
<1>2. /\ worker' \in [Workers -> [st : WorkerStates, tweet : Tweets \cup {NoTweet}]]
      /\ worker'[w].st = st /\ worker'[w].tweet = t
      /\ \A v \in Workers \ {w} : worker'[v] = worker[v]
  BY DEF BatchTyped, AtTweet, WorkerGoes
<1>3. BeforeStart' /\ OnePlace'
  BY <1>1 DEF BeforeStart, OnePlace, WorkerGoes
<1>4. ClosesInOrder'
  BY <1>1, <1>2 DEF ClosesInOrder, WorkerGoes
<1>5. BatchTyped'
  BY <1>2 DEF BatchTyped, WorkerGoes
<1>. QED  BY <1>1, <1>2, <1>3, <1>4, <1>5

(* As long as no tweet is done with, the users stay where they are.                              *)
LEMMA UsersKeepStill ==
  ASSUME BatchInv, UNCHANGED <<heap, retryUsers, prod, sent, openTweets, usersDone, totalUsers, caller>>, Live' => Live
  PROVE  FetchedOnce' /\ UsersCount'
<1>. USE DEF BatchInv
<1>1. FetchedOnce' /\ StillToDo' = StillToDo
  BY DEF FetchedOnce, StillToDo, Unfetched
<1>. QED  BY <1>1, UsersStand

LEMMA FlightStands ==
  ASSUME TweetsCount, UNCHANGED <<sent, openTweets, prod>>, Live' => Live,
         Live => \A t \in Tweets : t \in Range(tweetCh) \/ WithWorker(t) <=> (t \in Range(tweetCh) \/ WithWorker(t))',
         Live => Range(tweetCh) \subseteq Tweets /\ Range(tweetCh') \subseteq Tweets,
         Live => \A w \in Workers : /\ worker[w].st \in Busy => worker[w].tweet \in Tweets
                                    /\ worker'[w].st \in Busy => worker'[w].tweet \in Tweets
  PROVE  TweetsCount'
<1>1. SUFFICES ASSUME Live, NEW u \in Users
               PROVE  openTweets'[u] = Cardinality(InFlight(u)') + IF prod'[u] = "send" THEN Media[u] - sent'[u] ELSE 0
  BY DEF TweetsCount
<1>2. \A i \in 1..sent[u] : <<u, i>> \in Range(tweetCh) \/ WithWorker(<<u, i>>)
                            <=> (<<u, i>> \in Range(tweetCh) \/ WithWorker(<<u, i>>))'
  <2>1. SUFFICES ASSUME NEW i \in 1..sent[u]
                 PROVE  <<u, i>> \in Range(tweetCh) \/ WithWorker(<<u, i>>)
                        <=> (<<u, i>> \in Range(tweetCh) \/ WithWorker(<<u, i>>))'
    OBVIOUS
  <2>2. CASE <<u, i>> \in Tweets
    BY <1>1, <2>2
  <2>3. CASE <<u, i>> \notin Tweets
    BY <1>1, <2>3 DEF WithWorker
  <2>. QED  BY <2>2, <2>3
<1>3. InFlight(u)' = InFlight(u)
  BY <1>2 DEF InFlight
<1>. QED  BY <1>1, <1>3 DEF TweetsCount

(* The worker takes a tweet from the channel.                                                    *)
LEMMA TakeKeeps ==
  ASSUME BatchInv, NEW w \in Workers, Take(w)
  PROVE  BatchInv'
<1>. USE DEF BatchInv
<1>. DEFINE t == Head(tweetCh)
<1>1. /\ worker[w].st = "take" /\ tweetCh # <<>>
      /\ worker' = [worker EXCEPT ![w] = AtTweet("work", t)] /\ tweetCh' = Tail(tweetCh)
      /\ UNCHANGED <<packaged, caller, round, heap, retryUsers, prod, sent, tweetClosed, errClosed, fails, totalUsers,
                     cause, errCh, saved, usersDone, openTweets, panics>>
  BY DEF Take, Become, WorkerUnchanged, startVars, fetchVars, doneVars
<1>2. /\ t \in Tweets /\ tweetCh \in Seq(Tweets) /\ tweetCh' \in Seq(Tweets) /\ Range(tweetCh) = Range(tweetCh') \cup {t}
      /\ \A i \in DOMAIN tweetCh' : i + 1 \in DOMAIN tweetCh /\ tweetCh'[i] = tweetCh[i + 1] /\ i \in Nat /\ i # 0
      /\ 1 \in DOMAIN tweetCh /\ t = tweetCh[1] /\ errCh \in Seq(Tweets)
  BY <1>1, ChannelReceive DEF BatchTyped
<1>. HIDE DEF t
<1>3. Live' <=> Live
  BY <1>1 DEF Live
<1>4. /\ worker'[w].st = "work" /\ worker'[w].tweet = t
      /\ \A v \in Workers \ {w} : worker'[v] = worker[v]
      /\ BeforeStart' /\ ClosesInOrder' /\ OnePlace' /\ BatchTyped' /\ caller = "read"
  <2>1. WorkerGoes(w, "work", t)
    BY <1>1, <1>2, <1>3 DEF WorkerGoes, WorkerStates, BatchTyped
  <2>. QED  BY <2>1, WorkerFrame
<1>5. FetchedOnce' /\ UsersCount'
  BY <1>1, <1>3, UsersKeepStill
<1>6. Range(tweetCh) \subseteq Tweets /\ Range(tweetCh') \subseteq Tweets
  BY <1>2 DEF Range
<1>7. \A x : x \in Range(tweetCh) \/ WithWorker(x) <=> (x \in Range(tweetCh) \/ WithWorker(x))'
  <2>1. \A x : WithWorker(x)' <=> WithWorker(x) \/ x = t
    BY <1>1, <1>4 DEF WithWorker, Busy
  <2>. QED  BY <1>2, <2>1
<1>8. /\ \A v \in Workers : worker[v].st \in Busy => worker[v].tweet # NoTweet /\ worker[v].tweet \in Tweets
      /\ \A v \in Workers : worker'[v].st \in Busy => worker'[v].tweet \in Tweets
  <2>1. \A v \in Workers : worker[v].st \in Busy => worker[v].tweet # NoTweet
    BY DEF SentBefore, Busy, Bare
  <2>2. \A v \in Workers : worker[v].st \in Busy => worker[v].tweet # NoTweet /\ worker[v].tweet \in Tweets
    BY <2>1 DEF BatchTyped
  <2>. QED  BY <1>2, <1>4, <2>2
<1>9. TweetsCount'
  BY <1>1, <1>3, <1>6, <1>7, <1>8, FlightStands
<1>10. SentBefore'
  BY <1>1, <1>2, <1>4, TweetFacts DEF SentBefore, Bare
<1>11. TweetsApart'
  <2>1. SUFFICES ASSUME Live PROVE TweetsApart'
    BY <1>3 DEF TweetsApart
  <2>2. \A j, k \in DOMAIN tweetCh' : tweetCh'[j] = tweetCh'[k] => j = k
    <3>1. \A j, k \in DOMAIN tweetCh : tweetCh[j] = tweetCh[k] => j = k
      BY <2>1 DEF TweetsApart
    <3>2. SUFFICES ASSUME NEW j \in DOMAIN tweetCh', NEW k \in DOMAIN tweetCh', tweetCh'[j] = tweetCh'[k] PROVE j = k
      OBVIOUS
    <3>3. j + 1 = k + 1 /\ j \in Nat /\ k \in Nat
      BY <1>2, <3>1, <3>2
    <3>. QED  BY <3>3
  <2>3. t \notin Range(tweetCh')
    <3>1. SUFFICES ASSUME NEW j \in DOMAIN tweetCh', tweetCh'[j] = t PROVE FALSE
      BY DEF Range
    <3>2. j + 1 = 1 /\ j \in Nat /\ j # 0
      BY <1>2, <2>1, <3>1 DEF TweetsApart
    <3>. QED  BY <3>2
  <2>4. \A v \in Workers \ {w} : worker[v].st \in Busy => worker[v].tweet # t
    BY <1>2, <2>1 DEF TweetsApart
  <2>5. \A v \in Workers : worker'[v].st \in Busy => worker'[v].tweet \notin Range(tweetCh')
    BY <1>2, <1>4, <2>1, <2>3 DEF TweetsApart
  <2>6. \A x, y \in Workers : worker'[x].st \in Busy /\ worker'[y].st \in Busy /\ worker'[x].tweet = worker'[y].tweet => x = y
    <3>1. SUFFICES ASSUME NEW x \in Workers, NEW y \in Workers, worker'[x].st \in Busy, worker'[y].st \in Busy,
                          worker'[x].tweet = worker'[y].tweet
                   PROVE  x = y
      OBVIOUS
    <3>2. CASE x # w /\ y # w
      BY <1>4, <2>1, <3>1, <3>2 DEF TweetsApart
    <3>3. CASE x = w \/ y = w
      BY <1>4, <2>4, <3>1, <3>3
    <3>. QED  BY <3>2, <3>3
  <2>7. \A v \in Workers : worker'[v].st \notin {"drain", "drained", "recover", "discard"}
    BY <1>4, <2>1 DEF TweetsApart
  <2>. QED  BY <2>2, <2>5, <2>6, <2>7 DEF TweetsApart
<1>12. NothingDropped'
  <2>1. SUFFICES ASSUME panics = 0 PROVE NothingDropped'
    BY <1>1 DEF NothingDropped
  <2>2. worker[w].tweet = NoTweet
    BY <1>1 DEF SentBefore, Bare
  <2>3. ASSUME NEW x \in Tweets, Held(x) PROVE Held(x)'
    <3>1. x # NoTweet
      BY TweetFacts
    <3>. QED  BY <1>1, <1>2, <1>4, <2>2, <2>3, <3>1 DEF Held
  <2>. QED  BY <1>1, <1>4, <2>1, <2>3 DEF NothingDropped
<1>. QED  BY <1>4, <1>5, <1>9, <1>10, <1>11, <1>12

\* A step that completes no tweet: until something is cancelled it takes none from the channel or
\* the worker, and without a panic the tweets it moves remain in some place.
WorkerHolds(w, st, t) ==
  /\ UNCHANGED <<openTweets, usersDone>>
  /\ Range(tweetCh') \subseteq Range(tweetCh) /\ (st \in Bare <=> t = NoTweet)
  /\ t = NoTweet \/ t = worker[w].tweet \/ t \in Range(tweetCh)
  /\ Live' => /\ tweetCh' = tweetCh /\ (worker[w].st \in Busy <=> st \in Busy)
              /\ st \in Busy => t = worker[w].tweet
              /\ st \notin {"drain", "drained", "recover", "discard"}
  /\ panics' = 0 => /\ panics = 0 /\ saved \subseteq saved' /\ Range(errCh) \subseteq Range(errCh')
                    /\ Range(tweetCh) \subseteq Range(tweetCh') \cup {t}
                    /\ worker[w].tweet \in {NoTweet, t} \cup Range(errCh')
                    /\ st \in {"told", "toldFull"} => t \in Range(errCh') \cup saved' \cup fails
                    /\ st \notin {"recover", "discard"}

LEMMA WorkerKeeps ==
  ASSUME BatchInv, NEW w \in Workers, NEW st, NEW t, WorkerGoes(w, st, t), WorkerHolds(w, st, t)
  PROVE  BatchInv'
<1>. USE DEF BatchInv
<1>1. /\ worker'[w].st = st /\ worker'[w].tweet = t
      /\ \A v \in Workers \ {w} : worker'[v] = worker[v]
      /\ BeforeStart' /\ ClosesInOrder' /\ OnePlace' /\ BatchTyped' /\ caller = "read"
  BY WorkerFrame
<1>2. /\ UNCHANGED <<openTweets, usersDone, sent, prod, heap, retryUsers, caller, totalUsers, fails>>
      /\ Live' => Live
      /\ tweetCh \in Seq(Tweets) /\ tweetCh' \in Seq(Tweets)
  BY DEF WorkerGoes, WorkerHolds, BatchTyped
<1>3. FetchedOnce' /\ UsersCount'
  BY <1>2, UsersKeepStill
<1>4. /\ \A v \in Workers : worker[v].st \in Busy => worker[v].tweet # NoTweet /\ worker[v].tweet \in Tweets
      /\ Live' => \A v \in Workers : worker'[v].st \in Busy => worker'[v].tweet \in Tweets
  <2>1. \A v \in Workers : worker[v].st \in Busy => worker[v].tweet # NoTweet
    BY DEF SentBefore, Busy, Bare
  <2>2. \A v \in Workers : worker[v].st \in Busy => worker[v].tweet # NoTweet /\ worker[v].tweet \in Tweets
    BY <2>1 DEF BatchTyped
  <2>3. Live' /\ st \in Busy => t \in Tweets
    BY <2>2 DEF WorkerHolds
  <2>. QED  BY <1>1, <2>2, <2>3
<1>5. Live' => (\A x : WithWorker(x)' <=> WithWorker(x)) /\ tweetCh' = tweetCh
  <2>1. Live' => tweetCh' = tweetCh /\ (worker[w].st \in Busy <=> st \in Busy) /\ (st \in Busy => t = worker[w].tweet)
    BY DEF WorkerHolds
  <2>. QED  BY <1>1, <2>1 DEF WithWorker
<1>6. TweetsCount'
  <2>1. SUFFICES ASSUME Live' PROVE TweetsCount'
    BY DEF TweetsCount
  <2>2. Range(tweetCh) \subseteq Tweets
    BY <1>2 DEF Range
  <2>. QED  BY <1>2, <1>4, <1>5, <2>1, <2>2, FlightStands
<1>7. SentBefore'
  <2>1. /\ Range(tweetCh') \subseteq Range(tweetCh) /\ (st \in Bare <=> t = NoTweet)
        /\ t = NoTweet \/ t = worker[w].tweet \/ t \in Range(tweetCh)
    BY DEF WorkerHolds
  <2>2. t # NoTweet => t[2] <= sent[t[1]]
    BY <2>1 DEF SentBefore
  <2>. QED  BY <1>1, <1>2, <2>1, <2>2 DEF SentBefore
<1>8. TweetsApart'
  <2>1. SUFFICES ASSUME Live' PROVE TweetsApart'
    BY DEF TweetsApart
  <2>2. /\ tweetCh' = tweetCh /\ (worker[w].st \in Busy <=> st \in Busy) /\ (st \in Busy => t = worker[w].tweet)
        /\ st \notin {"drain", "drained", "recover", "discard"}
    BY <2>1 DEF WorkerHolds
  <2>3. \A v \in Workers : /\ worker'[v].st \in Busy <=> worker[v].st \in Busy
                           /\ worker'[v].st \in Busy => worker'[v].tweet = worker[v].tweet
    BY <1>1, <2>2
  <2>4. \A v \in Workers : worker'[v].st \notin {"drain", "drained", "recover", "discard"}
    BY <1>1, <1>2, <2>1, <2>2 DEF TweetsApart
  <2>. QED  BY <1>2, <2>1, <2>2, <2>3, <2>4 DEF TweetsApart
<1>9. NothingDropped'
  <2>1. SUFFICES ASSUME panics' = 0 PROVE NothingDropped'
    BY DEF NothingDropped
  <2>2. /\ panics = 0 /\ saved \subseteq saved' /\ Range(errCh) \subseteq Range(errCh')
        /\ Range(tweetCh) \subseteq Range(tweetCh') \cup {t}
        /\ worker[w].tweet \in {NoTweet, t} \cup Range(errCh')
        /\ st \in {"told", "toldFull"} => t \in Range(errCh') \cup saved' \cup fails
        /\ st \notin {"recover", "discard"}
    BY <2>1 DEF WorkerHolds
  <2>3. ASSUME NEW x \in Tweets, Held(x) PROVE Held(x)'
    <3>1. x # NoTweet
      BY TweetFacts
    <3>. QED  BY <1>1, <1>2, <2>2, <2>3, <3>1 DEF Held
  <2>4. \A x \in Tweets : x[2] <= sent'[x[1]] => Held(x)'
    BY <1>2, <2>2, <2>3 DEF NothingDropped
  <2>5. \A v \in Workers : /\ worker'[v].st \in {"told", "toldFull"} => worker'[v].tweet \in Range(errCh') \cup saved' \cup fails'
                           /\ worker'[v].st \notin {"recover", "discard"}
    BY <1>1, <1>2, <2>2 DEF NothingDropped
  <2>. QED  BY <2>4, <2>5 DEF NothingDropped
<1>. QED  BY <1>1, <1>3, <1>6, <1>7, <1>8, <1>9

LEMMA OtherWorkKeeps ==
  ASSUME BatchInv, NEW w \in Workers,
         Notice(w) \/ Download(w) \/ Report(w) \/ DrainTweet(w) \/ SafeSend(w) \/ WorkerPanic(w)
  PROVE  BatchInv'
<1>1. /\ BatchTyped /\ SentBefore /\ TweetsApart /\ NothingDropped
      /\ tweetCh \in Seq(Tweets) /\ errCh \in Seq(Tweets) /\ panics \in Nat /\ openTweets \in [Users -> Int] /\ usersDone \in Nat
      /\ worker[w].tweet \in Tweets \cup {NoTweet}
  BY DEF BatchInv, BatchTyped
<1>2. worker[w].st \in Bare <=> worker[w].tweet = NoTweet
  BY <1>1 DEF SentBefore
<1>3. Live => worker[w].st \notin {"drain", "drained", "recover", "discard"}
  BY <1>1 DEF TweetsApart
<1>4. panics = 0 => worker[w].st \notin {"recover", "discard"}
  BY <1>1 DEF NothingDropped
<1>. USE DEF Become, WorkerUnchanged, startVars, fetchVars, doneVars
<1>5. ASSUME worker[w].tweet # NoTweet
      PROVE  /\ Append(errCh, worker[w].tweet) \in Seq(Tweets)
             /\ Range(Append(errCh, worker[w].tweet)) = Range(errCh) \cup {worker[w].tweet}
  BY <1>1, <1>5, ChannelSend
<1>6. CASE Notice(w)
  <2>1. PICK st \in {"drain", "gone"} :
          /\ worker[w].st = "take" /\ worker' = [worker EXCEPT ![w] = AtTweet(st, NoTweet)]
          /\ (st = "drain" => ~Live) /\ (st = "gone" => tweetClosed /\ tweetCh = <<>>)
          /\ UNCHANGED <<packaged, caller, round, heap, retryUsers, prod, sent, tweetClosed, errClosed, fails, totalUsers,
                         cause, tweetCh, errCh, saved, usersDone, openTweets, panics>>
    BY <1>6 DEF Notice
  <2>2. WorkerGoes(w, st, NoTweet)
    BY <1>1, <2>1 DEF WorkerGoes, WorkerStates, Live
  <2>3. WorkerHolds(w, st, NoTweet)
    BY <1>1, <1>2, <2>1 DEF WorkerHolds, Busy, Bare, Live
  <2>. QED  BY <2>2, <2>3, WorkerKeeps
<1>7. CASE Download(w)
  <2>. DEFINE t == worker[w].tweet
  <2>1. PICK st \in {"told", "report", "reportFull"} :
          /\ worker[w].st = "work" /\ worker' = [worker EXCEPT ![w] = AtTweet(st, t)]
          /\ saved' = IF st = "told" THEN saved \cup {t} ELSE saved
          /\ UNCHANGED <<packaged, caller, round, heap, retryUsers, prod, sent, tweetClosed, errClosed, fails, totalUsers,
                         cause, tweetCh, errCh, usersDone, openTweets, panics>>
    BY <1>7 DEF Download
  <2>2. WorkerGoes(w, st, t)
    BY <1>1, <2>1 DEF WorkerGoes, WorkerStates, Live
  <2>3. WorkerHolds(w, st, t)
    BY <1>1, <1>2, <2>1 DEF WorkerHolds, Busy, Bare, Live
  <2>. QED  BY <2>2, <2>3, WorkerKeeps
<1>8. CASE Report(w)
  <2>1. /\ worker[w].st \in {"report", "reportFull", "drained"} /\ errCh' = Append(errCh, worker[w].tweet)
        /\ UNCHANGED <<packaged, caller, round, heap, retryUsers, prod, sent, tweetClosed, errClosed, fails, totalUsers,
                       cause, tweetCh, saved, usersDone, openTweets, panics>>
        /\ worker[w].st = "report"     => worker' = [worker EXCEPT ![w] = AtTweet("told", worker[w].tweet)]
        /\ worker[w].st = "reportFull" => worker' = [worker EXCEPT ![w] = AtTweet("toldFull", worker[w].tweet)]
        /\ worker[w].st = "drained"    => worker' = [worker EXCEPT ![w] = AtTweet("drain", NoTweet)]
    BY <1>8 DEF Report
  <2>2. errCh' \in Seq(Tweets) /\ Range(errCh') = Range(errCh) \cup {worker[w].tweet} /\ worker[w].tweet # NoTweet
    BY <1>2, <1>5, <2>1 DEF Bare
  <2>3. CASE worker[w].st = "report"
    <3>1. WorkerGoes(w, "told", worker[w].tweet)
      BY <1>1, <2>1, <2>2, <2>3 DEF WorkerGoes, WorkerStates, Live
    <3>2. WorkerHolds(w, "told", worker[w].tweet)
      BY <1>1, <2>1, <2>2, <2>3 DEF WorkerHolds, Busy, Bare, Live
    <3>. QED  BY <3>1, <3>2, WorkerKeeps
  <2>4. CASE worker[w].st = "reportFull"
    <3>1. WorkerGoes(w, "toldFull", worker[w].tweet)
      BY <1>1, <2>1, <2>2, <2>4 DEF WorkerGoes, WorkerStates, Live
    <3>2. WorkerHolds(w, "toldFull", worker[w].tweet)
      BY <1>1, <2>1, <2>2, <2>4 DEF WorkerHolds, Busy, Bare, Live
    <3>. QED  BY <3>1, <3>2, WorkerKeeps
  <2>5. CASE worker[w].st = "drained"
    <3>1. WorkerGoes(w, "drain", NoTweet)
      BY <1>1, <2>1, <2>2, <2>5 DEF WorkerGoes, WorkerStates, Live
    <3>2. WorkerHolds(w, "drain", NoTweet)
      BY <1>1, <1>3, <2>1, <2>2, <2>5 DEF WorkerHolds, Busy, Bare, Live
    <3>. QED  BY <3>1, <3>2, WorkerKeeps
  <2>. QED  BY <2>1, <2>3, <2>4, <2>5
<1>9. CASE DrainTweet(w)
  <2>1. /\ worker[w].st \in {"drain", "discard"}
        /\ UNCHANGED <<packaged, caller, round, heap, retryUsers, prod, sent, tweetClosed, errClosed, fails, totalUsers,
                       cause, errCh, saved, usersDone, openTweets, panics>>
    BY <1>9 DEF DrainTweet
  <2>2. CASE tweetCh # <<>>
    <3>. DEFINE st == IF worker[w].st = "drain" THEN "drained" ELSE "recover"
    <3>1. tweetCh' = Tail(tweetCh) /\ worker' = [worker EXCEPT ![w] = AtTweet(st, Head(tweetCh))]
      BY <1>9, <2>2 DEF DrainTweet
    <3>2. /\ Head(tweetCh) \in Tweets /\ tweetCh' \in Seq(Tweets) /\ Range(tweetCh) = Range(tweetCh') \cup {Head(tweetCh)}
          /\ Head(tweetCh) # NoTweet
      BY <1>1, <2>2, <3>1, ChannelReceive, TweetFacts
    <3>3. WorkerGoes(w, st, Head(tweetCh))
      BY <1>1, <2>1, <2>2, <3>1, <3>2 DEF WorkerGoes, WorkerStates, Live
    <3>4. WorkerHolds(w, st, Head(tweetCh))
      BY <1>1, <1>2, <1>3, <1>4, <2>1, <3>1, <3>2 DEF WorkerHolds, Busy, Bare, Live
    <3>. QED  BY <3>3, <3>4, WorkerKeeps
  <2>3. CASE tweetCh = <<>>
    <3>1. tweetClosed /\ tweetCh' = tweetCh /\ worker' = [worker EXCEPT ![w] = AtTweet("gone", NoTweet)]
      BY <1>9, <2>3 DEF DrainTweet
    <3>2. WorkerGoes(w, "gone", NoTweet)
      BY <1>1, <2>1, <2>3, <3>1 DEF WorkerGoes, WorkerStates, Live
    <3>3. WorkerHolds(w, "gone", NoTweet)
      BY <1>1, <1>2, <1>3, <2>1, <3>1 DEF WorkerHolds, Busy, Bare, Live
    <3>. QED  BY <3>2, <3>3, WorkerKeeps
  <2>. QED  BY <2>2, <2>3
<1>10. CASE SafeSend(w)
  <2>1. /\ worker[w].st = "recover" /\ worker' = [worker EXCEPT ![w] = AtTweet("discard", NoTweet)]
        /\ errCh' = errCh \/ errCh' = Append(errCh, worker[w].tweet)
        /\ UNCHANGED <<packaged, caller, round, heap, retryUsers, prod, sent, tweetClosed, errClosed, fails, totalUsers,
                       cause, tweetCh, saved, usersDone, openTweets, panics>>
    BY <1>10 DEF SafeSend
  <2>2. errCh' \in Seq(Tweets)
    BY <1>1, <1>2, <1>5, <2>1 DEF Bare
  <2>3. WorkerGoes(w, "discard", NoTweet)
    BY <1>1, <2>1, <2>2 DEF WorkerGoes, WorkerStates, Live
  <2>4. WorkerHolds(w, "discard", NoTweet)
    BY <1>1, <1>3, <1>4, <2>1 DEF WorkerHolds, Busy, Bare, Live
  <2>. QED  BY <2>3, <2>4, WorkerKeeps
<1>11. CASE WorkerPanic(w)
  <2>1. /\ worker[w].st \in {"work", "told", "toldFull"} /\ panics' = panics + 1 /\ ~Live'
        /\ UNCHANGED <<packaged, caller, round, heap, retryUsers, prod, sent, tweetClosed, errClosed, fails, totalUsers,
                       tweetCh, errCh, saved, usersDone, openTweets>>
        /\ \/ worker' = [worker EXCEPT ![w] = AtTweet("discard", NoTweet)]
           \/ worker' = [worker EXCEPT ![w] = AtTweet("recover", worker[w].tweet)]
    BY <1>11 DEF WorkerPanic, CancelWith, Live
  <2>2. CASE worker' = [worker EXCEPT ![w] = AtTweet("discard", NoTweet)]
    <3>1. WorkerGoes(w, "discard", NoTweet)
      BY <1>1, <2>1, <2>2 DEF WorkerGoes, WorkerStates
    <3>2. WorkerHolds(w, "discard", NoTweet)
      BY <1>1, <2>1 DEF WorkerHolds, Bare
    <3>. QED  BY <3>1, <3>2, WorkerKeeps
  <2>3. CASE worker' = [worker EXCEPT ![w] = AtTweet("recover", worker[w].tweet)]
    <3>1. WorkerGoes(w, "recover", worker[w].tweet)
      BY <1>1, <2>1, <2>3 DEF WorkerGoes, WorkerStates
    <3>2. WorkerHolds(w, "recover", worker[w].tweet)
      BY <1>1, <1>2, <2>1 DEF WorkerHolds, Bare
    <3>. QED  BY <3>1, <3>2, WorkerKeeps
  <2>. QED  BY <2>1, <2>2, <2>3
<1>. QED  BY <1>6, <1>7, <1>8, <1>9, <1>10, <1>11

(* A worker is done with a tweet: the user has one less to complete, and is done with when that  *)
(* was the last one.                                                                             *)
LEMMA DoneKeeps ==
  ASSUME BatchInv, NEW w \in Workers, TweetDone(w)
  PROVE  BatchInv'
<1>. USE DEF BatchInv
<1>t. PICK t : t = worker[w].tweet
  OBVIOUS
<1>u. PICK u : u = t[1]
  OBVIOUS
<1>1. /\ worker[w].st \in {"told", "toldFull"} /\ worker' = [worker EXCEPT ![w] = AtTweet("take", NoTweet)]
      /\ openTweets' = [openTweets EXCEPT ![u] = @ - 1]
      /\ usersDone' = usersDone + (IF openTweets[u] = 1 THEN 1 ELSE 0)
      /\ (Live' => Live)
      /\ UNCHANGED <<packaged, caller, round, heap, retryUsers, prod, sent, tweetClosed, errClosed, fails, totalUsers,
                     tweetCh, errCh, saved, panics>>
  <2>1. usersDone \in Nat
    BY DEF BatchTyped
  <2>2. usersDone' = usersDone + (IF openTweets[u] = 1 THEN 1 ELSE 0)
    BY <1>t, <1>u, <2>1 DEF TweetDone, UserDone, MarkDone, doneVars
  <2>. QED  BY <1>t, <1>u, <2>2 DEF TweetDone, Idle, WorkerUnchanged, startVars, fetchVars, CancelWith, Live
<1>2. /\ t # NoTweet /\ t \in Tweets /\ t[2] <= sent[u] /\ worker[w].st \in Busy
  <2>1. t # NoTweet /\ worker[w].st \in Busy
    BY <1>1, <1>t DEF SentBefore, Bare, Busy
  <2>. QED  BY <1>t, <1>u, <2>1 DEF BatchTyped, SentBefore
<1>3. /\ u \in Users /\ t[2] \in Nat \ {0} /\ t = <<u, t[2]>> /\ sent[u] \in Nat /\ t[2] \in 1..sent[u]
  <2>1. u \in Users /\ t[2] \in Nat \ {0} /\ t = <<u, t[2]>>
    BY <1>2, <1>u, TweetFacts
  <2>2. sent[u] \in Nat
    BY <2>1 DEF BatchTyped
  <2>. QED  BY <1>2, <2>1, <2>2
<1>4. /\ openTweets' \in [Users -> Int] /\ openTweets[u] \in Int /\ openTweets'[u] = openTweets[u] - 1
      /\ \A v \in Users \ {u} : openTweets'[v] = openTweets[v]
      /\ usersDone \in Nat /\ usersDone' \in Nat
  BY <1>1, <1>3 DEF BatchTyped
<1>5. /\ worker'[w].st = "take" /\ worker'[w].tweet = NoTweet
      /\ \A v \in Workers \ {w} : worker'[v] = worker[v]
      /\ BatchTyped' /\ BeforeStart' /\ ClosesInOrder' /\ OnePlace'
  <2>1. WorkerGoes(w, "take", NoTweet)
    BY <1>1, <1>4 DEF WorkerGoes, WorkerStates, BatchTyped
  <2>. QED  BY <2>1, WorkerFrame
<1>6. ~Unfetched(u) /\ \A v \in Users : Unfetched(v)' <=> Unfetched(v)
  <2>1. sent[u] # 0
    BY <1>3
  <2>. QED  BY <1>1, <1>3, <2>1 DEF FetchedOnce, Unfetched
<1>7. FetchedOnce'
  BY <1>1, <1>4, <1>6 DEF FetchedOnce
<1>8. UsersCount'
  <2>1. CASE openTweets[u] = 1
    <3>1. u \in StillToDo /\ StillToDo' = StillToDo \ {u}
      BY <1>3, <1>4, <1>6, <2>1 DEF StillToDo
    <3>. QED  BY <1>1, <2>1, <3>1, UserLeaves
  <2>2. CASE openTweets[u] # 1
    <3>1. openTweets'[u] > 0 <=> openTweets[u] > 0
      BY <1>4, <2>2
    <3>2. StillToDo' = StillToDo
      BY <1>4, <1>6, <3>1 DEF StillToDo
    <3>3. usersDone' = usersDone
      BY <1>1, <1>4, <2>2
    <3>. QED  BY <1>1, <3>2, <3>3, UsersStand
  <2>. QED  BY <2>1, <2>2
<1>9. TweetsCount'
  <2>1. SUFFICES ASSUME Live, NEW v \in Users
                 PROVE  openTweets'[v] = Cardinality(InFlight(v)') + IF prod'[v] = "send" THEN Media[v] - sent'[v] ELSE 0
    BY <1>1 DEF TweetsCount
  <2>2. openTweets[v] = Cardinality(InFlight(v)) + IF prod[v] = "send" THEN Media[v] - sent[v] ELSE 0
    BY <2>1 DEF TweetsCount
  <2>3. WithWorker(t) /\ t \notin Range(tweetCh)
    BY <1>2, <2>1, <1>t DEF TweetsApart, WithWorker
  <2>4. \A x : WithWorker(x)' <=> WithWorker(x) /\ x # t
    <3>1. \A x \in Workers \ {w} : worker[x].st \in Busy => worker[x].tweet # t
      BY <1>2, <2>1, <1>t DEF TweetsApart
    <3>. QED  BY <1>2, <1>5, <3>1, <1>t DEF WithWorker, Busy
  <2>5. CASE v = u
    <3>1. InFlight(u)' = InFlight(u) \ {t[2]} /\ t[2] \in InFlight(u)
      <4>1. \A i \in 1..sent[u] : <<u, i>> = t <=> i = t[2]
        BY <1>3
      <4>. QED  BY <1>1, <1>3, <2>3, <2>4, <4>1 DEF InFlight
    <3>2. Cardinality(InFlight(u)') = Cardinality(InFlight(u)) - 1 /\ Cardinality(InFlight(u)) \in Nat
      <4>1. IsFiniteSet(InFlight(u)) /\ Cardinality(InFlight(u)) \in Nat
        BY <1>3, FlightIsFinite DEF BatchInv
      <4>2. \A S : IsFiniteSet(S) => \A x \in S : Cardinality(S \ {x}) = Cardinality(S) - 1
        BY FS_RemoveElement
      <4>. QED  BY <3>1, <4>1, <4>2
    <3>3. Media[u] \in Nat
      BY <1>3, BatchAssumption
    <3>. QED  BY <1>1, <1>3, <1>4, <2>2, <2>5, <3>2, <3>3
  <2>6. CASE v # u
    <3>1. \A i \in 1..sent[v] : <<v, i>> # t
      BY <1>3, <2>6
    <3>2. InFlight(v)' = InFlight(v)
      BY <1>1, <2>4, <3>1 DEF InFlight
    <3>. QED  BY <1>1, <1>4, <2>2, <2>6, <3>2
  <2>. QED  BY <2>5, <2>6
<1>10. SentBefore'
  BY <1>1, <1>5 DEF SentBefore, Bare
<1>11. TweetsApart'
  <2>1. SUFFICES ASSUME Live PROVE TweetsApart'
    BY <1>1 DEF TweetsApart
  <2>2. "take" \notin Busy
    BY DEF Busy
  <2>. QED  BY <1>1, <1>5, <2>1, <2>2 DEF TweetsApart
<1>12. NothingDropped'
  <2>1. SUFFICES ASSUME panics = 0 PROVE NothingDropped'
    BY <1>1 DEF NothingDropped
  <2>2. t \in Range(errCh) \cup saved \cup fails
    BY <1>1, <2>1, <1>t DEF NothingDropped
  <2>3. ASSUME NEW x \in Tweets, Held(x) PROVE Held(x)'
    BY <1>1, <1>5, <2>2, <2>3, <1>t DEF Held
  <2>. QED  BY <1>1, <1>5, <2>1, <2>3 DEF NothingDropped
<1>. QED  BY <1>5, <1>7, <1>8, <1>9, <1>10, <1>11, <1>12

-----------------------------------------------------------------------------
(* The invariant, and what it says of a batch.                             *)

LEMMA BatchStarts == ASSUME BatchInit PROVE BatchInv
<1>. USE DEF BatchInit
<1>1. BatchTyped
  BY DEF BatchTyped, RoundPlaces, AtTweet, WorkerStates
<1>2. BeforeStart /\ ClosesInOrder /\ OnePlace /\ FetchedOnce
  BY DEF BeforeStart, ClosesInOrder, OnePlace, FetchedOnce, AtTweet
<1>3. UsersCount
  <2>1. StillToDo = {}
    BY DEF StillToDo, Unfetched
  <2>. QED  BY <2>1, FS_EmptySet DEF UsersCount
<1>4. TweetsCount
  <2>1. SUFFICES ASSUME NEW u \in Users
                 PROVE  openTweets[u] = Cardinality(InFlight(u)) + IF prod[u] = "send" THEN Media[u] - sent[u] ELSE 0
    BY DEF TweetsCount
  <2>2. 1..0 = {}
    OBVIOUS
  <2>3. InFlight(u) = {}
    BY <2>2 DEF InFlight
  <2>. QED  BY <2>3, FS_EmptySet
<1>5. SentBefore /\ TweetsApart
  <2>1. \A u \in Users : sent[u] <= Media[u]
    BY BatchAssumption
  <2>. QED  BY <2>1, EmptyChannel DEF SentBefore, TweetsApart, AtTweet, Bare, Busy
<1>6. NothingDropped
  BY TweetFacts DEF NothingDropped, AtTweet
<1>. QED  BY <1>1, <1>2, <1>3, <1>4, <1>5, <1>6 DEF BatchInv

LEMMA BatchStutters == ASSUME BatchInv, UNCHANGED batchVars PROVE BatchInv'
<1>. USE DEF BatchInv
<1>1. UNCHANGED <<packaged, caller, cause, round, worker, saved, fails, openTweets, totalUsers, sent, tweetCh, tweetClosed,
                  errCh, errClosed, heap, retryUsers, prod, usersDone, panics>>
  BY DEF batchVars, startVars, fetchVars, chanVars, workVars, progressVars, doneVars
<1>2. Live' <=> Live
  BY <1>1 DEF Live
<1>3. BatchTyped' /\ BeforeStart' /\ ClosesInOrder' /\ OnePlace'
  BY <1>1, <1>2 DEF BatchTyped, BeforeStart, ClosesInOrder, OnePlace
<1>4. FetchedOnce' /\ UsersCount'
  BY <1>1, <1>2, UsersKeepStill
<1>5. TweetsCount' /\ SentBefore' /\ TweetsApart' /\ NothingDropped'
  BY <1>1, <1>2, TweetsStand, NothingFalls
<1>. QED  BY <1>3, <1>4, <1>5

LEMMA BatchStep == ASSUME BatchInv, [BatchNext]_batchVars PROVE BatchInv'
<1>1. CASE Caller \/ PreprocessPanic \/ CancelBatch
  BY <1>1, StartKeeps, CallKeeps DEF Caller
<1>2. CASE Schedule
  BY <1>2, ScheduleKeeps
<1>3. CASE \E u \in Users : Producer(u) \/ ProducerPanic(u)
  <2>1. PICK u \in Users : Producer(u) \/ ProducerPanic(u)
    BY <1>3
  <2>. QED  BY <2>1, FetchingKeeps, FoundKeeps, SendKeeps, SentKeeps DEF Producer
<1>4. CASE \E w \in Workers : Worker(w) \/ WorkerPanic(w)
  <2>1. PICK w \in Workers : Worker(w) \/ WorkerPanic(w)
    BY <1>4
  <2>. QED  BY <2>1, TakeKeeps, OtherWorkKeeps, DoneKeeps DEF Worker
<1>5. CASE UNCHANGED batchVars
  BY <1>5, BatchStutters
<1>. QED  BY <1>1, <1>2, <1>3, <1>4, <1>5 DEF BatchNext

(* The inductive invariant holds in every reachable state of a batch (BatchDownloadAny and the   *)
(* goroutines it starts).                                                                        *)
THEOREM BatchIsInOrder == BatchSpec => []BatchInv
<1>. QED  BY BatchStarts, BatchStep, PTL DEF BatchSpec

(* What the workers have left behind: when the batch has ended and returned, no tweet is on its  *)
(* way and no user is still to be done.                                                          *)
LEMMA NothingOnItsWay ==
  ASSUME BatchInv, caller = "returned", errClosed
  PROVE  tweetCh = <<>> /\ errCh = <<>> /\ \A w \in Workers : worker[w].st = "gone" /\ worker[w].tweet = NoTweet
<1>1. /\ errCh = <<>> /\ \A w \in Workers : worker[w].st = "gone"
      /\ \A w \in Workers : worker[w].st = "gone" => tweetCh = <<>>
  BY DEF BatchInv, ClosesInOrder
<1>2. \E w : w \in Workers
  BY BatchAssumption
<1>3. \A w \in Workers : worker[w].tweet = NoTweet
  BY <1>1 DEF BatchInv, SentBefore, Bare
<1>. QED  BY <1>1, <1>2, <1>3

LEMMA ClosesBehindEveryone == ASSUME BatchInv PROVE NoSendAfterClose
BY DEF BatchInv, ClosesInOrder, NoSendAfterClose

LEMMA EachInOnePlace == ASSUME BatchInv PROVE OneProducerPerUser
<1>. DEFINE PlacesOf(u) == {x \in {"heap", "retry", "prod"} :
                            \/ x = "heap"  /\ u \in heap
                            \/ x = "retry" /\ u \in retryUsers
                            \/ x = "prod"  /\ prod[u] # "out"}
<1>1. ASSUME NEW u \in Users, NEW P, P = PlacesOf(u) PROVE Cardinality(P) <= 1
  <2>1. /\ u \in heap => prod[u] = "out" /\ u \notin retryUsers
        /\ u \in retryUsers => prod[u] = "out"
    BY DEF BatchInv, OnePlace
  <2>2. CASE u \in heap
    <3>1. P = {"heap"}
      BY <1>1, <2>1, <2>2
    <3>. QED  BY <3>1, FS_Singleton
  <2>3. CASE u \notin heap /\ u \in retryUsers
    <3>1. P = {"retry"}
      BY <1>1, <2>1, <2>3
    <3>. QED  BY <3>1, FS_Singleton
  <2>4. CASE u \notin heap /\ u \notin retryUsers /\ prod[u] # "out"
    <3>1. P = {"prod"}
      BY <1>1, <2>4
    <3>. QED  BY <3>1, FS_Singleton
  <2>5. CASE u \notin heap /\ u \notin retryUsers /\ prod[u] = "out"
    <3>1. P = {}
      BY <1>1, <2>5
    <3>. QED  BY <3>1, FS_EmptySet
  <2>. QED  BY <2>2, <2>3, <2>4, <2>5
<1>. QED  BY <1>1 DEF OneProducerPerUser

LEMMA WhatWasSentIsHeld == ASSUME BatchInv PROVE HandedOverKept
<1>1. SUFFICES ASSUME panics = 0, NEW u \in Users, NEW i \in 1..sent[u]
               PROVE  IF caller = "returned" THEN <<u, i>> \in saved \cup fails ELSE Held(<<u, i>>)
  BY DEF HandedOverKept
<1>2. BatchTyped /\ BeforeStart /\ NothingDropped /\ SentBefore
  BY DEF BatchInv
<1>3. sent[u] \in Nat /\ sent[u] <= Media[u] /\ Media[u] \in Nat
  BY <1>2, BatchAssumption DEF BatchTyped, SentBefore
<1>4. <<u, i>> \in Tweets /\ <<u, i>>[2] <= sent[<<u, i>>[1]]
  BY <1>3, TweetFacts
<1>5. Held(<<u, i>>)
  BY <1>1, <1>2, <1>4 DEF NothingDropped
<1>6. CASE caller = "returned"
  <2>1. errClosed
    BY <1>2, <1>3, <1>6 DEF BeforeStart
  <2>2. tweetCh = <<>> /\ errCh = <<>> /\ \A w \in Workers : worker[w].tweet = NoTweet
    BY <1>6, <2>1, NothingOnItsWay
  <2>3. <<u, i>> # NoTweet
    BY <1>4, TweetFacts
  <2>. QED  BY <1>5, <1>6, <2>2, <2>3, EmptyChannel DEF Held
<1>. QED  BY <1>5, <1>6

(* A user is some pages deep, or none.                                                           *)
LEMMA DepthIsNat == ASSUME NEW u \in Users PROVE Depth[u] \in Nat
<1>1. Exist[u] \in Nat /\ MediaCount[u] \in Nat /\ PageSize \in Nat \ {0}
  BY BatchAssumption
<1>. DEFINE e == Exist[u]
            n == MediaCount[u]
<1>2. CalcUserDepth(e, n) \in Nat
  <2>1. CASE e >= n
    BY <2>1 DEF CalcUserDepth
  <2>2. CASE ~(e >= n)
    <3>1. n - e + PageSize - 1 \in Nat
      BY <1>1, <2>2
    <3>2. (n - e + PageSize - 1) \div PageSize \in Nat
      <4>. DEFINE a == n - e + PageSize - 1
      <4>1. a \in Nat
        BY <3>1
      <4>. HIDE DEF a
      <4>2. a \div PageSize \in Nat
        BY <1>1, <4>1
      <4>. QED  BY <4>2 DEF a
    <3>. QED  BY <2>2, <3>2 DEF CalcUserDepth
  <2>. QED  BY <2>1, <2>2
<1>. QED  BY <1>2 DEF Depth

-----------------------------------------------------------------------------
(* Whom the progress counts.                                               *)

TooDeep(u) == Depth[u] > DepthLimit
Todo(u)    == Unfetched(u) \/ openTweets[u] > 0

\* A user who was put on the heap is still to be done, counted or lost (unless the batch was
\* cancelled).  Who is too deep never leaves the heap but to be given up, and is counted twice only
\* if somebody is lost in its place; nobody else is counted before all is done, or twice.
UserCounted(u) ==
  /\ Todo(u) \/ completed[u] > 0 \/ u \in lost => u \in Entrants
  /\ u \in lost => completed[u] = 0 /\ ~Todo(u) /\ ~TooDeep(u)
  /\ TooDeep(u) =>
       /\ prod[u] = "out" /\ u \notin retryUsers /\ ~(openTweets[u] > 0)
       /\ completed[u] > (IF u \in heap THEN 0 ELSE 1) => lost # {}
  /\ ~TooDeep(u) => completed[u] <= 1 /\ (Todo(u) => completed[u] = 0)
  /\ Live /\ caller \in {"read", "returned"} /\ u \in Entrants => Todo(u) \/ completed[u] > 0 \/ u \in lost

\* Whoever is above the user that the round has peeked at was fetched before, and is not too deep.
Counted ==
  /\ completed \in [Users -> Nat] /\ lost \subseteq Users /\ Entrants \subseteq Users
  /\ \A u \in Users : UserCounted(u)
  /\ lost # {} => \E u \in Entrants : TooDeep(u)
  /\ caller \in {"collect", "preprocess"} =>
       heap = Entrants /\ lost = {} /\ \A u \in Users : completed[u] = 0
  /\ round.at = "pop" =>
       round.peeked \in heap /\ \A u \in heap : Above(u, round.peeked) => ~TooDeep(u)

\* A step leaves user u as it is, but for where in the batch it waits.
UserUntouched(u) ==
  /\ Todo(u)' <=> Todo(u)
  /\ completed'[u] = completed[u]
  /\ TooDeep(u) => UNCHANGED <<prod[u], openTweets[u]>> /\ u \notin retryUsers' /\ (u \in heap' <=> u \in heap)

(* Depths and priorities are constants.                                                          *)
LEMMA DepthsStay == (\A u : TooDeep(u)' <=> TooDeep(u)) /\ (\A u, v : Above(u, v)' <=> Above(u, v))
BY DEF TooDeep, Above, Depth

LEMMA UntouchedStayCounted ==
  ASSUME NEW u \in Users, UserCounted(u), UserUntouched(u), Entrants' = Entrants, u \in lost' <=> u \in lost,
         lost # {} => lost' # {}, Live' => Live,
         caller' \in {"read", "returned"} => caller \in {"read", "returned"}
  PROVE  UserCounted(u)'
BY DepthsStay DEF UserCounted, UserUntouched

(* Before the start everyone on the heap is to be done, and nobody else is.                      *)
LEMMA StartCounts ==
  ASSUME BatchInv, Counted,
         (\E l \in Lists : CollectList(l)) \/ EndCollect \/ Preprocess \/ PreprocessPanic \/ Launch
  PROVE  Counted'
<1>1. /\ UNCHANGED <<round, prod, retryUsers, openTweets>>
      /\ caller \in {"collect", "preprocess"} /\ ~errClosed
      /\ heap' = heap \/ \E u \in Users : heap' = heap \cup {u}
  BY StartMoves
<1>2. /\ round.at = "top" /\ retryUsers = {}
      /\ \A u \in Users : prod[u] = "out" /\ openTweets[u] = 0
  BY <1>1 DEF BatchInv, BeforeStart
<1>3. /\ heap = Entrants /\ lost = {} /\ completed \in [Users -> Nat] /\ heap \subseteq Users
      /\ \A u \in Users : completed[u] = 0
  BY <1>1 DEF Counted
<1>. USE DEF startVars, progressVars, fetchVars, doneVars
<1>4. UNCHANGED <<completed, lost>>
  BY DEF CollectList, EndCollect, Preprocess, PreprocessPanic, Launch
<1>5. heap' = Entrants'
  <2>1. CASE Preprocess
    <3>. DEFINE u == packaged[1][1]
    <3>1. CASE UNCHANGED <<syncState, heap>>
      BY <1>3, <3>1 DEF Entrants
    <3>2. CASE /\ syncState'.users = syncState.users \cup {u}
               /\ heap' = IF u \notin syncState.users /\ MediaCount[u] # 0 /\ u \notin Invisible THEN heap \cup {u} ELSE heap
      <4>. HIDE DEF u
      <4>1. Entrants' = Entrants \cup (IF MediaCount[u] # 0 /\ u \notin Invisible THEN {u} ELSE {})
        BY <3>2 DEF Entrants
      <4>2. u \in syncState.users /\ MediaCount[u] # 0 /\ u \notin Invisible => u \in Entrants
        BY DEF Entrants
      <4>. QED  BY <1>3, <3>2, <4>1, <4>2
    <3>. QED  BY <2>1, <3>1, <3>2 DEF Preprocess
  <2>2. CASE ~Preprocess
    <3>1. UNCHANGED <<syncState, heap>>
      BY <2>2 DEF CollectList, EndCollect, PreprocessPanic, Launch
    <3>. QED  BY <1>3, <3>1 DEF Entrants
  <2>. QED  BY <2>1, <2>2
<1>6. caller' = "returned" => ~Live' \/ heap' = {}
  <2>1. CASE EndCollect
    BY <2>1 DEF EndCollect, Live
  <2>2. CASE Launch
    BY <2>2 DEF Launch
  <2>3. CASE ~EndCollect /\ ~Launch
    BY <1>1, <2>3 DEF CollectList, Preprocess, PreprocessPanic
  <2>. QED  BY <2>1, <2>2, <2>3
<1>7. ASSUME NEW u \in Users PROVE UserCounted(u)'
  <2>1. Todo(u)' <=> u \in heap'
    BY <1>1, <1>2 DEF Todo, Unfetched
  <2>2. prod'[u] = "out" /\ u \notin retryUsers' /\ openTweets'[u] = 0 /\ completed'[u] = 0 /\ lost' = {}
    BY <1>1, <1>2, <1>3, <1>4
  <2>. QED  BY <1>5, <1>6, <2>1, <2>2 DEF UserCounted
<1>8. heap' \subseteq Users
  BY <1>1, <1>3
<1>. QED  BY <1>1, <1>2, <1>3, <1>4, <1>5, <1>7, <1>8 DEF Counted

(* What leaves every user as it is.                                                              *)
LEMMA UsersStayCounted ==
  ASSUME Counted, \A u \in Users : UserUntouched(u), UNCHANGED <<syncState, completed, lost>>, Live' => Live,
         caller' = caller \/ (caller = "read" /\ caller' = "returned"),
         caller = "read" \/ heap' = heap,
         round'.at = "pop" => round'.peeked \in heap' /\ \A u \in heap' : Above(u, round'.peeked) => ~TooDeep(u)
  PROVE  Counted'
<1>1. Entrants' = Entrants
  BY DEF Entrants
<1>2. \A u \in Users : UserCounted(u)'
  BY <1>1, UntouchedStayCounted DEF Counted
<1>. QED  BY <1>1, <1>2, DepthsStay DEF Counted

LEMMA CallCounts ==
  ASSUME BatchInv, Counted, ReadFail \/ BatchReturn \/ CancelBatch
  PROVE  Counted'
<1>1. /\ UNCHANGED <<syncState, heap, retryUsers, prod, openTweets, completed, lost, round>> /\ (Live' => Live)
      /\ caller' = caller \/ (caller = "read" /\ caller' = "returned")
  BY DEF ReadFail, BatchReturn, CancelBatch, startVars, fetchVars, progressVars, doneVars, Live
<1>2. \A u \in Users : UserUntouched(u)
  BY <1>1 DEF UserUntouched, UserCounted, Counted, Todo, Unfetched
<1>3. round'.at = "pop" => round'.peeked \in heap' /\ \A u \in heap' : Above(u, round'.peeked) => ~TooDeep(u)
  BY <1>1 DEF Counted
<1>. QED  BY <1>1, <1>2, <1>3, UsersStayCounted

(* A round takes users off the heap and gives up who is too deep; a producer that gave its user  *)
(* back in between is why somebody else may be lost.                                             *)
LEMMA PopCounts ==
  ASSUME BatchInv, Counted, Pop
  PROVE  Counted'
<1>v. PICK v : v = round.peeked
  OBVIOUS
<1>1. /\ UNCHANGED <<caller, cause, syncState, retryUsers, openTweets>> /\ caller = "read"
  BY ScheduleMoves DEF Pop, RoundUnchanged, startVars, Schedule
<1>2. v \in heap /\ v \in Users /\ (\A u \in heap : Above(u, v) => ~TooDeep(u)) /\ heap \subseteq Users
  BY <1>v DEF Pop, Counted, BatchInv, BatchTyped
<1>3. PICK u \in heap :
        /\ IsTop(v) => u = v
        /\ IsTop(u) /\ heap' = heap \ {u}
        /\ round'.at # "pop"
        /\ \/ /\ TooDeep(v) /\ MarkDone(v) /\ UNCHANGED prod
              /\ lost' = IF u = v THEN lost ELSE lost \cup {u}
           \/ /\ ~TooDeep(v) /\ prod' = [prod EXCEPT ![u] = "submitted"] /\ UNCHANGED doneVars
  BY <1>v DEF Pop, Round, TooDeep
<1>4. u \in Users /\ prod[u] = "out" /\ u \notin retryUsers /\ openTweets[u] = 0 /\ Todo(u)
  BY DEF BatchInv, BatchTyped, OnePlace, FetchedOnce, Unfetched, Todo
<1>5. u # v => ~TooDeep(u)
  <2>1. SUFFICES ASSUME u # v PROVE Above(u, v)
    BY <1>2
  <2>2. PICK x \in heap : Above(x, v)
    BY <1>2, <1>3, <2>1 DEF IsTop
  <2>3. ~Above(x, u) /\ x \in Users
    BY <1>2, <1>3 DEF IsTop
  <2>4. Depth[x] \in Nat /\ Depth[u] \in Nat /\ Depth[v] \in Nat
    BY <1>2, <1>4, <2>3, DepthIsNat
  <2>. QED  BY <2>2, <2>3, <2>4 DEF Above
<1>6. /\ Entrants' = Entrants /\ Entrants \subseteq Users /\ completed \in [Users -> Nat] /\ lost \subseteq Users
      /\ Live' = Live
      /\ \A x \in Users : UserCounted(x)
  BY <1>1 DEF Entrants, Counted, Live
<1>7. \A x \in Users \ {u} : x \in heap' <=> x \in heap
  BY <1>3
<1>8. CASE ~TooDeep(v) /\ prod' = [prod EXCEPT ![u] = "submitted"] /\ UNCHANGED doneVars
  <2>1. prod'[u] = "submitted" /\ \A x \in Users \ {u} : prod'[x] = prod[x]
    BY <1>4, <1>8 DEF BatchInv, BatchTyped
  <2>2. ~TooDeep(u) /\ UNCHANGED <<completed, lost>>
    BY <1>5, <1>8 DEF doneVars
  <2>3. \A x \in Users : UserUntouched(x)
    BY <1>1, <1>4, <1>6, <1>7, <2>1, <2>2 DEF UserUntouched, UserCounted, Todo, Unfetched
  <2>. QED  BY <1>1, <1>3, <1>6, <2>2, <2>3, UsersStayCounted
<1>9. CASE /\ TooDeep(v) /\ MarkDone(v) /\ UNCHANGED prod
           /\ lost' = IF u = v THEN lost ELSE lost \cup {u}
  <2>1. /\ completed'[v] = completed[v] + 1 /\ completed' \in [Users -> Nat] /\ completed[v] \in Nat
        /\ \A x \in Users \ {v} : completed'[x] = completed[x]
        /\ lost' \subseteq Users /\ (lost # {} => lost' # {})
    BY <1>2, <1>4, <1>6, <1>9 DEF MarkDone
  <2>2. ASSUME NEW x \in Users, x # u, x # v PROVE UserCounted(x)'
    <3>1. UserUntouched(x) /\ (x \in lost' <=> x \in lost)
      BY <1>1, <1>6, <1>7, <1>9, <2>1, <2>2 DEF UserUntouched, UserCounted, Todo, Unfetched
    <3>. QED  BY <1>1, <1>6, <2>1, <2>2, <3>1, UntouchedStayCounted
  <2>3. ~Todo(u)' /\ Todo(v)
    BY <1>1, <1>2, <1>3, <1>4, <1>9 DEF Todo, Unfetched
  <2>4. v \in Entrants /\ u \in Entrants /\ TooDeep(v)' /\ (TooDeep(u)' <=> TooDeep(u))
    BY <1>2, <1>4, <1>6, <1>9, <2>3, DepthsStay DEF UserCounted
  <2>5. /\ prod[v] = "out" /\ v \notin retryUsers /\ ~(openTweets[v] > 0) /\ v \notin lost
        /\ completed[v] > 0 => lost # {}
    BY <1>2, <1>6, <1>9, <2>1, <2>3 DEF UserCounted
  <2>6. UserCounted(v)'
    <3>1. v \notin lost' /\ UNCHANGED <<prod, retryUsers, openTweets>> /\ completed'[v] > 0
      BY <1>1, <1>9, <2>1, <2>5
    <3>2. completed'[v] > (IF v \in heap' THEN 0 ELSE 1) => lost' # {}
      <4>1. CASE u = v
        BY <1>3, <2>1, <2>5, <4>1
      <4>2. CASE u # v
        BY <1>9, <4>2
      <4>. QED  BY <4>1, <4>2
    <3>. QED  BY <1>6, <2>4, <2>5, <3>1, <3>2 DEF UserCounted
  <2>7. u # v => UserCounted(u)'
    <3>1. SUFFICES ASSUME u # v PROVE UserCounted(u)'
      OBVIOUS
    <3>2. ~TooDeep(u) /\ completed[u] = 0 /\ completed'[u] = 0 /\ u \in lost'
      BY <1>4, <1>5, <1>6, <1>9, <2>1, <3>1 DEF UserCounted
    <3>. QED  BY <1>6, <2>3, <2>4, <3>2 DEF UserCounted
  <2>8. \A x \in Users : UserCounted(x)'
    BY <2>2, <2>6, <2>7
  <2>9. \E x \in Entrants' : TooDeep(x)'
    BY <1>6, <2>4
  <2>. QED  BY <1>1, <1>3, <1>6, <2>1, <2>8, <2>9 DEF Counted
<1>. QED  BY <1>3, <1>8, <1>9

LEMMA ScheduleCounts ==
  ASSUME BatchInv, Counted, Schedule
  PROVE  Counted'
<1>1. /\ UNCHANGED <<caller, cause, openTweets>> /\ caller = "read"
  BY ScheduleMoves
<1>2. UNCHANGED syncState /\ Live' = Live
  BY <1>1 DEF Schedule, RoundTop, Peek, Pop, Submit, EndSelect, WaitRound, RetryDelay, CloseTweets, CloseErrors,
              RoundUnchanged, startVars, Live
<1>3. ASSUME UNCHANGED <<completed, lost>>, \A u \in Users : UserUntouched(u),
             round'.at = "pop" => round'.peeked \in heap' /\ \A u \in heap' : Above(u, round'.peeked) => ~TooDeep(u)
      PROVE  Counted'
  BY <1>1, <1>2, <1>3, UsersStayCounted
<1>4. CASE RoundTop
  <2>1. UNCHANGED <<prod, completed, lost>> /\ heap' \cup retryUsers' = heap \cup retryUsers /\ round'.at # "pop"
        /\ (retryUsers' = {} \/ UNCHANGED <<heap, retryUsers>>)
    BY <1>4 DEF RoundTop, Round, doneVars
  <2>2. \A u \in Users : UserUntouched(u)
    BY <1>1, <2>1 DEF UserUntouched, UserCounted, Counted, Todo, Unfetched
  <2>. QED  BY <1>3, <2>1, <2>2
<1>5. CASE Pop
  BY <1>5, PopCounts
<1>6. CASE Submit
  <2>. DEFINE u == round.peeked
  <2>1. prod' = [prod EXCEPT ![u] = "select"] /\ UNCHANGED <<heap, retryUsers, completed, lost>> /\ round.at = "submit"
        /\ round'.at # "pop"
    BY <1>6 DEF Submit, Round, doneVars
  <2>2. u \in Users /\ prod[u] = "submitted"
    BY <2>1 DEF BatchInv, ClosesInOrder
  <2>3. prod'[u] = "select" /\ \A x \in Users \ {u} : prod'[x] = prod[x]
    BY <2>1, <2>2 DEF BatchInv, BatchTyped
  <2>. HIDE DEF u
  <2>4. ~TooDeep(u)
    BY <2>2 DEF Counted, UserCounted
  <2>5. \A x \in Users : UserUntouched(x)
    BY <1>1, <2>1, <2>2, <2>3, <2>4 DEF UserUntouched, UserCounted, Counted, Todo, Unfetched
  <2>. QED  BY <1>3, <2>1, <2>5
<1>7. CASE Peek
  <2>1. UNCHANGED <<heap, retryUsers, prod, completed, lost>>
    BY <1>7 DEF Peek, fetchVars, doneVars
  <2>2. \A u \in Users : UserUntouched(u)
    BY <1>1, <2>1 DEF UserUntouched, UserCounted, Counted, Todo, Unfetched
  <2>3. round'.at = "pop" => round'.peeked \in heap /\ IsTop(round'.peeked)
    BY <1>7 DEF Peek, Round
  <2>. QED  BY <1>3, <2>1, <2>2, <2>3 DEF IsTop
<1>8. CASE EndSelect \/ WaitRound \/ RetryDelay \/ CloseTweets \/ CloseErrors
  <2>1. UNCHANGED <<heap, retryUsers, prod, completed, lost>> /\ round'.at # "pop"
    BY <1>8 DEF EndSelect, WaitRound, RetryDelay, CloseTweets, CloseErrors, Round, fetchVars, doneVars
  <2>2. \A u \in Users : UserUntouched(u)
    BY <1>1, <2>1 DEF UserUntouched, UserCounted, Counted, Todo, Unfetched
  <2>. QED  BY <1>3, <2>1, <2>2
<1>. QED  BY <1>4, <1>5, <1>6, <1>7, <1>8 DEF Schedule

(* A producer's user is within the limit; it goes on with it, gives it back or is done with it.  *)
LEMMA ProducerCounts ==
  ASSUME BatchInv, Counted, NEW u \in Users, Producer(u) \/ ProducerPanic(u)
  PROVE  Counted'
<1>1. prod[u] # "out" /\ UNCHANGED <<caller, syncState, round>> /\ (Live' => Live)
  BY DEF Producer, SelectClient, Fetch, Backoff, SendTweet, StopSending, AdvanceRelease, ProducerPanic,
         ProducerUnchanged, startVars, Live, CancelWith
<1>2. caller = "read" /\ u \notin heap /\ u \notin retryUsers
  BY <1>1, ProducerRuns
<1>3. /\ Entrants' = Entrants /\ Entrants \subseteq Users /\ completed \in [Users -> Nat] /\ lost \subseteq Users
      /\ \A x \in Users : UserCounted(x)
  BY <1>1 DEF Entrants, Counted
<1>4. ~TooDeep(u) /\ (TooDeep(u)' <=> TooDeep(u))
  BY <1>1, <1>3, DepthsStay DEF UserCounted
<1>5. Unfetched(u) => openTweets[u] = 0
  BY DEF BatchInv, FetchedOnce
<1>6. /\ \A x \in Users \ {u} : prod'[x] = prod[x] /\ openTweets'[x] = openTweets[x]
      /\ heap' \in {heap, heap \cup {u}} /\ retryUsers' \in {retryUsers, retryUsers \cup {u}}
      /\ UNCHANGED lost /\ (UNCHANGED completed \/ completed' = [completed EXCEPT ![u] = @ + 1])
  BY DEF Producer, SelectClient, Fetch, Backoff, SendTweet, StopSending, AdvanceRelease, ProducerPanic,
         GiveBack, Leave, UserDone, MarkDone, doneVars, BatchInv, BatchTyped
<1>7. \/ UNCHANGED completed /\ (Todo(u)' <=> Todo(u))
      \/ Todo(u) /\ completed' = [completed EXCEPT ![u] = @ + 1] /\ ~Todo(u)'
      \/ UNCHANGED completed /\ ~Live' /\ (Todo(u)' => Todo(u))
  <2>1. prod \in [Users -> {"out", "submitted", "select", "fetch", "backoff", "send"}] /\ openTweets \in [Users -> Int]
    BY DEF BatchInv, BatchTyped
  <2>. USE <1>2, <1>5, <2>1 DEF Todo, Unfetched, GiveBack, Leave, UserDone, MarkDone, doneVars
  <2>2. CASE SelectClient(u)
    BY <2>2 DEF SelectClient
  <2>3. CASE Fetch(u)
    <3>1. Media[u] \in Nat
      BY BatchAssumption
    <3>2. CASE UNCHANGED openTweets
      BY <2>3, <3>2 DEF Fetch
    <3>3. CASE prod' = [prod EXCEPT ![u] = "send"] /\ openTweets' = [openTweets EXCEPT ![u] = Media[u]] /\ Media[u] > 0
               /\ UNCHANGED completed
      <4>1. openTweets'[u] = Media[u]
        BY <3>3
      <4>. QED  BY <2>3, <3>3, <4>1 DEF Fetch
    <3>. QED  BY <2>3, <3>2, <3>3 DEF Fetch
  <2>4. CASE Backoff(u)
    BY <2>4 DEF Backoff, Live
  <2>5. CASE SendTweet(u) \/ StopSending(u) \/ AdvanceRelease(u)
    BY <2>5 DEF SendTweet, StopSending, AdvanceRelease
  <2>6. CASE ProducerPanic(u)
    BY <2>6 DEF ProducerPanic, CancelWith, Live
  <2>. QED  BY <2>2, <2>3, <2>4, <2>5, <2>6 DEF Producer
<1>8. ASSUME NEW x \in Users, x # u PROVE UserCounted(x)'
  <2>1. completed'[x] = completed[x] /\ UserUntouched(x)
    BY <1>3, <1>6, <1>8 DEF UserUntouched, UserCounted, Todo, Unfetched
  <2>. QED  BY <1>1, <1>3, <1>6, <2>1, UntouchedStayCounted
<1>9. UserCounted(u)' /\ completed' \in [Users -> Nat]
  <2>1. CASE UNCHANGED completed
    BY <1>1, <1>3, <1>4, <1>6, <1>7, <2>1 DEF UserCounted
  <2>2. CASE completed' = [completed EXCEPT ![u] = @ + 1]
    <3>1. completed'[u] = completed[u] + 1 /\ completed[u] \in Nat /\ completed' \in [Users -> Nat] /\ completed' # completed
      BY <1>3, <2>2
    <3>2. Todo(u) /\ ~Todo(u)'
      BY <1>7, <3>1
    <3>3. completed[u] = 0 /\ u \in Entrants /\ u \notin lost
      BY <1>3, <1>4, <3>2 DEF UserCounted
    <3>. QED  BY <1>3, <1>4, <1>6, <3>1, <3>2, <3>3 DEF UserCounted
  <2>. QED  BY <1>3, <1>6, <2>1, <2>2
<1>10. round.at = "pop" => round'.peeked \in heap' /\ \A x \in heap' : Above(x, round'.peeked) => ~TooDeep(x)
  BY <1>1, <1>4, <1>6 DEF Counted
<1>11. lost # {} => \E x \in Entrants : TooDeep(x)
  BY DEF Counted
<1>. QED  BY <1>1, <1>2, <1>3, <1>6, <1>8, <1>9, <1>10, <1>11, DepthsStay DEF Counted

(* A worker that is done with the last open tweet of a user counts it.                           *)
LEMMA WorkerCounts ==
  ASSUME BatchInv, Counted, NEW w \in Workers, Worker(w) \/ WorkerPanic(w)
  PROVE  Counted'
<1>1. UNCHANGED <<caller, syncState, round, heap, retryUsers, prod>> /\ (Live' => Live)
  BY DEF Worker, Take, Notice, Download, Report, TweetDone, DrainTweet, SafeSend, WorkerPanic, WorkerUnchanged,
         startVars, fetchVars, Live, CancelWith
<1>2. /\ Entrants' = Entrants /\ completed \in [Users -> Nat] /\ \A x \in Users : UserCounted(x)
  BY <1>1 DEF Entrants, Counted
<1>3. round'.at = "pop" => round'.peeked \in heap' /\ \A x \in heap' : Above(x, round'.peeked) => ~TooDeep(x)
  BY <1>1 DEF Counted
<1>4. CASE UNCHANGED <<openTweets, completed, lost>>
  <2>1. \A x \in Users : UserUntouched(x)
    BY <1>1, <1>2, <1>4 DEF UserUntouched, UserCounted, Todo, Unfetched
  <2>. QED  BY <1>1, <1>3, <1>4, <2>1, UsersStayCounted
<1>5. CASE TweetDone(w)
  <2>u. PICK u : u = worker[w].tweet[1]
    OBVIOUS
  <2>1. u \in Users
    <3>1. worker[w].tweet # NoTweet /\ worker[w].tweet \in Tweets \cup {NoTweet}
      BY <1>5 DEF TweetDone, BatchInv, BatchTyped, SentBefore, Bare
    <3>. QED  BY <2>u, <3>1, TweetFacts
  <2>2. /\ openTweets' = [openTweets EXCEPT ![u] = @ - 1]
        /\ IF openTweets[u] = 1 THEN UserDone(u) ELSE UNCHANGED doneVars
    BY <1>5, <2>u DEF TweetDone
  <2>3. /\ openTweets'[u] = openTweets[u] - 1 /\ openTweets[u] \in Int
        /\ \A x \in Users \ {u} : openTweets'[x] = openTweets[x]
    BY <2>1, <2>2 DEF BatchInv, BatchTyped
  <2>4. CASE openTweets[u] # 1
    <3>1. UNCHANGED <<completed, lost>> /\ (openTweets'[u] > 0 <=> openTweets[u] > 0)
      BY <2>2, <2>3, <2>4 DEF doneVars
    <3>2. \A x \in Users : Todo(x)' <=> Todo(x)
      BY <1>1, <2>3, <3>1 DEF Todo, Unfetched
    <3>3. \A x \in Users : UserCounted(x)'
      BY <1>1, <1>2, <2>3, <3>1, <3>2, DepthsStay DEF UserCounted
    <3>. QED  BY <1>1, <1>2, <1>3, <3>1, <3>3, DepthsStay DEF Counted
  <2>5. CASE openTweets[u] = 1
    <3>1. /\ completed'[u] = completed[u] + 1 /\ completed[u] \in Nat /\ completed' \in [Users -> Nat]
          /\ \A x \in Users \ {u} : completed'[x] = completed[x]
          /\ UNCHANGED lost /\ openTweets'[u] = 0
      BY <1>2, <2>1, <2>2, <2>3, <2>5 DEF UserDone, MarkDone
    <3>2. Todo(u) /\ ~TooDeep(u) /\ ~Todo(u)'
      <4>1. ~Unfetched(u)
        BY <2>1, <2>5 DEF BatchInv, FetchedOnce
      <4>2. ~TooDeep(u)
        BY <1>2, <2>1, <2>5 DEF UserCounted
      <4>. QED  BY <1>1, <2>5, <3>1, <4>1, <4>2 DEF Todo, Unfetched
    <3>3. completed[u] = 0 /\ u \in Entrants /\ u \notin lost
      BY <1>2, <2>1, <3>2 DEF UserCounted
    <3>4. UserCounted(u)'
      BY <1>2, <3>1, <3>2, <3>3, DepthsStay DEF UserCounted
    <3>5. ASSUME NEW x \in Users, x # u PROVE UserCounted(x)'
      <4>1. UserUntouched(x)
        BY <1>1, <1>2, <2>3, <3>1, <3>5 DEF UserUntouched, UserCounted, Todo, Unfetched
      <4>. QED  BY <1>1, <1>2, <3>1, <4>1, UntouchedStayCounted
    <3>6. caller \notin {"collect", "preprocess"}
      BY <2>1, <2>5 DEF BatchInv, BeforeStart, ClosesInOrder
    <3>. QED  BY <1>1, <1>2, <1>3, <3>1, <3>4, <3>5, <3>6, DepthsStay DEF Counted
  <2>. QED  BY <2>4, <2>5
<1>6. CASE ~TweetDone(w)
  <2>1. UNCHANGED <<openTweets, completed, lost>>
    BY <1>6 DEF Worker, Take, Notice, Download, Report, DrainTweet, SafeSend, WorkerPanic, doneVars
  <2>. QED  BY <1>4, <2>1
<1>. QED  BY <1>5, <1>6

LEMMA CountingStarts == ASSUME BatchInit PROVE Counted
BY DEF BatchInit, Counted, UserCounted, Entrants, Todo, Unfetched, TooDeep

LEMMA CountingStays == ASSUME BatchInv, Counted, [BatchNext]_batchVars PROVE Counted'
<1>1. CASE UNCHANGED batchVars
  <2>1. UNCHANGED <<caller, cause, syncState, heap, retryUsers, prod, openTweets, completed, lost, round>>
    BY <1>1 DEF batchVars, startVars, fetchVars, progressVars, doneVars
  <2>2. \A u \in Users : UserUntouched(u)
    BY <2>1 DEF UserUntouched, UserCounted, Counted, Todo, Unfetched
  <2>3. round'.at = "pop" => round'.peeked \in heap' /\ \A u \in heap' : Above(u, round'.peeked) => ~TooDeep(u)
    BY <2>1 DEF Counted
  <2>. QED  BY <2>1, <2>2, <2>3, UsersStayCounted DEF Live
<1>2. CASE BatchNext
  <2>1. CASE Caller \/ PreprocessPanic \/ CancelBatch
    BY <2>1, StartCounts, CallCounts DEF Caller
  <2>. QED  BY <1>2, <2>1, ScheduleCounts, ProducerCounts, WorkerCounts DEF BatchNext
<1>. QED  BY <1>1, <1>2

(* When a batch that was not cancelled returns, nobody is left to be done.                       *)
LEMMA NobodyIsLeft ==
  ASSUME BatchInv, caller = "returned", Live
  PROVE  StillToDo = {} /\ heap = {} /\ retryUsers = {}
<1>1. BatchTyped /\ BeforeStart /\ ClosesInOrder /\ TweetsCount
  BY DEF BatchInv
<1>2. CASE errClosed
  <2>1. heap = {} /\ retryUsers = {} /\ \A u \in Users : prod[u] = "out"
    BY <1>1, <1>2 DEF ClosesInOrder
  <2>2. tweetCh = <<>> /\ \A w \in Workers : worker[w].st = "gone"
    BY <1>2, NothingOnItsWay
  <2>3. ASSUME NEW u \in Users PROVE openTweets[u] = 0
    <3>1. InFlight(u) = {}
      BY <2>2, EmptyChannel DEF InFlight, WithWorker, Busy
    <3>2. openTweets[u] = Cardinality(InFlight(u)) + 0
      BY <1>1, <2>1 DEF TweetsCount
    <3>. QED  BY <3>1, <3>2, FS_EmptySet
  <2>. QED  BY <2>1, <2>3 DEF StillToDo, Unfetched
<1>3. CASE ~errClosed
  BY <1>1, <1>3 DEF BeforeStart, StillToDo, Unfetched
<1>. QED  BY <1>2, <1>3

LEMMA TheUsersAddUp == ASSUME BatchInv, Counted PROVE UsersAddUp
<1>1. usersDone \in Nat /\ totalUsers \in Nat /\ Cardinality(StillToDo) \in Nat
  BY FS_CardinalityType DEF BatchInv, BatchTyped, UsersCount
<1>2. caller \in {"read", "returned"} => usersDone <= totalUsers
  BY <1>1 DEF BatchInv, UsersCount
<1>3. completed \in [Users -> Nat] /\ lost \subseteq Users /\ Entrants \subseteq Users /\ \A u \in Users : UserCounted(u)
  BY DEF Counted
<1>4. ASSUME NEW u \in Users, completed[u] > 1 PROVE Depth[u] > DepthLimit /\ lost # {}
  <2>1. completed[u] \in Nat /\ UserCounted(u)
    BY <1>3
  <2>. QED  BY <1>4, <2>1 DEF UserCounted, TooDeep
<1>5. lost # {} => \E u \in Entrants : Depth[u] > DepthLimit
  BY DEF Counted, TooDeep
<1>6. \A u \in lost : Depth[u] <= DepthLimit /\ completed[u] = 0
  <2>1. SUFFICES ASSUME NEW u \in lost PROVE Depth[u] <= DepthLimit /\ completed[u] = 0
    OBVIOUS
  <2>2. Depth[u] \in Nat /\ DepthLimit \in Nat
    BY <1>3, DepthIsNat, BatchAssumption
  <2>. QED  BY <1>3, <2>2 DEF UserCounted, TooDeep
<1>7. ASSUME caller = "returned", Live
      PROVE  /\ usersDone = totalUsers /\ heap = {} /\ retryUsers = {}
             /\ {u \in Users : completed[u] > 0} = Entrants \ lost
  <2>1. StillToDo = {} /\ heap = {} /\ retryUsers = {}
    BY <1>7, NobodyIsLeft
  <2>2. usersDone = totalUsers
    BY <1>1, <1>7, <2>1, FS_EmptySet DEF BatchInv, UsersCount
  <2>3. \A u \in Users : ~Todo(u)
    BY <2>1 DEF StillToDo, Todo
  <2>4. ASSUME NEW u \in Users PROVE completed[u] > 0 <=> u \in Entrants /\ u \notin lost
    BY <1>3, <1>7, <2>3 DEF UserCounted
  <2>. QED  BY <1>3, <2>1, <2>2, <2>4
<1>. QED  BY <1>2, <1>4, <1>5, <1>6, <1>7 DEF UsersAddUp

-----------------------------------------------------------------------------
(* The theorems.                                                           *)

(* No goroutine of a batch ever sends on a closed channel: tweetCh is closed after the last      *)
(* producer left, errCh after the last worker (BatchUserDownload).                               *)
THEOREM NobodySendsAfterClose == BatchSpec => []NoSendAfterClose
<1>. QED  BY BatchIsInOrder, ClosesBehindEveryone, PTL

(* No user has two producers, nor one while it waits on the heap or for its retry.               *)
THEOREM OneProducerEach == BatchSpec => []OneProducerPerUser
<1>. QED  BY BatchIsInOrder, EachInOnePlace, PTL

(* Unless a goroutine panics, every tweet that a producer handed over is on its way, and when    *)
(* the batch returns it is on disk or among the failures, whatever was cancelled and when.       *)
THEOREM HandedOverIsKept == BatchSpec => []HandedOverKept
<1>. QED  BY BatchIsInOrder, WhatWasSentIsHeld, PTL

(* completedUsers never exceeds the total, and meets it when a batch that nobody cancelled       *)
(* returns; then every user that was put on the heap has been completed, but for those that      *)
(* popNextBatchEntity removed in the place of one that is too deep, and only such a user is      *)
(* counted twice.                                                                                *)
THEOREM BatchUsersAddUp == BatchSpec => []UsersAddUp
<1>1. BatchSpec => [](BatchInv /\ Counted)
  <2>1. BatchInit => BatchInv /\ Counted
    BY BatchStarts, CountingStarts
  <2>2. BatchInv /\ Counted /\ [BatchNext]_batchVars => (BatchInv /\ Counted)'
    BY BatchStep, CountingStays
  <2>. QED  BY <2>1, <2>2, PTL DEF BatchSpec
<1>. QED  BY <1>1, TheUsersAddUp, PTL

-----------------------------------------------------------------------------
(* The types: the rounds, what was advanced, saved and handed back, and    *)
(* how much the channels hold.                                             *)

BatchBounded ==
  /\ cause \in {"none", "cancel", "panic", "nospace", "noclient", "list"}
  /\ advanced \subseteq Users
  /\ round.depth \in Nat /\ (round.at = "pop" => round.peeked \in Users)
  /\ Len(tweetCh) <= Cap /\ Len(errCh) <= Cap
  /\ saved \subseteq Tweets /\ fails \subseteq Tweets

(* The channels are as large as there are tweets.                                                *)
LEMMA CapIsNat == Cap \in Nat
BY BatchAssumption, FS_CardinalityType DEF Cap

\* The caller empties errCh and fills nothing.
LEMMA CallerStaysBounded ==
  ASSUME BatchInv, BatchBounded, Caller \/ PreprocessPanic \/ CancelBatch
  PROVE  BatchBounded'
<1>. USE DEF BatchBounded, fetchVars, chanVars, workVars, progressVars, startVars, Live, CancelWith
<1>1. CASE \E l \in Lists : CollectList(l)
  <2>1. PICK l \in Lists : CollectList(l)
    BY <1>1
  <2>2. /\ cause' \in {cause, "list"}
        /\ UNCHANGED <<round, fetchVars, chanVars, workVars>>
    BY <2>1 DEF CollectList
  <2>. QED  BY <2>2
<1>2. CASE EndCollect
  BY <1>2 DEF EndCollect
<1>3. CASE Preprocess
  <2>1. UNCHANGED <<cause, round, advanced, chanVars, workVars>>
    BY <1>3 DEF Preprocess
  <2>. QED  BY <2>1
<1>4. CASE Launch
  <2>1. UNCHANGED <<cause, round, advanced, chanVars, saved, fails>>
    BY <1>4 DEF Launch
  <2>. QED  BY <2>1
<1>5. CASE ReadFail
  <2>1. errCh \in Seq(Tweets) /\ errCh # <<>>
    BY <1>5 DEF ReadFail, BatchInv, BatchTyped
  <2>2. Head(errCh) \in Tweets /\ Len(Tail(errCh)) = Len(errCh) - 1 /\ Len(errCh) \in Nat
    BY <2>1, ChannelReceive
  <2>3. /\ errCh' = Tail(errCh) /\ fails' = fails \cup {Head(errCh)}
        /\ UNCHANGED <<cause, round, advanced, tweetCh, saved>>
    BY <1>5 DEF ReadFail
  <2>. QED  BY <2>2, <2>3, CapIsNat
<1>6. CASE BatchReturn
  BY <1>6 DEF BatchReturn
<1>7. CASE PreprocessPanic
  BY <1>7 DEF PreprocessPanic
<1>8. CASE CancelBatch
  BY <1>8 DEF CancelBatch
<1>. QED  BY <1>1, <1>2, <1>3, <1>4, <1>5, <1>6, <1>7, <1>8 DEF Caller

\* The scheduler of the rounds picks users from the heap.
LEMMA ScheduleStaysBounded ==
  ASSUME BatchInv, BatchBounded, Schedule
  PROVE  BatchBounded'
<1>1. UNCHANGED <<cause, advanced, tweetCh, errCh, saved, fails>>
  BY DEF Schedule, RoundTop, Peek, Pop, Submit, EndSelect, WaitRound, RetryDelay, CloseTweets, CloseErrors,
         fetchVars, chanVars, RoundUnchanged
<1>2. round'.depth \in Nat /\ (round'.at = "pop" => round'.peeked \in Users)
  <2>. USE DEF Round, BatchBounded
  <2>1. CASE RoundTop
    BY <2>1 DEF RoundTop
  <2>2. CASE Peek
    <3>1. PICK u \in heap : round' \in {Round("wait", Nobody, 0), Round("pop", u, round.depth)}
      BY <2>2 DEF Peek
    <3>. QED  BY <3>1 DEF BatchInv, BatchTyped
  <2>3. CASE Pop
    <3>1. round.peeked \in Users
      BY <2>3 DEF Pop
    <3>2. Depth[round.peeked] \in Nat
      BY <3>1, DepthIsNat
    <3>3. PICK u \in heap : round' \in {Round("select", Nobody, round.depth),
                                        Round("submit", u, round.depth + Depth[round.peeked])}
      BY <2>3 DEF Pop
    <3>. QED  BY <3>2, <3>3
  <2>4. CASE Submit
    BY <2>4 DEF Submit
  <2>5. CASE EndSelect
    BY <2>5 DEF EndSelect
  <2>6. CASE WaitRound
    BY <2>6 DEF WaitRound
  <2>7. CASE RetryDelay
    BY <2>7 DEF RetryDelay
  <2>8. CASE CloseTweets
    BY <2>8 DEF CloseTweets
  <2>9. CASE CloseErrors
    BY <2>9 DEF CloseErrors
  <2>. QED  BY <2>1, <2>2, <2>3, <2>4, <2>5, <2>6, <2>7, <2>8, <2>9 DEF Schedule
<1>. QED  BY <1>1, <1>2 DEF BatchBounded

\* A producer sends only when tweetCh has room.
LEMMA ProducerStaysBounded ==
  ASSUME BatchInv, BatchBounded, NEW u \in Users, Producer(u) \/ ProducerPanic(u)
  PROVE  BatchBounded'
<1>. USE DEF BatchBounded, ProducerUnchanged, workVars, CancelWith
<1>1. CASE SelectClient(u)
  <2>1. cause' \in {cause, "noclient"} /\ UNCHANGED <<round, advanced, tweetCh, errCh, saved, fails>>
    BY <1>1 DEF SelectClient
  <2>. QED  BY <2>1
<1>2. CASE Fetch(u)
  <2>1. UNCHANGED <<cause, round, advanced, tweetCh, errCh, saved, fails>>
    BY <1>2 DEF Fetch
  <2>. QED  BY <2>1
<1>3. CASE Backoff(u)
  BY <1>3 DEF Backoff
<1>4. CASE SendTweet(u)
  <2>1. tweetCh \in Seq(Tweets) /\ tweetCh' = Append(tweetCh, <<u, sent[u] + 1>>)
        /\ UNCHANGED <<cause, round, advanced, errCh, saved, fails>> /\ Len(tweetCh) < Cap
    BY <1>4 DEF SendTweet, BatchInv, BatchTyped
  <2>2. Len(tweetCh') = Len(tweetCh) + 1 /\ Len(tweetCh) \in Nat
    BY <2>1
  <2>. QED  BY <2>1, <2>2, CapIsNat
<1>5. CASE StopSending(u)
  BY <1>5 DEF StopSending
<1>6. CASE AdvanceRelease(u)
  <2>1. advanced' \in {advanced, advanced \cup {u}} /\ UNCHANGED <<cause, round, tweetCh, errCh, saved, fails>>
    BY <1>6 DEF AdvanceRelease
  <2>. QED  BY <2>1
<1>7. CASE ProducerPanic(u)
  BY <1>7 DEF ProducerPanic
<1>. QED  BY <1>1, <1>2, <1>3, <1>4, <1>5, <1>6, <1>7 DEF Producer

\* A worker sends only when errCh has room, and saves the tweet it holds.
LEMMA WorkerStaysBounded ==
  ASSUME BatchInv, BatchBounded, NEW w \in Workers, Worker(w) \/ WorkerPanic(w)
  PROVE  BatchBounded'
<1>1. tweetCh \in Seq(Tweets) /\ errCh \in Seq(Tweets) /\ worker[w].tweet \in Tweets \cup {NoTweet}
  BY DEF BatchInv, BatchTyped
<1>2. worker[w].st \notin Bare => worker[w].tweet \in Tweets
  BY <1>1 DEF BatchInv, SentBefore
<1>3. tweetCh # <<>> => Len(Tail(tweetCh)) = Len(tweetCh) - 1 /\ Len(tweetCh) \in Nat
  BY <1>1
<1>4. Len(errCh) \in Nat /\ \A t : Len(Append(errCh, t)) = Len(errCh) + 1
  BY <1>1
<1>5. UNCHANGED <<round, advanced, fails>>
  BY DEF Worker, Take, Notice, Download, Report, TweetDone, DrainTweet, SafeSend, WorkerPanic, WorkerUnchanged, fetchVars
<1>. USE DEF BatchBounded, CancelWith
<1>6. CASE Take(w)
  <2>1. tweetCh # <<>> /\ tweetCh' = Tail(tweetCh) /\ UNCHANGED <<cause, errCh, saved>>
    BY <1>6 DEF Take
  <2>. QED  BY <1>3, <1>5, <2>1, CapIsNat
<1>7. CASE Notice(w)
  <2>1. UNCHANGED <<cause, tweetCh, errCh, saved>>
    BY <1>7 DEF Notice
  <2>. QED  BY <1>5, <2>1
<1>8. CASE Download(w)
  <2>1. saved' \in {saved, saved \cup {worker[w].tweet}} /\ UNCHANGED <<cause, tweetCh, errCh>> /\ worker[w].st = "work"
    BY <1>8 DEF Download
  <2>. QED  BY <1>2, <1>5, <2>1 DEF Bare
<1>9. CASE Report(w)
  <2>1. Len(errCh) < Cap /\ errCh' = Append(errCh, worker[w].tweet) /\ UNCHANGED <<cause, tweetCh, saved>>
    BY <1>9 DEF Report
  <2>. QED  BY <1>4, <1>5, <2>1, CapIsNat
<1>10. CASE TweetDone(w)
  <2>1. cause' \in {cause, "nospace"} /\ UNCHANGED <<tweetCh, errCh, saved>>
    BY <1>10 DEF TweetDone
  <2>. QED  BY <1>5, <2>1
<1>11. CASE DrainTweet(w)
  <2>1. ((tweetCh # <<>> /\ tweetCh' = Tail(tweetCh)) \/ tweetCh' = tweetCh) /\ UNCHANGED <<cause, errCh, saved>>
    BY <1>11 DEF DrainTweet
  <2>. QED  BY <1>3, <1>5, <2>1, CapIsNat
<1>12. CASE SafeSend(w)
  <2>1. /\ errCh' = IF Len(errCh) < Cap THEN Append(errCh, worker[w].tweet) ELSE errCh
        /\ UNCHANGED <<cause, tweetCh, saved>>
    BY <1>12 DEF SafeSend
  <2>2. Len(errCh') <= Cap
    BY <1>4, <2>1, CapIsNat
  <2>. QED  BY <1>5, <2>1, <2>2
<1>13. CASE WorkerPanic(w)
  <2>1. cause' \in {cause, "panic"} /\ UNCHANGED <<tweetCh, errCh, saved>>
    BY <1>13 DEF WorkerPanic
  <2>. QED  BY <1>5, <2>1
<1>. QED  BY <1>6, <1>7, <1>8, <1>9, <1>10, <1>11, <1>12, <1>13 DEF Worker

(* A batch starts within these bounds, stays within them, and then has its types.                *)
LEMMA BatchStartsBounded == ASSUME BatchInit PROVE BatchBounded
BY CapIsNat DEF BatchInit, BatchBounded

LEMMA BatchStaysBounded ==
  ASSUME BatchInv, BatchBounded, [BatchNext]_batchVars
  PROVE  BatchBounded'
<1>1. CASE UNCHANGED batchVars
  BY <1>1 DEF batchVars, BatchBounded, fetchVars, chanVars, workVars
<1>2. CASE BatchNext
  BY <1>2, CallerStaysBounded, ScheduleStaysBounded, ProducerStaysBounded, WorkerStaysBounded DEF BatchNext
<1>. QED  BY <1>1, <1>2

LEMMA BatchTypesFollow == ASSUME BatchInv, BatchBounded PROVE BatchTypeOK
BY DEF BatchInv, BatchTyped, BatchBounded, BatchTypeOK

-----------------------------------------------------------------------------
(* The rate limiter: its types, and who wakes whoever sleeps.              *)

(* One account's part of the invariant: an entry that is not ready has a request in flight, and a *)
(* request that sleeps has one that will wake it.                                                 *)
Served(c) ==
  /\ pathLimit[c].kind = "pending" => At(c, "flight") # {}
  /\ Sleepers(c) # {} => \/ pathLimit[c].kind = "pending" /\ At(c, "flight") # {}
                         \/ pathLimit[c].kind = "unset" /\ At(c, "check") # {}

LimiterInv == LimiterTypeOK /\ \A c \in Accounts : Served(c)

-----------------------------------------------------------------------------
(* Types.                                                                  *)

(* A response makes an entry of the right type that is not pending.        *)
LEMMA EntryTypes ==
  ASSUME LimiterAssumption, NEW resp \in Responses
  PROVE  /\ EntryFrom(resp) \in [kind : {"unset", "nolimit", "pending", "ready"}, left : Nat,
                                 fresh : BOOLEAN]
         /\ EntryFrom(resp).kind # "pending"
         /\ resp = NoResponse <=> EntryFrom(resp).kind = "unset"
BY DEF LimiterAssumption, Responses, EntryFrom, Unset, NoLimit, Entry

(* Reset keeps the types.                                                  *)
LEMMA ResetTypes ==
  ASSUME LimiterAssumption, LimiterTypeOK,
         NEW r \in Requests, NEW resp \in Responses, NEW at \in Places, NEW tries \in Nat,
         Reset(r, resp, at, tries)
  PROVE  /\ pathLimit' \in [Accounts -> [kind : {"unset", "nolimit", "pending", "ready"},
                                         left : Nat, fresh : BOOLEAN]]
         /\ request' \in [Requests -> [at : Places, cli : Accounts, tries : Nat,
                                       resp : Responses]]
<1> DEFINE c == request[r].cli
<1>1. c \in Accounts /\ Master \in Accounts /\ NoResponse \in Responses
  BY DEF LimiterTypeOK, Accounts, Responses
<1>2. pathLimit' \in [Accounts -> [kind : {"unset", "nolimit", "pending", "ready"},
                                   left : Nat, fresh : BOOLEAN]]
  BY <1>1, EntryTypes DEF Reset, LimiterTypeOK
<1>3. request' \in [Requests -> [at : Places, cli : Accounts, tries : Nat, resp : Responses]]
  <2>1. PICK woken \in SUBSET Sleepers(c) :
          request' = [x \in Requests |->
                         IF x = r THEN IF at \in {"again", "spent"}
                                       THEN [at |-> at, cli |-> c, tries |-> tries, resp |-> resp]
                                       ELSE [at |-> at, cli |-> Master, tries |-> 0,
                                             resp |-> NoResponse]
                         ELSE IF x \in woken THEN [request[x] EXCEPT !.at = "check"]
                         ELSE request[x]]
    BY DEF Reset
  <2>2. "check" \in Places
    BY DEF Places
  <2> QED
    BY <1>1, <2>1, <2>2 DEF LimiterTypeOK
<1> QED
  BY <1>2, <1>3

-----------------------------------------------------------------------------
(* Sleepers.                                                               *)

(* An account stays served when its entry is of the same kind, its requests in flight and before  *)
(* their check stay where they are, and nobody lies down.                                         *)
LEMMA Undisturbed ==
  ASSUME NEW a \in Accounts, Served(a),
         pathLimit'[a].kind = pathLimit[a].kind,
         \A x \in Requests : request[x].cli = a /\ request[x].at \in {"flight", "check"}
                            => request'[x].cli = a /\ request'[x].at = request[x].at,
         \A x \in Requests : request'[x].cli = a /\ request'[x].at = "sleep"
                            => request[x].cli = a /\ request[x].at = "sleep"
  PROVE  Served(a)'
<1>1. At(a, "flight") # {} => At(a, "flight")' # {}
  BY DEF At
<1>2. At(a, "check") # {} => At(a, "check")' # {}
  BY DEF At
<1>3. Sleepers(a)' # {} => Sleepers(a) # {}
  BY DEF Sleepers
<1> QED
  BY <1>1, <1>2, <1>3 DEF Served

(* A reset by a request in flight, or by one whose tries are spent, keeps every account served:   *)
(* it wakes all that sleep, or one that takes its place.                                          *)
LEMMA ResetServes ==
  ASSUME LimiterAssumption, LimiterInv,
         NEW r \in Requests, request[r].at \in {"flight", "spent"},
         NEW resp \in Responses, NEW at \in {"done", "select", "again", "spent"}, NEW tries \in Nat,
         Reset(r, resp, at, tries)
  PROVE  \A a \in Accounts : Served(a)'
<1>1. PICK c \in Accounts : c = request[r].cli
  BY DEF LimiterInv, LimiterTypeOK
<1>2. PICK woken \in SUBSET Sleepers(c) :
        /\ IF pathLimit[c].kind # "pending" THEN woken = {}
           ELSE IF resp # NoResponse THEN woken = Sleepers(c)
           ELSE IF Sleepers(c) = {} THEN woken = {} ELSE \E x \in Sleepers(c) : woken = {x}
        /\ request' = [x \in Requests |->
                         IF x = r THEN IF at \in {"again", "spent"}
                                       THEN [at |-> at, cli |-> c, tries |-> tries, resp |-> resp]
                                       ELSE [at |-> at, cli |-> Master, tries |-> 0,
                                             resp |-> NoResponse]
                         ELSE IF x \in woken THEN [request[x] EXCEPT !.at = "check"]
                         ELSE request[x]]
  BY <1>1 DEF Reset
<1>3. request'[r].at \notin {"flight", "check", "sleep"}
  BY <1>2
<1>4. \A x \in Requests \ {r} : request'[x] = IF x \in woken THEN [request[x] EXCEPT !.at = "check"]
                                            ELSE request[x]
  BY <1>2
<1>5. \A x \in woken : x \in Requests \ {r} /\ request'[x].at = "check" /\ request'[x].cli = c
  BY <1>1, <1>2, <1>4 DEF Sleepers, LimiterInv, LimiterTypeOK
<1> SUFFICES ASSUME NEW a \in Accounts PROVE Served(a)'
  OBVIOUS
<1>6. CASE a # c
  <2>1. pathLimit'[a].kind = pathLimit[a].kind
    BY <1>1, <1>6 DEF Reset, LimiterInv, LimiterTypeOK
  <2>2. \A x \in Requests \ {r} : request[x].cli = a \/ request'[x].cli = a => request'[x] = request[x]
    BY <1>2, <1>4, <1>5, <1>6 DEF Sleepers
  <2>3. \A x \in Requests : request[x].cli = a /\ request[x].at \in {"flight", "check"}
                            => request'[x].cli = a /\ request'[x].at = request[x].at
    BY <2>2, <1>1, <1>6
  <2>4. \A x \in Requests : request'[x].cli = a /\ request'[x].at = "sleep"
                            => request[x].cli = a /\ request[x].at = "sleep"
    BY <2>2, <1>3
  <2> QED
    BY <2>1, <2>3, <2>4, Undisturbed DEF LimiterInv
<1>7. CASE a = c /\ pathLimit[c].kind # "pending"
  <2>1. pathLimit' = pathLimit /\ woken = {}
    BY <1>1, <1>2, <1>7 DEF Reset
  <2>2. \A x \in Requests \ {r} : request'[x] = request[x]
    BY <2>1, <1>4
  <2>3. Sleepers(c)' # {} => Sleepers(c) # {}
    BY <2>2, <1>3 DEF Sleepers
  <2>4. At(c, "check") # {} => At(c, "check")' # {}
    BY <2>2 DEF At
  <2> QED
    BY <1>7, <2>1, <2>3, <2>4 DEF Served, LimiterInv
<1>8. CASE a = c /\ pathLimit[c].kind = "pending"
  <2>1. pathLimit'[c] = EntryFrom(resp)
    BY <1>1, <1>8 DEF Reset, LimiterInv, LimiterTypeOK
  <2>2. pathLimit'[c].kind # "pending" /\ (resp = NoResponse => pathLimit'[c].kind = "unset")
    BY <2>1, EntryTypes
  <2>3. \A x \in Sleepers(c)' : x \in Sleepers(c) /\ x \notin woken
    BY <1>3, <1>4, <1>5 DEF Sleepers
  <2>4. CASE resp # NoResponse \/ Sleepers(c) = {}
    <3>1. Sleepers(c)' = {}
      BY <2>3, <2>4, <1>2, <1>8
    <3> QED
      BY <3>1, <2>2, <1>8 DEF Served
  <2>5. CASE resp = NoResponse /\ Sleepers(c) # {}
    <3>1. PICK x \in Sleepers(c) : woken = {x}
      BY <1>2, <1>8, <2>5
    <3>2. At(c, "check")' # {}
      BY <3>1, <1>5 DEF At
    <3> QED
      BY <3>2, <2>2, <2>5, <1>8 DEF Served
  <2> QED
    BY <2>4, <2>5
<1> QED
  BY <1>6, <1>7, <1>8

(* The check of a request keeps every account served: who makes an entry goes ahead itself, and   *)
(* who lies down does so while the entry is not ready.                                            *)
LEMMA CheckServes ==
  ASSUME LimiterAssumption, LimiterInv, NEW r \in Requests, Check(r)
  PROVE  \A a \in Accounts : Served(a)'
<1>1. PICK c \in Accounts : c = request[r].cli
  BY DEF LimiterInv, LimiterTypeOK
<1>2. request[r].at = "check"
  BY DEF Check
<1>3. PICK e : e = pathLimit[c]
  OBVIOUS
<1> SUFFICES ASSUME NEW a \in Accounts PROVE Served(a)'
  OBVIOUS
<1>4. Served(a) /\ Served(c)
  BY DEF LimiterInv
<1>5. \A x \in Requests \ {r} : request'[x] = request[x]
  BY DEF Check, Moved, Left, Choose, LimiterInv, LimiterTypeOK
<1>6. CASE a # c
  <2>1. pathLimit'[a] = pathLimit[a]
    BY <1>1, <1>6 DEF Check, LimiterInv, LimiterTypeOK
  <2>2. request'[r].at = "sleep" => request'[r].cli = c
    BY <1>1 DEF Check, Moved, Left, LimiterInv, LimiterTypeOK
  <2>3. \A x \in Requests : request[x].cli = a => request'[x] = request[x]
    BY <1>1, <1>5, <1>6
  <2>4. \A x \in Requests : request'[x].cli = a /\ request'[x].at = "sleep"
                            => request[x].cli = a /\ request[x].at = "sleep"
    BY <1>5, <1>6, <2>2
  <2> QED
    BY <1>4, <2>1, <2>3, <2>4, Undisturbed
<1>7. CASE a = c /\ (e.kind = "unset" \/ (e.kind = "ready" /\ pathLimit'[c] = NotReady))
  <2>1. pathLimit'[c].kind = "pending"
    BY <1>1, <1>3, <1>7 DEF Check, NotReady, Entry, LimiterInv, LimiterTypeOK
  <2>2. request'[r].at = "flight" /\ request'[r].cli = c
    BY <1>1, <1>3, <1>7 DEF Check, Moved, Left, NotReady, Entry, LimiterInv, LimiterTypeOK
  <2> QED
    BY <1>7, <2>1, <2>2 DEF Served, At
<1>8. CASE a = c /\ e.kind = "pending"
  <2>1. pathLimit' = pathLimit /\ request' = Moved(r, "sleep")
    BY <1>1, <1>3, <1>8 DEF Check
  <2>2. At(c, "flight")' # {}
    BY <1>2, <1>3, <1>4, <1>5, <1>8 DEF Served, At
  <2> QED
    BY <1>3, <1>8, <2>1, <2>2 DEF Served
<1>9. CASE a = c /\ (e.kind = "nolimit" \/ (e.kind = "ready" /\ pathLimit'[c] # NotReady))
  <2>1. Sleepers(c) = {}
    BY <1>3, <1>4, <1>9 DEF Served
  <2>2. request'[r].at # "sleep"
    BY <1>1, <1>2, <1>3, <1>9 DEF Check, Moved, Left, LimiterInv, LimiterTypeOK
  <2>3. Sleepers(c)' = {}
    BY <2>1, <2>2, <1>5 DEF Sleepers
  <2>4. pathLimit'[c].kind = e.kind
    BY <1>1, <1>3, <1>9 DEF Check, NotReady, LimiterInv, LimiterTypeOK
  <2> QED
    BY <1>9, <2>3, <2>4 DEF Served
<1>10. e.kind \in {"unset", "nolimit", "pending", "ready"}
  BY <1>3 DEF LimiterInv, LimiterTypeOK
<1> QED
  BY <1>6, <1>7, <1>8, <1>9, <1>10

(* A step that touches neither the limiter nor a request that matters to it keeps it served.      *)
LEMMA OthersServe ==
  ASSUME LimiterInv, NEW r \in Requests,
         request[r].at \notin {"flight", "check", "sleep"},
         pathLimit' = pathLimit,
         \A x \in Requests \ {r} : request'[x] = request[x],
         request'[r].at # "sleep"
  PROVE  \A a \in Accounts : Served(a)'
BY Undisturbed DEF LimiterInv

-----------------------------------------------------------------------------
(* The invariant.                                                          *)

(* The start is of the right type, and nobody sleeps.                      *)
LEMMA LimiterStarts == ASSUME LimiterAssumption, LimiterInit PROVE LimiterInv
<1>1. LimiterTypeOK
  BY DEF LimiterAssumption, LimiterInit, LimiterTypeOK, Accounts, Places, Responses, Unset, Entry
<1>2. \A c \in Accounts : pathLimit[c].kind = "unset" /\ Sleepers(c) = {}
  BY DEF LimiterInit, Unset, Entry, Sleepers
<1> QED
  BY <1>1, <1>2 DEF LimiterInv, Served

(* Every step keeps the types.                                             *)
LEMMA StepTypes ==
  ASSUME LimiterAssumption, LimiterTypeOK, LimiterNext
  PROVE  LimiterTypeOK'
<1> USE DEF LimiterTypeOK
<1>0. Master \in Accounts /\ Additional \subseteq Accounts /\ NoResponse \in Responses /\ 0 \in Nat
  BY DEF Accounts, Responses
<1>p. {"select", "search", "check", "sleep", "flight", "again", "spent", "done"} = Places
  BY DEF Places
<1>1. ASSUME NEW r \in Requests, SelectAccount(r) \/ Search(r) PROVE LimiterTypeOK'
  <2>1. request' = Left(r, "done") \/ request' = Left(r, "search") \/ \E c \in Accounts : Choose(r, c)
    BY <1>0, <1>1 DEF SelectAccount, Search
  <2>2. request' \in [Requests -> [at : Places, cli : Accounts, tries : Nat, resp : Responses]]
    BY <1>0, <1>p, <2>1 DEF Choose, Left
  <2>3. pathLimit' = pathLimit /\ clientErrors' = clientErrors /\ clientCooldowns' = clientCooldowns
        /\ requestsCancelled' = requestsCancelled
    BY <1>1 DEF SelectAccount, Search, accountVars
  <2>4. globalCooldown' \in BOOLEAN
    BY <1>1 DEF SelectAccount, Search, accountVars
  <2> QED
    BY <2>2, <2>3, <2>4
<1>2. ASSUME NEW r \in Requests, Check(r) PROVE LimiterTypeOK'
  <2>1. request' \in [Requests -> [at : Places, cli : Accounts, tries : Nat, resp : Responses]]
    <3>1. \/ request' = Moved(r, "flight") \/ request' = Moved(r, "sleep")
          \/ request' = Left(r, "done") \/ request' = Left(r, "select")
      BY <1>2 DEF Check
    <3> QED
      BY <1>0, <1>p, <3>1 DEF Moved, Left
  <2>2. pathLimit' \in [Accounts -> [kind : {"unset", "nolimit", "pending", "ready"}, left : Nat,
                                     fresh : BOOLEAN]]
    <3>1. PICK c \in Accounts : c = request[r].cli
      OBVIOUS
    <3>2. \/ pathLimit' = pathLimit \/ pathLimit' = [pathLimit EXCEPT ![c] = NotReady]
          \/ pathLimit[c].left > 0 /\ pathLimit' = [pathLimit EXCEPT ![c].left = @ - 1]
      BY <1>2, <3>1 DEF Check
    <3>3. pathLimit[c].left > 0 => pathLimit[c].left - 1 \in Nat
      OBVIOUS
    <3>4. NotReady \in [kind : {"unset", "nolimit", "pending", "ready"}, left : Nat, fresh : BOOLEAN]
      BY DEF NotReady, Entry
    <3> QED
      BY <3>2, <3>3, <3>4
  <2> QED
    BY <1>2, <2>1, <2>2 DEF Check, accountVars
<1>3. ASSUME NEW r \in Requests, SendAgain(r) PROVE LimiterTypeOK'
  BY <1>0, <1>3, <1>p DEF SendAgain, Moved, accountVars
<1>4. ASSUME NEW r \in Requests,
             Finish(r) \/ TooMany(r) \/ GiveUpAccount(r) \/ Retry(r) \/ GiveUpRequest(r)
      PROVE  LimiterTypeOK'
  <2>1. request[r].tries \in Nat /\ request[r].resp \in Responses /\ request[r].cli \in Accounts
    BY DEF Accounts
  <2>2. PICK resp \in Responses, at \in Places, tries \in Nat : Reset(r, resp, at, tries)
    BY <1>0, <1>4, <1>p, <2>1 DEF Finish, TooMany, GiveUpAccount, Retry, GiveUpRequest
  <2>3. clientErrors' \subseteq Accounts /\ clientCooldowns' \subseteq Accounts
        /\ globalCooldown' \in BOOLEAN /\ requestsCancelled' \in BOOLEAN
    BY <1>4, <2>1 DEF Finish, TooMany, GiveUpAccount, Retry, GiveUpRequest, accountVars
  <2> QED
    BY <2>2, <2>3, ResetTypes
<1>5. ASSUME NEW c \in Accounts, CloseWindow(c) PROVE LimiterTypeOK'
  BY <1>5 DEF CloseWindow, accountVars
<1>6. ASSUME NEW c \in Accounts, EndCooldown(c) PROVE LimiterTypeOK'
  BY <1>6 DEF EndCooldown
<1>7. CASE EndGlobalCooldown \/ CancelRequests
  BY <1>7 DEF EndGlobalCooldown, CancelRequests, accountVars
<1> QED
  BY <1>1, <1>2, <1>3, <1>4, <1>5, <1>6, <1>7 DEF LimiterNext, RequestStep

(* Every step keeps every account served.                                  *)
LEMMA StepServes ==
  ASSUME LimiterAssumption, LimiterInv, LimiterNext
  PROVE  \A a \in Accounts : Served(a)'
<1>1. ASSUME NEW r \in Requests, SelectAccount(r) \/ Search(r) PROVE \A a \in Accounts : Served(a)'
  <2>1. request[r].at \in {"select", "search"} /\ pathLimit' = pathLimit
    BY <1>1 DEF SelectAccount, Search
  <2>2. request'[r].at # "sleep" /\ \A x \in Requests \ {r} : request'[x] = request[x]
    BY <1>1, <2>1 DEF SelectAccount, Search, Choose, Left, LimiterInv, LimiterTypeOK
  <2> QED
    BY <2>1, <2>2, OthersServe
<1>2. ASSUME NEW r \in Requests, Check(r) PROVE \A a \in Accounts : Served(a)'
  BY <1>2, CheckServes
<1>3. ASSUME NEW r \in Requests, SendAgain(r) PROVE \A a \in Accounts : Served(a)'
  <2>1. request[r].at = "again" /\ pathLimit' = pathLimit
    BY <1>3 DEF SendAgain
  <2>2. request'[r].at # "sleep" /\ \A x \in Requests \ {r} : request'[x] = request[x]
    BY <1>3 DEF SendAgain, Moved, LimiterInv, LimiterTypeOK
  <2> QED
    BY <2>1, <2>2, OthersServe
<1>4. ASSUME NEW r \in Requests,
             Finish(r) \/ TooMany(r) \/ GiveUpAccount(r) \/ Retry(r) \/ GiveUpRequest(r)
      PROVE  \A a \in Accounts : Served(a)'
  <2>1. request[r].tries \in Nat /\ request[r].resp \in Responses
    BY DEF LimiterInv, LimiterTypeOK
  <2>2. request[r].at \in {"flight", "spent"}
    BY <1>4 DEF Finish, TooMany, GiveUpAccount, Retry, GiveUpRequest
  <2>3. PICK resp \in Responses, at \in {"done", "select", "again", "spent"}, tries \in Nat :
          Reset(r, resp, at, tries)
    BY <1>4, <2>1 DEF Finish, TooMany, GiveUpAccount, Retry, GiveUpRequest
  <2> QED
    BY <2>2, <2>3, ResetServes
<1>5. ASSUME NEW c \in Accounts, CloseWindow(c) PROVE \A a \in Accounts : Served(a)'
  <2>1. request' = request /\ \A a \in Accounts : pathLimit'[a].kind = pathLimit[a].kind
    BY <1>5 DEF CloseWindow, LimiterInv, LimiterTypeOK
  <2> QED
    BY <2>1, Undisturbed DEF LimiterInv
<1>6. CASE (\E c \in Accounts : EndCooldown(c)) \/ EndGlobalCooldown \/ CancelRequests
  <2>1. request' = request /\ pathLimit' = pathLimit
    BY <1>6 DEF EndCooldown, EndGlobalCooldown, CancelRequests
  <2> QED
    BY <2>1, Undisturbed DEF LimiterInv
<1> QED
  BY <1>1, <1>2, <1>3, <1>4, <1>5, <1>6 DEF LimiterNext, RequestStep

(* Every step keeps the invariant.                                                                *)
LEMMA LimiterStep == LimiterInv /\ [LimiterNext]_limiterVars => LimiterInv'
<1> SUFFICES ASSUME LimiterInv, [LimiterNext]_limiterVars PROVE LimiterInv'
  OBVIOUS
<1>1. CASE LimiterNext
  <2>1. LimiterTypeOK'
    BY <1>1, StepTypes, LimiterAssumption DEF LimiterInv
  <2>2. \A a \in Accounts : Served(a)'
    BY <1>1, StepServes, LimiterAssumption
  <2> QED
    BY <2>1, <2>2 DEF LimiterInv, Accounts
<1>2. CASE UNCHANGED limiterVars
  BY <1>2 DEF limiterVars, accountVars, LimiterInv, LimiterTypeOK, Served, At, Sleepers
<1> QED
  BY <1>1, <1>2

(* Whatever the requests, the accounts and the answers: every variable keeps its type, an entry   *)
(* that is not ready has a request in flight, and whoever sleeps has one that wakes it.           *)
THEOREM LimiterInvariant == LimiterSpec => []LimiterInv
<1>1. LimiterInit => LimiterInv
  BY LimiterStarts, LimiterAssumption
<1> QED
  BY <1>1, LimiterStep, PTL DEF LimiterSpec

LEMMA SleepersFollow == LimiterInv => SleepersAreWoken
BY DEF LimiterInv, Served, SleepersAreWoken

(* No request sleeps for ever on the limiter of an account (check and reset of                    *)
(* xRateLimiter): the lock of the condition, the hooks that reset after every response and the    *)
(* succession without a response leave nobody behind.                                             *)
THEOREM SleepersWoken == LimiterSpec => []SleepersAreWoken
BY LimiterInvariant, SleepersFollow, PTL
=============================================================================
