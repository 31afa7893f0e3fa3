---------------------------- MODULE RateLimiter ----------------------------
(***************************************************************************)
(* The accounts of the Twitter client (internal/twitter/client.go): the    *)
(* rate limiter of each account, the choice of an account for a request    *)
(* (SelectClientMFQ), cool-downs, and accounts that are given up.          *)
(*                                                                         *)
(* A request is one GetMedias of a producer.  It chooses an account, passes*)
(* the limiter's check (OnBeforeRequest), is in flight, and resets the     *)
(* limiter from the response (OnSuccess, OnError and the retry hook, which *)
(* the HTTP client calls).  Requests that find the limiter not ready sleep *)
(* on a condition variable.  One API path is modelled; what check and      *)
(* reset do under the lock of its condition is one step.                   *)
(*                                                                         *)
(* Time is abstracted: an open window may close at any step, and so may a  *)
(* cool-down end.                                                          *)
(***************************************************************************)
EXTENDS Naturals

CONSTANTS
  Requests,
  Additional,     \* the additional accounts
  Master,         \* the main account
  OfProtected,    \* requests about protected users
  Windows,        \* what headers say: how many requests above the threshold are left
  NoHeaders,      \* a response without rate limit headers
  NoResponse,     \* the connection failed
  MaxRetries      \* SetRetryCount

ASSUME LimiterAssumption ==
  /\ Master \notin Additional /\ OfProtected \subseteq Requests
  /\ Windows \subseteq Nat /\ NoHeaders \notin Windows /\ NoResponse \notin Windows
  /\ NoHeaders # NoResponse
  /\ MaxRetries \in Nat

VARIABLES
  pathLimit,       \* each account's entry for the path
  request,         \* each request: where it is, its account, how often it was sent again,
                   \* and the response it was given last
  clientErrors,    \* accounts that were given up
  clientCooldowns, \* accounts in cool-down
  globalCooldown,  \* whether all producers wait
  requestsCancelled

accountVars == <<clientErrors, clientCooldowns, globalCooldown>>
limiterVars == <<pathLimit, request, accountVars, requestsCancelled>>

Accounts  == Additional \cup {Master}
Responses == Windows \cup {NoHeaders, NoResponse}

\* An entry is missing, nil (no limit), not ready, or a window with so many requests left.
Entry(kind, left, fresh) == [kind |-> kind, left |-> left, fresh |-> fresh]
Unset    == Entry("unset", 0, FALSE)
NoLimit  == Entry("nolimit", 0, FALSE)
NotReady == Entry("pending", 0, FALSE)

LimiterInit ==
  /\ pathLimit = [c \in Accounts |-> Unset]
  /\ request = [r \in Requests |-> [at |-> "select", cli |-> Master, tries |-> 0, resp |-> NoResponse]]
  /\ clientErrors = {} /\ clientCooldowns = {} /\ globalCooldown = FALSE
  /\ requestsCancelled = FALSE

Moved(r, at) == [request EXCEPT ![r].at = at]
Left(r, at)  == [request EXCEPT ![r] = [at |-> at, cli |-> Master, tries |-> 0, resp |-> NoResponse]]

-----------------------------------------------------------------------------
(* SelectClientMFQ.                                                        *)

WouldBlock(c) == pathLimit[c].kind = "ready" /\ pathLimit[c].left = 0 /\ pathLimit[c].fresh
Usable(c)     == c \notin clientErrors /\ c \notin clientCooldowns /\ ~WouldBlock(c)

Choose(r, c) == request' = [request EXCEPT ![r] = [at |-> "check", cli |-> c, tries |-> 0,
                                                   resp |-> NoResponse]]

\* After the global cool-down (which starts when all additional accounts cool down): a protected
\* user is for the main account; otherwise an additional account, from wherever the round-robin
\* cursor is; otherwise the slow search begins.
SelectAccount(r) ==
  /\ request[r].at = "select"
  /\ \/ /\ requestsCancelled /\ request' = Left(r, "done") /\ UNCHANGED globalCooldown
     \/ /\ ~globalCooldown
        /\ globalCooldown' = (Additional # {} /\ Additional \subseteq clientCooldowns)
        /\ IF r \in OfProtected THEN Choose(r, Master)
           ELSE \/ \E c \in Additional : Usable(c) /\ Choose(r, c)
                \/ (\A c \in Additional : ~Usable(c)) /\ request' = Left(r, "search")
  /\ UNCHANGED <<pathLimit, clientErrors, clientCooldowns, requestsCancelled>>

\* Rounds over all accounts, the main one last, with a growing delay between them: an account, or
\* nil when all were given up.
Search(r) ==
  /\ request[r].at = "search"
  /\ \/ \E c \in Additional : Usable(c) /\ Choose(r, c)
     \/ (\A c \in Additional : ~Usable(c)) /\ Usable(Master) /\ Choose(r, Master)
     \/ (requestsCancelled \/ Accounts \subseteq clientErrors) /\ request' = Left(r, "done")
  /\ UNCHANGED <<pathLimit, accountVars, requestsCancelled>>

-----------------------------------------------------------------------------
(* check and reset.                                                        *)

\* The first request makes the entry and goes ahead, as does the first after the window; others
\* sleep until the entry is ready.  In a window that is used up the producer backs off (it sleeps
\* a second, and its user is given back).
Check(r) ==
  LET c == request[r].cli
      e == pathLimit[c]
  IN  /\ request[r].at = "check"
      /\ \/ /\ e.kind = "unset"
            /\ pathLimit' = [pathLimit EXCEPT ![c] = NotReady] /\ request' = Moved(r, "flight")
         \/ /\ e.kind = "nolimit"
            /\ request' = Moved(r, "flight") /\ UNCHANGED pathLimit
         \/ /\ e.kind = "pending"
            /\ request' = Moved(r, "sleep") /\ UNCHANGED pathLimit
         \/ /\ e.kind = "ready" /\ requestsCancelled
            /\ request' = Left(r, "done") /\ UNCHANGED pathLimit
         \/ /\ e.kind = "ready" /\ ~requestsCancelled /\ ~e.fresh
            /\ pathLimit' = [pathLimit EXCEPT ![c] = NotReady] /\ request' = Moved(r, "flight")
         \/ /\ e.kind = "ready" /\ ~requestsCancelled /\ e.fresh /\ e.left > 0
            /\ pathLimit' = [pathLimit EXCEPT ![c].left = @ - 1] /\ request' = Moved(r, "flight")
         \/ /\ e.kind = "ready" /\ ~requestsCancelled /\ WouldBlock(c)
            /\ request' = Left(r, "select") /\ UNCHANGED pathLimit
      /\ UNCHANGED <<accountVars, requestsCancelled>>

Sleepers(c) == {x \in Requests : request[x].at = "sleep" /\ request[x].cli = c}

\* The entry that a response makes: makeRateLimit, or none.
EntryFrom(resp) ==
  IF resp = NoResponse THEN Unset
  ELSE IF resp = NoHeaders THEN NoLimit ELSE Entry("ready", resp, TRUE)

\* (mistake: without a response nobody is woken to take the place of the request)
ResetQuietly(r, resp, at, tries) ==
  LET c == request[r].cli
      pending == pathLimit[c].kind = "pending"
  IN  /\ pathLimit' = IF pending THEN [pathLimit EXCEPT ![c] = EntryFrom(resp)] ELSE pathLimit
      /\ request' = [x \in Requests |->
                       IF x = r THEN [at |-> at, cli |-> IF at \in {"again", "spent"} THEN c ELSE Master,
                                      tries |-> tries, resp |-> resp]
                       ELSE IF pending /\ resp # NoResponse /\ x \in Sleepers(c)
                            THEN [request[x] EXCEPT !.at = "check"]
                       ELSE request[x]]

\* reset: whoever has a response while the entry is not ready makes it ready, and wakes all that
\* sleep; whoever has none removes it, and wakes one, to take its place.
Reset(r, resp, at, tries) ==
  LET c == request[r].cli
      pending == pathLimit[c].kind = "pending"
  IN  \E woken \in SUBSET Sleepers(c) :
        /\ IF ~pending THEN woken = {}
           ELSE IF resp # NoResponse THEN woken = Sleepers(c)
           ELSE IF Sleepers(c) = {} THEN woken = {} ELSE \E x \in Sleepers(c) : woken = {x}
        /\ pathLimit' = IF pending THEN [pathLimit EXCEPT ![c] = EntryFrom(resp)] ELSE pathLimit
        /\ request' = [x \in Requests |->
                         IF x = r THEN IF at \in {"again", "spent"}
                                       THEN [at |-> at, cli |-> c, tries |-> tries, resp |-> resp]
                                       ELSE [at |-> at, cli |-> Master, tries |-> 0, resp |-> NoResponse]
                         ELSE IF x \in woken THEN [request[x] EXCEPT !.at = "check"]
                         ELSE request[x]]

\* The request has ended well, or with an error that is not tried again.
Finish(r) ==
  /\ request[r].at = "flight"
  /\ \E resp \in Responses : Reset(r, resp, "done", 0)
  /\ UNCHANGED <<accountVars, requestsCancelled>>

\* Too many requests (429): the account cools down.
TooMany(r) ==
  /\ request[r].at = "flight"
  /\ \E resp \in Responses \ {NoResponse} :
       \/ Reset(r, resp, "done", 0)
       \/ Reset(r, resp, IF request[r].tries < MaxRetries THEN "again" ELSE "spent", request[r].tries)
  /\ clientCooldowns' = clientCooldowns \cup {request[r].cli}
  /\ UNCHANGED <<clientErrors, globalCooldown, requestsCancelled>>

\* The account is locked, or has seen too many posts today: the producer gives it up, and its user
\* back.
GiveUpAccount(r) ==
  /\ request[r].at = "flight"
  /\ \E resp \in Responses \ {NoResponse} : Reset(r, resp, "select", 0)
  /\ clientErrors' = clientErrors \cup {request[r].cli}
  /\ UNCHANGED <<clientCooldowns, globalCooldown, requestsCancelled>>

\* An error to be tried again: the retry hook resets first.
Retry(r) ==
  /\ request[r].at = "flight"
  /\ \E resp \in Responses :
       Reset(r, resp, IF request[r].tries < MaxRetries THEN "again" ELSE "spent", request[r].tries)
  /\ UNCHANGED <<accountVars, requestsCancelled>>

SendAgain(r) ==
  /\ request[r].at = "again"
  /\ request' = IF requestsCancelled THEN Moved(r, "spent")
                ELSE [request EXCEPT ![r].at = "check", ![r].tries = @ + 1, ![r].resp = NoResponse]
  /\ UNCHANGED <<pathLimit, accountVars, requestsCancelled>>

\* No try is left: OnError resets a second time, from the same response.
GiveUpRequest(r) ==
  /\ request[r].at = "spent"
  /\ Reset(r, request[r].resp, "done", 0)
  /\ UNCHANGED <<accountVars, requestsCancelled>>

-----------------------------------------------------------------------------
(* Time, and the end of the task.                                          *)

CloseWindow(c) ==
  /\ pathLimit[c].kind = "ready" /\ pathLimit[c].fresh
  /\ pathLimit' = [pathLimit EXCEPT ![c].fresh = FALSE]
  /\ UNCHANGED <<request, accountVars, requestsCancelled>>

EndCooldown(c) ==
  /\ c \in clientCooldowns /\ clientCooldowns' = clientCooldowns \ {c}
  /\ UNCHANGED <<pathLimit, request, clientErrors, globalCooldown, requestsCancelled>>

EndGlobalCooldown ==
  /\ globalCooldown /\ globalCooldown' = FALSE
  /\ UNCHANGED <<pathLimit, request, clientErrors, clientCooldowns, requestsCancelled>>

CancelRequests ==
  /\ ~requestsCancelled /\ requestsCancelled' = TRUE
  /\ UNCHANGED <<pathLimit, request, accountVars>>

RequestStep(r) ==
  \/ SelectAccount(r) \/ Search(r) \/ Check(r) \/ SendAgain(r) \/ GiveUpRequest(r)
  \/ Finish(r) \/ TooMany(r) \/ GiveUpAccount(r) \/ Retry(r)

LimiterNext ==
  \/ \E r \in Requests : RequestStep(r)
  \/ \E c \in Accounts : CloseWindow(c) \/ EndCooldown(c)
  \/ EndGlobalCooldown \/ CancelRequests

LimiterSpec == LimiterInit /\ [][LimiterNext]_limiterVars

-----------------------------------------------------------------------------
(* What the limiter promises.                                              *)

Places == {"select", "search", "check", "sleep", "flight", "again", "spent", "done"}

(* Every variable has its type.                                            *)
LimiterTypeOK ==
  /\ pathLimit \in [Accounts -> [kind : {"unset", "nolimit", "pending", "ready"}, left : Nat,
                                 fresh : BOOLEAN]]
  /\ request \in [Requests -> [at : Places, cli : Accounts, tries : Nat, resp : Responses]]
  /\ clientErrors \subseteq Accounts /\ clientCooldowns \subseteq Accounts
  /\ globalCooldown \in BOOLEAN /\ requestsCancelled \in BOOLEAN

At(c, place) == {r \in Requests : request[r].at = place /\ request[r].cli = c}

(* No request sleeps for ever on the limiter of an account: while one sleeps, either the entry is *)
(* not ready and a request is in flight whose hooks will reset it, or the entry was removed and   *)
(* one that was woken is about to take its place.  A sleeping request is deaf to its context, so  *)
(* otherwise not even a cancellation would end its task (the comments on check and reset say      *)
(* "deadlock").                                                                                   *)
SleepersAreWoken ==
  \A c \in Accounts : Sleepers(c) # {} =>
    \/ pathLimit[c].kind = "pending" /\ At(c, "flight") # {}
    \/ pathLimit[c].kind = "unset" /\ At(c, "check") # {}
=============================================================================
