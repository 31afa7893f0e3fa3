------------------------------ MODULE EventBus ------------------------------
(***************************************************************************)
(* The event bus of the API server (internal/api/event_bus.go), those who  *)
(* publish on it, and the task streams that subscribe to it                *)
(* (handleSSETasks in internal/api/sse_tasks.go).                          *)
(*                                                                         *)
(* A publisher changes the task table (or the scheduler), copies it and    *)
(* publishes the copy, as a snapshot that replaces the one before; it may  *)
(* then publish a notification.  Each of these is a step: what is under    *)
(* tm.mu, under b.mu, and, for one subscriber after another, under sub.mu. *)
(* A snapshot is modelled by the number of changes that it shows.          *)
(*                                                                         *)
(* A client is an EventSource: whenever its connection breaks it connects  *)
(* again with the ID of the last event it was given (Last-Event-ID).  Its  *)
(* n-th connection is the session <<c, n>>, with a subscriber and its      *)
(* goroutine, and an HTTP handler, which may learn late that the client    *)
(* has gone.                                                               *)
(***************************************************************************)
EXTENDS Naturals, Sequences, FiniteSets, SequencesExt

CONSTANTS
  Publishers,   \* goroutines that change tasks or schedules
  Server,       \* the graceful shutdown
  Clients,
  Kinds,        \* the coalesced events: "tasks", and "schedules" if there is a scheduler
  NoEvent,
  QueueLimit,   \* eventBusSubscriberBuffer
  ReplayLimit,  \* eventBusReplayLimit
  Endings,      \* whether a change is followed by a notification: a subset of BOOLEAN
  MaxChanges,   \* bound: how often each kind changes
  MaxSessions   \* bound: how often a client connects

\* The events of the bus: coalesced ones, and those that are kept for replay.
Replayable == {"notification", "server_shutdown"}
Event      == [id : Nat, kind : Kinds \cup Replayable, content : Nat]

ASSUME EventBusAssumption ==
  /\ Server \notin Publishers
  /\ "tasks" \in Kinds /\ Kinds \subseteq {"tasks", "schedules"}
  /\ NoEvent \notin Event
  /\ QueueLimit \in Nat \ {0} /\ ReplayLimit \in Nat \ {0}
  /\ Endings \subseteq BOOLEAN
  /\ MaxChanges \in Nat /\ MaxSessions \in Nat

VARIABLES
  version,      \* how often what a kind shows has changed
  nextEventID,
  replayHistory,
  subscribers,
  busClosed,
  pub,          \* what each publisher is doing
  sub,          \* the subscriber of each session
  handler,      \* the HTTP handler of each session, with its history: nextEventID when
                \* it subscribed, what was to be replayed, which notes it has taken
  linked,       \* the session each client reads from, or 0
  used,         \* how often each client has connected
  view,         \* what each client shows
  lastEventID,  \* the ID of the last event each client was given, or 0
  notes,        \* history: the IDs of all replayable events
  known,        \* history: those of them that reached each client
  base          \* history: up to which ID the bus owes the client nothing, because it
                \* connected without an ID or the replay history did not go back further

busVars     == <<nextEventID, replayHistory, subscribers, busClosed>>
clientVars  == <<linked, used, view, lastEventID>>
historyVars == <<notes, known, base>>
vars == <<version, busVars, pub, sub, handler, clientVars, historyVars>>

-----------------------------------------------------------------------------
Processes == Publishers \cup {Server}
Sessions  == Clients \X (1 .. MaxSessions)

\* The order in which coalesced events are sent and snapshots are written.
FirstOf(ks) == IF "tasks" \in ks THEN "tasks" ELSE "schedules"

Resting(p) == [at |-> IF p = Server THEN "announced" ELSE "idle", kind |-> "tasks", content |-> 0,
               note |-> FALSE, evt |-> NoEvent, left |-> {}, over |-> {}]

Unused == [closed |-> FALSE, wake |-> FALSE, queue |-> <<>>, latest |-> [k \in Kinds |-> NoEvent],
           run |-> "none", hand |-> NoEvent]

NoHandler == [at |-> "none", hello |-> {}, replay |-> <<>>, born |-> 0, due |-> {}, heard |-> {}]

Announced == pub[Server].at = "announced"

TypeOK ==
  /\ version \in [Kinds -> 0 .. MaxChanges]
  /\ nextEventID \in Nat
  /\ replayHistory \in Seq(Event) /\ Len(replayHistory) <= ReplayLimit
  /\ subscribers \subseteq Sessions
  /\ busClosed \in BOOLEAN
  /\ pub \in [Processes ->
       [at : {"idle", "copy", "publish", "sending", "announced"}, kind : Kinds \cup Replayable,
        content : Nat, note : BOOLEAN, evt : Event \cup {NoEvent},
        left : SUBSET Sessions, over : SUBSET Sessions]]
  /\ \A s \in Sessions :
       /\ sub[s].closed \in BOOLEAN /\ sub[s].wake \in BOOLEAN
       /\ sub[s].queue \in Seq(Event) /\ Len(sub[s].queue) <= QueueLimit
       /\ sub[s].latest \in [Kinds -> Event \cup {NoEvent}]
       /\ sub[s].run \in {"none", "wait", "next", "offer", "ended"}
       /\ sub[s].hand \in Event \cup {NoEvent}
       /\ handler[s].at \in {"none", "open", "leaving", "closing", "gone"}
       /\ handler[s].hello \subseteq Kinds
       /\ handler[s].replay \in Seq(Event)
       /\ handler[s].born \in Nat /\ handler[s].due \subseteq Nat /\ handler[s].heard \subseteq Nat
  /\ \A c \in Clients :
       /\ linked[c] \in 0 .. used[c] /\ used[c] \in 0 .. MaxSessions
       /\ view[c] \in [Kinds -> Nat] /\ lastEventID[c] \in Nat
       /\ known[c] \subseteq Nat /\ base[c] \in Nat
  /\ notes \subseteq Nat

Init ==
  /\ version = [k \in Kinds |-> 0]
  /\ nextEventID = 0 /\ replayHistory = <<>> /\ subscribers = {} /\ busClosed = FALSE
  /\ pub = [p \in Processes |-> [Resting(p) EXCEPT !.at = "idle"]]
  /\ sub = [s \in Sessions |-> Unused]
  /\ handler = [s \in Sessions |-> NoHandler]
  /\ linked = [c \in Clients |-> 0] /\ used = [c \in Clients |-> 0]
  /\ view = [c \in Clients |-> [k \in Kinds |-> 0]] /\ lastEventID = [c \in Clients |-> 0]
  /\ notes = {}
  /\ known = [c \in Clients |-> {}] /\ base = [c \in Clients |-> 0]

-----------------------------------------------------------------------------
(* Publishing.                                                             *)

\* A change of the tasks under tm.mu, or of the schedules under sc.mu, which is
\* copied in the same critical section; the task table is copied in the next.
\* Ends and failures are followed by a notification.  Of the schedules' changes
\* these are the announced ones (updateStatus, releaseAndUpdateStatus): that an
\* execution begins, or what a launch sets, nobody is told as such.
Changes(p, k, note) ==
  /\ p \in Publishers /\ pub[p].at = "idle" /\ version[k] < MaxChanges
  /\ version' = [version EXCEPT ![k] = @ + 1]
  /\ pub' = [pub EXCEPT ![p] = [@ EXCEPT !.at = IF k = "tasks" THEN "copy" ELSE "publish",
                                         !.kind = k, !.note = note, !.content = version[k] + 1]]
  /\ UNCHANGED <<busVars, sub, handler, clientVars, historyVars>>

\* snapshotForPublish.
Copies(p) ==
  /\ pub[p].at = "copy"
  /\ pub' = [pub EXCEPT ![p] = [@ EXCEPT !.at = "publish", !.content = version["tasks"]]]
  /\ UNCHANGED <<version, busVars, sub, handler, clientVars, historyVars>>

ShutdownAnnounces ==
  /\ pub[Server].at = "idle"
  /\ pub' = [pub EXCEPT ![Server] = [@ EXCEPT !.at = "publish", !.kind = "server_shutdown"]]
  /\ UNCHANGED <<version, busVars, sub, handler, clientVars, historyVars>>

\* After an event its notification, if there is one to publish.
Continue(p) ==
  IF pub[p].note
    THEN [Resting(p) EXCEPT !.at = "publish", !.kind = "notification"]
    ELSE [Resting(p) EXCEPT !.evt = IF p = Server THEN pub[p].evt ELSE NoEvent]

\* (mistake: the replay history is not bounded)
PublishKeepsAll(p) ==
  /\ pub[p].at = "publish"
  /\ IF busClosed
       THEN /\ pub' = [pub EXCEPT ![p] = Continue(p)]
            /\ UNCHANGED <<busVars, notes>>
       ELSE LET evt == [id |-> nextEventID + 1, kind |-> pub[p].kind,
                        content |-> IF pub[p].kind \in Kinds THEN pub[p].content ELSE 0]
            IN /\ nextEventID' = evt.id
               /\ IF evt.kind \in Replayable
                    THEN /\ replayHistory' =
                              Append(replayHistory, evt)
                         /\ notes' = notes \cup {evt.id}
                    ELSE UNCHANGED <<replayHistory, notes>>
               /\ pub' = [pub EXCEPT ![p] = [@ EXCEPT !.at = "sending", !.evt = evt,
                                                      !.left = subscribers, !.over = {}]]
               /\ UNCHANGED <<subscribers, busClosed>>
  /\ UNCHANGED <<version, sub, handler, clientVars, known, base>>

\* Publish, under b.mu: nothing on a closed bus.
Publish(p) ==
  /\ pub[p].at = "publish"
  /\ IF busClosed
       THEN /\ pub' = [pub EXCEPT ![p] = Continue(p)]
            /\ UNCHANGED <<busVars, notes>>
       ELSE LET evt == [id |-> nextEventID + 1, kind |-> pub[p].kind,
                        content |-> IF pub[p].kind \in Kinds THEN pub[p].content ELSE 0]
            IN /\ nextEventID' = evt.id
               /\ IF evt.kind \in Replayable
                    THEN /\ replayHistory' =
                              Append(IF Len(replayHistory) = ReplayLimit THEN Tail(replayHistory)
                                                                         ELSE replayHistory, evt)
                         /\ notes' = notes \cup {evt.id}
                    ELSE UNCHANGED <<replayHistory, notes>>
               /\ pub' = [pub EXCEPT ![p] = [@ EXCEPT !.at = "sending", !.evt = evt,
                                                      !.left = subscribers, !.over = {}]]
               /\ UNCHANGED <<subscribers, busClosed>>
  /\ UNCHANGED <<version, sub, handler, clientVars, known, base>>

\* send, under sub.mu: how it changes subscriber u; a full queue closes it.
Overflows(u, e) == ~u.closed /\ e.kind \in Replayable /\ Len(u.queue) >= QueueLimit

\* (mistake: a snapshot does not wake the goroutine)
SentSilently(u, e) ==
  IF u.closed             THEN u
  ELSE IF Overflows(u, e) THEN [u EXCEPT !.closed = TRUE]
  ELSE IF e.kind \in Kinds THEN [u EXCEPT !.latest[e.kind] = e]
  ELSE [u EXCEPT !.queue = Append(@, e), !.wake = TRUE]

Sent(u, e) ==
  IF u.closed             THEN u
  ELSE IF Overflows(u, e) THEN [u EXCEPT !.closed = TRUE]
  ELSE IF e.kind \in Kinds THEN [u EXCEPT !.latest[e.kind] = e, !.wake = TRUE]
  ELSE [u EXCEPT !.queue = Append(@, e), !.wake = TRUE]

\* (mistake: the publisher waits until there is room in the queue)
SendsWaiting(p, s) ==
  /\ pub[p].at = "sending" /\ s \in pub[p].left
  /\ ~Overflows(sub[s], pub[p].evt)
  /\ sub' = [sub EXCEPT ![s] = Sent(sub[s], pub[p].evt)]
  /\ pub' = [pub EXCEPT ![p].left = @ \ {s},
                        ![p].over = IF Overflows(sub[s], pub[p].evt) THEN @ \cup {s} ELSE @]
  /\ UNCHANGED <<version, busVars, handler, clientVars, historyVars>>

Sends(p, s) ==
  /\ pub[p].at = "sending" /\ s \in pub[p].left
  /\ sub' = [sub EXCEPT ![s] = Sent(sub[s], pub[p].evt)]
  /\ pub' = [pub EXCEPT ![p].left = @ \ {s},
                        ![p].over = IF Overflows(sub[s], pub[p].evt) THEN @ \cup {s} ELSE @]
  /\ UNCHANGED <<version, busVars, handler, clientVars, historyVars>>

\* (mistake: a subscriber that overflowed stays registered)
HasSentKeeps(p) ==
  /\ pub[p].at = "sending" /\ pub[p].left = {}
  /\ UNCHANGED subscribers
  /\ pub' = [pub EXCEPT ![p] = Continue(p)]
  /\ UNCHANGED <<version, nextEventID, replayHistory, busClosed, sub, handler, clientVars, historyVars>>

\* Under b.mu again, if queues were full.
HasSent(p) ==
  /\ pub[p].at = "sending" /\ pub[p].left = {}
  /\ subscribers' = subscribers \ pub[p].over
  /\ pub' = [pub EXCEPT ![p] = Continue(p)]
  /\ UNCHANGED <<version, nextEventID, replayHistory, busClosed, sub, handler, clientVars, historyVars>>

\* Close, the last phase but one of the shutdown.
BusCloses ==
  /\ Announced /\ ~busClosed
  /\ busClosed' = TRUE /\ subscribers' = {}
  /\ sub' = [s \in Sessions |-> IF s \in subscribers THEN [sub[s] EXCEPT !.closed = TRUE] ELSE sub[s]]
  /\ UNCHANGED <<version, nextEventID, replayHistory, pub, handler, clientVars, historyVars>>

-----------------------------------------------------------------------------
(* The goroutine of a subscriber.                                          *)

RunnerVars(s, u) ==
  /\ sub' = [sub EXCEPT ![s] = u]
  /\ UNCHANGED <<version, busVars, pub, handler, clientVars, historyVars>>

RunnerWakes(s) ==
  /\ sub[s].run = "wait" /\ sub[s].wake
  /\ RunnerVars(s, [sub[s] EXCEPT !.wake = FALSE, !.run = "next"])

\* nextEvent: the queue before the coalesced events.
Pending(u) == {k \in Kinds : u.latest[k] # NoEvent}

\* (mistake: the coalesced events before the queue)
RunnerTakesLatest(s) ==
  LET u == sub[s]
      k == FirstOf(Pending(u))
  IN
  /\ u.run = "next"
  /\ RunnerVars(s,
       CASE Pending(u) # {} ->
              [u EXCEPT !.run = "offer", !.hand = u.latest[k], !.latest[k] = NoEvent]
         [] Pending(u) = {} /\ u.queue # <<>> ->
              [u EXCEPT !.run = "offer", !.hand = Head(u.queue), !.queue = Tail(u.queue)]
         [] OTHER -> [u EXCEPT !.run = "wait"])

RunnerTakes(s) ==
  LET u == sub[s]
      k == FirstOf(Pending(u))
  IN
  /\ u.run = "next"
  /\ RunnerVars(s,
       CASE u.queue # <<>> ->
              [u EXCEPT !.run = "offer", !.hand = Head(u.queue), !.queue = Tail(u.queue)]
         [] u.queue = <<>> /\ Pending(u) # {} ->
              [u EXCEPT !.run = "offer", !.hand = u.latest[k], !.latest[k] = NoEvent]
         [] OTHER -> [u EXCEPT !.run = "wait"])

\* (mistake: a goroutine that offers an event does not look at s.done)
RunnerEndsWaiting(s) ==
  /\ sub[s].run = "wait" /\ sub[s].closed
  /\ RunnerVars(s, [Unused EXCEPT !.run = "ended", !.closed = TRUE])

\* s.done is closed: the goroutine closes s.ch.  Nobody reads the rest.
RunnerEnds(s) ==
  /\ sub[s].run \in {"wait", "offer"} /\ sub[s].closed
  /\ RunnerVars(s, [Unused EXCEPT !.run = "ended", !.closed = TRUE])

-----------------------------------------------------------------------------
(* The streams.                                                            *)

\* copyReplayAfterLocked: the history is in the order of IDs, so what comes after last is its end.
ReplayAfter(last) ==
  LET before == {i \in DOMAIN replayHistory : replayHistory[i].id <= last}
  IN  SubSeq(replayHistory, Cardinality(before) + 1, Len(replayHistory))

\* (mistake: the last event is replayed again)
ConnectsInclusive(c) ==
  LET s    == <<c, used[c] + 1>>
      last == lastEventID[c]
      rep  == IF last = 0 \/ busClosed THEN <<>>
              ELSE ReplayAfter(last - 1)
      forgotten == notes \ {replayHistory[i].id : i \in DOMAIN replayHistory}
  IN
  /\ linked[c] = 0 /\ used[c] < MaxSessions
  /\ used' = [used EXCEPT ![c] = @ + 1] /\ linked' = [linked EXCEPT ![c] = used[c] + 1]
  /\ sub' = [sub EXCEPT ![s].run = "wait", ![s].closed = busClosed]
  /\ subscribers' = IF busClosed THEN subscribers ELSE subscribers \cup {s}
  /\ handler' = [handler EXCEPT ![s] = [at |-> "open", hello |-> Kinds, replay |-> rep, heard |-> {},
                                        born |-> nextEventID,
                                        due |-> IF last = 0 \/ busClosed THEN {}
                                                ELSE {n \in notes \ forgotten : n > last}]]
  /\ base' = [base EXCEPT ![c] = IF last = 0 THEN nextEventID ELSE Max({@} \cup forgotten)]
  /\ UNCHANGED <<version, nextEventID, replayHistory, busClosed, pub, view, lastEventID, notes, known>>

\* A client connects: SubscribeWithReplay registers the subscriber and copies
\* what is to be replayed in one critical section.
Connects(c) ==
  LET s    == <<c, used[c] + 1>>
      last == lastEventID[c]
      rep  == IF last = 0 \/ busClosed THEN <<>>
              ELSE ReplayAfter(last)
      forgotten == notes \ {replayHistory[i].id : i \in DOMAIN replayHistory}
  IN
  /\ linked[c] = 0 /\ used[c] < MaxSessions
  /\ used' = [used EXCEPT ![c] = @ + 1] /\ linked' = [linked EXCEPT ![c] = used[c] + 1]
  /\ sub' = [sub EXCEPT ![s].run = "wait", ![s].closed = busClosed]
  /\ subscribers' = IF busClosed THEN subscribers ELSE subscribers \cup {s}
  /\ handler' = [handler EXCEPT ![s] = [at |-> "open", hello |-> Kinds, replay |-> rep, heard |-> {},
                                        born |-> nextEventID,
                                        due |-> IF last = 0 \/ busClosed THEN {}
                                                ELSE {n \in notes \ forgotten : n > last}]]
  /\ base' = [base EXCEPT ![c] = IF last = 0 THEN nextEventID ELSE Max({@} \cup forgotten)]
  /\ UNCHANGED <<version, nextEventID, replayHistory, busClosed, pub, view, lastEventID, notes, known>>

\* The connection breaks, or the client finds that the response has ended.
Drops(c) ==
  /\ linked[c] # 0
  /\ linked' = [linked EXCEPT ![c] = 0]
  /\ UNCHANGED <<version, busVars, pub, sub, handler, used, view, lastEventID, historyVars>>

Linked(s) == linked[s[1]] = s[2]

\* The handler writes the event e, which reaches a client that still reads.
Writes(s, e) ==
  /\ IF Linked(s)
       THEN /\ lastEventID' = [lastEventID EXCEPT ![s[1]] = e.id]
            /\ IF e.kind \in Replayable
                 THEN known' = [known EXCEPT ![s[1]] = @ \cup {e.id}] /\ UNCHANGED view
                 ELSE view' = [view EXCEPT ![s[1]][e.kind] = e.content] /\ UNCHANGED known
       ELSE UNCHANGED <<lastEventID, known, view>>
  /\ UNCHANGED <<version, busVars, pub, linked, used, notes, base>>

Taken(h, e) == IF e.kind \in Replayable THEN [h EXCEPT !.heard = @ \cup {e.id}] ELSE h

\* The snapshots at the start of a stream, which have no ID.
HandlerGreets(s) ==
  LET k == FirstOf(handler[s].hello) IN
  /\ handler[s].at = "open" /\ handler[s].hello # {}
  /\ handler' = [handler EXCEPT ![s].hello = @ \ {k}]
  /\ view' = IF Linked(s) THEN [view EXCEPT ![s[1]][k] = version[k]] ELSE view
  /\ UNCHANGED <<version, busVars, pub, sub, linked, used, lastEventID, historyVars>>

HandlerReplays(s) ==
  /\ handler[s].at = "open" /\ handler[s].hello = {} /\ handler[s].replay # <<>>
  /\ Writes(s, Head(handler[s].replay))
  /\ handler' = [handler EXCEPT ![s] = [Taken(handler[s], Head(handler[s].replay)) EXCEPT
                                             !.replay = Tail(handler[s].replay)]]
  /\ UNCHANGED sub

Streams(s) == handler[s].at = "open" /\ handler[s].hello = {} /\ handler[s].replay = <<>>

\* (mistake: the stream goes on after server_shutdown)
HandlerReceivesOn(s) ==
  /\ Streams(s) /\ sub[s].run = "offer"
  /\ Writes(s, sub[s].hand)
  /\ sub' = [sub EXCEPT ![s].run = "next", ![s].hand = NoEvent]
  /\ handler' = [handler EXCEPT ![s] = Taken(@, sub[s].hand)]

\* The handler takes what the goroutine offers; server_shutdown is its last event.
HandlerReceives(s) ==
  /\ Streams(s) /\ sub[s].run = "offer"
  /\ Writes(s, sub[s].hand)
  /\ sub' = [sub EXCEPT ![s].run = "next", ![s].hand = NoEvent]
  /\ handler' = IF sub[s].hand.kind = "server_shutdown"
                  THEN [handler EXCEPT ![s] = [NoHandler EXCEPT !.at = "leaving"]]
                  ELSE [handler EXCEPT ![s] = Taken(@, sub[s].hand)]

\* A handler that leaves forgets what it had still to write.
HandlerStep(s, a) ==
  /\ handler' = [handler EXCEPT ![s] = [NoHandler EXCEPT !.at = a]]
  /\ UNCHANGED <<version, nextEventID, replayHistory, busClosed, pub, clientVars, historyVars>>

\* s.ch is closed.
HandlerSeesEnd(s) ==
  /\ Streams(s) /\ sub[s].run = "ended"
  /\ HandlerStep(s, "leaving") /\ UNCHANGED <<sub, subscribers>>

\* The context is done, or a write fails.
HandlerSeesDrop(s) ==
  /\ handler[s].at = "open" /\ ~Linked(s)
  /\ HandlerStep(s, "leaving") /\ UNCHANGED <<sub, subscribers>>

\* unsubscribe: under b.mu, then under sub.mu if the subscriber was registered.
HandlerUnsubscribes(s) ==
  /\ handler[s].at = "leaving"
  /\ HandlerStep(s, IF s \in subscribers THEN "closing" ELSE "gone")
  /\ subscribers' = subscribers \ {s} /\ UNCHANGED sub

HandlerCloses(s) ==
  /\ handler[s].at = "closing"
  /\ HandlerStep(s, "gone")
  /\ sub' = [sub EXCEPT ![s].closed = TRUE] /\ UNCHANGED subscribers

-----------------------------------------------------------------------------
PublisherStep(p) == Copies(p) \/ Publish(p) \/ (\E s \in Sessions : Sends(p, s)) \/ HasSent(p)

RunnerStep(s) == RunnerWakes(s) \/ RunnerTakes(s) \/ RunnerEnds(s)

HandlerNext(s) ==
  \/ HandlerGreets(s) \/ HandlerReplays(s) \/ HandlerReceives(s) \/ HandlerSeesEnd(s)
  \/ HandlerSeesDrop(s) \/ HandlerUnsubscribes(s) \/ HandlerCloses(s)

Next ==
  \/ \E p \in Publishers, k \in Kinds, note \in Endings : Changes(p, k, note)
  \/ \E p \in Processes : PublisherStep(p)
  \/ ShutdownAnnounces \/ BusCloses
  \/ \E s \in Sessions : RunnerStep(s) \/ HandlerNext(s)
  \/ \E c \in Clients : Connects(c) \/ Drops(c)

Spec == Init /\ [][Next]_vars

\* Publishers and the goroutines of the bus wait for nobody but each other, and
\* neither does unsubscribe between its two locks.
FairSpec ==
  /\ Spec
  /\ \A p \in Processes : WF_vars(PublisherStep(p))
  /\ \A s \in Sessions : WF_vars(RunnerStep(s)) /\ WF_vars(HandlerCloses(s))

-----------------------------------------------------------------------------
(* Safety.                                                                 *)

\* The events on their way to session s: replayed, queued, offered, or still
\* being sent.
InReplay(s)  == {handler[s].replay[i].id : i \in DOMAIN handler[s].replay}
InQueue(s)   == {sub[s].queue[i].id : i \in DOMAIN sub[s].queue}
InHand(s)    == IF sub[s].hand # NoEvent /\ sub[s].hand.kind \in Replayable THEN {sub[s].hand.id} ELSE {}
BeingSent(s) == {pub[p].evt.id : p \in {q \in Processes : s \in pub[q].left /\ pub[q].evt.kind \in Replayable}}

\* What a session is to be given.
Promised(s) == handler[s].due \cup {n \in notes : n > handler[s].born}

\* Registration falls between two events: of the notifications that a stream is
\* to be given, by replay or because they are published later, none is missing
\* and none comes twice, however publishers, overflows and other streams
\* interleave, unless the stream was closed.
DeliveredOnce ==
  \A s \in Sessions :
    handler[s].at = "open" /\ ~sub[s].closed =>
      /\ Promised(s) = handler[s].heard \cup InReplay(s) \cup InQueue(s) \cup InHand(s) \cup BeingSent(s)
      /\ Cardinality(Promised(s)) =
           Cardinality(handler[s].heard) + Cardinality(InReplay(s)) + Len(sub[s].queue)
             + Cardinality(InHand(s)) + Cardinality(BeingSent(s))

\* The bus knows a subscriber as long as its handler runs and it is not closed;
\* one that overflowed is only known while the publisher is about to remove it,
\* and none is left open, with a goroutine that waits for ever, by its handler.
SubscribersMatchStreams ==
  \A s \in Sessions :
    /\ s \in subscribers =>
         /\ handler[s].at \in {"open", "leaving"}
         /\ sub[s].closed => \E p \in Processes : s \in pub[p].over
    /\ handler[s].at \in {"open", "leaving"} /\ ~sub[s].closed => s \in subscribers
    /\ handler[s].at = "gone" => sub[s].closed

\* Client c has an open stream on which nothing happens any more unless
\* somebody publishes.
Quiet(c) ==
  /\ \A p \in Processes : pub[p].at \in {"idle", "announced"}
  /\ LET s == <<c, linked[c]>>
     IN s \in Sessions /\ Streams(s) /\ sub[s].run = "wait" /\ ~sub[s].wake /\ ~sub[s].closed

\* readme.md: with the snapshots, several tabs and reconnected ones agree with
\* the server.  Once all is quiet a client shows the tasks and schedules as of
\* their last announced change, although its stream began with a snapshot newer
\* than the events that followed.
ViewsAgree == \A c \in Clients : Quiet(c) => view[c] = version

\* Last-Event-ID skips nothing: a client that reconnects after event n has been
\* given every notification up to n that was still to be replayed to it.
NoNoteSkipped ==
  \A c \in Clients : \A n \in notes : base[c] < n /\ n <= lastEventID[c] => n \in known[c]

\* A stream that was there when the shutdown was announced ends by itself.
AnnouncedStreamsEnd ==
  Announced /\ pub[Server].evt # NoEvent =>
    \A c \in Clients : Quiet(c) => handler[<<c, linked[c]>>].born >= pub[Server].evt.id

-----------------------------------------------------------------------------
(* Liveness.                                                               *)

\* No publisher waits for a slow client, which may never read again.
PublishersFinish == \A p \in Publishers : (pub[p].at # "idle") ~> (pub[p].at = "idle")

\* The goroutine of a closed subscriber ends, whatever its handler does, and
\* the closing of the bus ends them all.
RunnersEnd ==
  \A s \in Sessions : (sub[s].run # "none" /\ (sub[s].closed \/ busClosed)) ~> (sub[s].run = "ended")

=============================================================================
