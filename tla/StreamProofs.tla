---------------------------- MODULE StreamProofs ----------------------------
(***************************************************************************)
(* Theorems about what is streamed to clients and chats: EventBus (each    *)
(* open stream is given each note once, the bus knows exactly the open     *)
(* streams, and clients end up with the present state) and                 *)
(* BotNotifications (an end is announced to its chat, once).               *)
(***************************************************************************)
EXTENDS EventBus, BotNotifications, FiniteSetTheorems, FunctionTheorems, SequenceTheorems,
        WellFoundedInduction, TLAPS
-----------------------------------------------------------------------------
(* The event bus: types, and who is where.                                 *)

SubscriberRec ==
  [closed : BOOLEAN, wake : BOOLEAN, queue : Seq(Event), latest : [Kinds -> Event \cup {NoEvent}],
   run : {"none", "wait", "next", "offer", "ended"}, hand : Event \cup {NoEvent}]

PublisherRec ==
  [at : {"idle", "copy", "publish", "sending", "announced"}, kind : Kinds \cup Replayable,
   content : Nat, note : BOOLEAN, evt : Event \cup {NoEvent},
   left : SUBSET Sessions, over : SUBSET Sessions]

HandlerRec ==
  [at : {"none", "open", "leaving", "closing", "gone"}, hello : SUBSET Kinds, replay : Seq(Event),
   born : Nat, due : SUBSET Nat, heard : SUBSET Nat]

BusTyped ==
  /\ version \in [Kinds -> 0 .. MaxChanges]
  /\ nextEventID \in Nat /\ busClosed \in BOOLEAN
  /\ replayHistory \in Seq(Event) /\ Len(replayHistory) <= ReplayLimit
  /\ subscribers \subseteq Sessions
  /\ pub \in [Processes -> PublisherRec]
  /\ sub \in [Sessions -> SubscriberRec]
  /\ \A s \in Sessions : Len(sub[s].queue) <= QueueLimit
  /\ handler \in [Sessions -> HandlerRec]
  /\ linked \in [Clients -> Nat] /\ used \in [Clients -> 0 .. MaxSessions]
  /\ \A c \in Clients : linked[c] <= used[c]
  /\ view \in [Clients -> [Kinds -> Nat]] /\ lastEventID \in [Clients -> Nat]
  /\ notes \in SUBSET Nat
  /\ known \in [Clients -> SUBSET Nat] /\ base \in [Clients -> Nat]

\* What publisher p has in hand, r, and whom it is still to be sent to.
Placed(r, p) ==
  /\ r.at # "sending" => r.left = {} /\ r.over = {}
  /\ r.at = "sending" => r.evt # NoEvent /\ r.evt.kind = r.kind
  /\ r.at = "copy" => r.kind = "tasks"
  /\ r.at = "copy" => p # Server
  /\ r.at = "announced" => p = Server
  /\ r.at \in {"publish", "sending"} =>
       (r.kind = "server_shutdown" <=> p = Server) /\ (p = Server => ~r.note)
  /\ r.at = "idle" /\ p = Server => ~r.note

PublishersPlaced ==
  /\ \A p \in Processes : Placed(pub[p], p)
  /\ \A p \in Processes : \A s \in pub[p].over : sub[s].closed
  /\ \A p, q \in Processes :
       pub[p].at = "sending" /\ pub[q].at = "sending" /\ pub[p].evt.id = pub[q].evt.id => p = q

\* A connection that was not made yet has left no trace.
FreshSessions ==
  \A s \in Sessions :
    used[s[1]] < s[2] =>
      /\ sub[s] = Unused /\ handler[s] = NoHandler /\ s \notin subscribers
      /\ \A p \in Processes : s \notin pub[p].left \cup pub[p].over

\* A subscriber's goroutine: what it offers, what is queued, and that it does not sleep on.
RunnerPlaced(u) ==
  /\ u.run = "offer" <=> u.hand # NoEvent
  /\ \A i \in DOMAIN u.queue : u.queue[i].kind \in Replayable
  /\ \A k \in Kinds : u.latest[k] # NoEvent => u.latest[k].kind = k
  /\ u.run = "wait" /\ ~u.wake => u.queue = <<>> /\ Pending(u) = {}

RunnersPlaced == \A s \in Sessions : RunnerPlaced(sub[s])

\* The conjuncts of SubscribersMatchStreams, and that a closed bus knows nobody.
Registered ==
  /\ busClosed => subscribers = {}
  /\ busClosed => Announced
  /\ SubscribersMatchStreams

-----------------------------------------------------------------------------
(* The events under way.                                                   *)

ElementsOf(q) == {q[i] : i \in DOMAIN q}

\* The events that a subscriber holds, and those on their way to session s.
SubEvents(u) == ElementsOf(u.queue) \cup (({u.latest[k] : k \in Kinds} \cup {u.hand}) \ {NoEvent})

Events(s) == ElementsOf(handler[s].replay) \cup SubEvents(sub[s])

\* An event that was published: its ID tells whether it is a note, and whether it is the farewell.
Published(e) ==
  /\ e.id \in 1 .. nextEventID
  /\ e.kind \in Replayable <=> e.id \in notes
  /\ pub[Server].evt # NoEvent /\ e.id = pub[Server].evt.id => e.kind = "server_shutdown"

Increasing(q) == \A i, j \in DOMAIN q : i < j => q[i].id < q[j].id

\* What a handler is still to replay, and what it owed its client from the start.
ReplayPlaced(h) ==
  /\ Increasing(h.replay)
  /\ \A e \in ElementsOf(h.replay) : e.kind \in Replayable /\ e.id <= h.born
  /\ h.born <= nextEventID
  /\ h.due \cup h.heard \subseteq notes /\ \A n \in h.due : n <= h.born

EventsPublished ==
  /\ notes \subseteq 1 .. nextEventID
  /\ \A e \in ElementsOf(replayHistory) : Published(e) /\ e.kind \in Replayable
  /\ Increasing(replayHistory)
  /\ \A p \in Processes : pub[p].evt # NoEvent => Published(pub[p].evt)
  /\ pub[Server].evt # NoEvent => pub[Server].evt.kind = "server_shutdown"
  /\ \A s \in Sessions : \A e \in Events(s) : Published(e)
  /\ \A s \in Sessions : ReplayPlaced(handler[s])
  /\ \A c \in Clients : lastEventID[c] <= nextEventID

\* DeliveredOnce without counting: of the places that a promised note may be at, it is at one.
SomewhereOnce(promised, heard, replay, queue, hand, sent) ==
  /\ promised = heard \cup replay \cup queue \cup hand \cup sent
  /\ heard \cap (replay \cup queue \cup hand \cup sent) = {}
  /\ replay \cap (queue \cup hand \cup sent) = {}
  /\ queue \cap (hand \cup sent) = {}
  /\ hand \cap sent = {}

OneEach(q) == \A i, j \in DOMAIN q : q[i].id = q[j].id => i = j

EachInOneOf(s) ==
  /\ SomewhereOnce(Promised(s), handler[s].heard, InReplay(s), InQueue(s), InHand(s), BeingSent(s))
  /\ OneEach(sub[s].queue)

NotesDelivered ==
  \A s \in Sessions : handler[s].at = "open" /\ ~sub[s].closed => EachInOneOf(s)

\* Whoever took the farewell from its subscriber has left.
FarewellEnds ==
  pub[Server].evt # NoEvent =>
    \A s \in Sessions : handler[s].at = "open" /\ handler[s].born < pub[Server].evt.id =>
      pub[Server].evt.id \notin handler[s].heard

BusInv ==
  /\ BusTyped /\ PublishersPlaced /\ FreshSessions /\ RunnersPlaced /\ Registered
  /\ EventsPublished /\ NotesDelivered /\ FarewellEnds

-----------------------------------------------------------------------------
(* Every step keeps the types.                                             *)

\* What the tools need of the constants and records.
LEMMA BusFacts ==
  /\ \A k \in Kinds : k \notin Replayable
  /\ Server \notin Publishers /\ Publishers \subseteq Processes /\ Server \in Processes
  /\ NoEvent \notin Event
  /\ \A ks \in SUBSET Kinds : ks # {} => FirstOf(ks) \in ks
  /\ NoHandler \in HandlerRec /\ Unused \in SubscriberRec
  /\ \A p \in Processes : Resting(p) \in PublisherRec
  /\ "tasks" \in Kinds
<1>1. \A k \in Kinds : k \notin Replayable
  BY EventBusAssumption DEF Replayable
<1>2. \A ks \in SUBSET Kinds : ks # {} => FirstOf(ks) \in ks
  BY EventBusAssumption DEF FirstOf
<1>3. <<>> \in Seq(Event)
  OBVIOUS
<1>4. NoHandler \in HandlerRec
  BY <1>3 DEF NoHandler, HandlerRec
<1>5. Unused \in SubscriberRec
  BY <1>3 DEF Unused, SubscriberRec
<1>6. \A p \in Processes : Resting(p) \in PublisherRec
  BY EventBusAssumption DEF Resting, PublisherRec
<1> QED BY <1>1, <1>2, <1>4, <1>5, <1>6, EventBusAssumption DEF Processes

\* What send makes of a subscriber.
LEMMA SentTypes ==
  ASSUME NEW u \in SubscriberRec, NEW e \in Event, Len(u.queue) <= QueueLimit
  PROVE  Sent(u, e) \in SubscriberRec /\ Len(Sent(u, e).queue) <= QueueLimit
<1>1. CASE u.closed
  BY <1>1 DEF Sent
<1>2. CASE ~u.closed /\ Overflows(u, e)
  BY <1>2 DEF Sent, SubscriberRec
<1>3. CASE ~u.closed /\ ~Overflows(u, e) /\ e.kind \in Kinds
  <2>1. Sent(u, e) = [u EXCEPT !.latest[e.kind] = e, !.wake = TRUE]
    BY <1>3 DEF Sent
  <2> QED BY <1>3, <2>1 DEF SubscriberRec
<1>4. CASE ~u.closed /\ ~Overflows(u, e) /\ e.kind \notin Kinds
  <2>1. Sent(u, e) = [u EXCEPT !.queue = Append(u.queue, e), !.wake = TRUE]
    BY <1>4 DEF Sent
  <2>2. e.kind \in Replayable
    BY <1>4 DEF Event
  <2>3. /\ Len(u.queue) < QueueLimit /\ Len(Append(u.queue, e)) = Len(u.queue) + 1
        /\ Append(u.queue, e) \in Seq(Event)
    BY <1>4, <2>2, EventBusAssumption DEF Overflows, SubscriberRec
  <2>4. Sent(u, e).queue = Append(u.queue, e) /\ Sent(u, e) \in SubscriberRec
    BY <2>1, <2>3 DEF SubscriberRec
  <2>5. Len(u.queue) \in Nat /\ QueueLimit \in Nat
    BY EventBusAssumption DEF SubscriberRec
  <2> QED BY <2>3, <2>4, <2>5
<1> QED BY <1>1, <1>2, <1>3, <1>4

LEMMA ChangesFrame ==
  ASSUME BusTyped, version' \in [Kinds -> 0 .. MaxChanges], pub' \in [Processes -> PublisherRec],
         UNCHANGED <<busVars, sub, handler, clientVars, historyVars>>
  PROVE  BusTyped'
BY DEF BusTyped, busVars, clientVars, historyVars

LEMMA ChangedTyped ==
  ASSUME NEW r \in PublisherRec, NEW a \in {"copy", "publish"}, NEW k \in Kinds, NEW b, b \in BOOLEAN, NEW n \in Nat
  PROVE  [r EXCEPT !.at = a, !.kind = k, !.note = b, !.content = n] \in PublisherRec
BY DEF PublisherRec

LEMMA ChangesTyped ==
  ASSUME BusTyped, NEW p \in Processes, NEW k \in Kinds, NEW note \in Endings, Changes(p, k, note)
  PROVE  BusTyped'
<1>1. note \in BOOLEAN /\ MaxChanges \in Nat
  BY EventBusAssumption, Zenon
<1>2. pub[p] \in PublisherRec /\ version[k] + 1 \in 0 .. MaxChanges
  BY <1>1 DEF BusTyped, Changes
<1>3. version' \in [Kinds -> 0 .. MaxChanges]
  BY <1>2 DEF BusTyped, Changes
<1>4. pub' \in [Processes -> PublisherRec]
  <2> DEFINE a == IF k = "tasks" THEN "copy" ELSE "publish"
             r == [pub[p] EXCEPT !.at = a, !.kind = k, !.note = note, !.content = version[k] + 1]
  <2>1. version[k] + 1 \in Nat /\ a \in {"copy", "publish"}
    BY <1>2, <1>1
  <2>2. r \in PublisherRec
    BY <2>1, <1>1, <1>2, ChangedTyped, Zenon
  <2>3. pub' = [pub EXCEPT ![p] = r] /\ pub \in [Processes -> PublisherRec]
    BY Zenon DEF Changes, BusTyped
  <2> HIDE DEF r
  <2> QED BY <2>2, <2>3
<1>5. UNCHANGED <<busVars, sub, handler, clientVars, historyVars>>
  BY Zenon DEF Changes
<1> QED BY <1>3, <1>4, <1>5, ChangesFrame, Zenon

LEMMA ContinueTyped ==
  ASSUME BusTyped, NEW p \in Processes
  PROVE  pub[p] \in PublisherRec /\ Continue(p) \in PublisherRec
<1>1. pub[p] \in PublisherRec /\ Resting(p) \in PublisherRec
  BY BusFacts DEF BusTyped
<1> QED BY <1>1 DEF Continue, PublisherRec, Replayable

LEMMA CopiesTyped ==
  ASSUME BusTyped, NEW p \in Processes, Copies(p)
  PROVE  BusTyped'
<1>1. version["tasks"] \in Nat /\ pub[p] \in PublisherRec
  BY EventBusAssumption DEF BusTyped
<1>2. pub' \in [Processes -> PublisherRec]
  BY <1>1 DEF BusTyped, Copies, PublisherRec
<1> QED BY <1>2 DEF BusTyped, Copies, busVars, clientVars, historyVars

\* The event that p publishes now.
NewEvent(p) == [id |-> nextEventID + 1, kind |-> pub[p].kind,
                content |-> IF pub[p].kind \in Kinds THEN pub[p].content ELSE 0]

LEMMA NewEventTyped ==
  ASSUME BusTyped, NEW p \in Processes
  PROVE  NewEvent(p) \in Event /\ NewEvent(p).id = nextEventID + 1 /\ NewEvent(p).kind = pub[p].kind
BY DEF NewEvent, BusTyped, Event, PublisherRec

\* What Publish does on an open bus.
LEMMA PublishOpen ==
  ASSUME BusTyped, NEW p \in Processes, Publish(p), ~busClosed
  PROVE  /\ nextEventID' = nextEventID + 1
         /\ IF pub[p].kind \in Replayable
              THEN /\ notes' = notes \cup {nextEventID + 1}
                   /\ replayHistory' =
                        Append(IF Len(replayHistory) = ReplayLimit THEN Tail(replayHistory)
                                                                   ELSE replayHistory, NewEvent(p))
              ELSE notes' = notes /\ replayHistory' = replayHistory
         /\ pub' = [pub EXCEPT ![p] = [pub[p] EXCEPT !.at = "sending", !.evt = NewEvent(p),
                                                     !.left = subscribers, !.over = {}]]
         /\ subscribers' = subscribers /\ busClosed' = busClosed
         /\ UNCHANGED <<version, sub, handler, clientVars, known, base>>
BY NewEventTyped DEF Publish, NewEvent

LEMMA PublishTyped ==
  ASSUME BusTyped, NEW p \in Processes, Publish(p)
  PROVE  BusTyped'
<1>1. CASE busClosed
  <2>1. pub' \in [Processes -> PublisherRec]
    BY <1>1, ContinueTyped DEF BusTyped, Publish
  <2> QED BY <1>1, <2>1 DEF BusTyped, Publish, busVars, clientVars
<1>2. CASE ~busClosed
  <2> DEFINE e == NewEvent(p)
             kept == IF Len(replayHistory) = ReplayLimit THEN Tail(replayHistory) ELSE replayHistory
  <2>1. e \in Event /\ nextEventID + 1 \in Nat
    BY NewEventTyped DEF BusTyped
  <2>3. kept \in Seq(Event) /\ Len(kept) + 1 <= ReplayLimit
    BY EventBusAssumption DEF BusTyped
  <2>4. Append(kept, e) \in Seq(Event) /\ Len(Append(kept, e)) = Len(kept) + 1
    BY <2>1, <2>3
  <2>5. replayHistory' = Append(kept, e) \/ replayHistory' = replayHistory
    BY <1>2, PublishOpen
  <2> HIDE DEF e, kept
  <2>6. replayHistory' \in Seq(Event) /\ Len(replayHistory') <= ReplayLimit
    <3>1. CASE replayHistory' = Append(kept, e)
      BY <2>3, <2>4, <3>1
    <3>2. CASE replayHistory' = replayHistory
      BY <3>2 DEF BusTyped
    <3> QED BY <2>5, <3>1, <3>2
  <2>7. notes' \in SUBSET Nat
    <3>1. notes' = notes \cup {nextEventID + 1} \/ notes' = notes
      BY <1>2, PublishOpen, Zenon
    <3> QED BY <2>1, <3>1 DEF BusTyped
  <2>8. pub' \in [Processes -> PublisherRec]
    <3>1. pub' = [pub EXCEPT ![p] = [pub[p] EXCEPT !.at = "sending", !.evt = e,
                                                     !.left = subscribers, !.over = {}]]
      BY <1>2, PublishOpen DEF e
    <3>2. pub[p] \in PublisherRec
      BY ContinueTyped
    <3>3. [pub[p] EXCEPT !.at = "sending", !.evt = e, !.left = subscribers, !.over = {}] \in PublisherRec
      BY <2>1, <3>2 DEF PublisherRec, BusTyped
    <3> QED BY <3>1, <3>3 DEF BusTyped
  <2>9. nextEventID' \in Nat /\ UNCHANGED <<subscribers, busClosed, version, sub, handler, clientVars, known, base>>
    BY <1>2, <2>1, PublishOpen
  <2> QED BY <2>6, <2>7, <2>8, <2>9 DEF BusTyped, clientVars
<1> QED BY <1>1, <1>2

LEMMA SendsTyped ==
  ASSUME BusTyped, PublishersPlaced, NEW p \in Processes, NEW s \in Sessions, Sends(p, s)
  PROVE  BusTyped' /\ pub[p].evt \in Event
<1>1. pub[p] \in PublisherRec /\ pub[p].evt \in Event
  <2>1. pub[p] \in PublisherRec /\ Placed(pub[p], p) /\ pub[p].at = "sending"
    BY DEF Sends, PublishersPlaced, BusTyped
  <2> QED BY <2>1 DEF PublisherRec, Placed
<1>2. Sent(sub[s], pub[p].evt) \in SubscriberRec /\ Len(Sent(sub[s], pub[p].evt).queue) <= QueueLimit
  BY <1>1, SentTypes DEF BusTyped
<1>3. pub' \in [Processes -> PublisherRec]
  BY <1>1 DEF BusTyped, Sends, PublisherRec
<1>4. sub' \in [Sessions -> SubscriberRec] /\ \A t \in Sessions : Len(sub'[t].queue) <= QueueLimit
  BY <1>2 DEF BusTyped, Sends
<1> QED BY <1>1, <1>3, <1>4 DEF BusTyped, Sends, busVars, clientVars, historyVars

LEMMA HasSentTyped ==
  ASSUME BusTyped, NEW p \in Processes, HasSent(p)
  PROVE  BusTyped'
<1>1. pub' \in [Processes -> PublisherRec]
  BY ContinueTyped DEF BusTyped, HasSent
<1> QED BY <1>1 DEF BusTyped, HasSent, clientVars, historyVars

LEMMA ShutdownTyped ==
  ASSUME BusTyped, ShutdownAnnounces \/ BusCloses
  PROVE  BusTyped'
<1>1. CASE ShutdownAnnounces
  <2>1. pub[Server] \in PublisherRec
    BY BusFacts DEF BusTyped
  <2>2. pub' \in [Processes -> PublisherRec]
    BY <1>1, <2>1 DEF BusTyped, ShutdownAnnounces, PublisherRec, Replayable
  <2> QED BY <1>1, <2>2 DEF BusTyped, ShutdownAnnounces, busVars, clientVars, historyVars
<1>2. CASE BusCloses
  <2>1. \A s \in Sessions : [sub[s] EXCEPT !.closed = TRUE] \in SubscriberRec
    BY DEF BusTyped, SubscriberRec
  <2>2. sub' \in [Sessions -> SubscriberRec] /\ \A s \in Sessions : sub'[s].queue = sub[s].queue
    BY <1>2, <2>1 DEF BusTyped, BusCloses, SubscriberRec
  <2> QED BY <1>2, <2>2 DEF BusTyped, BusCloses, clientVars, historyVars
<1> QED BY <1>1, <1>2

\* What a subscriber's goroutine makes of it.
LEMMA RunnerTyped ==
  ASSUME BusTyped, NEW s \in Sessions, RunnerStep(s)
  PROVE  BusTyped'
<1>1. sub[s] \in SubscriberRec /\ Len(sub[s].queue) <= QueueLimit
  BY DEF BusTyped
<1>2. \E u \in SubscriberRec : RunnerVars(s, u) /\ Len(u.queue) <= QueueLimit
  <2>1. CASE RunnerWakes(s)
    <3>1. [sub[s] EXCEPT !.wake = FALSE, !.run = "next"] \in SubscriberRec
      BY <1>1 DEF SubscriberRec
    <3>2. Len([sub[s] EXCEPT !.wake = FALSE, !.run = "next"].queue) <= QueueLimit
      BY <1>1 DEF SubscriberRec
    <3> QED BY <2>1, <3>1, <3>2 DEF RunnerWakes
  <2>2. CASE RunnerEnds(s)
    <3>1. [Unused EXCEPT !.run = "ended", !.closed = TRUE] \in SubscriberRec
      BY BusFacts DEF SubscriberRec
    <3>2. [Unused EXCEPT !.run = "ended", !.closed = TRUE].queue = <<>>
      BY DEF Unused
    <3>3. Len(<<>>) <= QueueLimit
      BY EventBusAssumption
    <3> QED BY <2>2, <3>1, <3>2, <3>3 DEF RunnerEnds
  <2>3. CASE RunnerTakes(s)
    <3> DEFINE u == sub[s]  k == FirstOf(Pending(u))
               u1 == [u EXCEPT !.run = "offer", !.hand = Head(u.queue), !.queue = Tail(u.queue)]
               u2 == [u EXCEPT !.run = "offer", !.hand = u.latest[k], !.latest[k] = NoEvent]
               u3 == [u EXCEPT !.run = "wait"]
    <3>1. CASE u.queue # <<>>
      <4>1. Head(u.queue) \in Event /\ Tail(u.queue) \in Seq(Event) /\ Len(Tail(u.queue)) <= QueueLimit
        BY <1>1, <3>1, EventBusAssumption DEF SubscriberRec
      <4>2. u1 \in SubscriberRec /\ u1.queue = Tail(u.queue)
        BY <1>1, <4>1 DEF SubscriberRec
      <4>3. RunnerVars(s, u1)
        BY <2>3, <3>1 DEF RunnerTakes
      <4> HIDE DEF u1, u
      <4> QED BY <4>1, <4>2, <4>3
    <3>2. CASE u.queue = <<>> /\ Pending(u) # {}
      <4>1. k \in Kinds
        BY <3>2, BusFacts DEF Pending
      <4>2. u.latest[k] \in Event \cup {NoEvent} /\ [u.latest EXCEPT ![k] = NoEvent] \in [Kinds -> Event \cup {NoEvent}]
        BY <1>1, <4>1 DEF SubscriberRec
      <4>3. u2 = [u EXCEPT !.run = "offer", !.hand = u.latest[k], !.latest = [u.latest EXCEPT ![k] = NoEvent]]
        BY DEF SubscriberRec
      <4>4. RunnerVars(s, u2)
        BY <2>3, <3>2 DEF RunnerTakes
      <4> HIDE DEF k
      <4>5. u2 \in SubscriberRec /\ u2.queue = u.queue
        BY <1>1, <4>2, <4>3 DEF SubscriberRec
      <4> HIDE DEF u2, u
      <4> QED BY <1>1, <4>4, <4>5 DEF u
    <3>3. CASE u.queue = <<>> /\ Pending(u) = {}
      <4>1. RunnerVars(s, u3)
        BY <2>3, <3>3 DEF RunnerTakes
      <4>2. u3 \in SubscriberRec /\ u3.queue = u.queue
        BY <1>1 DEF SubscriberRec
      <4> HIDE DEF u3, u
      <4> QED BY <1>1, <4>1, <4>2 DEF u
    <3> QED BY <3>1, <3>2, <3>3
  <2> QED BY <2>1, <2>2, <2>3 DEF RunnerStep
<1>3. PICK u \in SubscriberRec : RunnerVars(s, u) /\ Len(u.queue) <= QueueLimit
  BY <1>2
<1>4. sub' \in [Sessions -> SubscriberRec] /\ \A t \in Sessions : Len(sub'[t].queue) <= QueueLimit
  BY <1>3 DEF BusTyped, RunnerVars
<1> QED BY <1>3, <1>4 DEF BusTyped, RunnerVars, busVars, clientVars, historyVars

LEMMA SessionFacts ==
  ASSUME NEW s \in Sessions
  PROVE  s[1] \in Clients /\ s[2] \in 1 .. MaxSessions /\ s = <<s[1], s[2]>>
BY DEF Sessions

\* A handler that writes an event keeps the client's types.
LEMMA WritesTyped ==
  ASSUME BusTyped, NEW s \in Sessions, NEW e \in Event, Writes(s, e)
  PROVE  /\ lastEventID' \in [Clients -> Nat] /\ known' \in [Clients -> SUBSET Nat]
         /\ view' \in [Clients -> [Kinds -> Nat]]
         /\ Taken(handler[s], e) \in HandlerRec
         /\ UNCHANGED <<version, busVars, pub, linked, used, notes, base>>
<1>1. s[1] \in Clients /\ e.id \in Nat /\ e.content \in Nat
  BY SessionFacts DEF Event
<1>0. view \in [Clients -> [Kinds -> Nat]] /\ known \in [Clients -> SUBSET Nat] /\ lastEventID \in [Clients -> Nat]
  BY DEF BusTyped
<1>2. /\ lastEventID' \in [Clients -> Nat] /\ known' \in [Clients -> SUBSET Nat]
      /\ view' \in [Clients -> [Kinds -> Nat]]
  <2>1. CASE ~Linked(s)
    BY <1>0, <2>1 DEF Writes
  <2>2. CASE Linked(s) /\ e.kind \in Replayable
    <3>1. lastEventID' = [lastEventID EXCEPT ![s[1]] = e.id]
          /\ known' = [known EXCEPT ![s[1]] = @ \cup {e.id}] /\ view' = view
      BY <2>2 DEF Writes
    <3> QED BY <1>0, <1>1, <3>1
  <2>3. CASE Linked(s) /\ e.kind \notin Replayable
    <3>1. lastEventID' = [lastEventID EXCEPT ![s[1]] = e.id]
          /\ view' = [view EXCEPT ![s[1]][e.kind] = e.content] /\ known' = known
      BY <2>3 DEF Writes
    <3> QED BY <1>0, <1>1, <3>1
  <2> QED BY <2>1, <2>2, <2>3
<1>4. Taken(handler[s], e) \in HandlerRec
  <2>1. handler[s] \in HandlerRec
    BY DEF BusTyped
  <2> QED BY <1>1, <2>1 DEF Taken, HandlerRec
<1>5. UNCHANGED <<version, busVars, pub, linked, used, notes, base>>
  BY DEF Writes
<1> QED BY <1>2, <1>4, <1>5

LEMMA GreetsTyped ==
  ASSUME BusTyped, NEW s \in Sessions, HandlerGreets(s)
  PROVE  BusTyped'
<1>1. handler[s] \in HandlerRec /\ s[1] \in Clients /\ \A k \in Kinds : version[k] \in Nat
  BY SessionFacts DEF BusTyped
<1>2. handler' \in [Sessions -> HandlerRec]
  BY <1>1 DEF HandlerGreets, BusTyped, HandlerRec
<1>3. view' \in [Clients -> [Kinds -> Nat]]
  BY <1>1 DEF HandlerGreets, BusTyped
<1> QED BY <1>2, <1>3 DEF HandlerGreets, BusTyped, busVars, historyVars

LEMMA ReplaysTyped ==
  ASSUME BusTyped, NEW s \in Sessions, HandlerReplays(s)
  PROVE  BusTyped'
<1> DEFINE e == Head(handler[s].replay)  h == Taken(handler[s], e)
<1>1. handler[s] \in HandlerRec /\ handler[s].replay # <<>> /\ Writes(s, e)
  BY DEF BusTyped, HandlerReplays
<1>2. e \in Event /\ Tail(handler[s].replay) \in Seq(Event)
  BY <1>1 DEF HandlerRec
<1>3. h \in HandlerRec /\ h.replay = handler[s].replay
  BY <1>1, <1>2, WritesTyped DEF Taken, HandlerRec
<1>4. handler' = [handler EXCEPT ![s] = [h EXCEPT !.replay = Tail(handler[s].replay)]] /\ sub' = sub
  BY <1>1, <1>3 DEF HandlerReplays, HandlerRec
<1> HIDE DEF e, h
<1>5. [h EXCEPT !.replay = Tail(handler[s].replay)] \in HandlerRec
  BY <1>2, <1>3 DEF HandlerRec
<1>6. handler' \in [Sessions -> HandlerRec]
  BY <1>4, <1>5 DEF BusTyped
<1> QED BY <1>1, <1>2, <1>4, <1>6, WritesTyped DEF BusTyped, busVars

LEMMA ReceivesTyped ==
  ASSUME BusTyped, RunnersPlaced, NEW s \in Sessions, HandlerReceives(s)
  PROVE  BusTyped' /\ sub[s].hand \in Event
<1>1. sub[s].hand \in Event /\ Writes(s, sub[s].hand) /\ sub[s] \in SubscriberRec
  BY DEF BusTyped, RunnersPlaced, RunnerPlaced, HandlerReceives, SubscriberRec
<1>2. handler' \in [Sessions -> HandlerRec]
  <2>1. Taken(handler[s], sub[s].hand) \in HandlerRec
    BY <1>1, WritesTyped
  <2>2. [NoHandler EXCEPT !.at = "leaving"] \in HandlerRec
    BY BusFacts DEF HandlerRec
  <2> QED BY <2>1, <2>2 DEF BusTyped, HandlerReceives
<1>3. sub' \in [Sessions -> SubscriberRec] /\ \A t \in Sessions : sub'[t].queue = sub[t].queue
  BY <1>1 DEF BusTyped, HandlerReceives, SubscriberRec
<1> QED BY <1>1, <1>2, <1>3, WritesTyped DEF BusTyped, busVars

\* The other steps of a handler: it leaves, stage by stage.
HandlerLeaves(s) == HandlerSeesEnd(s) \/ HandlerSeesDrop(s) \/ HandlerUnsubscribes(s) \/ HandlerCloses(s)

LEMMA HandlerLeavesTyped ==
  ASSUME BusTyped, NEW s \in Sessions, HandlerLeaves(s)
  PROVE  BusTyped'
<1>1. \A a \in {"leaving", "closing", "gone"} : [NoHandler EXCEPT !.at = a] \in HandlerRec
  BY BusFacts DEF HandlerRec
<1>2. \E a \in {"leaving", "closing", "gone"} : HandlerStep(s, a)
  BY DEF HandlerLeaves, HandlerSeesEnd, HandlerSeesDrop, HandlerUnsubscribes, HandlerCloses
<1>3. handler' \in [Sessions -> HandlerRec]
      /\ UNCHANGED <<version, nextEventID, replayHistory, busClosed, pub, clientVars, historyVars>>
  BY <1>1, <1>2 DEF HandlerStep, BusTyped
<1>4. subscribers' \subseteq subscribers
  BY DEF HandlerLeaves, HandlerSeesEnd, HandlerSeesDrop, HandlerUnsubscribes, HandlerCloses
<1>5. sub' = sub \/ sub' = [sub EXCEPT ![s].closed = TRUE]
  BY DEF HandlerLeaves, HandlerSeesEnd, HandlerSeesDrop, HandlerUnsubscribes, HandlerCloses
<1>6. sub' \in [Sessions -> SubscriberRec] /\ \A t \in Sessions : sub'[t].queue = sub[t].queue
  <2> DEFINE u == [sub[s] EXCEPT !.closed = TRUE]
  <2>1. u \in SubscriberRec /\ u.queue = sub[s].queue /\ sub \in [Sessions -> SubscriberRec]
    BY DEF BusTyped, SubscriberRec
  <2>2. sub' = sub \/ sub' = [sub EXCEPT ![s] = u]
    BY <1>5
  <2> HIDE DEF u
  <2> QED BY <2>1, <2>2
<1> QED BY <1>3, <1>4, <1>6 DEF BusTyped, clientVars, historyVars

-----------------------------------------------------------------------------
(* What a client that connects is given.                                   *)

\* A non-empty set of natural numbers up to n has a greatest one.
LEMMA GreatestId ==
  ASSUME NEW S, S \subseteq Nat, S # {}, NEW n \in Nat, \A x \in S : x <= n
  PROVE  Max(S) \in S /\ \A x \in S : x <= Max(S)
<1> DEFINE Less == {ss \in Nat \X Nat : ss[1] < ss[2]}
           Gap == {g \in Nat : n - g \in S}
<1>1. PICK x \in S : TRUE
  OBVIOUS
<1>2. n - x \in Gap
  BY <1>1
<1>3. PICK g \in Gap : \A y \in Gap : <<y, g>> \notin Less
  <2>1. IsWellFoundedOn(Less, Nat)
    BY NatLessThanWellFounded DEF OpToRel
  <2>2. Gap \subseteq Nat /\ Gap # {}
    BY <1>2
  <2> HIDE DEF Less, Gap
  <2> QED BY <2>1, <2>2, WFMin
<1>4. \A y \in S : n - g >= y
  <2> SUFFICES ASSUME NEW y \in S PROVE n - g >= y
    OBVIOUS
  <2>1. y \in Nat /\ y <= n
    OBVIOUS
  <2>2. n - y \in Gap
    BY <2>1
  <2>3. g \in Nat /\ ~(n - y < g)
    BY <1>3, <2>2, <2>1
  <2> QED BY <2>1, <2>3
<1>5. n - g \in S
  BY <1>3
<1> QED BY <1>4, <1>5 DEF Max

\* The replayed events are the end of the history that follows the last event the client has.
LEMMA ReplayIsTheRest ==
  ASSUME replayHistory \in Seq(Event), Increasing(replayHistory), NEW last \in Nat
  PROVE  \E m \in 0 .. Len(replayHistory) :
           /\ ReplayAfter(last) \in Seq(Event)
           /\ Len(ReplayAfter(last)) = Len(replayHistory) - m
           /\ \A i \in 1 .. Len(replayHistory) - m : ReplayAfter(last)[i] = replayHistory[i + m]
           /\ \A i \in DOMAIN replayHistory : i <= m <=> replayHistory[i].id <= last
<1> DEFINE h == replayHistory
           before == {i \in DOMAIN h : h[i].id <= last}
<1>1. \E m \in 0 .. Len(h) : before = 1 .. m
  <2>1. CASE before = {}
    <3>1. before = 1 .. 0
      BY <2>1
    <3> QED BY <3>1
  <2>2. CASE before # {}
    <3>1. before \subseteq 1 .. Len(h) /\ Len(h) \in Nat
      OBVIOUS
    <3> DEFINE m == Max(before)
    <3>2. m \in before /\ \A x \in before : x <= m
      <4> HIDE DEF before
      <4>1. before \subseteq Nat /\ \A x \in before : x <= Len(h)
        BY <3>1
      <4> QED BY <2>2, <3>1, <4>1, GreatestId
    <3> HIDE DEF m
    <3>3. \A i \in 1 .. m : i \in before
      <4> SUFFICES ASSUME NEW i \in 1 .. m, i # m PROVE i \in before
        BY <3>2
      <4>1. i \in DOMAIN h /\ m \in DOMAIN h /\ i < m
        BY <3>1, <3>2
      <4>2. h[i].id < h[m].id /\ h[m].id <= last
        BY <4>1, <3>2 DEF Increasing
      <4>3. h[i] \in Event /\ h[m] \in Event
        BY <4>1
      <4>4. h[i].id \in Nat /\ h[m].id \in Nat
        BY <4>3 DEF Event
      <4> QED BY <4>1, <4>2, <4>4
    <3>4. before = 1 .. m /\ m \in 0 .. Len(h)
      BY <3>1, <3>2, <3>3
    <3> QED BY <3>4
  <2> QED BY <2>1, <2>2
<1>2. PICK m \in 0 .. Len(h) : before = 1 .. m
  BY <1>1
<1>3. Cardinality(before) = m
  <2>1. m \in Nat
    BY <1>2
  <2>2. \A a, b \in Int : Cardinality(a .. b) = IF a > b THEN 0 ELSE b - a + 1
    BY FS_Interval
  <2>3. Cardinality(1 .. m) = IF 1 > m THEN 0 ELSE m - 1 + 1
    BY <2>1, <2>2
  <2>4. Cardinality(1 .. m) = m
    BY <2>1, <2>3
  <2> QED BY <1>2, <2>4
<1>4. ReplayAfter(last) = SubSeq(h, m + 1, Len(h))
  BY <1>3 DEF ReplayAfter
<1>5. Len(h) \in Nat /\ \A i \in 1 .. Len(h) : h[i] \in Event
  OBVIOUS
<1>6. SubSeq(h, m + 1, Len(h)) = [i \in 1 .. Len(h) - m |-> h[i + m]]
  BY <1>2, <1>5
<1>7. [i \in 1 .. Len(h) - m |-> h[i + m]] \in Seq(Event)
  BY <1>2, <1>5
<1>8. \A i \in DOMAIN h : i <= m <=> h[i].id <= last
  BY <1>2, <1>5
<1>9. Len([i \in 1 .. Len(h) - m |-> h[i + m]]) = Len(h) - m
  BY <1>2, <1>5
<1> QED BY <1>2, <1>4, <1>6, <1>7, <1>8, <1>9

\* Its parts, named.
NewSession(c) == <<c, used[c] + 1>>
Forgotten     == notes \ {replayHistory[i].id : i \in DOMAIN replayHistory}
Replay(c)     == IF lastEventID[c] = 0 \/ busClosed THEN <<>> ELSE ReplayAfter(lastEventID[c])
NewHandler(c) ==
  [at |-> "open", hello |-> Kinds, replay |-> Replay(c), heard |-> {}, born |-> nextEventID,
   due |-> IF lastEventID[c] = 0 \/ busClosed THEN {} ELSE {n \in notes \ Forgotten : n > lastEventID[c]}]

LEMMA ConnectsCounts ==
  ASSUME NEW c \in Clients, Connects(c)
  PROVE  /\ linked[c] = 0 /\ used[c] < MaxSessions
         /\ used' = [used EXCEPT ![c] = used[c] + 1] /\ linked' = [linked EXCEPT ![c] = used[c] + 1]
         /\ UNCHANGED <<version, nextEventID, replayHistory, busClosed, pub, view, lastEventID, notes, known>>
BY DEF Connects

LEMMA ConnectsSession ==
  ASSUME NEW c \in Clients, Connects(c)
  PROVE  /\ sub' = [sub EXCEPT ![NewSession(c)] = [sub[NewSession(c)] EXCEPT !.run = "wait", !.closed = busClosed]]
         /\ subscribers' = IF busClosed THEN subscribers ELSE subscribers \cup {NewSession(c)}
         /\ handler' = [handler EXCEPT ![NewSession(c)] = NewHandler(c)]
BY DEF Connects, NewSession, Forgotten, Replay, NewHandler

LEMMA ConnectsBase ==
  ASSUME NEW c \in Clients, Connects(c)
  PROVE  base' = [base EXCEPT ![c] = IF lastEventID[c] = 0 THEN nextEventID ELSE Max({base[c]} \cup Forgotten)]
BY DEF Connects, Forgotten

LEMMA BaseTyped ==
  ASSUME BusTyped, EventsPublished, NEW c \in Clients
  PROVE  LET b == Max({base[c]} \cup Forgotten)
         IN  b \in Nat /\ b \in {base[c]} \cup Forgotten /\ \A n \in {base[c]} \cup Forgotten : n <= b
<1> DEFINE S == {base[c]} \cup Forgotten
           n == IF base[c] > nextEventID THEN base[c] ELSE nextEventID
<1>1. base[c] \in Nat /\ nextEventID \in Nat /\ Forgotten \subseteq 1 .. nextEventID
  BY DEF BusTyped, EventsPublished, Forgotten
<1>2. S \subseteq Nat /\ S # {} /\ n \in Nat /\ \A x \in S : x <= n
  <2>1. n \in Nat /\ base[c] <= n /\ nextEventID <= n
    BY <1>1
  <2> HIDE DEF n
  <2>2. \A x \in 1 .. nextEventID : x \in Nat /\ x <= n
    BY <1>1, <2>1
  <2>3. S \subseteq {base[c]} \cup (1 .. nextEventID)
    BY <1>1
  <2> QED BY <1>1, <2>1, <2>2, <2>3
<1> HIDE DEF S, n
<1>3. Max(S) \in S /\ \A x \in S : x <= Max(S)
  BY <1>2, GreatestId
<1> QED BY <1>2, <1>3 DEF S

LEMMA ConnectsTyped ==
  ASSUME BusTyped, EventsPublished, FreshSessions, NEW c \in Clients, Connects(c)
  PROVE  BusTyped' /\ NewSession(c) \in Sessions /\ NewHandler(c) \in HandlerRec
         /\ sub[NewSession(c)] = Unused /\ handler[NewSession(c)] = NoHandler
<1> DEFINE s == NewSession(c)
<1>1. used[c] + 1 \in 1 .. MaxSessions /\ used[c] \in Nat
  <2>1. used[c] \in 0 .. MaxSessions /\ MaxSessions \in Nat
    BY EventBusAssumption DEF BusTyped
  <2> QED BY <2>1, ConnectsCounts
<1>2. s \in Sessions /\ sub[s] = Unused /\ handler[s] = NoHandler
  <2>1. used[c] < used[c] + 1
    BY <1>1
  <2>2. s \in Sessions /\ s[1] = c /\ s[2] = used[c] + 1
    BY <1>1 DEF NewSession, Sessions
  <2> QED BY <2>1, <2>2 DEF FreshSessions
<1>3. Replay(c) \in Seq(Event)
  <2>1. lastEventID[c] \in Nat /\ replayHistory \in Seq(Event) /\ Increasing(replayHistory)
    BY DEF BusTyped, EventsPublished
  <2>2. ReplayAfter(lastEventID[c]) \in Seq(Event)
    BY <2>1, ReplayIsTheRest
  <2> QED BY <2>2 DEF Replay
<1>4. NewHandler(c) \in HandlerRec
  BY <1>3 DEF NewHandler, HandlerRec, BusTyped
<1>5. handler' \in [Sessions -> HandlerRec]
  BY <1>4, ConnectsSession DEF BusTyped
<1>6. sub' \in [Sessions -> SubscriberRec] /\ \A t \in Sessions : Len(sub'[t].queue) <= QueueLimit
  <2> DEFINE u == [sub[s] EXCEPT !.run = "wait", !.closed = busClosed]
  <2>1. u \in SubscriberRec /\ u.queue = sub[s].queue
    BY <1>2 DEF BusTyped, SubscriberRec
  <2>2. sub' = [sub EXCEPT ![s] = u]
    BY ConnectsSession
  <2> HIDE DEF u, s
  <2> QED BY <2>1, <2>2 DEF BusTyped
<1>7. base' \in [Clients -> Nat]
  <2> DEFINE b == Max({base[c]} \cup Forgotten)
  <2>1. b \in Nat
    BY BaseTyped
  <2>2. base' = [base EXCEPT ![c] = IF lastEventID[c] = 0 THEN nextEventID ELSE b]
    BY ConnectsBase
  <2> HIDE DEF b
  <2> QED BY <2>1, <2>2 DEF BusTyped
<1>8. subscribers' \subseteq Sessions
  BY <1>2, ConnectsSession DEF BusTyped
<1>9. used' \in [Clients -> 0 .. MaxSessions] /\ linked' \in [Clients -> Nat]
      /\ \A d \in Clients : linked'[d] <= used'[d]
  <2>1. used' = [used EXCEPT ![c] = used[c] + 1] /\ linked' = [linked EXCEPT ![c] = used[c] + 1]
    BY ConnectsCounts
  <2>2. used[c] + 1 \in 0 .. MaxSessions /\ used[c] + 1 \in Nat
    BY <1>1
  <2> QED BY <2>1, <2>2 DEF BusTyped
<1>10. UNCHANGED <<version, nextEventID, replayHistory, busClosed, pub, view, lastEventID, notes, known>>
  BY ConnectsCounts
<1> HIDE DEF s
<1>11. BusTyped'
  BY <1>5, <1>6, <1>7, <1>8, <1>9, <1>10 DEF BusTyped
<1> QED BY <1>2, <1>4, <1>11 DEF s

LEMMA DropsTyped ==
  ASSUME BusTyped, NEW c \in Clients, Drops(c)
  PROVE  BusTyped'
BY DEF BusTyped, Drops, busVars, historyVars

-----------------------------------------------------------------------------
(* Publishers.                                                             *)

\* Publisher p is left with r.
Becomes(p, r) == pub' = [pub EXCEPT ![p] = r]

\* A step of a publisher that reaches nobody yet.
Prepares(p) ==
  /\ pub[p].at \notin {"sending", "announced"}
  /\ \E r \in PublisherRec :
       /\ Becomes(p, r) /\ Placed(r, p) /\ r.at \notin {"sending", "announced"}
       /\ r.evt = pub[p].evt /\ r.left = {} /\ r.over = {}
  /\ UNCHANGED <<busVars, sub, handler, clientVars, historyVars>>

LEMMA ChangesPrepares ==
  ASSUME BusTyped, PublishersPlaced, NEW p \in Processes, NEW k \in Kinds, NEW note \in Endings, Changes(p, k, note)
  PROVE  Prepares(p)
<1> DEFINE a == IF k = "tasks" THEN "copy" ELSE "publish"
           r == [pub[p] EXCEPT !.at = a, !.kind = k, !.note = note, !.content = version[k] + 1]
<1>1. p # Server /\ pub[p].at = "idle" /\ k # "server_shutdown"
  BY BusFacts DEF Changes, Replayable
<1>2. pub[p] \in PublisherRec /\ pub[p].left = {} /\ pub[p].over = {}
  BY <1>1 DEF BusTyped, PublishersPlaced, Placed
<1>3. version[k] + 1 \in Nat /\ a \in {"copy", "publish"} /\ note \in BOOLEAN
  <2>1. version[k] \in Nat
    BY EventBusAssumption DEF BusTyped
  <2>2. note \in BOOLEAN
    BY EventBusAssumption, Zenon
  <2> QED BY <2>1, <2>2
<1>4. r \in PublisherRec
  BY <1>2, <1>3, ChangedTyped, Zenon
<1>5. r.at = a /\ r.evt = pub[p].evt /\ r.left = pub[p].left /\ r.over = pub[p].over /\ r.kind = k
  BY <1>2 DEF PublisherRec
<1>6. Becomes(p, r)
  BY Zenon DEF Changes, Becomes
<1>7. UNCHANGED <<busVars, sub, handler, clientVars, historyVars>>
  BY Zenon DEF Changes
<1> HIDE DEF r
<1>8. Placed(r, p)
  BY <1>1, <1>2, <1>5 DEF Placed
<1>9. r.at \notin {"sending", "announced"} /\ pub[p].at \notin {"sending", "announced"}
  BY <1>1, <1>5
<1> QED BY <1>2, <1>4, <1>5, <1>6, <1>7, <1>8, <1>9, Zenon DEF Prepares

LEMMA CopiesPrepares ==
  ASSUME BusTyped, PublishersPlaced, NEW p \in Processes, Copies(p)
  PROVE  Prepares(p)
<1> DEFINE r == [pub[p] EXCEPT !.at = "publish", !.content = version["tasks"]]
<1>1. pub[p] \in PublisherRec /\ Placed(pub[p], p) /\ version["tasks"] \in Nat /\ pub[p].at = "copy"
  BY BusFacts, EventBusAssumption DEF BusTyped, PublishersPlaced, Copies
<1>2. r \in PublisherRec /\ Becomes(p, r)
  BY <1>1 DEF PublisherRec, Becomes, Copies
<1>3. Placed(r, p) /\ r.evt = pub[p].evt /\ r.left = {} /\ r.over = {} /\ r.at = "publish"
  BY <1>1 DEF Placed, PublisherRec
<1> HIDE DEF r
<1> QED BY <1>1, <1>2, <1>3 DEF Prepares, Copies

LEMMA ShutdownPrepares ==
  ASSUME BusTyped, PublishersPlaced, ShutdownAnnounces
  PROVE  Prepares(Server)
<1> DEFINE r == [pub[Server] EXCEPT !.at = "publish", !.kind = "server_shutdown"]
<1>1. pub[Server] \in PublisherRec /\ Placed(pub[Server], Server) /\ pub[Server].at = "idle"
  BY BusFacts DEF BusTyped, PublishersPlaced, ShutdownAnnounces
<1>2. r \in PublisherRec /\ Becomes(Server, r)
  BY <1>1 DEF PublisherRec, Becomes, ShutdownAnnounces, Replayable
<1>3. Placed(r, Server) /\ r.evt = pub[Server].evt /\ r.left = {} /\ r.over = {} /\ r.at = "publish"
  BY <1>1 DEF Placed, PublisherRec
<1> HIDE DEF r
<1> QED BY <1>1, <1>2, <1>3 DEF Prepares, ShutdownAnnounces

\* After an event: the publisher rests, or goes on to its notification.
LEMMA ContinuePlaced ==
  ASSUME BusTyped, PublishersPlaced, NEW p \in Processes, pub[p].at \in {"publish", "sending"}
  PROVE  /\ Placed(Continue(p), p) /\ Continue(p).at # "sending"
         /\ Continue(p).left = {} /\ Continue(p).over = {}
         /\ Continue(p).evt \in {NoEvent, pub[p].evt} /\ (p = Server => Continue(p).evt = pub[p].evt)
         /\ (Continue(p).at = "announced" <=> p = Server)
<1>1. p = Server => ~pub[p].note
  BY DEF PublishersPlaced, Placed
<1>2. CASE pub[p].note
  BY <1>1, <1>2 DEF Continue, Resting, Placed, Replayable
<1>3. CASE ~pub[p].note
  BY <1>3 DEF Continue, Resting, Placed
<1> QED BY <1>2, <1>3

\* A subscriber that is closed stays so.
StaysClosed == \A s \in Sessions : sub[s].closed => sub'[s].closed

LEMMA PlacedFrame ==
  ASSUME PublishersPlaced, pub' = pub, StaysClosed, BusTyped
  PROVE  PublishersPlaced'
<1>1. \A p \in Processes : pub[p].over \subseteq Sessions
  BY DEF BusTyped, PublisherRec
<1> QED BY <1>1 DEF PublishersPlaced, StaysClosed

LEMMA PreparesPlaced ==
  ASSUME BusTyped, PublishersPlaced, NEW p \in Processes, Prepares(p)
  PROVE  PublishersPlaced'
<1>1. PICK r \in PublisherRec : Becomes(p, r) /\ Placed(r, p) /\ r.at # "sending" /\ r.over = {}
  BY DEF Prepares
<1>2. pub'[p] = r /\ \A q \in Processes : q # p => pub'[q] = pub[q]
  BY <1>1 DEF Becomes, BusTyped
<1>3. sub' = sub
  BY DEF Prepares
<1> QED BY <1>1, <1>2, <1>3 DEF PublishersPlaced

LEMMA PublishPlaced ==
  ASSUME BusTyped, PublishersPlaced, EventsPublished, NEW p \in Processes, Publish(p)
  PROVE  PublishersPlaced'
<1>1. CASE busClosed
  <2>1. Becomes(p, Continue(p)) /\ sub' = sub /\ pub[p].at = "publish"
    BY <1>1 DEF Publish, Becomes
  <2>2. pub'[p] = Continue(p) /\ \A q \in Processes : q # p => pub'[q] = pub[q]
    BY <2>1 DEF Becomes, BusTyped
  <2>3. Placed(Continue(p), p) /\ Continue(p).at # "sending" /\ Continue(p).over = {}
    BY <2>1, ContinuePlaced
  <2> QED BY <2>1, <2>2, <2>3 DEF PublishersPlaced
<1>2. CASE ~busClosed
  <2> DEFINE r == [pub[p] EXCEPT !.at = "sending", !.evt = NewEvent(p), !.left = subscribers, !.over = {}]
  <2>1. pub' = [pub EXCEPT ![p] = r] /\ sub' = sub
    BY <1>2, PublishOpen
  <2>2. /\ pub[p] \in PublisherRec /\ NewEvent(p) \in Event /\ NewEvent(p).id = nextEventID + 1
        /\ NewEvent(p).kind = pub[p].kind /\ Placed(pub[p], p) /\ pub[p].at = "publish"
    BY NewEventTyped, ContinueTyped DEF PublishersPlaced, Publish
  <2>3. /\ r.at = "sending" /\ r.evt = NewEvent(p) /\ r.over = {} /\ r.kind = pub[p].kind /\ r.note = pub[p].note
    BY <2>2 DEF PublisherRec
  <2> HIDE DEF r
  <2>4. Placed(r, p)
    BY <2>2, <2>3, BusFacts DEF Placed
  <2>5. pub'[p] = r /\ \A q \in Processes : q # p => pub'[q] = pub[q]
    BY <2>1 DEF BusTyped
  <2>6. \A q \in Processes : pub[q].at = "sending" => pub[q].evt.id # nextEventID + 1
    <3> SUFFICES ASSUME NEW q \in Processes, pub[q].at = "sending" PROVE pub[q].evt.id # nextEventID + 1
      OBVIOUS
    <3>1. Published(pub[q].evt)
      BY DEF PublishersPlaced, Placed, EventsPublished
    <3>2. pub[q].evt.id \in 1 .. nextEventID /\ nextEventID \in Nat
      BY <3>1 DEF Published, BusTyped
    <3> QED BY <3>2
  <2> QED BY <2>1, <2>2, <2>3, <2>4, <2>5, <2>6 DEF PublishersPlaced
<1> QED BY <1>1, <1>2

\* What send does to a subscriber, and to the publisher's account of it.
LEMMA SendsFacts ==
  ASSUME BusTyped, PublishersPlaced, NEW p \in Processes, NEW s \in Sessions, Sends(p, s)
  PROVE  /\ pub[p].at = "sending" /\ s \in pub[p].left /\ pub[p].evt \in Event
         /\ sub[s] \in SubscriberRec /\ sub' = [sub EXCEPT ![s] = Sent(sub[s], pub[p].evt)]
         /\ \A q \in Processes :
              /\ pub'[q].at = pub[q].at /\ pub'[q].evt = pub[q].evt
              /\ pub'[q].note = pub[q].note /\ pub'[q].kind = pub[q].kind
              /\ pub'[q].left = IF q = p THEN pub[q].left \ {s} ELSE pub[q].left
              /\ pub'[q].over = IF q = p /\ Overflows(sub[s], pub[p].evt) THEN pub[q].over \cup {s} ELSE pub[q].over
         /\ UNCHANGED <<version, busVars, handler, clientVars, historyVars>>
<1>1. pub[p].evt \in Event /\ sub[s] \in SubscriberRec
  BY SendsTyped DEF BusTyped
<1>2. pub[p].at = "sending" /\ s \in pub[p].left /\ sub' = [sub EXCEPT ![s] = Sent(sub[s], pub[p].evt)]
      /\ UNCHANGED <<version, busVars, handler, clientVars, historyVars>>
  BY DEF Sends
<1> DEFINE o == IF Overflows(sub[s], pub[p].evt) THEN pub[p].over \cup {s} ELSE pub[p].over
           r == [pub[p] EXCEPT !.left = pub[p].left \ {s}, !.over = o]
<1>3. pub' = [pub EXCEPT ![p] = r]
  BY DEF Sends
<1>4. pub \in [Processes -> PublisherRec]
  BY DEF BusTyped
<1>5. r.at = pub[p].at /\ r.evt = pub[p].evt /\ r.note = pub[p].note /\ r.kind = pub[p].kind
      /\ r.left = pub[p].left \ {s} /\ r.over = o
  BY <1>4 DEF PublisherRec
<1> HIDE DEF r
<1>6. pub'[p] = r /\ \A q \in Processes : q # p => pub'[q] = pub[q]
  BY <1>3, <1>4
<1> QED BY <1>1, <1>2, <1>5, <1>6

\* send closes a subscriber when it overflows, and never opens one.
LEMMA SentCloses ==
  ASSUME NEW u \in SubscriberRec, NEW e \in Event
  PROVE  Sent(u, e).closed <=> u.closed \/ Overflows(u, e)
BY DEF Sent, SubscriberRec

LEMMA SendsPlaced ==
  ASSUME BusTyped, PublishersPlaced, NEW p \in Processes, NEW s \in Sessions, Sends(p, s)
  PROVE  PublishersPlaced' /\ StaysClosed /\ \A t \in Sessions : t # s => sub'[t] = sub[t]
<1>1. sub'[s] = Sent(sub[s], pub[p].evt) /\ \A t \in Sessions : t # s => sub'[t] = sub[t]
  BY SendsFacts DEF BusTyped
<1>2. sub'[s].closed <=> sub[s].closed \/ Overflows(sub[s], pub[p].evt)
  BY <1>1, SendsFacts, SentCloses
<1>3. StaysClosed
  BY <1>1, <1>2 DEF StaysClosed
<1>4. \A q \in Processes : Placed(pub'[q], q)
  <2> SUFFICES ASSUME NEW q \in Processes PROVE Placed(pub'[q], q)
    OBVIOUS
  <2>1. Placed(pub[q], q)
    BY DEF PublishersPlaced
  <2>2. pub'[q].at = pub[q].at /\ pub'[q].evt = pub[q].evt /\ pub'[q].note = pub[q].note /\ pub'[q].kind = pub[q].kind
    BY SendsFacts
  <2>3. pub[q].at # "sending" => pub'[q].left = pub[q].left /\ pub'[q].over = pub[q].over
    BY SendsFacts
  <2> QED BY <2>1, <2>2, <2>3 DEF Placed
<1>5. \A q \in Processes : \A t \in pub'[q].over : sub'[t].closed
  <2> SUFFICES ASSUME NEW q \in Processes, NEW t \in pub'[q].over PROVE sub'[t].closed
    OBVIOUS
  <2>1. pub[q].over \subseteq Sessions
    BY DEF BusTyped, PublisherRec
  <2>2. t \in pub[q].over \/ (t = s /\ Overflows(sub[s], pub[p].evt))
    <3>1. pub'[q].over = IF q = p /\ Overflows(sub[s], pub[p].evt) THEN pub[q].over \cup {s} ELSE pub[q].over
      BY SendsFacts
    <3> QED BY <3>1
  <2> QED BY <1>2, <1>3, <2>1, <2>2 DEF PublishersPlaced, StaysClosed
<1>6. \A q, r \in Processes :
        pub'[q].at = "sending" /\ pub'[r].at = "sending" /\ pub'[q].evt.id = pub'[r].evt.id => q = r
  <2>1. \A q \in Processes : pub'[q].at = pub[q].at /\ pub'[q].evt = pub[q].evt
    BY SendsFacts
  <2> QED BY <2>1 DEF PublishersPlaced
<1> QED BY <1>1, <1>3, <1>4, <1>5, <1>6 DEF PublishersPlaced

LEMMA HasSentPlaced ==
  ASSUME BusTyped, PublishersPlaced, NEW p \in Processes, HasSent(p)
  PROVE  PublishersPlaced'
<1>1. Becomes(p, Continue(p)) /\ sub' = sub /\ pub[p].at = "sending"
  BY DEF HasSent, Becomes
<1>2. pub'[p] = Continue(p) /\ \A q \in Processes : q # p => pub'[q] = pub[q]
  BY <1>1 DEF Becomes, BusTyped
<1>3. Placed(Continue(p), p) /\ Continue(p).at # "sending" /\ Continue(p).over = {}
  BY <1>1, ContinuePlaced
<1> QED BY <1>1, <1>2, <1>3 DEF PublishersPlaced

LEMMA BusClosesPlaced ==
  ASSUME BusTyped, PublishersPlaced, BusCloses
  PROVE  PublishersPlaced' /\ StaysClosed
<1>1. pub' = pub
  BY DEF BusCloses
<1>2. StaysClosed
  BY DEF BusCloses, StaysClosed, BusTyped, SubscriberRec
<1> QED BY <1>1, <1>2, PlacedFrame

-----------------------------------------------------------------------------
(* Subscribers, their goroutines and their handlers.                       *)

\* A session on which something happens was opened.
LEMMA HandlerOpened ==
  ASSUME BusTyped, FreshSessions, NEW s \in Sessions,
         \/ sub[s].run # "none" \/ handler[s].at # "none" \/ s \in subscribers
         \/ \E p \in Processes : s \in pub[p].left \cup pub[p].over
  PROVE  ~(used[s[1]] < s[2])
BY DEF FreshSessions, Unused, NoHandler

\* Only what happens to sessions that were opened, and only publishing to subscribers.
LEMMA FreshFrame ==
  ASSUME BusTyped, FreshSessions, used' = used,
         \A t \in Sessions : used[t[1]] < t[2] => sub'[t] = sub[t] /\ handler'[t] = handler[t],
         subscribers' \subseteq subscribers,
         \A p \in Processes : pub'[p].left \cup pub'[p].over \subseteq pub[p].left \cup pub[p].over \cup subscribers
  PROVE  FreshSessions'
BY DEF FreshSessions

\* What a goroutine makes of its subscriber.
LEMMA RunnerFacts ==
  ASSUME BusTyped, NEW s \in Sessions, RunnerStep(s)
  PROVE  /\ UNCHANGED <<version, busVars, pub, handler, clientVars, historyVars>>
         /\ \A t \in Sessions : t # s => sub'[t] = sub[t]
         /\ sub[s].run # "none" /\ sub[s] \in SubscriberRec /\ sub'[s] \in SubscriberRec
         /\ sub'[s].closed = sub[s].closed
<1>1. sub[s] \in SubscriberRec /\ sub \in [Sessions -> SubscriberRec]
  BY DEF BusTyped
<1>2. \E u : RunnerVars(s, u) /\ u.closed = sub[s].closed
  <2>1. CASE RunnerWakes(s)
    <3>1. [sub[s] EXCEPT !.wake = FALSE, !.run = "next"].closed = sub[s].closed
      BY <1>1 DEF SubscriberRec
    <3> QED BY <2>1, <3>1 DEF RunnerWakes
  <2>2. CASE RunnerEnds(s)
    <3>1. [Unused EXCEPT !.run = "ended", !.closed = TRUE].closed = TRUE
      BY DEF Unused
    <3>2. sub[s].closed = TRUE
      BY <1>1, <2>2 DEF RunnerEnds, SubscriberRec
    <3> QED BY <2>2, <3>1, <3>2 DEF RunnerEnds
  <2>3. CASE RunnerTakes(s)
    <3> DEFINE u == sub[s]  k == FirstOf(Pending(u))
               u1 == [u EXCEPT !.run = "offer", !.hand = Head(u.queue), !.queue = Tail(u.queue)]
               u2 == [u EXCEPT !.run = "offer", !.hand = u.latest[k], !.latest[k] = NoEvent]
               u3 == [u EXCEPT !.run = "wait"]
    <3>1. RunnerVars(s, u1) \/ RunnerVars(s, u2) \/ RunnerVars(s, u3)
      BY <2>3 DEF RunnerTakes
    <3>2. u1.closed = u.closed /\ u2.closed = u.closed /\ u3.closed = u.closed
      BY <1>1 DEF SubscriberRec
    <3> HIDE DEF u1, u2, u3, u
    <3> QED BY <3>1, <3>2 DEF u
  <2> QED BY <2>1, <2>2, <2>3 DEF RunnerStep
<1>3. PICK u : RunnerVars(s, u) /\ u.closed = sub[s].closed
  BY <1>2
<1>4. sub' = [sub EXCEPT ![s] = u]
  BY <1>3 DEF RunnerVars
<1>5. sub[s].run # "none"
  BY DEF RunnerStep, RunnerWakes, RunnerTakes, RunnerEnds
<1>6. sub'[s] \in SubscriberRec
  BY RunnerTyped DEF BusTyped
<1> QED BY <1>1, <1>3, <1>4, <1>5, <1>6 DEF RunnerVars

\* The other components of a handler's step: it may close its own subscriber.
LEMMA HandlerFacts ==
  ASSUME BusTyped, NEW s \in Sessions, HandlerNext(s)
  PROVE  /\ UNCHANGED <<version, nextEventID, replayHistory, busClosed, pub, linked, used, notes, base>>
         /\ \A t \in Sessions : t # s => sub'[t] = sub[t] /\ handler'[t] = handler[t]
         /\ handler[s].at # "none" /\ subscribers' \subseteq subscribers
         /\ sub[s].closed => sub'[s].closed
<1>1. UNCHANGED <<version, nextEventID, replayHistory, busClosed, pub, linked, used, notes, base>>
  BY DEF HandlerNext, HandlerGreets, HandlerReplays, HandlerReceives, HandlerSeesEnd, HandlerSeesDrop,
         HandlerUnsubscribes, HandlerCloses, HandlerStep, Writes, busVars, clientVars, historyVars
<1>2. \E h : handler' = [handler EXCEPT ![s] = h]
  BY DEF HandlerNext, HandlerGreets, HandlerReplays, HandlerReceives, HandlerSeesEnd, HandlerSeesDrop,
         HandlerUnsubscribes, HandlerCloses, HandlerStep
<1>3. \E u : sub' = [sub EXCEPT ![s] = u] /\ (sub[s].closed => u.closed)
  <2>1. sub[s] \in SubscriberRec /\ sub \in [Sessions -> SubscriberRec]
    BY DEF BusTyped
  <2>2. \/ sub' = sub
        \/ sub' = [sub EXCEPT ![s] = [sub[s] EXCEPT !.run = "next", !.hand = NoEvent]]
        \/ sub' = [sub EXCEPT ![s] = [sub[s] EXCEPT !.closed = TRUE]]
    BY DEF HandlerNext, HandlerGreets, HandlerReplays, HandlerReceives, HandlerSeesEnd, HandlerSeesDrop,
           HandlerUnsubscribes, HandlerCloses, HandlerStep
  <2>3. [sub[s] EXCEPT !.run = "next", !.hand = NoEvent].closed = sub[s].closed
        /\ [sub[s] EXCEPT !.closed = TRUE].closed = TRUE /\ [sub EXCEPT ![s] = sub[s]] = sub
    BY <2>1 DEF SubscriberRec
  <2> QED BY <2>2, <2>3
<1>4. handler[s].at # "none"
  BY DEF HandlerNext, HandlerGreets, HandlerReplays, HandlerReceives, HandlerSeesEnd, HandlerSeesDrop,
         HandlerUnsubscribes, HandlerCloses, Streams
<1>5. subscribers' \subseteq subscribers
  BY DEF HandlerNext, HandlerGreets, HandlerReplays, HandlerReceives, HandlerSeesEnd, HandlerSeesDrop,
         HandlerUnsubscribes, HandlerCloses, Writes, busVars
<1>6. sub \in [Sessions -> SubscriberRec] /\ handler \in [Sessions -> HandlerRec]
  BY DEF BusTyped
<1> QED BY <1>1, <1>2, <1>3, <1>4, <1>5, <1>6

\* The invariant of a goroutine does not depend on whether its subscriber is closed.
LEMMA ClosedPlaced ==
  ASSUME NEW u \in SubscriberRec, NEW b \in BOOLEAN, RunnerPlaced(u)
  PROVE  RunnerPlaced([u EXCEPT !.closed = b])
BY DEF RunnerPlaced, SubscriberRec, Pending

LEMMA SentPlaced ==
  ASSUME NEW u \in SubscriberRec, NEW e \in Event, RunnerPlaced(u)
  PROVE  RunnerPlaced(Sent(u, e))
<1>1. CASE u.closed
  BY <1>1 DEF Sent
<1>2. CASE ~u.closed /\ Overflows(u, e)
  BY <1>2, ClosedPlaced DEF Sent
<1>3. CASE ~u.closed /\ ~Overflows(u, e) /\ e.kind \in Kinds
  <2> DEFINE l == [u.latest EXCEPT ![e.kind] = e]
             v == [u EXCEPT !.latest = l, !.wake = TRUE]
  <2>1. Sent(u, e) = v
    BY <1>3 DEF Sent, SubscriberRec
  <2>2. v.run = u.run /\ v.hand = u.hand /\ v.queue = u.queue /\ v.latest = l /\ v.wake = TRUE
    BY DEF SubscriberRec
  <2>3. \A k \in Kinds : l[k] # NoEvent => l[k].kind = k
    BY DEF RunnerPlaced, SubscriberRec
  <2> HIDE DEF l, v
  <2>4. RunnerPlaced(v)
    BY <2>2, <2>3 DEF RunnerPlaced
  <2> QED BY <2>1, <2>4
<1>4. CASE ~u.closed /\ ~Overflows(u, e) /\ e.kind \notin Kinds
  <2> DEFINE q == Append(u.queue, e)
             v == [u EXCEPT !.queue = q, !.wake = TRUE]
  <2>1. Sent(u, e) = v
    BY <1>4 DEF Sent
  <2>2. v.run = u.run /\ v.hand = u.hand /\ v.queue = q /\ v.latest = u.latest /\ v.wake = TRUE
    BY DEF SubscriberRec
  <2>3. u.queue \in Seq(Event) /\ e.kind \in Replayable
    BY <1>4 DEF SubscriberRec, Event
  <2>4. \A i \in DOMAIN q : q[i].kind \in Replayable
    BY <2>3 DEF RunnerPlaced
  <2> HIDE DEF q, v
  <2>5. RunnerPlaced(v)
    BY <2>2, <2>4 DEF RunnerPlaced
  <2> QED BY <2>1, <2>5
<1> QED BY <1>1, <1>2, <1>3, <1>4

\* What the goroutine takes next.
LEMMA TakesFacts ==
  ASSUME BusTyped, NEW s \in Sessions, RunnerTakes(s)
  PROVE  LET u == sub[s]
             v == sub'[s]
             k == FirstOf(Pending(u))
         IN  /\ u.run = "next" /\ v.closed = u.closed /\ v.wake = u.wake
             /\ \/ /\ u.queue # <<>> /\ v.run = "offer" /\ v.hand = Head(u.queue)
                   /\ v.queue = Tail(u.queue) /\ v.latest = u.latest
                \/ /\ u.queue = <<>> /\ k \in Pending(u) /\ v.run = "offer" /\ v.hand = u.latest[k]
                   /\ v.queue = u.queue /\ v.latest = [u.latest EXCEPT ![k] = NoEvent]
                \/ /\ u.queue = <<>> /\ Pending(u) = {} /\ v.run = "wait" /\ v.hand = u.hand
                   /\ v.queue = u.queue /\ v.latest = u.latest
<1> DEFINE u == sub[s]
           k == FirstOf(Pending(u))
           u1 == [u EXCEPT !.run = "offer", !.hand = Head(u.queue), !.queue = Tail(u.queue)]
           u2 == [u EXCEPT !.run = "offer", !.hand = u.latest[k], !.latest[k] = NoEvent]
           u3 == [u EXCEPT !.run = "wait"]
<1>1. u \in SubscriberRec /\ sub \in [Sessions -> SubscriberRec] /\ u.run = "next"
  BY DEF BusTyped, RunnerTakes
<1>2. CASE u.queue # <<>>
  <2>1. sub' = [sub EXCEPT ![s] = u1]
    BY <1>2 DEF RunnerTakes, RunnerVars
  <2>2. sub'[s] = u1
    BY <1>1, <2>1
  <2> QED BY <1>1, <1>2, <2>2 DEF SubscriberRec
<1>3. CASE u.queue = <<>> /\ Pending(u) # {}
  <2>1. sub' = [sub EXCEPT ![s] = u2]
    BY <1>3 DEF RunnerTakes, RunnerVars
  <2>2. sub'[s] = u2
    BY <1>1, <2>1
  <2>3. k \in Pending(u)
    BY <1>3, BusFacts DEF Pending
  <2> QED BY <1>1, <1>3, <2>2, <2>3 DEF SubscriberRec
<1>4. CASE u.queue = <<>> /\ Pending(u) = {}
  <2>1. sub' = [sub EXCEPT ![s] = u3]
    BY <1>4 DEF RunnerTakes, RunnerVars
  <2>2. sub'[s] = u3
    BY <1>1, <2>1
  <2> QED BY <1>1, <1>4, <2>2 DEF SubscriberRec
<1> QED BY <1>2, <1>3, <1>4

LEMMA EndsFacts ==
  ASSUME BusTyped, NEW s \in Sessions, RunnerEnds(s)
  PROVE  sub[s].closed /\ sub'[s] = [Unused EXCEPT !.run = "ended", !.closed = TRUE]
BY DEF RunnerEnds, RunnerVars, BusTyped

LEMMA WakesFacts ==
  ASSUME BusTyped, NEW s \in Sessions, RunnerWakes(s)
  PROVE  sub[s].run = "wait" /\ sub[s].wake /\ sub'[s] = [sub[s] EXCEPT !.wake = FALSE, !.run = "next"]
BY DEF RunnerWakes, RunnerVars, BusTyped

\* A new goroutine waits, with nothing to offer.
LEMMA UnusedPlaced ==
  ASSUME NEW b \in BOOLEAN, NEW r \in {"wait", "ended"}
  PROVE  RunnerPlaced([Unused EXCEPT !.run = r, !.closed = b])
BY DEF Unused, RunnerPlaced, Pending

LEMMA RunnerStepPlaced ==
  ASSUME BusTyped, RunnersPlaced, NEW s \in Sessions, RunnerStep(s)
  PROVE  RunnersPlaced'
<1>1. RunnerPlaced(sub[s]) /\ sub[s] \in SubscriberRec /\ \A t \in Sessions : t # s => sub'[t] = sub[t]
  BY RunnerFacts DEF RunnersPlaced
<1>2. CASE RunnerWakes(s)
  <2> DEFINE v == [sub[s] EXCEPT !.wake = FALSE, !.run = "next"]
  <2>1. v.run = "next" /\ v.hand = sub[s].hand /\ v.queue = sub[s].queue /\ v.latest = sub[s].latest
    BY <1>1 DEF SubscriberRec
  <2>2. sub'[s] = v /\ sub[s].run = "wait"
    BY <1>2, WakesFacts
  <2> HIDE DEF v
  <2>3. RunnerPlaced(sub'[s])
    BY <1>1, <2>1, <2>2 DEF RunnerPlaced
  <2> QED BY <1>1, <2>3 DEF RunnersPlaced
<1>3. CASE RunnerEnds(s)
  <2>1. RunnerPlaced(sub'[s])
    BY <1>3, EndsFacts, UnusedPlaced
  <2> QED BY <1>1, <2>1 DEF RunnersPlaced
<1>4. CASE RunnerTakes(s)
  <2> DEFINE u == sub[s]  v == sub'[s]  k == FirstOf(Pending(u))
  <2>1. u.queue \in Seq(Event) /\ u.latest \in [Kinds -> Event \cup {NoEvent}] /\ u.run = "next"
    BY <1>1, <1>4 DEF SubscriberRec, RunnerTakes
  <2>2. CASE u.queue # <<>> /\ v.run = "offer" /\ v.hand = Head(u.queue) /\ v.queue = Tail(u.queue) /\ v.latest = u.latest
    <3>1. Head(u.queue) \in Event /\ \A i \in DOMAIN Tail(u.queue) : Tail(u.queue)[i] = u.queue[i + 1] /\ i + 1 \in DOMAIN u.queue
      BY <2>1, <2>2
    <3> HIDE DEF u, v
    <3>2. RunnerPlaced(v)
      BY <1>1, <2>2, <3>1, BusFacts DEF RunnerPlaced, u
    <3> QED BY <1>1, <3>2 DEF RunnersPlaced, v
  <2>3. CASE k \in Pending(u) /\ v.run = "offer" /\ v.hand = u.latest[k] /\ v.queue = u.queue
             /\ v.latest = [u.latest EXCEPT ![k] = NoEvent]
    <3>1. v.hand # NoEvent /\ \A j \in Kinds : v.latest[j] # NoEvent => v.latest[j] = u.latest[j]
      BY <2>1, <2>3 DEF Pending
    <3> HIDE DEF u, v, k
    <3>2. RunnerPlaced(v)
      BY <1>1, <2>3, <3>1 DEF RunnerPlaced, u
    <3> QED BY <1>1, <3>2 DEF RunnersPlaced, v
  <2>4. CASE u.queue = <<>> /\ Pending(u) = {} /\ v.run = "wait" /\ v.hand = u.hand
             /\ v.queue = u.queue /\ v.latest = u.latest
    <3> HIDE DEF u, v, k
    <3>1. RunnerPlaced(v)
      BY <1>1, <2>1, <2>4 DEF RunnerPlaced, Pending, u
    <3> QED BY <1>1, <3>1 DEF RunnersPlaced, v
  <2> QED BY <1>4, <2>2, <2>3, <2>4, TakesFacts
<1> QED BY <1>2, <1>3, <1>4 DEF RunnerStep

LEMMA SendsRunners ==
  ASSUME BusTyped, PublishersPlaced, RunnersPlaced, NEW p \in Processes, NEW s \in Sessions, Sends(p, s)
  PROVE  RunnersPlaced'
<1>1. sub'[s] = Sent(sub[s], pub[p].evt) /\ \A t \in Sessions : t # s => sub'[t] = sub[t]
  BY SendsFacts DEF BusTyped
<1>2. pub[p].evt \in Event /\ sub[s] \in SubscriberRec /\ RunnerPlaced(sub[s])
  BY SendsFacts DEF RunnersPlaced
<1>3. RunnerPlaced(sub'[s])
  BY <1>1, <1>2, SentPlaced
<1> QED BY <1>1, <1>3 DEF RunnersPlaced

LEMMA BusClosesRunners ==
  ASSUME BusTyped, RunnersPlaced, BusCloses
  PROVE  RunnersPlaced'
<1> SUFFICES ASSUME NEW s \in Sessions PROVE RunnerPlaced(sub'[s])
  BY DEF RunnersPlaced
<1>1. sub'[s] = sub[s] \/ sub'[s] = [sub[s] EXCEPT !.closed = TRUE]
  BY DEF BusCloses
<1> QED BY <1>1, ClosedPlaced DEF RunnersPlaced, BusTyped

LEMMA HandlerRunners ==
  ASSUME BusTyped, RunnersPlaced, NEW s \in Sessions, HandlerNext(s)
  PROVE  RunnersPlaced'
<1>1. \A t \in Sessions : t # s => sub'[t] = sub[t]
  BY HandlerFacts
<1>2. sub[s] \in SubscriberRec /\ RunnerPlaced(sub[s]) /\ sub \in [Sessions -> SubscriberRec]
  BY DEF BusTyped, RunnersPlaced
<1>3. \/ sub'[s] = sub[s]
      \/ sub'[s] = [sub[s] EXCEPT !.run = "next", !.hand = NoEvent]
      \/ sub'[s] = [sub[s] EXCEPT !.closed = TRUE]
  BY <1>2 DEF HandlerNext, HandlerGreets, HandlerReplays, HandlerReceives, HandlerSeesEnd, HandlerSeesDrop,
         HandlerUnsubscribes, HandlerCloses, HandlerStep
<1>4. RunnerPlaced([sub[s] EXCEPT !.run = "next", !.hand = NoEvent])
  BY <1>2 DEF RunnerPlaced, Pending, SubscriberRec
<1>5. RunnerPlaced(sub'[s])
  BY <1>2, <1>3, <1>4, ClosedPlaced
<1> QED BY <1>1, <1>5 DEF RunnersPlaced

LEMMA ConnectsRunners ==
  ASSUME BusTyped, EventsPublished, FreshSessions, RunnersPlaced, NEW c \in Clients, Connects(c)
  PROVE  RunnersPlaced'
<1> DEFINE s == NewSession(c)
<1>1. s \in Sessions /\ sub[s] = Unused
  BY ConnectsTyped
<1>2. sub'[s] = [Unused EXCEPT !.run = "wait", !.closed = busClosed] /\ \A t \in Sessions : t # s => sub'[t] = sub[t]
  BY <1>1, ConnectsSession DEF BusTyped
<1>3. RunnerPlaced(sub'[s])
  BY <1>2, UnusedPlaced DEF BusTyped
<1> QED BY <1>2, <1>3 DEF RunnersPlaced

-----------------------------------------------------------------------------
(* Steps that no session notices.                                          *)

StandsStill ==
  /\ UNCHANGED <<sub, handler, busVars, notes, used, lastEventID>>
  /\ \A q \in Processes :
       /\ pub'[q].left = pub[q].left /\ pub'[q].over = pub[q].over
       /\ pub'[q].evt \in {NoEvent, pub[q].evt}
       /\ pub[q].left # {} \/ q = Server => pub'[q].evt = pub[q].evt
  /\ Announced => Announced'

LEMMA PreparesStill ==
  ASSUME BusTyped, PublishersPlaced, NEW p \in Processes, Prepares(p)
  PROVE  StandsStill
<1>1. PICK r \in PublisherRec :
        Becomes(p, r) /\ r.evt = pub[p].evt /\ r.left = {} /\ r.over = {}
  BY DEF Prepares
<1>2. pub'[p] = r /\ \A q \in Processes : q # p => pub'[q] = pub[q]
  BY <1>1 DEF Becomes, BusTyped
<1>3. pub[p].left = {} /\ pub[p].over = {} /\ pub[p].at # "announced"
  BY DEF Prepares, PublishersPlaced, Placed
<1>4. Announced => Announced'
  <2>1. Announced => p # Server
    BY <1>3 DEF Announced
  <2> QED BY <1>2, <2>1, BusFacts DEF Announced
<1>5. UNCHANGED <<sub, handler, busVars, notes, used, lastEventID>>
  BY DEF Prepares, clientVars, historyVars
<1> QED BY <1>1, <1>2, <1>3, <1>4, <1>5 DEF StandsStill

LEMMA PublishClosedStill ==
  ASSUME BusTyped, PublishersPlaced, NEW p \in Processes, Publish(p), busClosed
  PROVE  StandsStill
<1>1. Becomes(p, Continue(p)) /\ pub[p].at = "publish"
  BY DEF Publish, Becomes
<1>2. pub'[p] = Continue(p) /\ \A q \in Processes : q # p => pub'[q] = pub[q]
  BY <1>1 DEF Becomes, BusTyped
<1>3. pub[p].left = {} /\ pub[p].over = {}
  BY <1>1 DEF PublishersPlaced, Placed
<1>4. /\ Continue(p).left = {} /\ Continue(p).over = {}
      /\ Continue(p).evt \in {NoEvent, pub[p].evt} /\ (p = Server => Continue(p).evt = pub[p].evt)
  BY <1>1, ContinuePlaced
<1>5. Announced => Announced'
  <2>1. Announced => p # Server
    BY <1>1 DEF Announced
  <2> QED BY <1>2, <2>1, BusFacts DEF Announced
<1>6. UNCHANGED <<sub, handler, busVars, notes, used, lastEventID>>
  BY DEF Publish, clientVars
<1> QED BY <1>2, <1>3, <1>4, <1>5, <1>6 DEF StandsStill

LEMMA DropsStill ==
  ASSUME NEW c \in Clients, Drops(c)
  PROVE  StandsStill
BY DEF StandsStill, Drops, busVars, historyVars, Announced

LEMMA StillSent ==
  ASSUME StandsStill, NEW s \in Sessions
  PROVE  BeingSent(s)' = BeingSent(s)
BY DEF StandsStill, BeingSent

LEMMA StillKeeps ==
  ASSUME BusTyped, StandsStill,
         FreshSessions, RunnersPlaced, Registered, EventsPublished, NotesDelivered, FarewellEnds
  PROVE  FreshSessions' /\ RunnersPlaced' /\ Registered' /\ EventsPublished' /\ NotesDelivered' /\ FarewellEnds'
<1>1. /\ UNCHANGED <<sub, handler, nextEventID, replayHistory, subscribers, busClosed, notes, used, lastEventID>>
      /\ \A q \in Processes : pub'[q].left = pub[q].left /\ pub'[q].over = pub[q].over
      /\ \A q \in Processes : pub'[q].evt # NoEvent => pub'[q].evt = pub[q].evt
      /\ pub'[Server].evt = pub[Server].evt
      /\ Announced => Announced'
  BY BusFacts DEF StandsStill, busVars
<1>2. FreshSessions'
  BY <1>1 DEF FreshSessions
<1>3. RunnersPlaced'
  BY <1>1 DEF RunnersPlaced
<1>4. Registered'
  BY <1>1 DEF Registered, SubscribersMatchStreams
<1>5. \A e : Published(e)' <=> Published(e)
  BY <1>1 DEF Published
<1>6. EventsPublished'
  <2>1. \A s \in Sessions : Events(s)' = Events(s) /\ (ReplayPlaced(handler[s])' <=> ReplayPlaced(handler[s]))
    BY <1>1 DEF Events, ReplayPlaced, ElementsOf
  <2> QED BY <1>1, <1>5, <2>1 DEF EventsPublished
<1>7. NotesDelivered'
  <2> SUFFICES ASSUME NEW s \in Sessions, handler[s].at = "open", ~sub[s].closed PROVE EachInOneOf(s)'
    BY <1>1 DEF NotesDelivered
  <2>1. EachInOneOf(s)
    BY DEF NotesDelivered
  <2>2. BeingSent(s)' = BeingSent(s)
    BY StillSent
  <2>3. /\ Promised(s)' = Promised(s) /\ InReplay(s)' = InReplay(s) /\ InQueue(s)' = InQueue(s)
        /\ InHand(s)' = InHand(s) /\ handler'[s].heard = handler[s].heard /\ sub'[s].queue = sub[s].queue
    BY <1>1 DEF Promised, InReplay, InQueue, InHand
  <2> QED BY <2>1, <2>2, <2>3 DEF EachInOneOf, SomewhereOnce, OneEach
<1>8. FarewellEnds'
  BY <1>1 DEF FarewellEnds
<1> QED BY <1>2, <1>3, <1>4, <1>6, <1>7, <1>8

-----------------------------------------------------------------------------
(* Who is registered.                                                      *)

\* A handler's stage changes only from open to leaving, and nobody is opened.
LEMMA RegisteredFrame ==
  ASSUME Registered, subscribers' = subscribers, busClosed' = busClosed, Announced => Announced',
         \A p \in Processes : pub[p].over \subseteq pub'[p].over,
         \A s \in Sessions : sub'[s].closed = sub[s].closed,
         \A s \in Sessions : handler'[s].at = handler[s].at \/ (handler[s].at = "open" /\ handler'[s].at = "leaving")
  PROVE  Registered'
BY DEF Registered, SubscribersMatchStreams

LEMMA PublishRegistered ==
  ASSUME BusTyped, PublishersPlaced, Registered, FreshSessions, NEW p \in Processes, Publish(p), ~busClosed
  PROVE  Registered' /\ FreshSessions'
<1> DEFINE r == [pub[p] EXCEPT !.at = "sending", !.evt = NewEvent(p), !.left = subscribers, !.over = {}]
<1>1. pub' = [pub EXCEPT ![p] = r] /\ UNCHANGED <<sub, handler, subscribers, busClosed, used>>
  BY PublishOpen DEF clientVars
<1>2. pub[p] \in PublisherRec /\ pub[p].at = "publish" /\ pub[p].over = {} /\ pub \in [Processes -> PublisherRec]
  BY DEF BusTyped, PublishersPlaced, Placed, Publish
<1>3. r.left = subscribers /\ r.over = {}
  BY <1>2 DEF PublisherRec
<1> HIDE DEF r
<1>4. pub'[p] = r /\ \A q \in Processes : q # p => pub'[q] = pub[q]
  BY <1>1, <1>2
<1>5. Announced => Announced'
  <2>1. Announced => p # Server
    BY <1>2 DEF Announced
  <2> QED BY <1>4, <2>1, BusFacts DEF Announced
<1>6. Registered'
  <2>1. \A q \in Processes : pub[q].over \subseteq pub'[q].over
    BY <1>2, <1>3, <1>4
  <2> QED BY <1>1, <1>5, <2>1, RegisteredFrame
<1>7. FreshSessions'
  <2>1. \A q \in Processes : pub'[q].left \cup pub'[q].over \subseteq pub[q].left \cup pub[q].over \cup subscribers
    BY <1>3, <1>4
  <2> QED BY <1>1, <2>1, FreshFrame
<1> QED BY <1>6, <1>7

LEMMA SendsRegistered ==
  ASSUME BusTyped, PublishersPlaced, Registered, FreshSessions, NEW p \in Processes, NEW s \in Sessions, Sends(p, s)
  PROVE  Registered' /\ FreshSessions'
<1>1. /\ sub'[s] = Sent(sub[s], pub[p].evt) /\ \A t \in Sessions : t # s => sub'[t] = sub[t]
      /\ UNCHANGED <<handler, subscribers, busClosed, used>>
  BY SendsFacts, SendsPlaced DEF BusTyped, busVars, clientVars
<1>2. s \in pub[p].left /\ sub[s] \in SubscriberRec /\ pub[p].evt \in Event
  BY SendsFacts
<1>3. \A q \in Processes :
        /\ pub[q].over \subseteq pub'[q].over
        /\ pub'[q].left \cup pub'[q].over \subseteq pub[q].left \cup pub[q].over
  <2> SUFFICES ASSUME NEW q \in Processes
               PROVE  /\ pub[q].over \subseteq pub'[q].over
                      /\ pub'[q].left \cup pub'[q].over \subseteq pub[q].left \cup pub[q].over
    OBVIOUS
  <2>1. /\ pub'[q].left = IF q = p THEN pub[q].left \ {s} ELSE pub[q].left
        /\ pub'[q].over = IF q = p /\ Overflows(sub[s], pub[p].evt) THEN pub[q].over \cup {s} ELSE pub[q].over
    BY SendsFacts
  <2> QED BY <1>2, <2>1
<1>4. sub'[s].closed /\ ~sub[s].closed => s \in pub'[p].over
  <2>1. sub'[s].closed <=> sub[s].closed \/ Overflows(sub[s], pub[p].evt)
    BY <1>1, <1>2, SentCloses
  <2>2. pub'[p].over = IF Overflows(sub[s], pub[p].evt) THEN pub[p].over \cup {s} ELSE pub[p].over
    BY SendsFacts
  <2> QED BY <2>1, <2>2
<1>5. StaysClosed
  BY SendsPlaced
<1>6. Announced => Announced'
  BY SendsFacts, BusFacts DEF Announced
<1>7. Registered'
  <2>1. SubscribersMatchStreams'
    BY <1>1, <1>3, <1>4, <1>5 DEF Registered, SubscribersMatchStreams, StaysClosed
  <2> QED BY <1>1, <1>6, <2>1 DEF Registered
<1>8. FreshSessions'
  <2>1. \A t \in Sessions : used[t[1]] < t[2] => t # s
    BY <1>2 DEF FreshSessions
  <2>2. \A q \in Processes : pub'[q].left \cup pub'[q].over \subseteq pub[q].left \cup pub[q].over \cup subscribers
    BY <1>3
  <2> QED BY <1>1, <2>1, <2>2, FreshFrame
<1> QED BY <1>7, <1>8

LEMMA HasSentRegistered ==
  ASSUME BusTyped, PublishersPlaced, Registered, FreshSessions, NEW p \in Processes, HasSent(p)
  PROVE  Registered' /\ FreshSessions'
<1>1. Becomes(p, Continue(p)) /\ pub[p].at = "sending" /\ subscribers' = subscribers \ pub[p].over
      /\ UNCHANGED <<sub, handler, busClosed, used>>
  BY DEF HasSent, Becomes, clientVars
<1>2. pub'[p] = Continue(p) /\ \A q \in Processes : q # p => pub'[q] = pub[q]
  BY <1>1 DEF Becomes, BusTyped
<1>3. Continue(p).left = {} /\ Continue(p).over = {}
  BY <1>1, ContinuePlaced
<1>4. Announced => Announced'
  <2>1. Announced => p # Server
    BY <1>1 DEF Announced
  <2> QED BY <1>2, <2>1, BusFacts DEF Announced
<1>5. \A s \in Sessions : s \in pub[p].over => sub[s].closed
  BY DEF PublishersPlaced
<1>6. \A s \in Sessions : (\E q \in Processes : s \in pub[q].over) /\ s \notin pub[p].over
                            => \E q \in Processes : s \in pub'[q].over
  BY <1>2
<1>7. SubscribersMatchStreams'
  BY <1>1, <1>5, <1>6 DEF Registered, SubscribersMatchStreams
<1>8. FreshSessions'
  <2>1. \A q \in Processes : pub'[q].left \cup pub'[q].over \subseteq pub[q].left \cup pub[q].over \cup subscribers
    BY <1>2, <1>3
  <2> QED BY <1>1, <2>1, FreshFrame
<1> QED BY <1>1, <1>4, <1>7, <1>8 DEF Registered

LEMMA BusClosesRegistered ==
  ASSUME BusTyped, Registered, FreshSessions, BusCloses
  PROVE  Registered' /\ FreshSessions'
<1>1. /\ Announced /\ busClosed' = TRUE /\ subscribers' = {} /\ UNCHANGED <<pub, handler, used>>
      /\ \A s \in Sessions : sub'[s] = IF s \in subscribers THEN [sub[s] EXCEPT !.closed = TRUE] ELSE sub[s]
  BY DEF BusCloses, clientVars
<1>2. \A s \in Sessions : sub'[s].closed = (s \in subscribers \/ sub[s].closed)
  <2> SUFFICES ASSUME NEW s \in Sessions PROVE sub'[s].closed = (s \in subscribers \/ sub[s].closed)
    OBVIOUS
  <2>1. sub[s] \in SubscriberRec
    BY DEF BusTyped
  <2>2. [sub[s] EXCEPT !.closed = TRUE].closed = TRUE /\ sub[s].closed \in BOOLEAN
    BY <2>1 DEF SubscriberRec
  <2> QED BY <1>1, <2>2
<1>3. Registered'
  BY <1>1, <1>2 DEF Registered, SubscribersMatchStreams, Announced
<1>4. FreshSessions'
  BY <1>1 DEF FreshSessions
<1> QED BY <1>3, <1>4

LEMMA RunnerRegistered ==
  ASSUME BusTyped, Registered, FreshSessions, NEW s \in Sessions, RunnerStep(s)
  PROVE  Registered' /\ FreshSessions'
<1>1. /\ UNCHANGED <<subscribers, busClosed, pub, handler, used>>
      /\ \A t \in Sessions : t # s => sub'[t] = sub[t]
      /\ sub'[s].closed = sub[s].closed /\ ~(used[s[1]] < s[2])
  BY RunnerFacts, HandlerOpened DEF busVars, clientVars
<1>2. Registered'
  BY <1>1, RegisteredFrame DEF Announced
<1>3. FreshSessions'
  BY <1>1, FreshFrame
<1> QED BY <1>2, <1>3

LEMMA HandlerRegistered ==
  ASSUME BusTyped, Registered, FreshSessions, RunnersPlaced, NEW s \in Sessions, HandlerNext(s)
  PROVE  Registered' /\ FreshSessions'
<1>1. /\ UNCHANGED <<busClosed, pub, used>>
      /\ \A t \in Sessions : t # s => sub'[t] = sub[t] /\ handler'[t] = handler[t]
      /\ subscribers' \subseteq subscribers /\ ~(used[s[1]] < s[2])
      /\ sub[s].closed => sub'[s].closed
      /\ Announced' = Announced
  BY HandlerFacts, HandlerOpened DEF Announced
<1>2. FreshSessions'
  BY <1>1, FreshFrame
<1>3. sub[s] \in SubscriberRec /\ handler[s] \in HandlerRec /\ sub \in [Sessions -> SubscriberRec]
      /\ handler \in [Sessions -> HandlerRec] /\ NoHandler \in HandlerRec
  BY BusFacts DEF BusTyped
<1>4. \A a : [NoHandler EXCEPT !.at = a].at = a
  BY DEF NoHandler
<1>5. CASE HandlerGreets(s) \/ HandlerReplays(s) \/ HandlerReceives(s) \/ HandlerSeesEnd(s) \/ HandlerSeesDrop(s)
  <2>1. subscribers' = subscribers
    BY <1>5 DEF HandlerGreets, HandlerReplays, HandlerReceives, HandlerSeesEnd, HandlerSeesDrop, Writes, busVars
  <2>2. sub'[s].closed = sub[s].closed
    BY <1>3, <1>5 DEF HandlerGreets, HandlerReplays, HandlerReceives, HandlerSeesEnd, HandlerSeesDrop, SubscriberRec
  <2>3. handler[s].at = "open" /\ handler'[s].at \in {"open", "leaving"}
    <3>1. CASE HandlerGreets(s)
      BY <1>3, <3>1 DEF HandlerGreets, HandlerRec
    <3>2. CASE HandlerReplays(s)
      <4> DEFINE h == Taken(handler[s], Head(handler[s].replay))
      <4>1. handler'[s] = [h EXCEPT !.replay = Tail(handler[s].replay)] /\ handler[s].at = "open"
        BY <1>3, <3>2 DEF HandlerReplays
      <4>2. h.at = handler[s].at /\ [h EXCEPT !.replay = Tail(handler[s].replay)].at = h.at
        BY <1>3 DEF Taken, HandlerRec
      <4> QED BY <4>1, <4>2
    <3>3. CASE HandlerReceives(s)
      <4>1. handler'[s] \in {[NoHandler EXCEPT !.at = "leaving"], Taken(handler[s], sub[s].hand)} /\ handler[s].at = "open"
        BY <1>3, <3>3 DEF HandlerReceives, Streams
      <4>2. Taken(handler[s], sub[s].hand).at = handler[s].at
        BY <1>3 DEF Taken, HandlerRec
      <4> QED BY <1>4, <4>1, <4>2
    <3>4. CASE HandlerSeesEnd(s) \/ HandlerSeesDrop(s)
      <4>1. handler'[s] = [NoHandler EXCEPT !.at = "leaving"] /\ handler[s].at = "open"
        BY <1>3, <3>4 DEF HandlerSeesEnd, HandlerSeesDrop, HandlerStep, Streams
      <4> QED BY <1>4, <4>1
    <3> QED BY <1>5, <3>1, <3>2, <3>3, <3>4
  <2>4. Registered'
    BY <1>1, <2>1, <2>2, <2>3, RegisteredFrame
  <2> QED BY <1>2, <2>4
<1>6. CASE HandlerUnsubscribes(s)
  <2>1. /\ handler[s].at = "leaving" /\ subscribers' = subscribers \ {s} /\ sub' = sub
        /\ handler'[s].at = IF s \in subscribers THEN "closing" ELSE "gone"
    BY <1>3, <1>4, <1>6 DEF HandlerUnsubscribes, HandlerStep
  <2>2. SubscribersMatchStreams'
    BY <1>1, <2>1 DEF Registered, SubscribersMatchStreams
  <2> QED BY <1>1, <1>2, <2>2 DEF Registered
<1>7. CASE HandlerCloses(s)
  <2>1. /\ handler[s].at = "closing" /\ subscribers' = subscribers /\ sub'[s].closed
        /\ handler'[s].at = "gone"
    BY <1>3, <1>4, <1>7 DEF HandlerCloses, HandlerStep, SubscriberRec
  <2>2. SubscribersMatchStreams'
    BY <1>1, <2>1 DEF Registered, SubscribersMatchStreams
  <2> QED BY <1>1, <1>2, <2>2 DEF Registered
<1> QED BY <1>5, <1>6, <1>7 DEF HandlerNext

LEMMA ConnectsRegistered ==
  ASSUME BusTyped, EventsPublished, Registered, FreshSessions, NEW c \in Clients, Connects(c)
  PROVE  Registered' /\ FreshSessions'
<1> DEFINE s == NewSession(c)
<1>1. s \in Sessions /\ sub[s] = Unused /\ handler[s] = NoHandler
  BY ConnectsTyped
<1>2. /\ sub'[s] = [Unused EXCEPT !.run = "wait", !.closed = busClosed] /\ handler'[s] = NewHandler(c)
      /\ \A t \in Sessions : t # s => sub'[t] = sub[t] /\ handler'[t] = handler[t]
      /\ subscribers' = IF busClosed THEN subscribers ELSE subscribers \cup {s}
  BY <1>1, ConnectsSession DEF BusTyped
<1>3. UNCHANGED <<pub, busClosed>> /\ used' = [used EXCEPT ![c] = used[c] + 1]
  BY ConnectsCounts
<1>4. sub'[s].closed = busClosed /\ handler'[s].at = "open"
  BY <1>2 DEF Unused, NewHandler
<1>5. s[1] = c /\ s[2] = used[c] + 1 /\ used[c] \in Nat
  BY EventBusAssumption DEF BusTyped, NewSession
<1>6. SubscribersMatchStreams'
  BY <1>1, <1>2, <1>3, <1>4 DEF Registered, SubscribersMatchStreams, NoHandler
<1>7. FreshSessions'
  <2> SUFFICES ASSUME NEW t \in Sessions, used'[t[1]] < t[2]
               PROVE  /\ sub'[t] = Unused /\ handler'[t] = NoHandler /\ t \notin subscribers'
                      /\ \A p \in Processes : t \notin pub[p].left \cup pub[p].over
    BY <1>3 DEF FreshSessions
  <2>1. t[1] \in Clients /\ t[2] \in Nat /\ t = <<t[1], t[2]>> /\ used \in [Clients -> Nat]
    BY SessionFacts, EventBusAssumption DEF BusTyped
  <2>2. used[t[1]] < t[2] /\ t # s
    BY <1>3, <1>5, <2>1
  <2> QED BY <1>2, <2>2 DEF FreshSessions
<1>8. Registered'
  BY <1>2, <1>3, <1>6 DEF Registered, Announced
<1> QED BY <1>7, <1>8

-----------------------------------------------------------------------------
(* The events that are under way were published.                           *)

\* A step that publishes nothing.
LEMMA EventsFrame ==
  ASSUME EventsPublished,
         UNCHANGED <<nextEventID, replayHistory, notes>>,
         \A p \in Processes : pub'[p].evt \in {NoEvent, pub[p].evt},
         pub'[Server].evt = pub[Server].evt,
         \A s \in Sessions : \A e \in Events(s)' : Published(e),
         \A s \in Sessions : ReplayPlaced(handler'[s]),
         \A c \in Clients : lastEventID'[c] <= nextEventID
  PROVE  EventsPublished'
<1>1. \A e : Published(e)' <=> Published(e)
  BY DEF Published
<1>2. \A s \in Sessions : ReplayPlaced(handler[s])'
  BY DEF ReplayPlaced
<1> QED BY <1>1, <1>2 DEF EventsPublished

\* One that concerns session s, of which the publishers learn nothing.
LEMMA SessionEvents ==
  ASSUME EventsPublished, NEW s \in Sessions,
         UNCHANGED <<nextEventID, replayHistory, notes>>,
         \A p \in Processes : pub'[p].evt = pub[p].evt,
         \A t \in Sessions : t # s => sub'[t] = sub[t] /\ handler'[t] = handler[t],
         \A e \in ElementsOf(handler'[s].replay) \cup SubEvents(sub'[s]) : Published(e),
         ReplayPlaced(handler'[s]),
         \A c \in Clients : lastEventID'[c] <= nextEventID
  PROVE  EventsPublished'
<1>1. \A t \in Sessions : t # s => Events(t)' = Events(t)
  BY DEF Events, SubEvents
<1>2. Events(s)' = ElementsOf(handler'[s].replay) \cup SubEvents(sub'[s])
  BY DEF Events, SubEvents
<1>3. \A t \in Sessions : \A e \in Events(t)' : Published(e)
  BY <1>1, <1>2 DEF EventsPublished
<1>4. \A t \in Sessions : ReplayPlaced(handler'[t])
  BY DEF EventsPublished
<1>5. Server \in Processes
  BY BusFacts
<1> QED BY <1>3, <1>4, <1>5, EventsFrame

LEMMA ReplayNone ==
  ASSUME BusTyped, NEW a
  PROVE  ReplayPlaced([NoHandler EXCEPT !.at = a]) /\ [NoHandler EXCEPT !.at = a].replay = <<>>
BY DEF ReplayPlaced, NoHandler, Increasing, ElementsOf, BusTyped

\* The rest of a queue: its elements, their order.
LEMMA RestOf ==
  ASSUME NEW q \in Seq(Event), q # <<>>
  PROVE  /\ Head(q) \in ElementsOf(q) /\ Head(q) \in Event /\ Tail(q) \in Seq(Event)
         /\ ElementsOf(q) = {Head(q)} \cup ElementsOf(Tail(q))
         /\ Increasing(q) => Increasing(Tail(q)) /\ \A e \in ElementsOf(Tail(q)) : Head(q).id < e.id
         /\ OneEach(q) => OneEach(Tail(q)) /\ \A e \in ElementsOf(Tail(q)) : Head(q).id # e.id
<1>1. Len(q) \in Nat \ {0} /\ DOMAIN q = 1 .. Len(q) /\ DOMAIN Tail(q) = 1 .. Len(q) - 1
  OBVIOUS
<1>2. Head(q) = q[1] /\ \A i \in 1 .. Len(q) - 1 : Tail(q)[i] = q[i + 1]
  OBVIOUS
<1>3. ElementsOf(q) = {Head(q)} \cup ElementsOf(Tail(q))
  <2>1. \A i \in 1 .. Len(q) : i = 1 \/ (i - 1 \in 1 .. Len(q) - 1 /\ q[i] = Tail(q)[i - 1])
    BY <1>1, <1>2
  <2>2. \A i \in 1 .. Len(q) - 1 : i + 1 \in 1 .. Len(q)
    BY <1>1
  <2>3. 1 \in 1 .. Len(q)
    BY <1>1
  <2>4. \A i \in 1 .. Len(q) : q[i] \in {Head(q)} \cup ElementsOf(Tail(q))
    BY <1>1, <1>2, <2>1 DEF ElementsOf
  <2>5. Head(q) \in ElementsOf(q)
    BY <1>1, <1>2, <2>3 DEF ElementsOf
  <2>6. \A i \in 1 .. Len(q) - 1 : Tail(q)[i] \in ElementsOf(q)
    BY <1>1, <1>2, <2>2 DEF ElementsOf
  <2>7. ElementsOf(q) \subseteq {Head(q)} \cup ElementsOf(Tail(q))
    BY <1>1, <2>4 DEF ElementsOf
  <2>8. ElementsOf(Tail(q)) \subseteq ElementsOf(q)
    BY <1>1, <2>6 DEF ElementsOf
  <2> QED BY <2>5, <2>7, <2>8
<1>4. Increasing(q) => Increasing(Tail(q)) /\ \A e \in ElementsOf(Tail(q)) : Head(q).id < e.id
  BY <1>1, <1>2 DEF Increasing, ElementsOf
<1>5. OneEach(q) => OneEach(Tail(q)) /\ \A e \in ElementsOf(Tail(q)) : Head(q).id # e.id
  BY <1>1, <1>2 DEF OneEach, ElementsOf
<1>6. Head(q) \in Event /\ Tail(q) \in Seq(Event)
  OBVIOUS
<1> QED BY <1>3, <1>4, <1>5, <1>6

LEMMA OneMore ==
  ASSUME NEW q \in Seq(Event), NEW e \in Event
  PROVE  /\ ElementsOf(Append(q, e)) = ElementsOf(q) \cup {e}
         /\ OneEach(q) /\ (\A d \in ElementsOf(q) : d.id # e.id) => OneEach(Append(q, e))
         /\ Increasing(q) /\ (\A d \in ElementsOf(q) : d.id < e.id) => Increasing(Append(q, e))
<1>1. Len(q) \in Nat /\ DOMAIN q = 1 .. Len(q) /\ DOMAIN Append(q, e) = 1 .. Len(q) + 1
  OBVIOUS
<1>2. Append(q, e)[Len(q) + 1] = e /\ \A i \in 1 .. Len(q) : Append(q, e)[i] = q[i]
  OBVIOUS
<1> DEFINE r == Append(q, e)
<1> HIDE DEF r
<1>3. \A i \in 1 .. Len(q) + 1 : i = Len(q) + 1 \/ i \in 1 .. Len(q)
  BY <1>1
<1>4. ElementsOf(r) = ElementsOf(q) \cup {e}
  BY <1>1, <1>2, <1>3 DEF ElementsOf, r
<1>5. OneEach(q) /\ (\A d \in ElementsOf(q) : d.id # e.id) => OneEach(r)
  BY <1>1, <1>2, <1>3 DEF ElementsOf, OneEach, r
<1>6. Increasing(q) /\ (\A d \in ElementsOf(q) : d.id < e.id) => Increasing(r)
  BY <1>1, <1>2, <1>3 DEF ElementsOf, Increasing, r
<1> QED BY <1>4, <1>5, <1>6 DEF r

\* What a subscriber holds after an event is sent to it.
LEMMA SentEvents ==
  ASSUME NEW u \in SubscriberRec, NEW e \in Event
  PROVE  /\ SubEvents(Sent(u, e)) \subseteq SubEvents(u) \cup {e} /\ Sent(u, e).hand = u.hand
         /\ Sent(u, e).queue \in {u.queue, Append(u.queue, e)}
<1>1. CASE u.closed
  BY <1>1 DEF Sent
<1>2. CASE ~u.closed /\ Overflows(u, e)
  BY <1>2 DEF Sent, SubscriberRec, SubEvents
<1>3. CASE ~u.closed /\ ~Overflows(u, e) /\ e.kind \in Kinds
  <2> DEFINE l == [u.latest EXCEPT ![e.kind] = e]
             v == [u EXCEPT !.latest = l, !.wake = TRUE]
  <2>1. Sent(u, e) = v
    BY <1>3 DEF Sent, SubscriberRec
  <2>2. v.queue = u.queue /\ v.latest = l /\ v.hand = u.hand
    BY DEF SubscriberRec
  <2>3. \A k \in Kinds : l[k] \in {u.latest[k], e}
    BY DEF SubscriberRec
  <2> HIDE DEF l, v
  <2> QED BY <2>1, <2>2, <2>3 DEF SubEvents
<1>4. CASE ~u.closed /\ ~Overflows(u, e) /\ e.kind \notin Kinds
  <2> DEFINE v == [u EXCEPT !.queue = Append(u.queue, e), !.wake = TRUE]
  <2>1. Sent(u, e) = v
    BY <1>4 DEF Sent
  <2>2. v.queue = Append(u.queue, e) /\ v.latest = u.latest /\ v.hand = u.hand
    BY DEF SubscriberRec
  <2>3. u.queue \in Seq(Event)
    BY DEF SubscriberRec
  <2>4. ElementsOf(Append(u.queue, e)) = ElementsOf(u.queue) \cup {e}
    BY <2>3, OneMore
  <2> HIDE DEF v
  <2> QED BY <2>1, <2>2, <2>4 DEF SubEvents
<1> QED BY <1>1, <1>2, <1>3, <1>4

LEMMA SendsEvents ==
  ASSUME BusTyped, PublishersPlaced, EventsPublished, NEW p \in Processes, NEW s \in Sessions, Sends(p, s)
  PROVE  EventsPublished'
<1>1. /\ pub[p].evt \in Event /\ sub[s] \in SubscriberRec /\ sub'[s] = Sent(sub[s], pub[p].evt)
      /\ \A t \in Sessions : t # s => sub'[t] = sub[t]
      /\ \A q \in Processes : pub'[q].evt = pub[q].evt
      /\ UNCHANGED <<nextEventID, replayHistory, notes, handler, lastEventID>>
  <2>1. pub[p].evt \in Event /\ sub[s] \in SubscriberRec /\ sub' = [sub EXCEPT ![s] = Sent(sub[s], pub[p].evt)]
    BY SendsFacts
  <2>2. \A q \in Processes : pub'[q].evt = pub[q].evt
    BY SendsFacts
  <2>3. UNCHANGED <<nextEventID, replayHistory, notes, handler, lastEventID>>
    BY DEF Sends, busVars, clientVars, historyVars
  <2> QED BY <2>1, <2>2, <2>3 DEF BusTyped
<1>2. Published(pub[p].evt)
  BY <1>1, BusFacts DEF EventsPublished
<1>3. SubEvents(sub'[s]) \subseteq SubEvents(sub[s]) \cup {pub[p].evt}
  BY <1>1, SentEvents
<1>4. \A e \in ElementsOf(handler'[s].replay) \cup SubEvents(sub'[s]) : Published(e)
  BY <1>1, <1>2, <1>3 DEF EventsPublished, Events
<1>5. ReplayPlaced(handler'[s]) /\ \A c \in Clients : lastEventID'[c] <= nextEventID
  BY <1>1 DEF EventsPublished
<1> QED BY <1>1, <1>4, <1>5, SessionEvents

LEMMA HasSentEvents ==
  ASSUME BusTyped, PublishersPlaced, EventsPublished, NEW p \in Processes, HasSent(p)
  PROVE  EventsPublished'
<1>1. Becomes(p, Continue(p)) /\ pub[p].at = "sending"
      /\ UNCHANGED <<nextEventID, replayHistory, notes, sub, handler, lastEventID>>
  BY DEF HasSent, Becomes, clientVars, historyVars
<1>2. pub'[p] = Continue(p) /\ \A q \in Processes : q # p => pub'[q] = pub[q]
  BY <1>1 DEF Becomes, BusTyped
<1>3. Continue(p).evt \in {NoEvent, pub[p].evt} /\ (p = Server => Continue(p).evt = pub[p].evt)
  BY <1>1, ContinuePlaced
<1>4. \A q \in Processes : pub'[q].evt \in {NoEvent, pub[q].evt}
  BY <1>2, <1>3
<1>5. pub'[Server].evt = pub[Server].evt
  BY <1>2, <1>3, BusFacts
<1>6. \A s \in Sessions : Events(s)' = Events(s)
  BY <1>1 DEF Events, SubEvents
<1>7. /\ \A s \in Sessions : \A e \in Events(s)' : Published(e)
      /\ \A s \in Sessions : ReplayPlaced(handler'[s])
      /\ \A c \in Clients : lastEventID'[c] <= nextEventID
  BY <1>1, <1>6 DEF EventsPublished
<1> QED BY <1>1, <1>4, <1>5, <1>7, EventsFrame

LEMMA BusClosesEvents ==
  ASSUME BusTyped, EventsPublished, BusCloses
  PROVE  EventsPublished'
<1>1. UNCHANGED <<nextEventID, replayHistory, notes, handler, lastEventID, pub>>
  BY DEF BusCloses, clientVars, historyVars
<1>2. \A s \in Sessions : Events(s)' = Events(s)
  <2> SUFFICES ASSUME NEW s \in Sessions PROVE Events(s)' = Events(s)
    OBVIOUS
  <2>1. sub'[s] = sub[s] \/ sub'[s] = [sub[s] EXCEPT !.closed = TRUE]
    BY DEF BusCloses
  <2>2. sub[s] \in SubscriberRec
    BY DEF BusTyped
  <2>3. sub'[s].queue = sub[s].queue /\ sub'[s].latest = sub[s].latest /\ sub'[s].hand = sub[s].hand
    BY <2>1, <2>2 DEF SubscriberRec
  <2> QED BY <1>1, <2>3 DEF Events, SubEvents
<1>3. /\ \A s \in Sessions : \A e \in Events(s)' : Published(e)
      /\ \A s \in Sessions : ReplayPlaced(handler'[s])
      /\ \A c \in Clients : lastEventID'[c] <= nextEventID
  BY <1>1, <1>2 DEF EventsPublished
<1> QED BY <1>1, <1>3, EventsFrame, BusFacts

LEMMA RunnerEvents ==
  ASSUME BusTyped, EventsPublished, NEW s \in Sessions, RunnerStep(s)
  PROVE  EventsPublished' /\ SubEvents(sub'[s]) \subseteq SubEvents(sub[s])
<1>1. /\ UNCHANGED <<nextEventID, replayHistory, notes, handler, lastEventID, pub>>
      /\ \A t \in Sessions : t # s => sub'[t] = sub[t]
      /\ sub[s] \in SubscriberRec
  BY RunnerFacts DEF busVars, clientVars, historyVars
<1>2. SubEvents(sub'[s]) \subseteq SubEvents(sub[s])
  <2>1. CASE RunnerWakes(s)
    <3> DEFINE v == [sub[s] EXCEPT !.wake = FALSE, !.run = "next"]
    <3>1. v.queue = sub[s].queue /\ v.latest = sub[s].latest /\ v.hand = sub[s].hand
      BY <1>1 DEF SubscriberRec
    <3>2. sub'[s] = v
      BY <2>1, WakesFacts
    <3> HIDE DEF v
    <3> QED BY <3>1, <3>2 DEF SubEvents
  <2>2. CASE RunnerEnds(s)
    <3> DEFINE v == [Unused EXCEPT !.run = "ended", !.closed = TRUE]
    <3>1. v.queue = <<>> /\ (\A k \in Kinds : v.latest[k] = NoEvent) /\ v.hand = NoEvent
      BY DEF Unused
    <3>2. sub'[s] = v
      BY <2>2, EndsFacts
    <3>3. ElementsOf(<<>>) = {}
      BY DEF ElementsOf
    <3> HIDE DEF v
    <3> QED BY <3>1, <3>2, <3>3 DEF SubEvents
  <2>3. CASE RunnerTakes(s)
    <3> DEFINE u == sub[s]  v == sub'[s]  k == FirstOf(Pending(u))
    <3>1. u.queue \in Seq(Event) /\ u.latest \in [Kinds -> Event \cup {NoEvent}]
      BY <1>1 DEF SubscriberRec
    <3>2. CASE u.queue # <<>> /\ v.hand = Head(u.queue) /\ v.queue = Tail(u.queue) /\ v.latest = u.latest
      <4>1. ElementsOf(u.queue) = {Head(u.queue)} \cup ElementsOf(Tail(u.queue))
        BY <3>1, <3>2, RestOf
      <4> HIDE DEF u, v
      <4>2. SubEvents(v) \subseteq SubEvents(u)
        BY <3>2, <4>1 DEF SubEvents
      <4> QED BY <4>2 DEF u, v
    <3>3. CASE k \in Pending(u) /\ v.hand = u.latest[k] /\ v.queue = u.queue /\ v.latest = [u.latest EXCEPT ![k] = NoEvent]
      <4>1. k \in Kinds /\ \A j \in Kinds : v.latest[j] \in {NoEvent, u.latest[j]}
        BY <3>1, <3>3 DEF Pending
      <4> HIDE DEF u, v, k
      <4>2. SubEvents(v) \subseteq SubEvents(u)
        BY <3>3, <4>1 DEF SubEvents
      <4> QED BY <4>2 DEF u, v
    <3>4. CASE v.hand = u.hand /\ v.queue = u.queue /\ v.latest = u.latest
      BY <3>4 DEF SubEvents
    <3> QED BY <2>3, <3>2, <3>3, <3>4, TakesFacts
  <2> QED BY <2>1, <2>2, <2>3 DEF RunnerStep
<1>3. \A e \in ElementsOf(handler'[s].replay) \cup SubEvents(sub'[s]) : Published(e)
  BY <1>1, <1>2 DEF EventsPublished, Events
<1>4. ReplayPlaced(handler'[s]) /\ \A c \in Clients : lastEventID'[c] <= nextEventID
  BY <1>1 DEF EventsPublished
<1>5. EventsPublished'
  BY <1>1, <1>3, <1>4, SessionEvents
<1> QED BY <1>2, <1>5

\* Published in the next state.
PublishedThen(e) ==
  /\ e.id \in 1 .. nextEventID'
  /\ e.kind \in Replayable <=> e.id \in notes'
  /\ pub'[Server].evt # NoEvent /\ e.id = pub'[Server].evt.id => e.kind = "server_shutdown"

\* A new event: it is the last, and says what it is.
LEMMA PublishEvents ==
  ASSUME BusTyped, PublishersPlaced, EventsPublished, NEW p \in Processes, Publish(p), ~busClosed
  PROVE  EventsPublished' /\ \A e : Published(e) => PublishedThen(e)
<1> DEFINE n == nextEventID + 1  new == NewEvent(p)
           r == [pub[p] EXCEPT !.at = "sending", !.evt = new, !.left = subscribers, !.over = {}]
<1>1. /\ nextEventID' = n /\ nextEventID \in Nat /\ notes \subseteq 1 .. nextEventID
      /\ UNCHANGED <<sub, handler, lastEventID>>
  BY PublishOpen DEF BusTyped, EventsPublished, clientVars
<1>2. /\ new \in Event /\ new.id = n /\ new.kind = pub[p].kind /\ pub[p] \in PublisherRec
      /\ (new.kind = "server_shutdown" <=> p = Server)
  BY NewEventTyped DEF BusTyped, PublishersPlaced, Placed, Publish
<1>3. notes' = IF new.kind \in Replayable THEN notes \cup {n} ELSE notes
  BY <1>2, PublishOpen
<1>4. r.evt = new /\ pub' = [pub EXCEPT ![p] = r] /\ pub \in [Processes -> PublisherRec]
  BY <1>2, PublishOpen DEF BusTyped, PublisherRec
<1> HIDE DEF r
<1>5. pub'[p].evt = new /\ \A q \in Processes : q # p => pub'[q].evt = pub[q].evt
  BY <1>4
<1> HIDE DEF new
<1>6. n \in Nat /\ n \notin 1 .. nextEventID /\ (1 .. n) = (1 .. nextEventID) \cup {n}
  BY <1>1
<1> HIDE DEF n
<1>7. \A e : Published(e) => PublishedThen(e)
  <2> SUFFICES ASSUME NEW e, Published(e) PROVE PublishedThen(e)
    OBVIOUS
  <2>1. e.id \in 1 .. nextEventID /\ (e.kind \in Replayable <=> e.id \in notes)
    BY DEF Published
  <2>2. pub'[Server].evt # NoEvent /\ e.id = pub'[Server].evt.id => e.kind = "server_shutdown"
    <3>1. CASE p = Server
      BY <1>2, <1>5, <1>6, <2>1, <3>1, BusFacts
    <3>2. CASE p # Server
      BY <1>5, <3>2, BusFacts DEF Published
    <3> QED BY <3>1, <3>2
  <2> QED BY <1>1, <1>3, <1>6, <2>1, <2>2 DEF PublishedThen
<1>8. PublishedThen(new)
  <2>1. new.kind \in Replayable <=> new.id \in notes'
    BY <1>1, <1>2, <1>3, <1>6
  <2>2. pub'[Server].evt # NoEvent /\ new.id = pub'[Server].evt.id => new.kind = "server_shutdown"
    <3>1. CASE p = Server
      BY <1>2, <3>1
    <3>2. CASE p # Server
      <4>1. pub'[Server].evt = pub[Server].evt
        BY <1>5, <3>2, BusFacts
      <4>2. pub[Server].evt # NoEvent => pub[Server].evt.id \in 1 .. nextEventID
        BY BusFacts DEF EventsPublished, Published
      <4> QED BY <1>2, <1>6, <4>1, <4>2
    <3> QED BY <3>1, <3>2
  <2>3. new.id \in 1 .. nextEventID'
    BY <1>1, <1>2, <1>6
  <2> QED BY <2>1, <2>2, <2>3 DEF PublishedThen
<1>9. notes' \subseteq 1 .. nextEventID'
  BY <1>1, <1>3, <1>6
<1>10. /\ \A e \in ElementsOf(replayHistory') : PublishedThen(e) /\ e.kind \in Replayable
       /\ Increasing(replayHistory')
  <2>1. CASE new.kind \in Replayable
    <3> DEFINE kept == IF Len(replayHistory) = ReplayLimit THEN Tail(replayHistory) ELSE replayHistory
    <3>1. replayHistory' = Append(kept, new)
      BY <1>2, <2>1, PublishOpen DEF new
    <3>2. kept \in Seq(Event) /\ ElementsOf(kept) \subseteq ElementsOf(replayHistory) /\ Increasing(kept)
      <4>1. replayHistory \in Seq(Event) /\ Increasing(replayHistory)
        BY DEF BusTyped, EventsPublished
      <4>2. CASE Len(replayHistory) = ReplayLimit
        <5>1. replayHistory # <<>>
          BY <4>2, EventBusAssumption
        <5> QED BY <4>1, <4>2, <5>1, RestOf
      <4> QED BY <4>1, <4>2
    <3> HIDE DEF kept
    <3>3. ElementsOf(replayHistory') = ElementsOf(kept) \cup {new}
      BY <1>2, <3>1, <3>2, OneMore
    <3>4. \A d \in ElementsOf(kept) : d.id < new.id
      <4> SUFFICES ASSUME NEW d \in ElementsOf(kept) PROVE d.id < new.id
        OBVIOUS
      <4>1. d.id \in 1 .. nextEventID
        BY <3>2 DEF EventsPublished, Published
      <4> QED BY <1>1, <1>2, <4>1 DEF n
    <3>5. Increasing(replayHistory')
      BY <1>2, <3>1, <3>2, <3>4, OneMore
    <3> QED BY <1>7, <1>8, <2>1, <3>2, <3>3, <3>5 DEF EventsPublished
  <2>2. CASE new.kind \notin Replayable
    <3>1. replayHistory' = replayHistory
      BY <1>2, <2>2, PublishOpen
    <3> QED BY <1>7, <3>1 DEF EventsPublished
  <2> QED BY <2>1, <2>2
<1>11. \A q \in Processes : pub'[q].evt # NoEvent => PublishedThen(pub'[q].evt)
  <2> SUFFICES ASSUME NEW q \in Processes, pub'[q].evt # NoEvent PROVE PublishedThen(pub'[q].evt)
    OBVIOUS
  <2>1. CASE q = p
    BY <1>5, <1>8, <2>1
  <2>2. CASE q # p
    BY <1>5, <1>7, <2>2 DEF EventsPublished
  <2> QED BY <2>1, <2>2
<1>12. pub'[Server].evt # NoEvent => pub'[Server].evt.kind = "server_shutdown"
  BY <1>2, <1>5, BusFacts DEF EventsPublished
<1>13. \A s \in Sessions : \A e \in Events(s)' : PublishedThen(e)
  <2>1. \A s \in Sessions : Events(s)' = Events(s)
    BY <1>1 DEF Events, SubEvents
  <2> QED BY <1>7, <2>1 DEF EventsPublished
<1>14. \A s \in Sessions : ReplayPlaced(handler[s])'
  <2> SUFFICES ASSUME NEW s \in Sessions PROVE ReplayPlaced(handler[s])'
    OBVIOUS
  <2>1. ReplayPlaced(handler[s]) /\ handler[s].born \in Nat
    BY DEF EventsPublished, BusTyped, HandlerRec
  <2>2. handler[s].born <= nextEventID'
    BY <1>1, <2>1 DEF ReplayPlaced, n
  <2> QED BY <1>1, <1>3, <2>1, <2>2 DEF ReplayPlaced
<1>15. \A c \in Clients : lastEventID'[c] <= nextEventID'
  BY <1>1 DEF EventsPublished, BusTyped, n
<1>16. \A e : Published(e)' <=> PublishedThen(e)
  BY DEF Published, PublishedThen
<1>17. \A q \in Processes : (pub[q].evt # NoEvent => Published(pub[q].evt))'
  BY <1>11 DEF Published, PublishedThen
<1>18. (\A e \in ElementsOf(replayHistory) : Published(e) /\ e.kind \in Replayable)' /\ Increasing(replayHistory)'
  BY <1>10, <1>16 DEF ElementsOf, Increasing
<1>20. (\A s \in Sessions : \A e \in Events(s) : Published(e))'
  BY <1>13, <1>16
<1>19. EventsPublished'
  BY <1>9, <1>12, <1>14, <1>15, <1>17, <1>18, <1>20 DEF EventsPublished
<1> QED BY <1>7, <1>19

\* What a client has been given, after the handler has written e.
LEMMA WritesKnown ==
  ASSUME BusTyped, EventsPublished, NEW s \in Sessions, NEW e \in Event, Published(e), Writes(s, e)
  PROVE  \A c \in Clients : lastEventID'[c] <= nextEventID
<1>1. e.id <= nextEventID
  BY DEF Published
<1>2. lastEventID' = lastEventID \/ lastEventID' = [lastEventID EXCEPT ![s[1]] = e.id]
  BY DEF Writes
<1> QED BY <1>1, <1>2 DEF EventsPublished, BusTyped

LEMMA HandlerEvents ==
  ASSUME BusTyped, RunnersPlaced, EventsPublished, NEW s \in Sessions, HandlerNext(s)
  PROVE  EventsPublished'
<1>1. /\ UNCHANGED <<nextEventID, replayHistory, notes, pub>>
      /\ \A t \in Sessions : t # s => sub'[t] = sub[t] /\ handler'[t] = handler[t]
  BY HandlerFacts
<1>2. /\ sub[s] \in SubscriberRec /\ handler[s] \in HandlerRec /\ sub \in [Sessions -> SubscriberRec]
      /\ handler \in [Sessions -> HandlerRec]
      /\ ReplayPlaced(handler[s]) /\ \A e \in ElementsOf(handler[s].replay) \cup SubEvents(sub[s]) : Published(e)
  BY DEF BusTyped, EventsPublished, Events
<1>3. SubEvents(sub'[s]) \subseteq SubEvents(sub[s])
  <2>1. \/ sub'[s] = sub[s]
        \/ sub'[s] = [sub[s] EXCEPT !.run = "next", !.hand = NoEvent]
        \/ sub'[s] = [sub[s] EXCEPT !.closed = TRUE]
    BY <1>2 DEF HandlerNext, HandlerGreets, HandlerReplays, HandlerReceives, HandlerSeesEnd, HandlerSeesDrop,
           HandlerUnsubscribes, HandlerCloses, HandlerStep
  <2>2. sub'[s].queue = sub[s].queue /\ sub'[s].latest = sub[s].latest /\ sub'[s].hand \in {NoEvent, sub[s].hand}
    BY <1>2, <2>1 DEF SubscriberRec
  <2> QED BY <2>2 DEF SubEvents
<1>4. CASE HandlerGreets(s)
  <2>1. handler'[s] = [handler[s] EXCEPT !.hello = @ \ {FirstOf(handler[s].hello)}] /\ lastEventID' = lastEventID
    BY <1>2, <1>4 DEF HandlerGreets
  <2>2. /\ handler'[s].replay = handler[s].replay /\ handler'[s].born = handler[s].born
        /\ handler'[s].due = handler[s].due /\ handler'[s].heard = handler[s].heard
    BY <1>2, <2>1 DEF HandlerRec
  <2>3. ReplayPlaced(handler'[s])
    BY <1>2, <2>2 DEF ReplayPlaced
  <2>4. \A c \in Clients : lastEventID'[c] <= nextEventID
    BY <2>1 DEF EventsPublished
  <2> QED BY <1>1, <1>2, <1>3, <2>2, <2>3, <2>4, SessionEvents
<1>5. CASE HandlerReplays(s)
  <2> DEFINE q == handler[s].replay  h == Taken(handler[s], Head(q))
  <2>1. q \in Seq(Event) /\ q # <<>> /\ Writes(s, Head(q)) /\ handler'[s] = [h EXCEPT !.replay = Tail(q)]
    BY <1>2, <1>5 DEF HandlerReplays, HandlerRec
  <2>2. /\ handler'[s].replay = Tail(q) /\ handler'[s].born = handler[s].born /\ handler'[s].due = handler[s].due
        /\ handler'[s].heard \subseteq handler[s].heard \cup {Head(q).id}
    BY <1>2, <2>1 DEF HandlerRec, Taken
  <2>3. /\ Head(q) \in ElementsOf(q) /\ Head(q) \in Event /\ ElementsOf(Tail(q)) \subseteq ElementsOf(q)
        /\ Increasing(q) => Increasing(Tail(q))
    BY <2>1, RestOf
  <2>7. Head(q).id \in notes
    BY <1>2, <2>3 DEF ReplayPlaced, Published
  <2> HIDE DEF q, h
  <2>4. ReplayPlaced(handler'[s])
    BY <1>2, <2>2, <2>3, <2>7 DEF ReplayPlaced, q
  <2>5. \A c \in Clients : lastEventID'[c] <= nextEventID
    BY <1>2, <2>1, <2>3, WritesKnown DEF q
  <2>6. \A e \in ElementsOf(handler'[s].replay) \cup SubEvents(sub'[s]) : Published(e)
    BY <1>2, <1>3, <2>2, <2>3 DEF q
  <2> QED BY <1>1, <2>4, <2>5, <2>6, SessionEvents
<1>6. CASE HandlerReceives(s)
  <2> DEFINE e == sub[s].hand
  <2>1. /\ e \in Event /\ e # NoEvent /\ Writes(s, e)
        /\ handler'[s] = Taken(handler[s], e) \/ handler'[s] = [NoHandler EXCEPT !.at = "leaving"]
    BY <1>2, <1>6, BusFacts DEF HandlerReceives, RunnersPlaced, RunnerPlaced, SubscriberRec
  <2>2. Published(e)
    BY <1>2, <2>1 DEF SubEvents
  <2>3. \A c \in Clients : lastEventID'[c] <= nextEventID
    BY <2>1, <2>2, WritesKnown
  <2>4. ReplayPlaced(handler'[s]) /\ ElementsOf(handler'[s].replay) \subseteq ElementsOf(handler[s].replay)
    <3>1. CASE handler'[s] = Taken(handler[s], e)
      <4>1. /\ handler'[s].replay = handler[s].replay /\ handler'[s].born = handler[s].born
            /\ handler'[s].due = handler[s].due /\ handler'[s].heard \subseteq handler[s].heard \cup notes
        BY <1>2, <2>2, <3>1 DEF HandlerRec, Taken, Published
      <4> QED BY <1>2, <4>1 DEF ReplayPlaced
    <3>2. CASE handler'[s] = [NoHandler EXCEPT !.at = "leaving"]
      <4>1. ReplayPlaced(handler'[s]) /\ handler'[s].replay = <<>>
        BY <3>2, ReplayNone
      <4> QED BY <4>1 DEF ElementsOf
    <3> QED BY <2>1, <3>1, <3>2
  <2> QED BY <1>1, <1>2, <1>3, <2>3, <2>4, SessionEvents
<1>7. CASE HandlerLeaves(s)
  <2>1. PICK a : HandlerStep(s, a)
    BY <1>7 DEF HandlerLeaves, HandlerSeesEnd, HandlerSeesDrop, HandlerUnsubscribes, HandlerCloses
  <2>2. handler'[s] = [NoHandler EXCEPT !.at = a] /\ lastEventID' = lastEventID
    BY <1>2, <2>1 DEF HandlerStep, clientVars
  <2>3. ReplayPlaced(handler'[s]) /\ ElementsOf(handler'[s].replay) = {}
    BY <2>2, ReplayNone DEF ElementsOf
  <2>4. \A c \in Clients : lastEventID'[c] <= nextEventID
    BY <2>2 DEF EventsPublished
  <2> QED BY <1>1, <1>2, <1>3, <2>3, <2>4, SessionEvents
<1> QED BY <1>4, <1>5, <1>6, <1>7 DEF HandlerNext, HandlerLeaves

\* What a stream starts with.
LEMMA ReplayFacts ==
  ASSUME BusTyped, EventsPublished, NEW c \in Clients
  PROVE  /\ Replay(c) \in Seq(Event) /\ Increasing(Replay(c))
         /\ ElementsOf(Replay(c)) =
              IF lastEventID[c] = 0 \/ busClosed THEN {}
              ELSE {e \in ElementsOf(replayHistory) : e.id > lastEventID[c]}
<1> DEFINE h == replayHistory  last == lastEventID[c]
<1>1. last \in Nat /\ h \in Seq(Event) /\ Increasing(h)
  BY DEF BusTyped, EventsPublished
<1>2. CASE last = 0 \/ busClosed
  BY <1>2 DEF Replay, Increasing, ElementsOf
<1>3. CASE ~(last = 0 \/ busClosed)
  <2> DEFINE rep == ReplayAfter(last)
  <2>1. PICK m \in 0 .. Len(h) :
          /\ rep \in Seq(Event) /\ Len(rep) = Len(h) - m
          /\ \A i \in 1 .. Len(h) - m : rep[i] = h[i + m]
          /\ \A i \in DOMAIN h : i <= m <=> h[i].id <= last
    BY <1>1, ReplayIsTheRest
  <2> HIDE DEF rep
  <2>2. Len(h) \in Nat /\ DOMAIN h = 1 .. Len(h) /\ DOMAIN rep = 1 .. Len(h) - m
        /\ \A i \in DOMAIN h : h[i] \in Event /\ h[i].id \in Nat
    <3>1. Len(h) \in Nat /\ DOMAIN h = 1 .. Len(h) /\ \A i \in DOMAIN h : h[i] \in Event
      BY <1>1
    <3>2. \A e \in Event : e.id \in Nat
      BY DEF Event
    <3> QED BY <2>1, <3>1, <3>2
  <2>3. Increasing(rep)
    <3> SUFFICES ASSUME NEW i \in 1 .. Len(h) - m, NEW j \in 1 .. Len(h) - m, i < j PROVE rep[i].id < rep[j].id
      BY <2>2 DEF Increasing
    <3>1. i + m \in DOMAIN h /\ j + m \in DOMAIN h /\ i + m < j + m
      BY <2>2
    <3> QED BY <1>1, <2>1, <3>1 DEF Increasing
  <2>4. \A i \in DOMAIN rep : rep[i] \in ElementsOf(h) /\ rep[i].id > last
    <3> SUFFICES ASSUME NEW i \in 1 .. Len(h) - m PROVE rep[i] \in ElementsOf(h) /\ rep[i].id > last
      BY <2>2
    <3>1. i + m \in DOMAIN h /\ ~(i + m <= m)
      BY <2>2
    <3>2. ~(h[i + m].id <= last) /\ h[i + m].id \in Nat
      BY <2>1, <2>2, <3>1
    <3> QED BY <1>1, <2>1, <3>1, <3>2 DEF ElementsOf
  <2>5. \A j \in DOMAIN h : h[j].id > last => h[j] \in ElementsOf(rep)
    <3> SUFFICES ASSUME NEW j \in DOMAIN h, h[j].id > last PROVE h[j] \in ElementsOf(rep)
      OBVIOUS
    <3>1. ~(j <= m)
      BY <1>1, <2>1, <2>2
    <3>2. j - m \in 1 .. Len(h) - m /\ (j - m) + m = j
      BY <2>2, <3>1
    <3> QED BY <2>1, <2>2, <3>2 DEF ElementsOf
  <2>6. ElementsOf(rep) = {e \in ElementsOf(h) : e.id > last}
    BY <2>4, <2>5 DEF ElementsOf
  <2>7. Replay(c) = rep
    BY <1>3 DEF Replay, rep
  <2> QED BY <1>3, <2>1, <2>3, <2>6, <2>7
<1> QED BY <1>2, <1>3

LEMMA ConnectsEvents ==
  ASSUME BusTyped, EventsPublished, FreshSessions, NEW c \in Clients, Connects(c)
  PROVE  EventsPublished'
<1> DEFINE s == NewSession(c)
<1>1. s \in Sessions /\ sub[s] = Unused /\ NewHandler(c) \in HandlerRec
  BY ConnectsTyped
<1>2. /\ sub'[s] = [Unused EXCEPT !.run = "wait", !.closed = busClosed] /\ handler'[s] = NewHandler(c)
      /\ \A t \in Sessions : t # s => sub'[t] = sub[t] /\ handler'[t] = handler[t]
  BY <1>1, ConnectsSession DEF BusTyped
<1>3. UNCHANGED <<nextEventID, replayHistory, notes, pub, lastEventID>>
  BY ConnectsCounts
<1>4. SubEvents(sub'[s]) = {}
  <2>1. sub'[s].queue = <<>> /\ (\A k \in Kinds : sub'[s].latest[k] = NoEvent) /\ sub'[s].hand = NoEvent
    BY <1>2 DEF Unused
  <2> QED BY <2>1 DEF SubEvents, ElementsOf
<1>5. /\ handler'[s].replay = Replay(c) /\ handler'[s].born = nextEventID /\ handler'[s].heard = {}
      /\ handler'[s].due = IF lastEventID[c] = 0 \/ busClosed THEN {} ELSE {n \in notes \ Forgotten : n > lastEventID[c]}
  BY <1>2 DEF NewHandler
<1>6. ElementsOf(Replay(c)) \subseteq ElementsOf(replayHistory) /\ Increasing(Replay(c))
  BY ReplayFacts
<1>7. ReplayPlaced(handler'[s])
  <2>1. \A e \in ElementsOf(Replay(c)) : e.kind \in Replayable /\ e.id <= nextEventID
    BY <1>6 DEF EventsPublished, Published
  <2>2. handler'[s].due \subseteq notes /\ \A n \in notes : n <= nextEventID
    <3>1. notes \subseteq 1 .. nextEventID /\ nextEventID \in Nat
      BY DEF EventsPublished, BusTyped
    <3>2. handler'[s].due \subseteq notes
      BY <1>5
    <3> QED BY <3>1, <3>2
  <2>3. nextEventID <= nextEventID
    BY DEF BusTyped
  <2> QED BY <1>5, <1>6, <2>1, <2>2, <2>3 DEF ReplayPlaced
<1>8. \A e \in ElementsOf(handler'[s].replay) \cup SubEvents(sub'[s]) : Published(e)
  BY <1>4, <1>5, <1>6 DEF EventsPublished
<1>9. \A d \in Clients : lastEventID'[d] <= nextEventID
  BY <1>3 DEF EventsPublished
<1> HIDE DEF s
<1> QED BY <1>1, <1>2, <1>3, <1>7, <1>8, <1>9, SessionEvents

-----------------------------------------------------------------------------
(* Every note that a stream is promised is at one place.                   *)

\* In terms of the elements of queues.
LEMMA PlacesOf ==
  ASSUME NEW s \in Sessions
  PROVE  /\ InReplay(s) = {e.id : e \in ElementsOf(handler[s].replay)}
         /\ InQueue(s) = {e.id : e \in ElementsOf(sub[s].queue)}
BY DEF InReplay, InQueue, ElementsOf

\* A stream that a step leaves alone.
LEMMA EachFrame ==
  ASSUME NEW s \in Sessions, EachInOneOf(s), notes' = notes, BeingSent(s)' = BeingSent(s),
         handler'[s].due = handler[s].due, handler'[s].born = handler[s].born,
         handler'[s].heard = handler[s].heard, handler'[s].replay = handler[s].replay,
         sub'[s].queue = sub[s].queue, InHand(s)' = InHand(s)
  PROVE  EachInOneOf(s)'
<1>1. Promised(s)' = Promised(s) /\ InReplay(s)' = InReplay(s) /\ InQueue(s)' = InQueue(s)
  BY DEF Promised, InReplay, InQueue
<1> QED BY <1>1 DEF EachInOneOf, SomewhereOnce, OneEach

\* What is still being sent to a stream depends on who is to send it.
LEMMA SentFrame ==
  ASSUME NEW s \in Sessions,
         \A p \in Processes : s \in pub'[p].left <=> s \in pub[p].left,
         \A p \in Processes : s \in pub[p].left => pub'[p].evt = pub[p].evt
  PROVE  BeingSent(s)' = BeingSent(s)
BY DEF BeingSent

\* A step of one stream only.
LEMMA DeliveredFrame ==
  ASSUME NotesDelivered, NEW s \in Sessions, notes' = notes, pub' = pub,
         \A t \in Sessions : t # s => sub'[t] = sub[t] /\ handler'[t] = handler[t],
         handler'[s].at = "open" /\ ~sub'[s].closed => EachInOneOf(s)'
  PROVE  NotesDelivered'
<1> SUFFICES ASSUME NEW t \in Sessions, handler'[t].at = "open", ~sub'[t].closed PROVE EachInOneOf(t)'
  BY DEF NotesDelivered
<1>1. CASE t = s
  BY <1>1
<1>2. CASE t # s
  <2>1. EachInOneOf(t)
    BY <1>2 DEF NotesDelivered
  <2>2. BeingSent(t)' = BeingSent(t)
    BY SentFrame
  <2>3. InHand(t)' = InHand(t)
    BY <1>2 DEF InHand
  <2> QED BY <1>2, <2>1, <2>2, <2>3, EachFrame
<1> QED BY <1>1, <1>2

LEMMA PublishDelivers ==
  ASSUME BusInv, NEW p \in Processes, Publish(p), ~busClosed
  PROVE  NotesDelivered'
<1> DEFINE n == nextEventID + 1  new == NewEvent(p)
           r == [pub[p] EXCEPT !.at = "sending", !.evt = new, !.left = subscribers, !.over = {}]
<1>1. /\ nextEventID \in Nat /\ notes \subseteq 1 .. nextEventID
      /\ UNCHANGED <<sub, handler>>
  BY PublishOpen DEF BusInv, BusTyped, EventsPublished, clientVars
<1>2. new.id = n /\ new.kind = pub[p].kind /\ pub[p] \in PublisherRec /\ pub[p].left = {}
  BY NewEventTyped DEF BusInv, BusTyped, PublishersPlaced, Placed, Publish
<1>3. notes' = IF new.kind \in Replayable THEN notes \cup {n} ELSE notes
  BY <1>2, PublishOpen DEF BusInv
<1>4. r.evt = new /\ r.left = subscribers /\ pub' = [pub EXCEPT ![p] = r] /\ pub \in [Processes -> PublisherRec]
  BY <1>2, PublishOpen DEF BusInv, BusTyped, PublisherRec
<1> HIDE DEF r
<1>5. /\ pub'[p].evt = new /\ pub'[p].left = subscribers
      /\ \A q \in Processes : q # p => pub'[q].evt = pub[q].evt /\ pub'[q].left = pub[q].left
  BY <1>4
<1>6. n \notin notes /\ \A m \in 0 .. nextEventID : n > m
  BY <1>1
<1> HIDE DEF n, new
<1> SUFFICES ASSUME NEW s \in Sessions, handler[s].at = "open", ~sub[s].closed PROVE EachInOneOf(s)'
  BY <1>1 DEF NotesDelivered
<1>7. EachInOneOf(s) /\ s \in subscribers
  BY DEF BusInv, NotesDelivered, Registered, SubscribersMatchStreams
<1>8. handler[s].due \subseteq notes /\ n > handler[s].born
  <2>1. handler[s].born \in 0 .. nextEventID /\ handler[s].due \subseteq notes
    BY <1>1 DEF BusInv, EventsPublished, ReplayPlaced, BusTyped, HandlerRec
  <2> QED BY <1>6, <2>1
<1>9. /\ InReplay(s)' = InReplay(s) /\ InQueue(s)' = InQueue(s) /\ InHand(s)' = InHand(s)
      /\ handler'[s].heard = handler[s].heard /\ sub'[s].queue = sub[s].queue
  BY <1>1 DEF InReplay, InQueue, InHand
<1>10. Promised(s) \subseteq notes
  BY <1>8 DEF Promised
<1>11. CASE new.kind \in Replayable
  <2>1. Promised(s)' = Promised(s) \cup {n}
    BY <1>1, <1>3, <1>8, <1>11 DEF Promised
  <2>2. BeingSent(s)' = BeingSent(s) \cup {n}
    BY <1>2, <1>5, <1>7, <1>11 DEF BeingSent
  <2> QED BY <1>6, <1>7, <1>9, <1>10, <2>1, <2>2 DEF EachInOneOf, SomewhereOnce, OneEach
<1>12. CASE new.kind \notin Replayable
  <2>1. Promised(s)' = Promised(s)
    BY <1>1, <1>3, <1>12 DEF Promised
  <2>2. BeingSent(s)' = BeingSent(s)
    BY <1>2, <1>5, <1>12 DEF BeingSent
  <2> QED BY <1>7, <1>9, <2>1, <2>2 DEF EachInOneOf, SomewhereOnce, OneEach
<1> QED BY <1>11, <1>12

LEMMA SendsDelivers ==
  ASSUME BusInv, NEW p \in Processes, NEW s \in Sessions, Sends(p, s)
  PROVE  NotesDelivered'
<1> DEFINE e == pub[p].evt  u == sub[s]
<1>1. /\ e \in Event /\ u \in SubscriberRec /\ sub'[s] = Sent(u, e) /\ s \in pub[p].left /\ pub[p].at = "sending"
      /\ \A t \in Sessions : t # s => sub'[t] = sub[t]
  BY SendsFacts, SendsPlaced DEF BusInv, BusTyped
<1>2. UNCHANGED <<notes, handler>>
  BY DEF Sends, historyVars
<1>3. \A q \in Processes : pub'[q].evt = pub[q].evt
  BY SendsFacts DEF BusInv
<1>4. \A q \in Processes : pub'[q].left = IF q = p THEN pub[q].left \ {s} ELSE pub[q].left
  BY SendsFacts DEF BusInv
<1> SUFFICES ASSUME NEW t \in Sessions, handler[t].at = "open", ~sub'[t].closed PROVE EachInOneOf(t)'
  BY <1>2 DEF NotesDelivered
<1>5. CASE t # s
  <2>1. EachInOneOf(t)
    BY <1>1, <1>5 DEF BusInv, NotesDelivered
  <2>2. BeingSent(t)' = BeingSent(t)
    <3>1. \A q \in Processes : t \in pub'[q].left <=> t \in pub[q].left
      BY <1>4, <1>5
    <3> QED BY <1>3, <3>1, SentFrame
  <2>3. InHand(t)' = InHand(t)
    BY <1>1, <1>5 DEF InHand
  <2> QED BY <1>1, <1>2, <1>5, <2>1, <2>2, <2>3, EachFrame
<1>6. CASE t = s
  <2>1. ~u.closed /\ ~Overflows(u, e)
    BY <1>1, <1>6, SentCloses
  <2>2. EachInOneOf(s)
    BY <1>6, <2>1 DEF BusInv, NotesDelivered
  <2>3. sub'[s].hand = u.hand
    BY <1>1, SentEvents
  <2>4. InHand(s)' = InHand(s)
    BY <2>3 DEF InHand
  <2>5. CASE e.kind \in Kinds
    <3>1. Sent(u, e) = [u EXCEPT !.latest[e.kind] = e, !.wake = TRUE]
      BY <2>1, <2>5 DEF Sent
    <3>2. sub'[s].queue = u.queue
      BY <1>1, <3>1 DEF SubscriberRec
    <3>3. BeingSent(s)' = BeingSent(s)
      <4>1. e.kind \notin Replayable
        BY <2>5, BusFacts
      <4>2. \A q \in Processes : (s \in pub'[q].left /\ pub'[q].evt.kind \in Replayable)
                                    <=> (s \in pub[q].left /\ pub[q].evt.kind \in Replayable)
        BY <1>3, <1>4, <4>1
      <4> QED BY <1>3, <4>2 DEF BeingSent
    <3> QED BY <1>2, <1>6, <2>2, <2>4, <3>2, <3>3, EachFrame
  <2>6. CASE e.kind \notin Kinds
    <3>1. e.kind \in Replayable
      BY <1>1, <2>6 DEF Event
    <3>2. Sent(u, e) = [u EXCEPT !.queue = Append(u.queue, e), !.wake = TRUE]
      BY <2>1, <2>6 DEF Sent
    <3>3. sub'[s].queue = Append(u.queue, e) /\ u.queue \in Seq(Event)
      BY <1>1, <3>2 DEF SubscriberRec
    <3>4. e.id \in BeingSent(s)
      BY <1>1, <3>1 DEF BeingSent
    <3>5. BeingSent(s)' = BeingSent(s) \ {e.id}
      <4>1. \A q \in Processes : s \in pub[q].left /\ q # p => pub[q].evt.id # e.id
        BY <1>1 DEF BusInv, PublishersPlaced, Placed
      <4>2. \A q \in Processes : s \in pub'[q].left <=> s \in pub[q].left /\ q # p
        BY <1>4
      <4>3. BeingSent(s)' = {pub[q].evt.id : q \in {q \in Processes : s \in pub[q].left /\ q # p /\ pub[q].evt.kind \in Replayable}}
        BY <1>3, <4>2 DEF BeingSent
      <4> QED BY <4>1, <4>3 DEF BeingSent
    <3>6. InQueue(s)' = InQueue(s) \cup {e.id}
      <4>1. ElementsOf(sub'[s].queue) = ElementsOf(u.queue) \cup {e}
        BY <1>1, <3>3, OneMore
      <4>2. InQueue(s)' = {d.id : d \in ElementsOf(sub'[s].queue)}
        BY DEF InQueue, ElementsOf
      <4> QED BY <4>1, <4>2, PlacesOf
    <3>7. OneEach(sub'[s].queue)
      <4>1. \A d \in ElementsOf(u.queue) : d.id # e.id
        BY <2>2, <3>4, PlacesOf DEF EachInOneOf, SomewhereOnce
      <4> QED BY <1>1, <2>2, <3>3, <4>1, OneMore DEF EachInOneOf
    <3>8. Promised(s)' = Promised(s) /\ InReplay(s)' = InReplay(s) /\ handler'[s].heard = handler[s].heard
      BY <1>2 DEF Promised, InReplay
    <3>9. EachInOneOf(s)'
      <4>1. SomewhereOnce(Promised(s), handler[s].heard, InReplay(s), InQueue(s), InHand(s), BeingSent(s))
        BY <2>2 DEF EachInOneOf
      <4>2. SomewhereOnce(Promised(s), handler[s].heard, InReplay(s), InQueue(s) \cup {e.id}, InHand(s), BeingSent(s) \ {e.id})
        BY <3>4, <4>1 DEF SomewhereOnce
      <4> QED BY <2>4, <3>5, <3>6, <3>7, <3>8, <4>2 DEF EachInOneOf, OneEach
    <3> QED BY <1>6, <3>9
  <2> QED BY <2>5, <2>6
<1> QED BY <1>5, <1>6

LEMMA HasSentDelivers ==
  ASSUME BusInv, NEW p \in Processes, HasSent(p)
  PROVE  NotesDelivered'
<1>1. Becomes(p, Continue(p)) /\ pub[p].at = "sending" /\ pub[p].left = {}
      /\ UNCHANGED <<notes, sub, handler>>
  BY DEF HasSent, Becomes, historyVars
<1>2. pub'[p] = Continue(p) /\ \A q \in Processes : q # p => pub'[q] = pub[q]
  BY <1>1 DEF BusInv, Becomes, BusTyped
<1>3. Continue(p).left = {}
  BY <1>1, ContinuePlaced DEF BusInv
<1> SUFFICES ASSUME NEW s \in Sessions, handler[s].at = "open", ~sub[s].closed PROVE EachInOneOf(s)'
  BY <1>1 DEF NotesDelivered
<1>4. BeingSent(s)' = BeingSent(s)
  <2>1. \A q \in Processes : s \in pub'[q].left <=> s \in pub[q].left
    BY <1>1, <1>2, <1>3
  <2>2. \A q \in Processes : s \in pub[q].left => pub'[q].evt = pub[q].evt
    BY <1>1, <1>2
  <2> QED BY <2>1, <2>2, SentFrame
<1>5. EachInOneOf(s) /\ InHand(s)' = InHand(s)
  BY <1>1 DEF BusInv, NotesDelivered, InHand
<1> QED BY <1>1, <1>4, <1>5, EachFrame

\* Closing the bus leaves no stream open.
LEMMA BusClosesDelivers ==
  ASSUME BusInv, BusCloses
  PROVE  NotesDelivered'
<1>1. \A s \in Sessions : handler'[s].at = "open" => sub'[s].closed
  <2> SUFFICES ASSUME NEW s \in Sessions, handler'[s].at = "open" PROVE sub'[s].closed
    OBVIOUS
  <2>1. handler[s].at = "open" /\ sub'[s] = IF s \in subscribers THEN [sub[s] EXCEPT !.closed = TRUE] ELSE sub[s]
    BY DEF BusCloses
  <2>2. sub[s] \in SubscriberRec
    BY DEF BusInv, BusTyped
  <2>3. s \in subscribers \/ sub[s].closed
    BY <2>1 DEF BusInv, Registered, SubscribersMatchStreams
  <2> QED BY <2>1, <2>2, <2>3 DEF SubscriberRec
<1> QED BY <1>1 DEF NotesDelivered

LEMMA RunnerDelivers ==
  ASSUME BusInv, NEW s \in Sessions, RunnerStep(s)
  PROVE  NotesDelivered'
<1>1. /\ UNCHANGED <<notes, handler, pub>>
      /\ \A t \in Sessions : t # s => sub'[t] = sub[t]
      /\ sub[s] \in SubscriberRec /\ sub'[s].closed = sub[s].closed
  BY RunnerFacts DEF BusInv, historyVars
<1>2. SUFFICES ASSUME handler[s].at = "open", ~sub[s].closed PROVE EachInOneOf(s)'
  BY <1>1, DeliveredFrame DEF BusInv
<1>3. EachInOneOf(s) /\ BeingSent(s)' = BeingSent(s) /\ RunnerPlaced(sub[s])
  BY <1>1, <1>2, SentFrame DEF BusInv, NotesDelivered, RunnersPlaced
<1>4. CASE RunnerWakes(s)
  <2> DEFINE v == [sub[s] EXCEPT !.wake = FALSE, !.run = "next"]
  <2>1. v.queue = sub[s].queue /\ v.hand = sub[s].hand /\ sub'[s] = v
    BY <1>1, <1>4, WakesFacts DEF SubscriberRec, BusInv
  <2> HIDE DEF v
  <2>2. InHand(s)' = InHand(s)
    BY <2>1 DEF InHand
  <2> QED BY <1>1, <1>3, <2>1, <2>2, EachFrame
<1>5. CASE RunnerEnds(s)
  BY <1>2, <1>5, EndsFacts DEF BusInv
<1>6. CASE RunnerTakes(s)
  <2> DEFINE u == sub[s]  v == sub'[s]  k == FirstOf(Pending(u))
  <2>1. u.queue \in Seq(Event) /\ u.hand = NoEvent
    BY <1>1, <1>3, <1>6, TakesFacts DEF BusInv, SubscriberRec, RunnerPlaced
  <2>2. InHand(s) = {}
    BY <2>1 DEF InHand
  <2>3. CASE u.queue # <<>> /\ v.hand = Head(u.queue) /\ v.queue = Tail(u.queue)
    <3> DEFINE e == Head(u.queue)
    <3>1. /\ e \in ElementsOf(u.queue) /\ ElementsOf(u.queue) = {e} \cup ElementsOf(Tail(u.queue))
          /\ OneEach(Tail(u.queue)) /\ \A d \in ElementsOf(Tail(u.queue)) : e.id # d.id /\ e \in Event
      BY <1>3, <2>1, <2>3, RestOf DEF EachInOneOf
    <3>2. e \in Event /\ e # NoEvent /\ e.kind \in Replayable
      <4>1. e \in Event /\ \E i \in DOMAIN u.queue : e = u.queue[i]
        BY <2>1, <2>3, <3>1 DEF ElementsOf
      <4> QED BY <1>3, <4>1, BusFacts DEF RunnerPlaced
    <3>3. InHand(s)' = {e.id}
      BY <2>3, <3>2 DEF InHand
    <3>4. InQueue(s)' = {d.id : d \in ElementsOf(Tail(u.queue))}
      BY <2>3 DEF InQueue, ElementsOf
    <3>5. InQueue(s) = {e.id} \cup InQueue(s)' /\ e.id \notin InQueue(s)'
      BY <3>1, <3>4, PlacesOf
    <3>6. Promised(s)' = Promised(s) /\ InReplay(s)' = InReplay(s) /\ handler'[s].heard = handler[s].heard
      BY <1>1 DEF Promised, InReplay
    <3>7. OneEach(sub'[s].queue)
      BY <2>3, <3>1
    <3> HIDE DEF e
    <3>8. SomewhereOnce(Promised(s), handler[s].heard, InReplay(s), InQueue(s)', {e.id}, BeingSent(s))
      BY <1>3, <2>2, <3>5 DEF EachInOneOf, SomewhereOnce
    <3> QED BY <1>3, <3>3, <3>6, <3>7, <3>8 DEF EachInOneOf, OneEach
  <2>4. CASE k \in Pending(u) /\ v.hand = u.latest[k] /\ v.queue = u.queue
    <3>1. k \in Kinds /\ u.latest[k] # NoEvent /\ u.latest[k].kind = k
      BY <1>3, <2>4 DEF Pending, RunnerPlaced
    <3>2. v.hand.kind \notin Replayable
      BY <2>4, <3>1, BusFacts
    <3>3. InHand(s)' = InHand(s)
      BY <2>2, <3>2 DEF InHand
    <3> QED BY <1>1, <1>3, <2>4, <3>3, EachFrame
  <2>5. CASE v.hand = u.hand /\ v.queue = u.queue
    <3>1. InHand(s)' = InHand(s)
      BY <2>5 DEF InHand
    <3> QED BY <1>1, <1>3, <2>5, <3>1, EachFrame
  <2> QED BY <1>6, <2>3, <2>4, <2>5, TakesFacts DEF BusInv
<1> QED BY <1>4, <1>5, <1>6 DEF RunnerStep

LEMMA HandlerDelivers ==
  ASSUME BusInv, NEW s \in Sessions, HandlerNext(s)
  PROVE  NotesDelivered'
<1>1. /\ UNCHANGED <<notes, pub>>
      /\ \A t \in Sessions : t # s => sub'[t] = sub[t] /\ handler'[t] = handler[t]
      /\ (sub[s].closed => sub'[s].closed)
  BY HandlerFacts DEF BusInv
<1>2. SUFFICES ASSUME handler'[s].at = "open", ~sub'[s].closed PROVE EachInOneOf(s)'
  BY <1>1, DeliveredFrame DEF BusInv
<1>3. /\ sub[s] \in SubscriberRec /\ handler[s] \in HandlerRec /\ sub \in [Sessions -> SubscriberRec]
      /\ handler \in [Sessions -> HandlerRec] /\ RunnerPlaced(sub[s]) /\ ReplayPlaced(handler[s])
      /\ BeingSent(s)' = BeingSent(s)
  BY <1>1, SentFrame DEF BusInv, BusTyped, RunnersPlaced, EventsPublished
<1>4. CASE HandlerGreets(s)
  <2>1. handler'[s] = [handler[s] EXCEPT !.hello = @ \ {FirstOf(handler[s].hello)}] /\ sub' = sub
        /\ handler[s].at = "open"
    BY <1>3, <1>4 DEF HandlerGreets
  <2>2. /\ handler'[s].replay = handler[s].replay /\ handler'[s].born = handler[s].born
        /\ handler'[s].due = handler[s].due /\ handler'[s].heard = handler[s].heard
    BY <1>3, <2>1 DEF HandlerRec
  <2>3. EachInOneOf(s) /\ InHand(s)' = InHand(s)
    BY <1>2, <2>1 DEF BusInv, NotesDelivered, InHand
  <2> QED BY <1>1, <1>3, <2>1, <2>2, <2>3, EachFrame
<1>5. CASE HandlerReplays(s)
  <2> DEFINE q == handler[s].replay  e == Head(q)  h == Taken(handler[s], e)
  <2>1. q \in Seq(Event) /\ q # <<>> /\ handler'[s] = [h EXCEPT !.replay = Tail(q)] /\ sub' = sub /\ handler[s].at = "open"
    BY <1>3, <1>5 DEF HandlerReplays, HandlerRec
  <2>2. EachInOneOf(s)
    BY <1>2, <2>1 DEF BusInv, NotesDelivered
  <2>3. /\ e \in ElementsOf(q) /\ ElementsOf(q) = {e} \cup ElementsOf(Tail(q))
        /\ \A d \in ElementsOf(Tail(q)) : e.id < d.id
    BY <1>3, <2>1, RestOf DEF ReplayPlaced
  <2>4. e.kind \in Replayable
    BY <1>3, <2>3 DEF ReplayPlaced
  <2>5. /\ handler'[s].replay = Tail(q) /\ handler'[s].born = handler[s].born /\ handler'[s].due = handler[s].due
        /\ handler'[s].heard = handler[s].heard \cup {e.id}
    BY <1>3, <2>1, <2>4 DEF HandlerRec, Taken
  <2> HIDE DEF h
  <2>6. InReplay(s)' = {d.id : d \in ElementsOf(Tail(q))}
    BY <2>5 DEF InReplay, ElementsOf
  <2>7. \A d \in ElementsOf(Tail(q)) : e.id # d.id
    <3>1. \A d \in ElementsOf(q) : d \in Event
      BY <2>1 DEF ElementsOf
    <3>2. \A d \in ElementsOf(q) : d.id \in Nat
      BY <3>1 DEF Event
    <3> QED BY <2>3, <3>2
  <2>8. InReplay(s) = {e.id} \cup InReplay(s)' /\ e.id \notin InReplay(s)'
    BY <2>3, <2>6, <2>7, PlacesOf
  <2>9. /\ Promised(s)' = Promised(s) /\ InQueue(s)' = InQueue(s) /\ InHand(s)' = InHand(s)
        /\ sub'[s].queue = sub[s].queue
    BY <1>1, <2>1, <2>5 DEF Promised, InQueue, InHand
  <2> HIDE DEF e, q
  <2>10. SomewhereOnce(Promised(s), handler[s].heard \cup {e.id}, InReplay(s)', InQueue(s), InHand(s), BeingSent(s))
    BY <2>2, <2>8 DEF EachInOneOf, SomewhereOnce
  <2> QED BY <1>3, <2>2, <2>5, <2>9, <2>10 DEF EachInOneOf, OneEach
<1>6. CASE HandlerReceives(s)
  <2> DEFINE e == sub[s].hand
  <2>1. /\ e # NoEvent /\ handler[s].at = "open"
        /\ sub'[s] = [sub[s] EXCEPT !.run = "next", !.hand = NoEvent]
        /\ handler'[s] = Taken(handler[s], e) \/ handler'[s] = [NoHandler EXCEPT !.at = "leaving"]
    BY <1>3, <1>6 DEF HandlerReceives, RunnerPlaced, Streams
  <2>2. handler'[s] = Taken(handler[s], e)
    BY <1>2, <2>1 DEF NoHandler
  <2>3. sub'[s].queue = sub[s].queue /\ sub'[s].hand = NoEvent /\ ~sub[s].closed
    BY <1>1, <1>2, <1>3, <2>1 DEF SubscriberRec
  <2>4. EachInOneOf(s)
    BY <2>1, <2>3 DEF BusInv, NotesDelivered
  <2>5. InHand(s)' = {} /\ InQueue(s)' = InQueue(s)
    BY <2>3 DEF InHand, InQueue
  <2>6. /\ handler'[s].replay = handler[s].replay /\ handler'[s].born = handler[s].born
        /\ handler'[s].due = handler[s].due
        /\ handler'[s].heard = IF e.kind \in Replayable THEN handler[s].heard \cup {e.id} ELSE handler[s].heard
    BY <1>3, <2>2 DEF HandlerRec, Taken
  <2>7. handler'[s].heard = handler[s].heard \cup InHand(s)
    BY <2>1, <2>6 DEF InHand
  <2>8. Promised(s)' = Promised(s) /\ InReplay(s)' = InReplay(s)
    BY <1>1, <2>6 DEF Promised, InReplay
  <2>9. SomewhereOnce(Promised(s), handler[s].heard \cup InHand(s), InReplay(s), InQueue(s), {}, BeingSent(s))
    BY <2>4 DEF EachInOneOf, SomewhereOnce
  <2> QED BY <1>3, <2>3, <2>4, <2>5, <2>7, <2>8, <2>9 DEF EachInOneOf, OneEach
<1>7. CASE HandlerLeaves(s)
  <2>1. PICK a \in {"leaving", "closing", "gone"} : HandlerStep(s, a)
    BY <1>7 DEF HandlerLeaves, HandlerSeesEnd, HandlerSeesDrop, HandlerUnsubscribes, HandlerCloses
  <2>2. handler'[s].at = a
    BY <1>3, <2>1 DEF HandlerStep, NoHandler
  <2> QED BY <1>2, <2>2
<1> QED BY <1>4, <1>5, <1>6, <1>7 DEF HandlerNext, HandlerLeaves

LEMMA ConnectsDelivers ==
  ASSUME BusInv, NEW c \in Clients, Connects(c)
  PROVE  NotesDelivered'
<1>0. PICK s \in Sessions : s = NewSession(c)
  BY ConnectsTyped DEF BusInv
<1>1. s \in Sessions /\ sub[s] = Unused
  BY <1>0, ConnectsTyped DEF BusInv
<1>2. /\ sub'[s] = [Unused EXCEPT !.run = "wait", !.closed = busClosed] /\ handler'[s] = NewHandler(c)
      /\ \A t \in Sessions : t # s => sub'[t] = sub[t] /\ handler'[t] = handler[t]
  BY <1>0, <1>1, ConnectsSession DEF BusInv, BusTyped
<1>3. UNCHANGED <<notes, pub>>
  BY ConnectsCounts
<1>4. sub'[s].closed = busClosed /\ sub'[s].queue = <<>> /\ sub'[s].hand = NoEvent
  BY <1>2 DEF Unused
<1>5. /\ handler'[s].replay = Replay(c) /\ handler'[s].born = nextEventID /\ handler'[s].heard = {}
      /\ handler'[s].due = IF lastEventID[c] = 0 \/ busClosed THEN {} ELSE {n \in notes \ Forgotten : n > lastEventID[c]}
  BY <1>2 DEF NewHandler
<1>6. ASSUME ~busClosed PROVE EachInOneOf(s)'
  <2>1. InReplay(s)' = {e.id : e \in ElementsOf(Replay(c))}
    BY <1>5 DEF InReplay, ElementsOf
  <2>2. handler'[s].due = {e.id : e \in ElementsOf(Replay(c))}
    <3>1. {replayHistory[i].id : i \in DOMAIN replayHistory} = {e.id : e \in ElementsOf(replayHistory)}
      BY DEF ElementsOf
    <3>2. \A e \in ElementsOf(replayHistory) : e.id \in notes
      BY DEF BusInv, EventsPublished, Published
    <3>3. notes \ Forgotten = {e.id : e \in ElementsOf(replayHistory)}
      BY <3>1, <3>2 DEF Forgotten
    <3>4. CASE lastEventID[c] = 0
      BY <1>5, <3>4, ReplayFacts DEF BusInv
    <3>5. CASE lastEventID[c] # 0
      <4>1. ElementsOf(Replay(c)) = {e \in ElementsOf(replayHistory) : e.id > lastEventID[c]}
        BY <1>6, <3>5, ReplayFacts DEF BusInv
      <4> QED BY <1>5, <1>6, <3>3, <3>5, <4>1
    <3> QED BY <3>4, <3>5
  <2>3. Promised(s)' = handler'[s].due
    <3>1. \A n \in notes : ~(n > nextEventID)
      <4>1. notes \subseteq 1 .. nextEventID /\ nextEventID \in Nat
        BY DEF BusInv, BusTyped, EventsPublished
      <4> QED BY <4>1
    <3> QED BY <1>3, <1>5, <3>1 DEF Promised
  <2>4. InQueue(s)' = {} /\ InHand(s)' = {} /\ OneEach(sub'[s].queue)
    BY <1>4 DEF InQueue, InHand, OneEach
  <2>5. BeingSent(s)' = {}
    <3>1. used[c] \in Nat /\ s[1] = c /\ s[2] = used[c] + 1
      BY <1>0, EventBusAssumption DEF BusInv, BusTyped, NewSession
    <3>2. \A q \in Processes : s \notin pub[q].left
      <4>1. used[s[1]] < s[2]
        BY <3>1
      <4> QED BY <1>1, <4>1 DEF BusInv, FreshSessions
    <3> QED BY <1>3, <3>2 DEF BeingSent
  <2> QED BY <1>5, <2>1, <2>2, <2>3, <2>4, <2>5 DEF EachInOneOf, SomewhereOnce, OneEach
<1> QED BY <1>1, <1>2, <1>3, <1>4, <1>6, DeliveredFrame DEF BusInv

-----------------------------------------------------------------------------
(* The farewell, and the induction.                                        *)

\* A step after which nobody has taken more notes than before.
LEMMA FarewellFrame ==
  ASSUME FarewellEnds, pub'[Server].evt = pub[Server].evt,
         \A s \in Sessions : handler'[s].at = "open" /\ handler'[s].heard # {} =>
           handler[s].at = "open" /\ handler'[s].born = handler[s].born /\ handler'[s].heard \subseteq handler[s].heard
  PROVE  FarewellEnds'
BY DEF FarewellEnds

LEMMA PublishFarewell ==
  ASSUME BusInv, NEW p \in Processes, Publish(p), ~busClosed
  PROVE  FarewellEnds'
<1> DEFINE r == [pub[p] EXCEPT !.at = "sending", !.evt = NewEvent(p), !.left = subscribers, !.over = {}]
<1>1. /\ pub' = [pub EXCEPT ![p] = r] /\ handler' = handler /\ pub[p] \in PublisherRec
      /\ pub \in [Processes -> PublisherRec] /\ NewEvent(p).id = nextEventID + 1 /\ nextEventID \in Nat
  BY PublishOpen, NewEventTyped DEF BusInv, BusTyped
<1>2. r.evt = NewEvent(p)
  BY <1>1 DEF PublisherRec
<1> HIDE DEF r
<1>3. CASE p = Server
  <2>1. pub'[Server].evt.id = nextEventID + 1
    BY <1>1, <1>2, <1>3
  <2>2. \A s \in Sessions : \A n \in handler[s].heard : n \in 1 .. nextEventID
    BY DEF BusInv, EventsPublished, ReplayPlaced
  <2>3. \A s \in Sessions : nextEventID + 1 \notin handler[s].heard
    BY <1>1, <2>2
  <2> QED BY <1>1, <2>1, <2>3 DEF FarewellEnds
<1>4. CASE p # Server
  <2>1. pub'[Server].evt = pub[Server].evt
    BY <1>1, <1>4, BusFacts
  <2> QED BY <1>1, <2>1, FarewellFrame DEF BusInv
<1> QED BY <1>3, <1>4

LEMMA HandlerFarewell ==
  ASSUME BusInv, NEW s \in Sessions, HandlerNext(s)
  PROVE  FarewellEnds'
<1>1. pub' = pub /\ \A t \in Sessions : t # s => sub'[t] = sub[t] /\ handler'[t] = handler[t]
  BY HandlerFacts DEF BusInv
<1>2. /\ sub[s] \in SubscriberRec /\ handler[s] \in HandlerRec /\ handler \in [Sessions -> HandlerRec]
      /\ RunnerPlaced(sub[s]) /\ ReplayPlaced(handler[s])
      /\ \A e \in Events(s) : Published(e)
  BY DEF BusInv, BusTyped, RunnersPlaced, EventsPublished
<1>3. CASE HandlerGreets(s)
  <2>1. handler'[s] = [handler[s] EXCEPT !.hello = @ \ {FirstOf(handler[s].hello)}]
    BY <1>2, <1>3 DEF HandlerGreets
  <2>2. handler'[s].at = handler[s].at /\ handler'[s].born = handler[s].born /\ handler'[s].heard = handler[s].heard
    BY <1>2, <2>1 DEF HandlerRec
  <2> QED BY <1>1, <2>2, FarewellFrame DEF BusInv
<1>4. CASE HandlerReplays(s)
  <2> DEFINE q == handler[s].replay  e == Head(q)  h == Taken(handler[s], e)
  <2>1. q \in Seq(Event) /\ q # <<>> /\ handler'[s] = [h EXCEPT !.replay = Tail(q)] /\ handler[s].at = "open"
    BY <1>2, <1>4 DEF HandlerReplays, HandlerRec
  <2>2. /\ handler'[s].at = handler[s].at /\ handler'[s].born = handler[s].born
        /\ handler'[s].heard \subseteq handler[s].heard \cup {e.id}
    BY <1>2, <2>1 DEF HandlerRec, Taken
  <2>3. e \in ElementsOf(q) /\ e \in Event
    BY <2>1, RestOf
  <2>4. e.id <= handler[s].born /\ e.id \in Nat /\ handler[s].born \in Nat
    BY <1>2, <2>3 DEF ReplayPlaced, Event, HandlerRec
  <2>5. pub[Server].evt # NoEvent => pub[Server].evt.id \in Nat
    BY BusFacts DEF BusInv, EventsPublished, Published
  <2>6. pub[Server].evt # NoEvent /\ handler[s].born < pub[Server].evt.id => e.id # pub[Server].evt.id
    BY <2>4, <2>5
  <2> HIDE DEF e, h, q
  <2> QED BY <1>1, <2>1, <2>2, <2>6 DEF BusInv, FarewellEnds
<1>5. CASE HandlerReceives(s)
  <2> DEFINE e == sub[s].hand
  <2>1. /\ e # NoEvent /\ handler[s].at = "open"
        /\ handler'[s] = IF e.kind = "server_shutdown" THEN [NoHandler EXCEPT !.at = "leaving"] ELSE Taken(handler[s], e)
    BY <1>2, <1>5 DEF HandlerReceives, RunnerPlaced, Streams
  <2>2. CASE e.kind = "server_shutdown"
    <3>1. handler'[s].at = "leaving"
      BY <2>1, <2>2 DEF NoHandler
    <3> QED BY <1>1, <3>1, FarewellFrame DEF BusInv
  <2>3. CASE e.kind # "server_shutdown"
    <3>1. handler'[s] = Taken(handler[s], e)
      BY <2>1, <2>3
    <3>2. /\ handler'[s].at = handler[s].at /\ handler'[s].born = handler[s].born
          /\ handler'[s].heard \subseteq handler[s].heard \cup {e.id}
      BY <1>2, <3>1 DEF HandlerRec, Taken
    <3>3. Published(e)
      BY <1>2, <2>1 DEF Events, SubEvents
    <3>4. pub[Server].evt # NoEvent => e.id # pub[Server].evt.id
      BY <2>3, <3>3 DEF Published
    <3> HIDE DEF e
    <3> QED BY <1>1, <2>1, <3>2, <3>4 DEF BusInv, FarewellEnds
  <2> QED BY <2>2, <2>3
<1>6. CASE HandlerLeaves(s)
  <2>1. PICK a : HandlerStep(s, a)
    BY <1>6 DEF HandlerLeaves, HandlerSeesEnd, HandlerSeesDrop, HandlerUnsubscribes, HandlerCloses
  <2>2. handler'[s].heard = {}
    BY <1>2, <2>1 DEF HandlerStep, NoHandler
  <2> QED BY <1>1, <2>2, FarewellFrame DEF BusInv
<1> QED BY <1>3, <1>4, <1>5, <1>6 DEF HandlerNext, HandlerLeaves

LEMMA BusInit ==
  ASSUME Init
  PROVE  BusInv
<1> DEFINE first(p) == [Resting(p) EXCEPT !.at = "idle"]
<1>1. \A p \in Processes :
        /\ first(p) \in PublisherRec /\ first(p).at = "idle" /\ first(p).left = {} /\ first(p).over = {}
        /\ first(p).evt = NoEvent /\ ~first(p).note
  BY BusFacts DEF PublisherRec, Resting
<1>2. pub \in [Processes -> PublisherRec] /\ \A p \in Processes :
        pub[p].at = "idle" /\ pub[p].left = {} /\ pub[p].over = {} /\ pub[p].evt = NoEvent /\ ~pub[p].note
  <2>1. pub = [p \in Processes |-> first(p)]
    BY DEF Init
  <2> HIDE DEF first
  <2> QED BY <1>1, <2>1
<1>3. /\ \A s \in Sessions : sub[s] = Unused /\ handler[s] = NoHandler
      /\ sub \in [Sessions -> SubscriberRec] /\ handler \in [Sessions -> HandlerRec]
  BY BusFacts DEF Init
<1>4. BusTyped
  <2>1. \A s \in Sessions : Len(sub[s].queue) <= QueueLimit
    <3>1. \A s \in Sessions : sub[s].queue = <<>>
      BY <1>3 DEF Unused
    <3> QED BY <3>1, EventBusAssumption
  <2>2. version \in [Kinds -> 0 .. MaxChanges] /\ used \in [Clients -> 0 .. MaxSessions]
    BY EventBusAssumption DEF Init
  <2>3. replayHistory \in Seq(Event) /\ Len(replayHistory) <= ReplayLimit
    <3>1. replayHistory = <<>>
      BY DEF Init
    <3> QED BY <3>1, EventBusAssumption
  <2>4. \A c \in Clients : linked[c] <= used[c]
    BY DEF Init
  <2> QED BY <1>2, <1>3, <2>1, <2>2, <2>3, <2>4 DEF Init, BusTyped
<1>5. PublishersPlaced
  BY <1>2 DEF PublishersPlaced, Placed
<1>6. FreshSessions
  BY <1>2, <1>3 DEF Init, FreshSessions
<1>7. RunnersPlaced
  BY <1>3 DEF RunnersPlaced, RunnerPlaced, Unused
<1>8. Registered
  BY <1>3 DEF Init, Registered, SubscribersMatchStreams, NoHandler
<1>9. EventsPublished
  <2>1. \A s \in Sessions : Events(s) = {}
    BY <1>3 DEF Events, SubEvents, ElementsOf, Unused, NoHandler
  <2>2. \A s \in Sessions : ReplayPlaced(handler[s])
    BY <1>3 DEF Init, ReplayPlaced, NoHandler, Increasing, ElementsOf
  <2>3. ElementsOf(replayHistory) = {} /\ Increasing(replayHistory)
    BY DEF Init, ElementsOf, Increasing
  <2>4. notes \subseteq 1 .. nextEventID /\ \A c \in Clients : lastEventID[c] <= nextEventID
    BY DEF Init
  <2> QED BY <1>2, <2>1, <2>2, <2>3, <2>4, BusFacts DEF EventsPublished
<1>10. NotesDelivered
  BY <1>3 DEF NotesDelivered, NoHandler
<1>11. FarewellEnds
  BY <1>2, BusFacts DEF FarewellEnds
<1> QED BY <1>4, <1>5, <1>6, <1>7, <1>8, <1>9, <1>10, <1>11 DEF BusInv

LEMMA StillInductive ==
  ASSUME BusInv, StandsStill, BusTyped', PublishersPlaced'
  PROVE  BusInv'
BY StillKeeps DEF BusInv

LEMMA BusStep ==
  ASSUME BusInv, [Next]_vars
  PROVE  BusInv'
<1> USE DEF BusInv
<1>1. ASSUME NEW p \in Publishers, NEW k \in Kinds, NEW note \in Endings, Changes(p, k, note) PROVE BusInv'
  <2>1. p \in Processes
    BY DEF Processes
  <2>2. Prepares(p) /\ BusTyped'
    BY <1>1, <2>1, ChangesPrepares, ChangesTyped, Zenon
  <2> HIDE <1>1
  <2> QED BY <2>1, <2>2, PreparesStill, PreparesPlaced, StillInductive
<1>2. ASSUME NEW p \in Processes, Copies(p) PROVE BusInv'
  <2>1. Prepares(p) /\ BusTyped'
    BY <1>2, CopiesPrepares, CopiesTyped
  <2> QED BY <2>1, PreparesStill, PreparesPlaced, StillInductive
<1>3. ASSUME NEW p \in Processes, Publish(p) PROVE BusInv'
  <2>1. BusTyped' /\ PublishersPlaced'
    BY <1>3, PublishTyped, PublishPlaced
  <2>2. CASE busClosed
    BY <1>3, <2>1, <2>2, PublishClosedStill, StillInductive
  <2>3. CASE ~busClosed
    <3>1. Registered' /\ FreshSessions'
      BY <1>3, <2>3, PublishRegistered
    <3>2. EventsPublished'
      BY <1>3, <2>3, PublishEvents
    <3>3. NotesDelivered' /\ FarewellEnds'
      BY <1>3, <2>3, PublishDelivers, PublishFarewell
    <3>4. RunnersPlaced'
      <4>1. sub' = sub
        BY <1>3 DEF Publish
      <4> QED BY <4>1 DEF RunnersPlaced
    <3> QED BY <2>1, <3>1, <3>2, <3>3, <3>4
  <2> QED BY <2>2, <2>3
<1>4. ASSUME NEW p \in Processes, NEW s \in Sessions, Sends(p, s) PROVE BusInv'
  <2>1. BusTyped' /\ PublishersPlaced'
    BY <1>4, SendsTyped, SendsPlaced
  <2>2. Registered' /\ FreshSessions' /\ RunnersPlaced'
    BY <1>4, SendsRegistered, SendsRunners
  <2>3. EventsPublished' /\ NotesDelivered'
    BY <1>4, SendsEvents, SendsDelivers
  <2>4. FarewellEnds'
    <3>1. pub'[Server].evt = pub[Server].evt
      BY <1>4, SendsFacts, BusFacts
    <3>2. handler' = handler
      BY <1>4 DEF Sends
    <3> QED BY <3>1, <3>2, FarewellFrame
  <2> QED BY <2>1, <2>2, <2>3, <2>4
<1>5. ASSUME NEW p \in Processes, HasSent(p) PROVE BusInv'
  <2>1. BusTyped' /\ PublishersPlaced'
    BY <1>5, HasSentTyped, HasSentPlaced
  <2>2. Registered' /\ FreshSessions' /\ EventsPublished' /\ NotesDelivered'
    BY <1>5, HasSentRegistered, HasSentEvents, HasSentDelivers
  <2>3. Becomes(p, Continue(p)) /\ sub' = sub /\ handler' = handler /\ pub[p].at = "sending"
    BY <1>5 DEF HasSent, Becomes
  <2>4. RunnersPlaced'
    BY <2>3 DEF RunnersPlaced
  <2>5. FarewellEnds'
    <3>1. pub'[Server].evt = pub[Server].evt
      <4>1. p = Server => Continue(p).evt = pub[p].evt
        BY <2>3, ContinuePlaced
      <4> QED BY <2>3, <4>1, BusFacts DEF Becomes, BusTyped
    <3> QED BY <2>3, <3>1, FarewellFrame
  <2> QED BY <2>1, <2>2, <2>4, <2>5
<1>6. CASE ShutdownAnnounces
  <2>1. Prepares(Server) /\ BusTyped' /\ Server \in Processes
    BY <1>6, ShutdownPrepares, ShutdownTyped, BusFacts
  <2> QED BY <2>1, PreparesStill, PreparesPlaced, StillInductive
<1>7. CASE BusCloses
  <2>1. BusTyped' /\ PublishersPlaced' /\ Registered' /\ FreshSessions'
    BY <1>7, ShutdownTyped, BusClosesPlaced, BusClosesRegistered
  <2>2. RunnersPlaced' /\ EventsPublished' /\ NotesDelivered'
    BY <1>7, BusClosesRunners, BusClosesEvents, BusClosesDelivers
  <2>3. FarewellEnds'
    <3>1. pub' = pub /\ handler' = handler
      BY <1>7 DEF BusCloses
    <3> QED BY <3>1, FarewellFrame
  <2> QED BY <2>1, <2>2, <2>3
<1>8. ASSUME NEW s \in Sessions, RunnerStep(s) PROVE BusInv'
  <2>1. BusTyped' /\ Registered' /\ FreshSessions' /\ RunnersPlaced'
    BY <1>8, RunnerTyped, RunnerRegistered, RunnerStepPlaced
  <2>2. EventsPublished' /\ NotesDelivered'
    BY <1>8, RunnerEvents, RunnerDelivers
  <2>3. pub' = pub /\ handler' = handler /\ StaysClosed
    BY <1>8, RunnerFacts DEF StaysClosed
  <2>4. PublishersPlaced' /\ FarewellEnds'
    BY <2>3, PlacedFrame, FarewellFrame
  <2> QED BY <2>1, <2>2, <2>4
<1>9. ASSUME NEW s \in Sessions, HandlerNext(s) PROVE BusInv'
  <2>1. BusTyped'
    BY <1>9, GreetsTyped, ReplaysTyped, ReceivesTyped, HandlerLeavesTyped DEF HandlerNext, HandlerLeaves
  <2>2. Registered' /\ FreshSessions' /\ RunnersPlaced'
    BY <1>9, HandlerRegistered, HandlerRunners
  <2>3. EventsPublished' /\ NotesDelivered' /\ FarewellEnds'
    BY <1>9, HandlerEvents, HandlerDelivers, HandlerFarewell
  <2>4. PublishersPlaced'
    <3>1. pub' = pub /\ StaysClosed
      BY <1>9, HandlerFacts DEF StaysClosed
    <3> QED BY <3>1, PlacedFrame
  <2> QED BY <2>1, <2>2, <2>3, <2>4
<1>10. ASSUME NEW c \in Clients, Connects(c) PROVE BusInv'
  <2>1. /\ BusTyped' /\ NewSession(c) \in Sessions /\ sub[NewSession(c)] = Unused
        /\ handler' = [handler EXCEPT ![NewSession(c)] = NewHandler(c)]
        /\ sub' = [sub EXCEPT ![NewSession(c)] = [sub[NewSession(c)] EXCEPT !.run = "wait", !.closed = busClosed]]
    BY <1>10, ConnectsTyped, ConnectsSession
  <2>2. Registered' /\ FreshSessions' /\ RunnersPlaced'
    BY <1>10, ConnectsRegistered, ConnectsRunners
  <2>3. EventsPublished' /\ NotesDelivered'
    BY <1>10, ConnectsEvents, ConnectsDelivers
  <2>4. pub' = pub
    BY <1>10, ConnectsCounts
  <2>5. PublishersPlaced'
    <3>1. StaysClosed
      BY <2>1 DEF StaysClosed, Unused, BusTyped
    <3> QED BY <2>4, <3>1, PlacedFrame
  <2>6. FarewellEnds'
    <3>1. \A s \in Sessions : s # NewSession(c) => handler'[s] = handler[s]
      BY <2>1 DEF BusTyped
    <3>2. handler'[NewSession(c)].heard = {}
      BY <2>1 DEF BusTyped, NewHandler
    <3> QED BY <2>4, <3>1, <3>2, FarewellFrame
  <2> QED BY <2>1, <2>2, <2>3, <2>5, <2>6
<1>11. ASSUME NEW c \in Clients, Drops(c) PROVE BusInv'
  <2>1. BusTyped' /\ StandsStill
    BY <1>11, DropsTyped, DropsStill
  <2>2. PublishersPlaced'
    <3>1. pub' = pub /\ StaysClosed
      BY <1>11 DEF Drops, StaysClosed
    <3> QED BY <3>1, PlacedFrame
  <2> QED BY <2>1, <2>2, StillInductive
<1>12. CASE UNCHANGED vars
  <2>1. StandsStill
    BY <1>12 DEF StandsStill, vars, busVars, clientVars, historyVars, Announced
  <2>2. BusTyped'
    BY <1>12 DEF BusTyped, vars, busVars, clientVars, historyVars
  <2>3. PublishersPlaced'
    <3>1. pub' = pub /\ StaysClosed
      BY <1>12 DEF StaysClosed, vars
    <3> QED BY <3>1, PlacedFrame
  <2> QED BY <2>1, <2>2, <2>3, StillInductive
<1> HIDE DEF BusInv
<1>13. ASSUME NEW p \in Processes, PublisherStep(p) PROVE BusInv'
  BY <1>2, <1>3, <1>4, <1>5, <1>13 DEF PublisherStep
<1>14. CASE \E p \in Publishers, k \in Kinds, note \in Endings : Changes(p, k, note)
  BY <1>1, <1>14, Zenon
<1> QED BY <1>6, <1>7, <1>8, <1>9, <1>10, <1>11, <1>12, <1>13, <1>14, Zenon DEF Next

(* The inductive invariant of the bus, for any clients, publishers, limits   *)
(* and notes: whatever EventBus.Publish, Subscribe, Close and AnnounceShutdown *)
(* and the handlers of the streams do, in any order, the registry, the queues, *)
(* the histories and the publishers' places fit together.                    *)
THEOREM BusInvariant == Spec => []BusInv
<1>1. Init => BusInv
  BY BusInit
<1>2. BusInv /\ [Next]_vars => BusInv'
  BY BusStep
<1> QED BY <1>1, <1>2, PTL DEF Spec

-----------------------------------------------------------------------------
(* What follows from it.                                                   *)

LEMMA BusTypesFollow == BusInv => TypeOK
<1>1. ASSUME BusTyped PROVE TypeOK
  <2>1. \A s \in Sessions :
           /\ sub[s].closed \in BOOLEAN /\ sub[s].wake \in BOOLEAN
           /\ sub[s].queue \in Seq(Event) /\ Len(sub[s].queue) <= QueueLimit
           /\ sub[s].latest \in [Kinds -> Event \cup {NoEvent}]
           /\ sub[s].run \in {"none", "wait", "next", "offer", "ended"}
           /\ sub[s].hand \in Event \cup {NoEvent}
    <3>1. TAKE s \in Sessions
    <3>2. sub[s] \in SubscriberRec /\ Len(sub[s].queue) <= QueueLimit
      BY <1>1 DEF BusTyped
    <3> QED BY <3>2 DEF SubscriberRec
  <2>2. \A s \in Sessions :
           /\ handler[s].at \in {"none", "open", "leaving", "closing", "gone"}
           /\ handler[s].hello \subseteq Kinds
           /\ handler[s].replay \in Seq(Event)
           /\ handler[s].born \in Nat /\ handler[s].due \subseteq Nat /\ handler[s].heard \subseteq Nat
    <3>1. TAKE s \in Sessions
    <3>2. handler[s] \in HandlerRec
      BY <1>1 DEF BusTyped
    <3> QED BY <3>2 DEF HandlerRec
  <2>3. \A c \in Clients :
           /\ linked[c] \in 0 .. used[c] /\ used[c] \in 0 .. MaxSessions
           /\ view[c] \in [Kinds -> Nat] /\ lastEventID[c] \in Nat
           /\ known[c] \subseteq Nat /\ base[c] \in Nat
    <3>1. TAKE c \in Clients
    <3>2. linked[c] \in Nat /\ used[c] \in 0 .. MaxSessions /\ linked[c] <= used[c]
      BY <1>1 DEF BusTyped
    <3>3. linked[c] \in 0 .. used[c]
      BY <3>2
    <3>4. view[c] \in [Kinds -> Nat] /\ lastEventID[c] \in Nat /\ known[c] \in SUBSET Nat /\ base[c] \in Nat
      BY <1>1 DEF BusTyped
    <3> QED BY <3>2, <3>3, <3>4
  <2>4. /\ version \in [Kinds -> 0 .. MaxChanges]
        /\ nextEventID \in Nat /\ busClosed \in BOOLEAN
        /\ replayHistory \in Seq(Event) /\ Len(replayHistory) <= ReplayLimit
        /\ subscribers \subseteq Sessions
        /\ pub \in [Processes -> PublisherRec]
        /\ notes \in SUBSET Nat
    BY <1>1 DEF BusTyped
  <2> QED BY <2>1, <2>2, <2>3, <2>4, Zenon DEF TypeOK, PublisherRec
<1>2. BusInv => BusTyped
  BY DEF BusInv
<1> QED BY <1>1, <1>2

\* The runs' type invariant: every component of every record has its type.
THEOREM BusTypeCorrect == Spec => []TypeOK
BY BusInvariant, BusTypesFollow, PTL

LEMMA RegistryFollows == BusInv => SubscribersMatchStreams
<1>1. BusInv => SubscribersMatchStreams
  BY DEF BusInv, Registered
<1> QED BY <1>1

\* The registry and the handlers agree: nobody is left registered without a
\* handler or open without being registered.
THEOREM StreamsMatch == Spec => []SubscribersMatchStreams
BY BusInvariant, RegistryFollows, PTL

LEMMA CountTwo ==
  ASSUME NEW A, NEW B, IsFiniteSet(A), IsFiniteSet(B), A \cap B = {}
  PROVE  IsFiniteSet(A \cup B) /\ Cardinality(A \cup B) = Cardinality(A) + Cardinality(B)
<1>1. IsFiniteSet(A \cup B)
      /\ Cardinality(A \cup B) = Cardinality(A) + Cardinality(B) - Cardinality(A \cap B)
  BY FS_Union
<1>2. Cardinality(A \cap B) = 0
  BY FS_EmptySet
<1>3. Cardinality(A) \in Nat /\ Cardinality(B) \in Nat
  BY FS_CardinalityType
<1> QED BY <1>1, <1>2, <1>3

\* Five finite sets that are apart count as the sum of the five.
LEMMA CountFive ==
  ASSUME NEW P, NEW A, NEW B, NEW C, NEW D, NEW E, IsFiniteSet(P), SomewhereOnce(P, A, B, C, D, E)
  PROVE  Cardinality(P) = Cardinality(A) + Cardinality(B) + Cardinality(C) + Cardinality(D) + Cardinality(E)
<1>1. IsFiniteSet(A) /\ IsFiniteSet(B) /\ IsFiniteSet(C) /\ IsFiniteSet(D) /\ IsFiniteSet(E)
  <2>1. A \subseteq P /\ B \subseteq P /\ C \subseteq P /\ D \subseteq P /\ E \subseteq P
    BY DEF SomewhereOnce
  <2> QED BY <2>1, FS_Subset
<1>2. IsFiniteSet(D \cup E) /\ Cardinality(D \cup E) = Cardinality(D) + Cardinality(E)
  BY <1>1, CountTwo DEF SomewhereOnce
<1>3. IsFiniteSet(C \cup (D \cup E)) /\ Cardinality(C \cup (D \cup E)) = Cardinality(C) + Cardinality(D \cup E)
  BY <1>1, <1>2, CountTwo DEF SomewhereOnce
<1>4. /\ IsFiniteSet(B \cup (C \cup (D \cup E)))
      /\ Cardinality(B \cup (C \cup (D \cup E))) = Cardinality(B) + Cardinality(C \cup (D \cup E))
  <2>1. B \cap (C \cup (D \cup E)) = {}
    BY DEF SomewhereOnce
  <2> QED BY <1>1, <1>3, <2>1, CountTwo
<1>5. Cardinality(A \cup (B \cup (C \cup (D \cup E)))) = Cardinality(A) + Cardinality(B \cup (C \cup (D \cup E)))
  <2>1. A \cap (B \cup (C \cup (D \cup E))) = {}
    BY DEF SomewhereOnce
  <2> QED BY <1>1, <1>4, <2>1, CountTwo
<1>6. P = A \cup (B \cup (C \cup (D \cup E)))
  BY DEF SomewhereOnce
<1>7. /\ Cardinality(A) \in Nat /\ Cardinality(B) \in Nat /\ Cardinality(C) \in Nat
      /\ Cardinality(D) \in Nat /\ Cardinality(E) \in Nat
  BY <1>1, FS_CardinalityType
<1> QED BY <1>2, <1>3, <1>4, <1>5, <1>6, <1>7

\* A queue of different IDs is as long as the set of its IDs.
LEMMA CountQueue ==
  ASSUME NEW q \in Seq(Event), OneEach(q)
  PROVE  Cardinality({q[i].id : i \in DOMAIN q}) = Len(q)
<1> DEFINE ids == {q[i].id : i \in DOMAIN q}
           f   == [i \in 1 .. Len(q) |-> q[i].id]
<1>1. Len(q) \in Nat /\ DOMAIN q = 1 .. Len(q)
  OBVIOUS
<1>2. f \in Bijection(1 .. Len(q), ids)
  <2>1. f \in [1 .. Len(q) -> ids]
    BY <1>1
  <2>2. \A a, b \in 1 .. Len(q) : f[a] = f[b] => a = b
    BY <1>1 DEF OneEach
  <2>3. \A t \in ids : \E a \in 1 .. Len(q) : f[a] = t
    BY <1>1
  <2> QED BY <2>1, <2>2, <2>3, Fun_IsBij
<1>3. IsFiniteSet(1 .. Len(q)) /\ Cardinality(1 .. Len(q)) = Len(q)
  <2>1. \A a, b \in Int : IsFiniteSet(a .. b) /\ Cardinality(a .. b) = IF a > b THEN 0 ELSE b - a + 1
    BY FS_Interval
  <2> QED BY <1>1, <2>1
<1>4. Cardinality(ids) = Cardinality(1 .. Len(q))
  <2>1. ExistsBijection(1 .. Len(q), ids)
    BY <1>2 DEF ExistsBijection
  <2> HIDE DEF ids
  <2> QED BY <1>3, <2>1, FS_Bijection
<1> QED BY <1>3, <1>4

LEMMA DeliveryFollows == BusInv => DeliveredOnce
<1>1. ASSUME BusInv PROVE DeliveredOnce
  <2>1. SUFFICES ASSUME NEW s \in Sessions, handler[s].at = "open", ~sub[s].closed
                 PROVE  /\ Promised(s) = handler[s].heard \cup InReplay(s) \cup InQueue(s) \cup InHand(s) \cup BeingSent(s)
                        /\ Cardinality(Promised(s)) =
                             Cardinality(handler[s].heard) + Cardinality(InReplay(s)) + Len(sub[s].queue)
                               + Cardinality(InHand(s)) + Cardinality(BeingSent(s))
    BY DEF DeliveredOnce
  <2>2. EachInOneOf(s)
    BY <1>1, <2>1 DEF BusInv, NotesDelivered
  <2>3. IsFiniteSet(Promised(s))
    <3>1. Promised(s) \subseteq notes /\ notes \subseteq 1 .. nextEventID /\ nextEventID \in Nat
      BY <1>1 DEF BusInv, BusTyped, EventsPublished, ReplayPlaced, Promised
    <3>2. IsFiniteSet(1 .. nextEventID)
      BY <3>1, FS_Interval
    <3> QED BY <3>1, <3>2, FS_Subset
  <2>4. Cardinality(InQueue(s)) = Len(sub[s].queue)
    <3>1. sub[s].queue \in Seq(Event)
      BY <1>1 DEF BusInv, BusTyped, SubscriberRec
    <3> QED BY <2>2, <3>1, CountQueue DEF EachInOneOf, InQueue
  <2>5. SomewhereOnce(Promised(s), handler[s].heard, InReplay(s), InQueue(s), InHand(s), BeingSent(s))
    BY <2>2 DEF EachInOneOf
  <2>6. Cardinality(Promised(s)) =
          Cardinality(handler[s].heard) + Cardinality(InReplay(s)) + Cardinality(InQueue(s))
            + Cardinality(InHand(s)) + Cardinality(BeingSent(s))
    BY <2>3, <2>5, CountFive
  <2>7. Promised(s) = handler[s].heard \cup InReplay(s) \cup InQueue(s) \cup InHand(s) \cup BeingSent(s)
    BY <2>5 DEF SomewhereOnce
  <2> QED BY <2>4, <2>6, <2>7
<1> QED BY <1>1

\* Of the notes a stream is to be given none is missing and none comes twice,
\* whatever publishers, overflows and other streams do.
THEOREM NotesDeliveredOnce == Spec => []DeliveredOnce
BY BusInvariant, DeliveryFollows, PTL

LEMMA FarewellsFollow == BusInv => AnnouncedStreamsEnd
<1>1. ASSUME BusInv PROVE AnnouncedStreamsEnd
  <2>1. SUFFICES ASSUME Announced, pub[Server].evt # NoEvent, NEW c \in Clients, Quiet(c),
                        ~(handler[<<c, linked[c]>>].born >= pub[Server].evt.id)
                 PROVE  FALSE
    BY DEF AnnouncedStreamsEnd
  <2> DEFINE s == <<c, linked[c]>>
             n == pub[Server].evt.id
  <2>2. s \in Sessions /\ Streams(s) /\ sub[s].run = "wait" /\ ~sub[s].wake /\ ~sub[s].closed
    BY <2>1 DEF Quiet
  <2>3. Server \in Processes
    BY DEF Processes
  <2>4. pub[Server].evt \in Event /\ Published(pub[Server].evt) /\ pub[Server].evt.kind = "server_shutdown"
    BY <1>1, <2>1, <2>3 DEF BusInv, BusTyped, PublisherRec, EventsPublished
  <2>5. n \in notes /\ n \in Nat /\ handler[s].born \in Nat
    BY <1>1, <2>2, <2>4 DEF Published, Replayable, Event, BusInv, BusTyped, HandlerRec
  <2>6. n \in Promised(s) /\ handler[s].born < n
    BY <2>1, <2>5 DEF Promised
  <2>7. EachInOneOf(s) /\ handler[s].at = "open"
    BY <1>1, <2>2 DEF BusInv, NotesDelivered, Streams
  <2>8. InReplay(s) = {}
    BY <2>2 DEF Streams, InReplay
  <2>9. InQueue(s) = {} /\ InHand(s) = {}
    BY <1>1, <2>2 DEF BusInv, RunnersPlaced, RunnerPlaced, InQueue, InHand
  <2>10. BeingSent(s) = {}
    <3>1. \A p \in Processes : pub[p].at # "sending"
      BY <2>1 DEF Quiet
    <3>2. \A p \in Processes : pub[p].left = {}
      BY <1>1, <3>1 DEF BusInv, PublishersPlaced, Placed
    <3> QED BY <3>2 DEF BeingSent
  <2>11. n \in handler[s].heard
    BY <2>6, <2>7, <2>8, <2>9, <2>10 DEF EachInOneOf, SomewhereOnce
  <2>12. \A t \in Sessions : handler[t].at = "open" /\ handler[t].born < n => n \notin handler[t].heard
    BY <1>1, <2>1 DEF BusInv, FarewellEnds
  <2> HIDE DEF s, n
  <2> QED BY <2>2, <2>6, <2>7, <2>11, <2>12, Zenon
<1> QED BY <1>1

\* A stream older than the announcement of the shutdown is not open with nothing
\* on its way: the farewell reaches it and ends it.
THEOREM FarewellsReachStreams == Spec => []AnnouncedStreamsEnd
BY BusInvariant, FarewellsFollow, PTL

-----------------------------------------------------------------------------
(* What clients end up with, when publishers take turns.                   *)

AtWork(p)   == pub[p].at \notin {"idle", "announced"}
TakingTurns == \A p, q \in Processes : AtWork(p) /\ AtWork(q) => p = q

\* A client reads from session s.
Reads(s) == handler[s].at = "open" /\ Linked(s)

\* What is published shows the present state.
Truthful ==
  \A p \in Processes : pub[p].kind \in Kinds =>
    /\ pub[p].at = "publish" => pub[p].content = version[pub[p].kind]
    /\ pub[p].at = "sending" => pub[p].evt.content = version[pub[p].kind]

\* Publisher p will send session s a snapshot of kind k.
Carries(p, s, k) ==
  /\ pub[p].kind = k
  /\ pub[p].at \in {"copy", "publish"} \/ (pub[p].at = "sending" /\ s \in pub[p].left)

\* The last snapshot of kind k that subscriber u holds, or the one shown, or the one yet to be
\* made for the start of the stream, is of version v.
ShowsLast(v, k, u, hello, shown) ==
  IF u.latest[k] # NoEvent THEN u.latest[k].content = v
  ELSE IF u.hand # NoEvent /\ u.hand.kind = k THEN u.hand.content = v
  ELSE k \in hello \/ shown = v

Current(s, k) ==
  \/ \E p \in Processes : Carries(p, s, k)
  \/ ShowsLast(version[k], k, sub[s], handler[s].hello, view[s[1]][k])

ViewsFollow ==
  /\ Truthful
  /\ \A s \in Sessions : Reads(s) /\ ~sub[s].closed => \A k \in Kinds : Current(s, k)

\* The notes of owed that are earlier than an event of q are in done or earlier in q.
Fills(q, done, owed) ==
  \A i \in DOMAIN q : \A n \in owed : n < q[i].id => n \in done \/ \E j \in DOMAIN q : j < i /\ q[j].id = n

Ids(q)     == {e.id : e \in ElementsOf(q)}
HandIds(u) == IF u.hand # NoEvent /\ u.hand.kind \in Replayable THEN {u.hand.id} ELSE {}

\* Of the notes owed, those of got have reached the client; it is given the rest before any later
\* event, from the replay, from what subscriber u holds, and from what is being sent.
InTurn(owed, got, replay, u, sent) ==
  LET k1 == got \cup Ids(replay)
      k2 == k1 \cup HandIds(u)
      k3 == k2 \cup Ids(u.queue)
  IN
  /\ Fills(replay, got, owed)
  /\ u.hand # NoEvent => \A n \in owed : n < u.hand.id => n \in k1
  /\ Fills(u.queue, k2, owed)
  /\ \A k \in Kinds : u.latest[k] # NoEvent => \A n \in owed : n < u.latest[k].id => n \in k3
  /\ ~u.closed => owed \subseteq k3 \cup sent

OwedTo(c) == {n \in notes : base[c] < n}

NotesInOrder ==
  /\ NoNoteSkipped
  /\ \A s \in Sessions :
       Reads(s) => InTurn(OwedTo(s[1]), known[s[1]], handler[s].replay, sub[s], BeingSent(s))

\* Queues whose events come in turn.
LEMMA FillsRest ==
  ASSUME NEW q \in Seq(Event), q # <<>>, NEW done, NEW owed, Fills(q, done, owed)
  PROVE  /\ \A n \in owed : n < Head(q).id => n \in done
         /\ Fills(Tail(q), done \cup {Head(q).id}, owed)
         /\ Ids(q) = {Head(q).id} \cup Ids(Tail(q))
<1>1. Len(q) \in Nat \ {0} /\ DOMAIN q = 1 .. Len(q) /\ DOMAIN Tail(q) = 1 .. Len(q) - 1
  OBVIOUS
<1>2. Head(q) = q[1] /\ \A i \in 1 .. Len(q) - 1 : Tail(q)[i] = q[i + 1]
  OBVIOUS
<1>3. \A n \in owed : n < Head(q).id => n \in done
  BY <1>1, <1>2 DEF Fills
<1>4. Fills(Tail(q), done \cup {Head(q).id}, owed)
  <2> SUFFICES ASSUME NEW i \in 1 .. Len(q) - 1, NEW n \in owed, n < Tail(q)[i].id, n \notin done, n # Head(q).id
               PROVE  \E j \in DOMAIN Tail(q) : j < i /\ Tail(q)[j].id = n
    BY <1>1 DEF Fills
  <2>1. PICK j \in 1 .. Len(q) : j < i + 1 /\ q[j].id = n
    <3>1. i + 1 \in 1 .. Len(q) /\ n < q[i + 1].id
      BY <1>1, <1>2
    <3> QED BY <1>1, <3>1 DEF Fills
  <2>2. j # 1
    BY <1>2, <2>1
  <2>3. j - 1 \in 1 .. Len(q) - 1 /\ j - 1 < i /\ (j - 1) + 1 = j
    BY <1>1, <2>1, <2>2
  <2> QED BY <1>1, <1>2, <2>1, <2>3
<1>5. Ids(q) = {Head(q).id} \cup Ids(Tail(q))
  BY RestOf DEF Ids
<1> QED BY <1>3, <1>4, <1>5

LEMMA FillsMore ==
  ASSUME NEW q \in Seq(Event), NEW e \in Event, NEW done, NEW owed, Fills(q, done, owed),
         \A n \in owed : n < e.id => n \in done \cup Ids(q)
  PROVE  Fills(Append(q, e), done, owed) /\ Ids(Append(q, e)) = Ids(q) \cup {e.id}
<1>1. Len(q) \in Nat /\ DOMAIN q = 1 .. Len(q) /\ DOMAIN Append(q, e) = 1 .. Len(q) + 1
  OBVIOUS
<1>2. Append(q, e)[Len(q) + 1] = e /\ \A i \in 1 .. Len(q) : Append(q, e)[i] = q[i]
  OBVIOUS
<1> DEFINE r == Append(q, e)
<1>3. Ids(r) = Ids(q) \cup {e.id}
  BY OneMore DEF Ids
<1> HIDE DEF r
<1>4. Fills(r, done, owed)
  <2> SUFFICES ASSUME NEW i \in 1 .. Len(q) + 1, NEW n \in owed, n < r[i].id, n \notin done
               PROVE  \E j \in 1 .. Len(q) + 1 : j < i /\ r[j].id = n
    BY <1>1 DEF Fills, r
  <2>1. CASE i \in 1 .. Len(q)
    <3>1. PICK j \in 1 .. Len(q) : j < i /\ q[j].id = n
      BY <1>1, <1>2, <2>1 DEF Fills, r
    <3> QED BY <1>1, <1>2, <3>1 DEF r
  <2>2. CASE i = Len(q) + 1
    <3>1. n \in Ids(q)
      BY <1>2, <2>2 DEF r
    <3>2. PICK j \in 1 .. Len(q) : q[j].id = n
      BY <1>1, <3>1 DEF Ids, ElementsOf
    <3>3. j < i /\ j \in 1 .. Len(q) + 1
      BY <1>1, <2>2
    <3> QED BY <1>2, <3>2, <3>3 DEF r
  <2> QED BY <1>1, <2>1, <2>2
<1> QED BY <1>3, <1>4 DEF r

\* A new note, later than all.
LEMMA FillsNew ==
  ASSUME NEW q, NEW done, NEW owed, NEW n \in Nat, Fills(q, done, owed), \A m \in Ids(q) : m \in Nat /\ m < n
  PROVE  Fills(q, done, owed \cup {n})
<1> SUFFICES ASSUME NEW i \in DOMAIN q PROVE ~(n < q[i].id)
  BY DEF Fills
<1>1. q[i].id \in Nat /\ q[i].id < n
  BY DEF Ids, ElementsOf
<1> QED BY <1>1

\* Nothing in an empty queue.
LEMMA FillsNone ==
  ASSUME NEW done, NEW owed
  PROVE  Fills(<<>>, done, owed) /\ Ids(<<>>) = {}
BY DEF Fills, Ids, ElementsOf

-----------------------------------------------------------------------------
(* What a step does to the order in which one client is given its notes.   *)

LEMMA InTurnFrame ==
  ASSUME NEW owed, NEW got, NEW replay, NEW u, NEW v, NEW sent, NEW more,
         InTurn(owed, got, replay, u, sent),
         v.hand = u.hand, v.queue = u.queue, v.latest = u.latest,
         ~v.closed => ~u.closed /\ sent \subseteq more
  PROVE  InTurn(owed, got, replay, v, more)
<1>1. HandIds(v) = HandIds(u)
  BY DEF HandIds
<1> QED BY <1>1 DEF InTurn

\* A new note is published.
LEMMA InTurnNew ==
  ASSUME NEW owed, NEW got, NEW replay, NEW u, NEW sent, NEW more, NEW n \in Nat,
         InTurn(owed, got, replay, u, sent),
         \A m \in Ids(replay) \cup Ids(u.queue) : m \in Nat /\ m < n,
         u.hand # NoEvent => u.hand.id \in Nat /\ u.hand.id < n,
         \A k \in Kinds : u.latest[k] # NoEvent => u.latest[k].id \in Nat /\ u.latest[k].id < n,
         sent \subseteq more, ~u.closed => n \in more
  PROVE  InTurn(owed \cup {n}, got, replay, u, more)
<1> DEFINE k1 == got \cup Ids(replay)  k2 == k1 \cup HandIds(u)  k3 == k2 \cup Ids(u.queue)
<1>1. Fills(replay, got, owed) /\ Fills(u.queue, k2, owed)
  BY DEF InTurn
<1>2. Fills(replay, got, owed \cup {n}) /\ Fills(u.queue, k2, owed \cup {n})
  <2> HIDE DEF k2
  <2> QED BY <1>1, FillsNew
<1>3. u.hand # NoEvent => \A m \in owed \cup {n} : m < u.hand.id => m \in k1
  BY DEF InTurn
<1>4. \A k \in Kinds : u.latest[k] # NoEvent => \A m \in owed \cup {n} : m < u.latest[k].id => m \in k3
  BY DEF InTurn
<1>5. ~u.closed => owed \cup {n} \subseteq k3 \cup more
  BY DEF InTurn
<1> QED BY <1>2, <1>3, <1>4, <1>5 DEF InTurn

\* The only event on its way is sent.
LEMMA InTurnSent ==
  ASSUME NEW owed, NEW got, NEW replay, NEW u \in SubscriberRec, NEW e \in Event, NEW sent,
         InTurn(owed, got, replay, u, sent),
         sent = IF e.kind \in Replayable THEN {e.id} ELSE {}
  PROVE  InTurn(owed, got, replay, Sent(u, e), {})
<1> DEFINE k1 == got \cup Ids(replay)  k2 == k1 \cup HandIds(u)  k3 == k2 \cup Ids(u.queue)
<1>1. CASE u.closed
  BY <1>1, InTurnFrame DEF Sent
<1>2. CASE ~u.closed /\ Overflows(u, e)
  <2> DEFINE v == [u EXCEPT !.closed = TRUE]
  <2>1. v.closed /\ v.hand = u.hand /\ v.queue = u.queue /\ v.latest = u.latest
    BY DEF SubscriberRec
  <2>2. Sent(u, e) = v
    BY <1>2 DEF Sent
  <2> HIDE DEF v
  <2> QED BY <2>1, <2>2, InTurnFrame
<1>3. CASE ~u.closed /\ ~Overflows(u, e) /\ e.kind \in Kinds
  <2> DEFINE l == [u.latest EXCEPT ![e.kind] = e]
             v == [u EXCEPT !.latest = l, !.wake = TRUE]
  <2>1. Sent(u, e) = v
    BY <1>3 DEF Sent, SubscriberRec
  <2>2. v.hand = u.hand /\ v.queue = u.queue /\ v.latest = l /\ v.closed = u.closed
    BY DEF SubscriberRec
  <2>3. \A k \in Kinds : l[k] = IF k = e.kind THEN e ELSE u.latest[k]
    BY DEF SubscriberRec
  <2> HIDE DEF l, v
  <2>4. owed \subseteq k3
    BY <1>3, BusFacts DEF InTurn
  <2>5. HandIds(v) = HandIds(u)
    BY <2>2 DEF HandIds
  <2>6. \A k \in Kinds : v.latest[k] # NoEvent => \A n \in owed : n < v.latest[k].id => n \in k3
    BY <2>4
  <2>7. InTurn(owed, got, replay, v, {})
    BY <2>2, <2>4, <2>5, <2>6 DEF InTurn
  <2> QED BY <2>1, <2>7
<1>4. CASE ~u.closed /\ ~Overflows(u, e) /\ e.kind \notin Kinds
  <2> DEFINE q == Append(u.queue, e)  v == [u EXCEPT !.queue = q, !.wake = TRUE]
  <2>1. Sent(u, e) = v
    BY <1>4 DEF Sent
  <2>2. v.hand = u.hand /\ v.queue = q /\ v.latest = u.latest /\ v.closed = u.closed
    BY DEF SubscriberRec
  <2>3. u.queue \in Seq(Event) /\ e.kind \in Replayable
    BY <1>4 DEF SubscriberRec, Event
  <2>4. owed \subseteq k3 \cup {e.id} /\ Fills(u.queue, k2, owed)
    BY <1>4, <2>3 DEF InTurn
  <2>5. \A n \in owed : n < e.id => n \in k2 \cup Ids(u.queue)
    <3>1. e.id \in Nat
      BY DEF Event
    <3> QED BY <2>4, <3>1
  <2>6. Fills(q, k2, owed) /\ Ids(q) = Ids(u.queue) \cup {e.id}
    <3> HIDE DEF k2
    <3> QED BY <2>3, <2>4, <2>5, FillsMore
  <2>7. HandIds(v) = HandIds(u)
    BY <2>2 DEF HandIds
  <2> HIDE DEF q, v
  <2>8. InTurn(owed, got, replay, v, {})
    BY <2>2, <2>4, <2>6, <2>7 DEF InTurn
  <2> QED BY <2>1, <2>8
<1> QED BY <1>1, <1>2, <1>3, <1>4

\* The goroutine takes the first event of its queue.
LEMMA InTurnHead ==
  ASSUME NEW owed, NEW got, NEW replay, NEW u, NEW v, NEW sent, InTurn(owed, got, replay, u, sent),
         u.hand = NoEvent, u.queue \in Seq(Event), u.queue # <<>>, Head(u.queue).kind \in Replayable,
         v.hand = Head(u.queue), v.queue = Tail(u.queue), v.latest = u.latest, v.closed = u.closed
  PROVE  InTurn(owed, got, replay, v, sent)
<1> DEFINE k1 == got \cup Ids(replay)
<1>1. HandIds(u) = {}
  BY DEF HandIds
<1>2. HandIds(v) = {Head(u.queue).id}
  BY RestOf, BusFacts DEF HandIds
<1>3. Fills(u.queue, k1, owed)
  BY <1>1 DEF InTurn
<1>4. /\ \A n \in owed : n < Head(u.queue).id => n \in k1
      /\ Fills(Tail(u.queue), k1 \cup {Head(u.queue).id}, owed)
      /\ Ids(u.queue) = {Head(u.queue).id} \cup Ids(Tail(u.queue))
  <2> HIDE DEF k1
  <2> QED BY <1>3, FillsRest
<1> QED BY <1>1, <1>2, <1>4 DEF InTurn

\* It takes a snapshot when its queue is empty.
LEMMA InTurnLatest ==
  ASSUME NEW owed, NEW got, NEW replay, NEW u, NEW v, NEW sent, InTurn(owed, got, replay, u, sent), NEW k \in Kinds,
         u.hand = NoEvent, u.queue = <<>>, u.latest[k] # NoEvent, u.latest[k].kind = k,
         v.hand = u.latest[k], v.queue = u.queue, v.closed = u.closed,
         \A l \in Kinds : v.latest[l] \in {NoEvent, u.latest[l]}
  PROVE  InTurn(owed, got, replay, v, sent)
<1>1. HandIds(u) = {} /\ HandIds(v) = {}
  BY BusFacts DEF HandIds
<1>2. Ids(u.queue) = {}
  BY FillsNone
<1> QED BY <1>1, <1>2 DEF InTurn

\* The client is given the next event of the replay.
LEMMA InTurnReplays ==
  ASSUME NEW owed, NEW got, NEW replay \in Seq(Event), NEW u, NEW sent, InTurn(owed, got, replay, u, sent),
         replay # <<>>
  PROVE  /\ \A n \in owed : n < Head(replay).id => n \in got
         /\ InTurn(owed, got \cup {Head(replay).id}, Tail(replay), u, sent)
<1>1. Fills(replay, got, owed)
  BY DEF InTurn
<1>2. /\ \A n \in owed : n < Head(replay).id => n \in got
      /\ Fills(Tail(replay), got \cup {Head(replay).id}, owed)
      /\ Ids(replay) = {Head(replay).id} \cup Ids(Tail(replay))
  BY <1>1, FillsRest
<1>3. got \cup Ids(replay) = (got \cup {Head(replay).id}) \cup Ids(Tail(replay))
  BY <1>2
<1> QED BY <1>2, <1>3 DEF InTurn

\* The client is given what the goroutine offers.
LEMMA InTurnReceives ==
  ASSUME NEW owed, NEW got, NEW u, NEW v, NEW sent, InTurn(owed, got, <<>>, u, sent),
         u.hand # NoEvent, v.hand = NoEvent, v.queue = u.queue, v.latest = u.latest, v.closed = u.closed
  PROVE  /\ \A n \in owed : n < u.hand.id => n \in got
         /\ InTurn(owed, got \cup HandIds(u), <<>>, v, sent)
<1>1. Ids(<<>>) = {} /\ \A d : Fills(<<>>, d, owed)
  BY FillsNone
<1>2. HandIds(v) = {}
  BY DEF HandIds
<1>3. \A n \in owed : n < u.hand.id => n \in got
  BY <1>1 DEF InTurn
<1> QED BY <1>1, <1>2, <1>3 DEF InTurn

-----------------------------------------------------------------------------
(* Notes in order: the steps.                                              *)

LEMMA OneLinked ==
  ASSUME NEW s \in Sessions, NEW t \in Sessions, Linked(s), Linked(t), s[1] = t[1]
  PROVE  s = t
BY SessionFacts DEF Linked

\* What a handler writes reaches its client only.
LEMMA WritesFacts ==
  ASSUME BusTyped, NEW s \in Sessions, NEW e \in Event, Writes(s, e)
  PROVE  /\ UNCHANGED <<linked, notes, base, version>>
         /\ \A c \in Clients : ~Linked(s) \/ c # s[1] =>
              lastEventID'[c] = lastEventID[c] /\ known'[c] = known[c] /\ view'[c] = view[c]
         /\ Linked(s) =>
              /\ lastEventID'[s[1]] = e.id
              /\ known'[s[1]] = IF e.kind \in Replayable THEN known[s[1]] \cup {e.id} ELSE known[s[1]]
              /\ \A k \in Kinds : view'[s[1]][k] = IF e.kind = k THEN e.content ELSE view[s[1]][k]
<1>1. s[1] \in Clients /\ e.kind \in Kinds \cup Replayable
  BY SessionFacts DEF Event
<1>2. view \in [Clients -> [Kinds -> Nat]] /\ known \in [Clients -> SUBSET Nat] /\ lastEventID \in [Clients -> Nat]
  BY DEF BusTyped
<1>3. UNCHANGED <<linked, notes, base, version>>
  BY DEF Writes
<1>4. CASE ~Linked(s)
  BY <1>3, <1>4 DEF Writes
<1>5. CASE Linked(s) /\ e.kind \in Replayable
  <2>1. lastEventID' = [lastEventID EXCEPT ![s[1]] = e.id] /\ view' = view
        /\ known' = [known EXCEPT ![s[1]] = known[s[1]] \cup {e.id}]
    BY <1>5 DEF Writes
  <2>2. \A k \in Kinds : e.kind # k
    BY <1>5, BusFacts
  <2> QED BY <1>1, <1>2, <1>3, <1>5, <2>1, <2>2
<1>6. CASE Linked(s) /\ e.kind \notin Replayable
  <2>1. lastEventID' = [lastEventID EXCEPT ![s[1]] = e.id] /\ known' = known
        /\ view' = [view EXCEPT ![s[1]] = [view[s[1]] EXCEPT ![e.kind] = e.content]]
    BY <1>6 DEF Writes
  <2> QED BY <1>1, <1>2, <1>3, <1>6, <2>1
<1> QED BY <1>4, <1>5, <1>6

\* A step that gives no client anything.
LEMMA OrderFrame ==
  ASSUME NotesInOrder, UNCHANGED <<notes, base, known, lastEventID>>,
         \A s \in Sessions : Reads(s)' =>
           InTurn(OwedTo(s[1]), known[s[1]], handler'[s].replay, sub'[s], BeingSent(s)')
  PROVE  NotesInOrder'
<1>1. \A c : OwedTo(c)' = OwedTo(c)
  BY DEF OwedTo
<1>2. NoNoteSkipped'
  BY DEF NotesInOrder, NoNoteSkipped
<1>3. \A s \in Sessions : Reads(s)' =>
        InTurn(OwedTo(s[1]), known[s[1]], handler[s].replay, sub[s], BeingSent(s))'
  BY <1>1 DEF InTurn, Fills, Ids, ElementsOf, HandIds
<1> QED BY <1>2, <1>3 DEF NotesInOrder

LEMMA StillOrder ==
  ASSUME NotesInOrder, StandsStill, UNCHANGED <<base, known>>, \A s \in Sessions : Linked(s)' => Linked(s)
  PROVE  NotesInOrder'
<1>1. UNCHANGED <<notes, base, known, lastEventID, handler, sub>>
  BY DEF StandsStill
<1>2. \A s \in Sessions : BeingSent(s)' = BeingSent(s)
  BY StillSent
<1>3. \A s \in Sessions : Reads(s)' => Reads(s)
  BY <1>1 DEF Reads
<1>4. \A s \in Sessions : Reads(s)' =>
           InTurn(OwedTo(s[1]), known[s[1]], handler'[s].replay, sub'[s], BeingSent(s)')
  BY <1>1, <1>2, <1>3 DEF NotesInOrder
<1> QED BY <1>1, <1>4, OrderFrame

\* The events that are under way to a session have been published.
LEMMA UnderWay ==
  ASSUME BusInv, NEW s \in Sessions
  PROVE  /\ nextEventID \in Nat
         /\ \A m \in Ids(handler[s].replay) \cup Ids(sub[s].queue) : m \in Nat /\ m < nextEventID + 1
         /\ sub[s].hand # NoEvent => sub[s].hand.id \in Nat /\ sub[s].hand.id < nextEventID + 1
         /\ \A k \in Kinds : sub[s].latest[k] # NoEvent =>
              sub[s].latest[k].id \in Nat /\ sub[s].latest[k].id < nextEventID + 1
<1>1. nextEventID \in Nat
  BY DEF BusInv, BusTyped
<1>2. \A e \in Events(s) : e.id \in Nat /\ e.id < nextEventID + 1
  <2> SUFFICES ASSUME NEW e \in Events(s) PROVE e.id \in Nat /\ e.id < nextEventID + 1
    OBVIOUS
  <2>1. e.id \in 1 .. nextEventID
    BY DEF BusInv, EventsPublished, Published
  <2> QED BY <1>1, <2>1
<1> HIDE DEF BusInv
<1> QED BY <1>1, <1>2 DEF Events, SubEvents, Ids

LEMMA PublishOrder ==
  ASSUME BusInv, NotesInOrder, NEW p \in Processes, Publish(p), ~busClosed
  PROVE  NotesInOrder'
<1> DEFINE n == nextEventID + 1  new == NewEvent(p)
           r == [pub[p] EXCEPT !.at = "sending", !.evt = new, !.left = subscribers, !.over = {}]
<1>1. /\ nextEventID \in Nat /\ notes \subseteq 1 .. nextEventID
      /\ UNCHANGED <<sub, handler, linked, lastEventID, known, base>>
  BY PublishOpen DEF BusInv, BusTyped, EventsPublished, clientVars
<1>2. new.id = n /\ new.kind = pub[p].kind /\ pub[p] \in PublisherRec /\ pub[p].left = {}
  BY NewEventTyped DEF BusInv, BusTyped, PublishersPlaced, Placed, Publish
<1>3. notes' = IF new.kind \in Replayable THEN notes \cup {n} ELSE notes
  BY <1>2, PublishOpen DEF BusInv
<1>4. r.evt = new /\ r.left = subscribers /\ pub' = [pub EXCEPT ![p] = r] /\ pub \in [Processes -> PublisherRec]
  BY <1>2, PublishOpen DEF BusInv, BusTyped, PublisherRec
<1> HIDE DEF r
<1>5. /\ pub'[p].evt = new /\ pub'[p].left = subscribers
      /\ \A q \in Processes : q # p => pub'[q].evt = pub[q].evt /\ pub'[q].left = pub[q].left
  BY <1>4
<1>6. \A s \in Sessions : Reads(s)' => Reads(s)
  BY <1>1 DEF Reads, Linked
<1>7. CASE new.kind \notin Replayable
  <2>1. \A s \in Sessions : BeingSent(s)' = BeingSent(s)
    BY <1>2, <1>5, <1>7 DEF BeingSent
  <2>2. \A s \in Sessions : Reads(s)' =>
           InTurn(OwedTo(s[1]), known[s[1]], handler'[s].replay, sub'[s], BeingSent(s)')
    BY <1>1, <1>6, <2>1 DEF NotesInOrder
  <2> QED BY <1>1, <1>3, <1>7, <2>2, OrderFrame
<1>8. CASE new.kind \in Replayable
  <2>1. NoNoteSkipped'
    <3> SUFFICES ASSUME NEW c \in Clients, NEW m \in notes', base[c] < m, m <= lastEventID[c] PROVE m \in known[c]
      BY <1>1 DEF NoNoteSkipped
    <3>1. lastEventID[c] <= nextEventID /\ lastEventID[c] \in Nat
      BY DEF BusInv, EventsPublished, BusTyped
    <3>2. m # n
      BY <1>1, <3>1
    <3> QED BY <1>3, <1>8, <3>2 DEF NotesInOrder, NoNoteSkipped
  <2>2. ASSUME NEW s \in Sessions, Reads(s)'
        PROVE  InTurn(OwedTo(s[1]), known[s[1]], handler[s].replay, sub[s], BeingSent(s))'
    <3>1. InTurn(OwedTo(s[1]), known[s[1]], handler[s].replay, sub[s], BeingSent(s)) /\ Reads(s)
      BY <1>6, <2>2 DEF NotesInOrder
    <3>2. BeingSent(s) \subseteq BeingSent(s)'
      <4>1. \A q \in Processes : s \in pub[q].left => s \in pub'[q].left /\ pub'[q].evt = pub[q].evt
        BY <1>2, <1>5
      <4> QED BY <4>1 DEF BeingSent
    <3>3. ~sub[s].closed => n \in BeingSent(s)'
      <4>1. ~sub[s].closed => s \in subscribers
        BY <3>1 DEF Reads, BusInv, Registered, SubscribersMatchStreams
      <4> QED BY <1>2, <1>5, <1>8, <4>1 DEF BeingSent
    <3>4. n \in Nat
      BY <1>1
    <3> DEFINE more == BeingSent(s)'
    <3>5. InTurn(OwedTo(s[1]) \cup {n}, known[s[1]], handler[s].replay, sub[s], more)
      <4> HIDE DEF more
      <4>1. BeingSent(s) \subseteq more /\ (~sub[s].closed => n \in more)
        BY <3>2, <3>3 DEF more
      <4> QED BY <3>1, <3>4, <4>1, UnderWay, InTurnNew
    <3>6. OwedTo(s[1])' = OwedTo(s[1]) \cup {n} \/ OwedTo(s[1])' = OwedTo(s[1])
      BY <1>1, <1>3, <1>8 DEF OwedTo
    <3>7. InTurn(OwedTo(s[1]), known[s[1]], handler[s].replay, sub[s], more)
      BY <3>1, <3>2, InTurnFrame DEF more
    <3>8. InTurn(OwedTo(s[1])', known[s[1]], handler[s].replay, sub[s], more)
      <4> HIDE DEF more
      <4> QED BY <3>5, <3>6, <3>7
    <3> QED BY <1>1, <3>8 DEF InTurn, Fills, Ids, ElementsOf, HandIds
  <2> QED BY <2>1, <2>2 DEF NotesInOrder
<1> QED BY <1>7, <1>8

-----------------------------------------------------------------------------
LEMMA SendsOrder ==
  ASSUME BusInv, NotesInOrder, TakingTurns, NEW p \in Processes, NEW s \in Sessions, Sends(p, s)
  PROVE  NotesInOrder'
<1> DEFINE e == pub[p].evt  u == sub[s]
<1>1. /\ e \in Event /\ u \in SubscriberRec /\ sub'[s] = Sent(u, e) /\ s \in pub[p].left /\ pub[p].at = "sending"
      /\ \A t \in Sessions : t # s => sub'[t] = sub[t]
  BY SendsFacts, SendsPlaced DEF BusInv, BusTyped
<1>2. UNCHANGED <<notes, handler, linked, base, known, lastEventID>>
  BY DEF Sends, historyVars, clientVars
<1>3. \A q \in Processes : pub'[q].evt = pub[q].evt
  BY SendsFacts DEF BusInv
<1>4. \A q \in Processes : pub'[q].left = IF q = p THEN pub[q].left \ {s} ELSE pub[q].left
  BY SendsFacts DEF BusInv
<1>5. \A q \in Processes : pub[q].left # {} => q = p
  <2>1. AtWork(p)
    BY <1>1 DEF AtWork
  <2>2. \A q \in Processes : pub[q].left # {} => AtWork(q)
    BY DEF BusInv, PublishersPlaced, Placed, AtWork
  <2> QED BY <2>1, <2>2 DEF TakingTurns
<1>6. BeingSent(s) = IF e.kind \in Replayable THEN {e.id} ELSE {}
  BY <1>1, <1>5 DEF BeingSent
<1>7. BeingSent(s)' = {}
  <2>1. \A q \in Processes : s \notin pub'[q].left
    BY <1>4, <1>5
  <2> QED BY <2>1 DEF BeingSent
<1>8. \A t \in Sessions : t # s => BeingSent(t)' = BeingSent(t)
  <2> SUFFICES ASSUME NEW t \in Sessions, t # s PROVE BeingSent(t)' = BeingSent(t)
    OBVIOUS
  <2>1. \A q \in Processes : t \in pub'[q].left <=> t \in pub[q].left
    BY <1>4
  <2> QED BY <1>3, <2>1, SentFrame
<1>9. \A t \in Sessions : Reads(t)' => Reads(t)
  BY <1>2 DEF Reads, Linked
<1> HIDE DEF e, u
<1>10. Reads(s) => InTurn(OwedTo(s[1]), known[s[1]], handler[s].replay, sub'[s], BeingSent(s)')
  <2> SUFFICES ASSUME Reads(s) PROVE InTurn(OwedTo(s[1]), known[s[1]], handler[s].replay, sub'[s], BeingSent(s)')
    OBVIOUS
  <2>1. InTurn(OwedTo(s[1]), known[s[1]], handler[s].replay, u, BeingSent(s))
    BY DEF NotesInOrder, u
  <2>2. InTurn(OwedTo(s[1]), known[s[1]], handler[s].replay, Sent(u, e), {})
    BY <1>1, <1>6, <2>1, InTurnSent
  <2> QED BY <1>1, <1>7, <2>2
<1>11. \A t \in Sessions : Reads(t)' =>
         InTurn(OwedTo(t[1]), known[t[1]], handler'[t].replay, sub'[t], BeingSent(t)')
  BY <1>1, <1>2, <1>8, <1>9, <1>10 DEF NotesInOrder
<1> QED BY <1>2, <1>11, OrderFrame

LEMMA HasSentOrder ==
  ASSUME BusInv, NotesInOrder, NEW p \in Processes, HasSent(p)
  PROVE  NotesInOrder'
<1>1. Becomes(p, Continue(p)) /\ pub[p].at = "sending" /\ pub[p].left = {}
      /\ UNCHANGED <<notes, base, known, lastEventID, linked, sub, handler>>
  BY DEF HasSent, Becomes, historyVars, clientVars
<1>2. pub'[p] = Continue(p) /\ \A q \in Processes : q # p => pub'[q] = pub[q]
  BY <1>1 DEF BusInv, Becomes, BusTyped
<1>3. Continue(p).left = {}
  BY <1>1, ContinuePlaced DEF BusInv
<1>4. \A s \in Sessions : BeingSent(s)' = BeingSent(s)
  <2> SUFFICES ASSUME NEW s \in Sessions PROVE BeingSent(s)' = BeingSent(s)
    OBVIOUS
  <2>1. \A q \in Processes : s \in pub'[q].left <=> s \in pub[q].left
    BY <1>1, <1>2, <1>3
  <2>2. \A q \in Processes : s \in pub[q].left => pub'[q].evt = pub[q].evt
    BY <1>1, <1>2
  <2> QED BY <2>1, <2>2, SentFrame
<1>5. \A s \in Sessions : Reads(s)' =>
           InTurn(OwedTo(s[1]), known[s[1]], handler'[s].replay, sub'[s], BeingSent(s)')
  BY <1>1, <1>4 DEF NotesInOrder, Reads, Linked
<1> QED BY <1>1, <1>5, OrderFrame

LEMMA BusClosesOrder ==
  ASSUME BusInv, NotesInOrder, BusCloses
  PROVE  NotesInOrder'
<1>1. UNCHANGED <<notes, base, known, lastEventID, linked, handler, pub>>
  BY DEF BusCloses, historyVars, clientVars
<1>2. ASSUME NEW s \in Sessions, Reads(s)'
      PROVE  InTurn(OwedTo(s[1]), known[s[1]], handler'[s].replay, sub'[s], BeingSent(s)')
  <2>1. InTurn(OwedTo(s[1]), known[s[1]], handler[s].replay, sub[s], BeingSent(s))
    BY <1>1, <1>2 DEF NotesInOrder, Reads, Linked
  <2>2. sub[s] \in SubscriberRec /\ (sub'[s] = sub[s] \/ sub'[s] = [sub[s] EXCEPT !.closed = TRUE])
    BY DEF BusCloses, BusInv, BusTyped
  <2>3. /\ sub'[s].hand = sub[s].hand /\ sub'[s].queue = sub[s].queue /\ sub'[s].latest = sub[s].latest
        /\ (~sub'[s].closed => ~sub[s].closed)
    BY <2>2 DEF SubscriberRec
  <2>4. BeingSent(s)' = BeingSent(s)
    BY <1>1, SentFrame
  <2> QED BY <1>1, <2>1, <2>3, <2>4, InTurnFrame
<1> QED BY <1>1, <1>2, OrderFrame

LEMMA RunnerOrder ==
  ASSUME BusInv, NotesInOrder, NEW s \in Sessions, RunnerStep(s)
  PROVE  NotesInOrder'
<1>1. /\ UNCHANGED <<notes, base, known, lastEventID, linked, handler, pub>>
      /\ \A t \in Sessions : t # s => sub'[t] = sub[t]
      /\ sub[s] \in SubscriberRec /\ sub'[s].closed = sub[s].closed
  BY RunnerFacts DEF BusInv, historyVars, clientVars
<1>2. \A t \in Sessions : BeingSent(t)' = BeingSent(t) /\ (Reads(t)' => Reads(t))
  BY <1>1, SentFrame DEF Reads, Linked
<1>3. ASSUME Reads(s)
      PROVE  InTurn(OwedTo(s[1]), known[s[1]], handler[s].replay, sub'[s], BeingSent(s))
  <2> DEFINE u == sub[s]  v == sub'[s]
  <2>1. InTurn(OwedTo(s[1]), known[s[1]], handler[s].replay, u, BeingSent(s)) /\ RunnerPlaced(u)
    BY <1>3 DEF NotesInOrder, BusInv, RunnersPlaced
  <2>2. CASE RunnerWakes(s)
    <3>1. v.queue = u.queue /\ v.hand = u.hand /\ v.latest = u.latest
      BY <1>1, <2>2, WakesFacts DEF SubscriberRec, BusInv
    <3> HIDE DEF u, v
    <3> QED BY <1>1, <2>1, <3>1, InTurnFrame DEF u, v
  <2>3. CASE RunnerEnds(s)
    <3>1. v = [Unused EXCEPT !.run = "ended", !.closed = TRUE]
      BY <2>3, EndsFacts DEF BusInv
    <3>2. v.closed /\ v.hand = NoEvent /\ v.queue = <<>> /\ \A k \in Kinds : v.latest[k] = NoEvent
      BY <3>1 DEF Unused
    <3>3. Fills(handler[s].replay, known[s[1]], OwedTo(s[1]))
      BY <2>1 DEF InTurn
    <3>4. \A d : Fills(v.queue, d, OwedTo(s[1]))
      BY <3>2, FillsNone
    <3> HIDE DEF v
    <3> QED BY <3>2, <3>3, <3>4 DEF InTurn, v
  <2>4. CASE RunnerTakes(s)
    <3> DEFINE k == FirstOf(Pending(u))
    <3>1. u.queue \in Seq(Event) /\ u.hand = NoEvent /\ v.closed = u.closed
          /\ u.latest \in [Kinds -> Event \cup {NoEvent}]
      BY <1>1, <2>1, <2>4, TakesFacts DEF BusInv, SubscriberRec, RunnerPlaced
    <3>2. CASE u.queue # <<>> /\ v.hand = Head(u.queue) /\ v.queue = Tail(u.queue) /\ v.latest = u.latest
      <4>1. Head(u.queue).kind \in Replayable
        <5>1. \E i \in DOMAIN u.queue : Head(u.queue) = u.queue[i]
          BY <3>1, <3>2, RestOf DEF ElementsOf
        <5> QED BY <2>1, <5>1 DEF RunnerPlaced
      <4> HIDE DEF u, v
      <4> QED BY <2>1, <3>1, <3>2, <4>1, InTurnHead DEF v
    <3>3. CASE u.queue = <<>> /\ k \in Pending(u) /\ v.hand = u.latest[k] /\ v.queue = u.queue
               /\ v.latest = [u.latest EXCEPT ![k] = NoEvent]
      <4>1. k \in Kinds /\ u.latest[k] # NoEvent /\ u.latest[k].kind = k
        BY <2>1, <3>3 DEF Pending, RunnerPlaced
      <4>2. \A l \in Kinds : v.latest[l] \in {NoEvent, u.latest[l]}
        BY <3>1, <3>3
      <4> HIDE DEF u, v, k
      <4> QED BY <2>1, <3>1, <3>3, <4>1, <4>2, InTurnLatest DEF v
    <3>4. CASE v.hand = u.hand /\ v.queue = u.queue /\ v.latest = u.latest
      <4> HIDE DEF u, v
      <4> QED BY <2>1, <3>1, <3>4, InTurnFrame DEF v
    <3> QED BY <2>4, <3>2, <3>3, <3>4, TakesFacts DEF BusInv
  <2> QED BY <2>2, <2>3, <2>4 DEF RunnerStep
<1>4. \A t \in Sessions : Reads(t)' =>
         InTurn(OwedTo(t[1]), known[t[1]], handler'[t].replay, sub'[t], BeingSent(t)')
  BY <1>1, <1>2, <1>3 DEF NotesInOrder
<1> QED BY <1>1, <1>4, OrderFrame

\* The client of session s is given event e, in turn.
LEMMA WritesOrder ==
  ASSUME BusInv, NotesInOrder, NEW s \in Sessions, NEW e \in Event, Published(e), Writes(s, e), pub' = pub,
         \A t \in Sessions : t # s => sub'[t] = sub[t] /\ handler'[t] = handler[t],
         Linked(s) => \A n \in OwedTo(s[1]) : n < e.id => n \in known[s[1]],
         Reads(s)' => InTurn(OwedTo(s[1]), known'[s[1]], handler'[s].replay, sub'[s], BeingSent(s))
  PROVE  NotesInOrder'
<1>1. /\ UNCHANGED <<linked, notes, base>>
      /\ \A c \in Clients : ~Linked(s) \/ c # s[1] => lastEventID'[c] = lastEventID[c] /\ known'[c] = known[c]
      /\ Linked(s) =>
           /\ lastEventID'[s[1]] = e.id
           /\ known'[s[1]] = IF e.kind \in Replayable THEN known[s[1]] \cup {e.id} ELSE known[s[1]]
  BY WritesFacts DEF BusInv
<1>2. \A c : OwedTo(c)' = OwedTo(c)
  BY <1>1 DEF OwedTo
<1>3. NoNoteSkipped'
  <2> SUFFICES ASSUME NEW c \in Clients, NEW n \in notes, base[c] < n, n <= lastEventID'[c] PROVE n \in known'[c]
    BY <1>1 DEF NoNoteSkipped
  <2>1. CASE ~Linked(s) \/ c # s[1]
    BY <1>1, <2>1 DEF NotesInOrder, NoNoteSkipped
  <2>2. CASE Linked(s) /\ c = s[1]
    <3>1. n \in OwedTo(s[1]) /\ n \in Nat /\ e.id \in Nat /\ n <= e.id
      BY <1>1, <2>2 DEF OwedTo, BusInv, BusTyped, Event
    <3>2. n = e.id => e.kind \in Replayable
      BY DEF Published
    <3> QED BY <1>1, <2>2, <3>1, <3>2
  <2> QED BY <2>1, <2>2
<1>4. ASSUME NEW t \in Sessions, Reads(t)'
      PROVE  InTurn(OwedTo(t[1]), known[t[1]], handler[t].replay, sub[t], BeingSent(t))'
  <2>1. BeingSent(t)' = BeingSent(t)
    BY SentFrame
  <2>2. CASE t = s
    <3>1. InTurn(OwedTo(s[1])', known'[s[1]], handler'[s].replay, sub'[s], BeingSent(s)')
      BY <1>2, <1>4, <2>1, <2>2
    <3> QED BY <2>2, <3>1 DEF InTurn, Fills, Ids, ElementsOf, HandIds
  <2>3. CASE t # s
    <3>1. Linked(t) /\ Reads(t)
      BY <1>1, <1>4, <2>3 DEF Reads, Linked
    <3>2. known'[t[1]] = known[t[1]]
      <4>1. ~Linked(s) \/ t[1] # s[1]
        BY <2>3, <3>1, OneLinked
      <4> QED BY <1>1, <4>1, SessionFacts
    <3>3. InTurn(OwedTo(t[1]), known[t[1]], handler[t].replay, sub[t], BeingSent(t))
      BY <3>1 DEF NotesInOrder
    <3>4. InTurn(OwedTo(t[1])', known'[t[1]], handler'[t].replay, sub'[t], BeingSent(t)')
      BY <1>2, <2>1, <2>3, <3>2, <3>3
    <3> QED BY <3>4 DEF InTurn, Fills, Ids, ElementsOf, HandIds
  <2> QED BY <2>2, <2>3
<1> QED BY <1>3, <1>4 DEF NotesInOrder

LEMMA HandlerOrder ==
  ASSUME BusInv, NotesInOrder, NEW s \in Sessions, HandlerNext(s)
  PROVE  NotesInOrder'
<1>1. /\ UNCHANGED <<notes, pub, linked, base>>
      /\ \A t \in Sessions : t # s => sub'[t] = sub[t] /\ handler'[t] = handler[t]
  BY HandlerFacts DEF BusInv
<1>2. /\ sub[s] \in SubscriberRec /\ handler[s] \in HandlerRec /\ sub \in [Sessions -> SubscriberRec]
      /\ handler \in [Sessions -> HandlerRec] /\ RunnerPlaced(sub[s]) /\ ReplayPlaced(handler[s])
      /\ \A e \in Events(s) : Published(e)
      /\ \A t \in Sessions : BeingSent(t)' = BeingSent(t)
  BY <1>1, SentFrame DEF BusInv, BusTyped, RunnersPlaced, EventsPublished
<1>3. CASE HandlerGreets(s)
  <2>1. handler'[s] = [handler[s] EXCEPT !.hello = @ \ {FirstOf(handler[s].hello)}] /\ sub' = sub
        /\ handler[s].at = "open" /\ UNCHANGED <<known, lastEventID>>
    BY <1>2, <1>3 DEF HandlerGreets, historyVars
  <2>2. handler'[s].replay = handler[s].replay /\ handler'[s].at = handler[s].at
    BY <1>2, <2>1 DEF HandlerRec
  <2>3. \A t \in Sessions : Reads(t)' => Reads(t) /\ handler'[t].replay = handler[t].replay
    BY <1>1, <2>2 DEF Reads, Linked
  <2>4. \A t \in Sessions : Reads(t)' =>
         InTurn(OwedTo(t[1]), known[t[1]], handler'[t].replay, sub'[t], BeingSent(t)')
    BY <1>2, <2>1, <2>3 DEF NotesInOrder
  <2> QED BY <1>1, <2>1, <2>4, OrderFrame
<1>4. CASE HandlerReplays(s)
  <2> DEFINE q == handler[s].replay  e == Head(q)  h == Taken(handler[s], e)
  <2>1. q \in Seq(Event) /\ q # <<>> /\ handler'[s] = [h EXCEPT !.replay = Tail(q)] /\ sub' = sub
        /\ handler[s].at = "open" /\ Writes(s, e)
    BY <1>2, <1>4 DEF HandlerReplays, HandlerRec
  <2>2. handler'[s].replay = Tail(q)
    BY <1>2, <2>1 DEF HandlerRec, Taken
  <2>3. e \in Event /\ e \in ElementsOf(q)
    BY <2>1, RestOf
  <2>4. e.kind \in Replayable /\ Published(e)
    BY <1>2, <2>3 DEF ReplayPlaced, Events
  <2> HIDE DEF h, e, q
  <2>5. Linked(s) => InTurn(OwedTo(s[1]), known[s[1]], q, sub[s], BeingSent(s))
    BY <2>1 DEF NotesInOrder, Reads, q
  <2>6. Linked(s) => /\ \A n \in OwedTo(s[1]) : n < e.id => n \in known[s[1]]
                     /\ InTurn(OwedTo(s[1]), known[s[1]] \cup {e.id}, Tail(q), sub[s], BeingSent(s))
    BY <2>1, <2>5, InTurnReplays DEF e
  <2>7. Linked(s) => known'[s[1]] = known[s[1]] \cup {e.id}
    BY <2>1, <2>3, <2>4, WritesFacts DEF BusInv
  <2>8. Reads(s)' => InTurn(OwedTo(s[1]), known'[s[1]], handler'[s].replay, sub'[s], BeingSent(s))
    BY <1>1, <2>1, <2>2, <2>6, <2>7 DEF Reads, Linked
  <2> QED BY <1>1, <2>1, <2>3, <2>4, <2>6, <2>8, WritesOrder
<1>5. CASE HandlerReceives(s)
  <2> DEFINE u == sub[s]  v == sub'[s]  e == u.hand
  <2>1. /\ e \in Event /\ e # NoEvent /\ Writes(s, e) /\ handler[s].at = "open" /\ handler[s].replay = <<>>
        /\ v = [u EXCEPT !.run = "next", !.hand = NoEvent]
        /\ handler'[s] = Taken(handler[s], e) \/ handler'[s] = [NoHandler EXCEPT !.at = "leaving"]
    BY <1>2, <1>5, BusFacts DEF HandlerReceives, Streams, RunnerPlaced, SubscriberRec
  <2>2. v.hand = NoEvent /\ v.queue = u.queue /\ v.latest = u.latest /\ v.closed = u.closed
    BY <1>2, <2>1 DEF SubscriberRec
  <2>3. handler'[s].replay = <<>>
    BY <1>2, <2>1 DEF Taken, HandlerRec, NoHandler
  <2>4. Published(e)
    BY <1>2, <2>1 DEF Events, SubEvents
  <2>5. Linked(s) => known'[s[1]] = known[s[1]] \cup HandIds(u)
    <3>1. Linked(s) => known'[s[1]] = IF e.kind \in Replayable THEN known[s[1]] \cup {e.id} ELSE known[s[1]]
      BY <2>1, WritesFacts DEF BusInv
    <3> QED BY <2>1, <3>1 DEF HandIds
  <2> HIDE DEF u, v
  <2>6. Linked(s) => InTurn(OwedTo(s[1]), known[s[1]], <<>>, u, BeingSent(s))
    BY <2>1 DEF NotesInOrder, Reads, u
  <2>7. Linked(s) => /\ \A n \in OwedTo(s[1]) : n < e.id => n \in known[s[1]]
                     /\ InTurn(OwedTo(s[1]), known[s[1]] \cup HandIds(u), <<>>, v, BeingSent(s))
    <3> SUFFICES ASSUME Linked(s)
                 PROVE  /\ \A n \in OwedTo(s[1]) : n < e.id => n \in known[s[1]]
                        /\ InTurn(OwedTo(s[1]), known[s[1]] \cup HandIds(u), <<>>, v, BeingSent(s))
      OBVIOUS
    <3>1. InTurn(OwedTo(s[1]), known[s[1]], <<>>, u, BeingSent(s)) /\ u.hand # NoEvent
      BY <2>1, <2>6
    <3> QED BY <2>2, <3>1, InTurnReceives
  <2>8. Reads(s)' => InTurn(OwedTo(s[1]), known'[s[1]], handler'[s].replay, sub'[s], BeingSent(s))
    BY <1>1, <2>3, <2>5, <2>7 DEF Reads, Linked, v
  <2> HIDE DEF e
  <2> QED BY <1>1, <2>1, <2>4, <2>7, <2>8, WritesOrder
<1>6. CASE HandlerLeaves(s)
  <2>1. PICK a : HandlerStep(s, a) /\ a # "open"
    BY <1>6 DEF HandlerLeaves, HandlerSeesEnd, HandlerSeesDrop, HandlerUnsubscribes, HandlerCloses
  <2>2. handler'[s].at # "open" /\ UNCHANGED <<known, lastEventID>>
    BY <1>2, <2>1 DEF HandlerStep, NoHandler, historyVars, clientVars
  <2>3. \A t \in Sessions : Reads(t)' => t # s /\ Reads(t)
    BY <1>1, <2>2 DEF Reads, Linked
  <2>4. \A t \in Sessions : Reads(t)' =>
         InTurn(OwedTo(t[1]), known[t[1]], handler'[t].replay, sub'[t], BeingSent(t)')
    BY <1>1, <1>2, <2>3 DEF NotesInOrder
  <2> QED BY <1>1, <2>2, <2>4, OrderFrame
<1> QED BY <1>3, <1>4, <1>5, <1>6 DEF HandlerNext, HandlerLeaves

\* A new session is given the rest from the replay.
LEMMA ConnectsOrder ==
  ASSUME BusInv, NotesInOrder, NEW c \in Clients, Connects(c)
  PROVE  NotesInOrder'
<1> DEFINE s == NewSession(c)  last == lastEventID[c]
<1>0. BusTyped /\ EventsPublished /\ FreshSessions
  BY DEF BusInv
<1>1. s \in Sessions /\ sub[s] = Unused /\ s[1] = c
  BY <1>0, ConnectsTyped DEF NewSession
<1>2. /\ sub'[s] = [Unused EXCEPT !.run = "wait", !.closed = busClosed] /\ handler'[s] = NewHandler(c)
      /\ \A t \in Sessions : t # s => sub'[t] = sub[t] /\ handler'[t] = handler[t]
  BY <1>0, <1>1, ConnectsSession DEF BusTyped
<1>3. UNCHANGED <<nextEventID, replayHistory, notes, pub, lastEventID, known>>
      /\ linked' = [linked EXCEPT ![c] = used[c] + 1]
  BY ConnectsCounts
<1>4. \A d \in Clients : d # c => base'[d] = base[d] /\ linked'[d] = linked[d] /\ OwedTo(d)' = OwedTo(d)
  <2>1. \A d \in Clients : d # c => base'[d] = base[d]
    BY <1>0, ConnectsBase DEF BusTyped
  <2>2. \A d \in Clients : d # c => linked'[d] = linked[d]
    BY <1>0, <1>3 DEF BusTyped
  <2> QED BY <1>3, <2>1, <2>2 DEF OwedTo
<1> DEFINE b == Max({base[c]} \cup Forgotten)
<1>5. b \in Nat /\ base[c] <= b /\ (\A n \in Forgotten : n <= b) /\ base[c] \in Nat
  BY <1>0, BaseTyped DEF BusTyped
<1> HIDE DEF b
<1>6. base'[c] = IF last = 0 THEN nextEventID ELSE b
  BY <1>0, ConnectsBase DEF BusTyped, b
<1>7. notes \subseteq 1 .. nextEventID /\ nextEventID \in Nat /\ last \in Nat /\ notes \subseteq Nat
  BY <1>0 DEF EventsPublished, BusTyped
<1>8. last = 0 => OwedTo(c)' = {}
  <2>1. \A n \in notes : n <= nextEventID
    BY <1>7
  <2>2. \A n \in notes : ~(nextEventID < n)
    BY <1>7, <2>1
  <2> QED BY <1>3, <1>6, <2>2 DEF OwedTo
<1>9. last # 0 => \A n \in OwedTo(c)' : n \in OwedTo(c) /\ n \notin Forgotten
  <2>1. \A n \in notes : b < n => base[c] < n /\ ~(n <= b)
    <3>1. \A n \in Nat : b < n => base[c] < n /\ ~(n <= b)
      BY <1>5
    <3> QED BY <1>7, <3>1
  <2> QED BY <1>3, <1>5, <1>6, <2>1 DEF OwedTo
<1>10. NoNoteSkipped'
  <2> SUFFICES ASSUME NEW d \in Clients, NEW n \in notes, base'[d] < n, n <= lastEventID[d] PROVE n \in known[d]
    BY <1>3 DEF NoNoteSkipped
  <2>1. CASE d # c
    BY <1>4, <2>1 DEF NotesInOrder, NoNoteSkipped
  <2>2. CASE d = c
    <3>1. n \in OwedTo(c)' /\ n \in Nat /\ n # 0
      BY <1>3, <1>7, <2>2 DEF OwedTo
    <3>2. last # 0
      BY <1>8, <3>1
    <3>3. base[c] < n
      BY <1>9, <3>1, <3>2 DEF OwedTo
    <3> QED BY <2>2, <3>3 DEF NotesInOrder, NoNoteSkipped
  <2> QED BY <2>1, <2>2
<1>11. ASSUME NEW sent PROVE InTurn(OwedTo(c)', known[c], Replay(c), sub'[s], sent)
  <2> DEFINE q == Replay(c)  owed == OwedTo(c)'  v == sub'[s]
  <2>1. v.hand = NoEvent /\ v.queue = <<>> /\ (\A k \in Kinds : v.latest[k] = NoEvent) /\ v.closed = busClosed
    BY <1>2 DEF Unused
  <2>2. /\ q \in Seq(Event) /\ Increasing(q)
        /\ ElementsOf(q) = IF last = 0 \/ busClosed THEN {} ELSE {e \in ElementsOf(replayHistory) : e.id > last}
    BY <1>0, ReplayFacts
  <2> HIDE DEF q
  <2>3. ~busClosed => \A n \in owed : n \in known[c] \/ \E i \in DOMAIN q : q[i].id = n
    <3> SUFFICES ASSUME ~busClosed, NEW n \in owed, n \notin known[c] PROVE \E i \in DOMAIN q : q[i].id = n
      OBVIOUS
    <3>1. last # 0 /\ n \in OwedTo(c) /\ n \notin Forgotten /\ n \in notes /\ base[c] < n
      BY <1>8, <1>9 DEF OwedTo
    <3>2. ~(n <= last) /\ n \in Nat
      BY <1>7, <3>1 DEF NotesInOrder, NoNoteSkipped
    <3>3. PICK i \in DOMAIN replayHistory : replayHistory[i].id = n
      BY <3>1 DEF Forgotten
    <3>4. replayHistory[i] \in ElementsOf(replayHistory) /\ replayHistory[i].id > last
      BY <1>7, <3>2, <3>3 DEF ElementsOf
    <3>5. replayHistory[i] \in ElementsOf(q)
      BY <2>2, <3>1, <3>4
    <3> QED BY <3>3, <3>5 DEF ElementsOf
  <2>4. Fills(q, known[c], owed)
    <3>1. CASE busClosed
      <4>1. DOMAIN q = {}
        BY <2>2, <3>1 DEF ElementsOf
      <4> QED BY <4>1 DEF Fills
    <3>2. CASE ~busClosed
      <4> SUFFICES ASSUME NEW i \in DOMAIN q, NEW n \in owed, n < q[i].id, n \notin known[c]
                   PROVE  \E j \in DOMAIN q : j < i /\ q[j].id = n
        BY DEF Fills
      <4>1. PICK j \in DOMAIN q : q[j].id = n
        BY <2>3, <3>2
      <4>2. i \in Nat /\ j \in Nat /\ q[i] \in Event /\ q[j] \in Event
        BY <2>2
      <4>3. q[i].id \in Nat /\ q[j].id \in Nat
        BY <4>2 DEF Event
      <4>4. j < i
        BY <2>2, <4>1, <4>2, <4>3 DEF Increasing
      <4> QED BY <4>1, <4>4
    <3> QED BY <3>1, <3>2
  <2>5. \A d : Fills(v.queue, d, owed)
    BY <2>1, FillsNone
  <2>6. ~v.closed => owed \subseteq known[c] \cup Ids(q)
    BY <2>1, <2>3 DEF Ids, ElementsOf
  <2> HIDE DEF v, owed
  <2>7. InTurn(owed, known[c], q, v, sent)
    BY <2>1, <2>4, <2>5, <2>6 DEF InTurn
  <2> QED BY <2>7 DEF q, owed, v
<1>12. ASSUME NEW t \in Sessions, Reads(t)'
       PROVE  InTurn(OwedTo(t[1]), known[t[1]], handler[t].replay, sub[t], BeingSent(t))'
  <2>1. CASE t = s
    <3>1. handler'[s].replay = Replay(c)
      BY <1>2 DEF NewHandler
    <3>2. InTurn(OwedTo(c)', known[c], handler'[t].replay, sub'[t], BeingSent(t)')
      BY <1>11, <2>1, <3>1
    <3>3. t[1] = c /\ known' = known
      BY <1>1, <1>3, <2>1
    <3> QED BY <3>2, <3>3 DEF InTurn, Fills, Ids, ElementsOf, HandIds
  <2>2. CASE t # s
    <3>1. t[1] # c
      <4>1. linked'[c] = s[2] /\ Linked(t)'
        BY <1>0, <1>2, <1>3, <1>12 DEF BusTyped, NewSession, Reads
      <4>2. t[1] = c => t[2] = s[2]
        BY <4>1 DEF Linked
      <4> QED BY <1>1, <2>2, <4>2, SessionFacts
    <3>2. t[1] \in Clients
      BY SessionFacts
    <3>3. Reads(t)
      BY <1>2, <1>4, <1>12, <2>2, <3>1, <3>2 DEF Reads, Linked
    <3>4. BeingSent(t)' = BeingSent(t)
      BY <1>3, SentFrame
    <3>5. InTurn(OwedTo(t[1])', known'[t[1]], handler'[t].replay, sub'[t], BeingSent(t)')
      BY <1>2, <1>3, <1>4, <2>2, <3>1, <3>2, <3>3, <3>4 DEF NotesInOrder
    <3> HIDE DEF s
    <3> QED BY <3>5 DEF InTurn, Fills, Ids, ElementsOf, HandIds
  <2> QED BY <2>1, <2>2
<1> QED BY <1>10, <1>12 DEF NotesInOrder

-----------------------------------------------------------------------------
(* Views follow the server: the steps.                                     *)

LEMMA TruthFrame ==
  ASSUME Truthful, version' = version,
         \A p \in Processes : pub'[p].kind \in Kinds /\ pub'[p].at \in {"publish", "sending"} =>
           pub'[p].kind = pub[p].kind /\ pub'[p].at = pub[p].at
             /\ pub'[p].content = pub[p].content /\ pub'[p].evt = pub[p].evt
  PROVE  Truthful'
BY DEF Truthful

\* What a session shows, and what is on its way to it, stays the same.
LEMMA CurrentFrame ==
  ASSUME NEW s \in Sessions, NEW k \in Kinds, Current(s, k), version'[k] = version[k],
         sub'[s].latest = sub[s].latest, sub'[s].hand = sub[s].hand, handler'[s].hello = handler[s].hello,
         view'[s[1]] = view[s[1]], \A p \in Processes : Carries(p, s, k) => Carries(p, s, k)'
  PROVE  Current(s, k)'
<1>1. CASE \E p \in Processes : Carries(p, s, k)
  BY <1>1 DEF Current
<1>2. CASE ShowsLast(version[k], k, sub[s], handler[s].hello, view[s[1]][k])
  <2>1. ShowsLast(version'[k], k, sub'[s], handler'[s].hello, view'[s[1]][k])
    BY <1>2 DEF ShowsLast
  <2> QED BY <2>1 DEF Current, ShowsLast
<1> QED BY <1>1, <1>2 DEF Current

\* A publisher comes to a new place.
LEMMA PublisherViews ==
  ASSUME ViewsFollow, Truthful', NEW p \in Processes, UNCHANGED <<version, sub, handler, view>>,
         \A s \in Sessions : Linked(s)' => Linked(s),
         \A q \in Processes : q # p => pub'[q] = pub[q],
         \A s \in Sessions : handler[s].at = "open" /\ ~sub[s].closed =>
           \A k \in Kinds : Carries(p, s, k) => Carries(p, s, k)'
  PROVE  ViewsFollow'
<1> SUFFICES ASSUME NEW s \in Sessions, Reads(s)', ~sub[s].closed, NEW k \in Kinds PROVE Current(s, k)'
  BY DEF ViewsFollow
<1>1. Reads(s) /\ Current(s, k)
  BY DEF Reads, ViewsFollow
<1>2. \A q \in Processes : Carries(q, s, k) => Carries(q, s, k)'
  <2> SUFFICES ASSUME NEW q \in Processes, Carries(q, s, k) PROVE Carries(q, s, k)'
    OBVIOUS
  <2>1. CASE q = p
    BY <1>1, <2>1 DEF Reads
  <2>2. CASE q # p
    BY <2>2 DEF Carries
  <2> QED BY <2>1, <2>2
<1> QED BY <1>1, <1>2, CurrentFrame

LEMMA ChangesViews ==
  ASSUME BusInv, ViewsFollow, TakingTurns', NEW p \in Processes, NEW k \in Kinds, NEW note \in Endings,
         Changes(p, k, note)
  PROVE  ViewsFollow'
<1> DEFINE a == IF k = "tasks" THEN "copy" ELSE "publish"
           n == version[k] + 1
           r == [pub[p] EXCEPT !.at = a, !.kind = k, !.note = note, !.content = n]
<1>1. pub[p] \in PublisherRec /\ pub \in [Processes -> PublisherRec] /\ version \in [Kinds -> 0 .. MaxChanges]
  BY DEF BusInv, BusTyped
<1>2. pub' = [pub EXCEPT ![p] = r]
  BY Zenon DEF Changes
<1>3. version' = [version EXCEPT ![k] = n] /\ pub[p].at = "idle"
      /\ UNCHANGED <<busVars, sub, handler, clientVars, historyVars>>
  BY Zenon DEF Changes
<1>4. r.at = a /\ r.kind = k /\ r.content = n
  BY <1>1 DEF PublisherRec
<1> HIDE DEF r
<1>5. pub'[p] = r /\ \A q \in Processes : q # p => pub'[q] = pub[q]
  BY <1>1, <1>2
<1>6. \A q \in Processes : q # p => ~AtWork(q)
  <2>1. AtWork(p)'
    BY <1>4, <1>5 DEF AtWork
  <2>2. \A q \in Processes : q # p => ~AtWork(q)'
    BY <2>1 DEF TakingTurns
  <2> QED BY <1>5, <2>2 DEF AtWork
<1>7. version'[k] = n /\ \A j \in Kinds : j # k => version'[j] = version[j]
  BY <1>1, <1>3
<1> HIDE DEF n
<1>8. Truthful'
  <2> SUFFICES ASSUME NEW q \in Processes, pub'[q].kind \in Kinds, pub'[q].at \in {"publish", "sending"}
               PROVE  /\ pub'[q].at = "publish" => pub'[q].content = version'[pub'[q].kind]
                      /\ pub'[q].at = "sending" => pub'[q].evt.content = version'[pub'[q].kind]
    BY DEF Truthful
  <2>1. q = p
    BY <1>5, <1>6 DEF AtWork
  <2> QED BY <1>4, <1>5, <1>7, <2>1
<1> SUFFICES ASSUME NEW s \in Sessions, Reads(s)', ~sub'[s].closed, NEW j \in Kinds PROVE Current(s, j)'
  BY <1>8 DEF ViewsFollow
<1>9. Reads(s) /\ ~sub[s].closed /\ Current(s, j) /\ UNCHANGED <<sub, handler, view>>
  BY <1>3 DEF Reads, Linked, clientVars, ViewsFollow
<1>10. CASE j = k
  <2>1. Carries(p, s, k)'
    BY <1>4, <1>5 DEF Carries
  <2> QED BY <1>10, <2>1 DEF Current
<1>11. CASE j # k
  <2>1. \A q \in Processes : ~Carries(q, s, j)
    BY <1>3, <1>6 DEF Carries, AtWork
  <2> QED BY <1>7, <1>9, <1>11, <2>1, CurrentFrame
<1> QED BY <1>10, <1>11

LEMMA CopiesViews ==
  ASSUME BusInv, ViewsFollow, NEW p \in Processes, Copies(p)
  PROVE  ViewsFollow'
<1> DEFINE r == [pub[p] EXCEPT !.at = "publish", !.content = version["tasks"]]
<1>1. pub[p] \in PublisherRec /\ pub \in [Processes -> PublisherRec] /\ pub[p].at = "copy" /\ pub[p].kind = "tasks"
  BY DEF BusInv, BusTyped, Copies, PublishersPlaced, Placed
<1>2. pub' = [pub EXCEPT ![p] = r] /\ UNCHANGED <<version, sub, handler, view, linked>>
  BY DEF Copies, clientVars
<1>3. r.at = "publish" /\ r.content = version["tasks"] /\ r.kind = "tasks"
  BY <1>1 DEF PublisherRec
<1> HIDE DEF r
<1>4. pub'[p] = r /\ \A q \in Processes : q # p => pub'[q] = pub[q]
  BY <1>1, <1>2
<1>5. Truthful'
  <2> SUFFICES ASSUME NEW q \in Processes, pub'[q].kind \in Kinds
               PROVE  /\ pub'[q].at = "publish" => pub'[q].content = version[pub'[q].kind]
                      /\ pub'[q].at = "sending" => pub'[q].evt.content = version[pub'[q].kind]
    BY <1>2 DEF Truthful
  <2>1. CASE q = p
    BY <1>3, <1>4, <2>1
  <2>2. CASE q # p
    BY <1>4, <2>2 DEF ViewsFollow, Truthful
  <2> QED BY <2>1, <2>2
<1>6. \A s \in Sessions : \A k \in Kinds : Carries(p, s, k) => Carries(p, s, k)'
  BY <1>1, <1>3, <1>4 DEF Carries
<1>7. \A s \in Sessions : Linked(s)' => Linked(s)
  BY <1>2 DEF Linked
<1> QED BY <1>2, <1>4, <1>5, <1>6, <1>7, PublisherViews

LEMMA ShutdownViews ==
  ASSUME BusInv, ViewsFollow, ShutdownAnnounces
  PROVE  ViewsFollow'
<1> DEFINE r == [pub[Server] EXCEPT !.at = "publish", !.kind = "server_shutdown"]
<1>1. pub[Server] \in PublisherRec /\ pub \in [Processes -> PublisherRec] /\ pub[Server].at = "idle" /\ Server \in Processes
  BY BusFacts DEF BusInv, BusTyped, ShutdownAnnounces
<1>2. pub' = [pub EXCEPT ![Server] = r] /\ UNCHANGED <<version, sub, handler, view, linked>>
  BY DEF ShutdownAnnounces, clientVars
<1>3. r.kind = "server_shutdown" /\ r.kind \notin Kinds
  BY <1>1, BusFacts DEF PublisherRec, Replayable
<1> HIDE DEF r
<1>4. pub'[Server] = r /\ \A q \in Processes : q # Server => pub'[q] = pub[q]
  BY <1>1, <1>2
<1>5. Truthful'
  BY <1>2, <1>3, <1>4, TruthFrame DEF ViewsFollow
<1>6. \A s \in Sessions : \A k \in Kinds : ~Carries(Server, s, k)
  BY <1>1 DEF Carries
<1>7. \A s \in Sessions : Linked(s)' => Linked(s)
  BY <1>2 DEF Linked
<1> QED BY <1>1, <1>2, <1>4, <1>5, <1>6, <1>7, PublisherViews

\* What comes after an event is no snapshot.
LEMMA ContinueKinds ==
  ASSUME NEW p \in Processes
  PROVE  Continue(p).at \in {"idle", "announced"} \/ Continue(p).kind \notin Kinds
<1>1. CASE pub[p].note
  <2>1. Continue(p).kind = "notification"
    BY <1>1 DEF Continue, Resting
  <2> QED BY <2>1, BusFacts DEF Replayable
<1>2. CASE ~pub[p].note
  BY <1>2 DEF Continue, Resting
<1> QED BY <1>1, <1>2

LEMMA PublishViews ==
  ASSUME BusInv, ViewsFollow, NEW p \in Processes, Publish(p)
  PROVE  ViewsFollow'
<1>1. /\ pub[p] \in PublisherRec /\ pub \in [Processes -> PublisherRec] /\ pub[p].at = "publish"
      /\ UNCHANGED <<version, sub, handler, view, linked>>
  BY DEF BusInv, BusTyped, Publish, clientVars
<1>2. \A s \in Sessions : Linked(s)' => Linked(s)
  BY <1>1 DEF Linked
<1>3. \A s \in Sessions : handler[s].at = "open" /\ ~sub[s].closed => s \in subscribers
  BY DEF BusInv, Registered, SubscribersMatchStreams
<1>4. CASE busClosed
  <2>1. pub' = [pub EXCEPT ![p] = Continue(p)]
    BY <1>4 DEF Publish
  <2>2. pub'[p] = Continue(p) /\ \A q \in Processes : q # p => pub'[q] = pub[q]
    BY <1>1, <2>1
  <2>3. Truthful'
    BY <1>1, <2>2, ContinueKinds, TruthFrame DEF ViewsFollow
  <2>4. \A s \in Sessions : ~(handler[s].at = "open" /\ ~sub[s].closed)
    BY <1>3, <1>4 DEF BusInv, Registered
  <2> QED BY <1>1, <1>2, <2>2, <2>3, <2>4, PublisherViews
<1>5. CASE ~busClosed
  <2> DEFINE new == NewEvent(p)
             r == [pub[p] EXCEPT !.at = "sending", !.evt = new, !.left = subscribers, !.over = {}]
  <2>1. pub' = [pub EXCEPT ![p] = r]
    BY <1>5, PublishOpen DEF BusInv
  <2>2. r.at = "sending" /\ r.evt = new /\ r.left = subscribers /\ r.kind = pub[p].kind
    BY <1>1 DEF PublisherRec
  <2>3. pub[p].kind \in Kinds => new.content = pub[p].content
    BY DEF NewEvent
  <2> HIDE DEF r, new
  <2>4. pub'[p] = r /\ \A q \in Processes : q # p => pub'[q] = pub[q]
    BY <1>1, <2>1
  <2>5. Truthful'
    <3> SUFFICES ASSUME NEW q \in Processes, pub'[q].kind \in Kinds
                 PROVE  /\ pub'[q].at = "publish" => pub'[q].content = version[pub'[q].kind]
                        /\ pub'[q].at = "sending" => pub'[q].evt.content = version[pub'[q].kind]
      BY <1>1 DEF Truthful
    <3>1. CASE q = p
      BY <1>1, <2>2, <2>3, <2>4, <3>1 DEF ViewsFollow, Truthful
    <3>2. CASE q # p
      BY <2>4, <3>2 DEF ViewsFollow, Truthful
    <3> QED BY <3>1, <3>2
  <2>6. \A s \in Sessions : handler[s].at = "open" /\ ~sub[s].closed =>
          \A k \in Kinds : Carries(p, s, k) => Carries(p, s, k)'
    BY <1>3, <2>2, <2>4 DEF Carries
  <2> QED BY <1>1, <1>2, <2>4, <2>5, <2>6, PublisherViews
<1> QED BY <1>4, <1>5

LEMMA HasSentViews ==
  ASSUME BusInv, ViewsFollow, NEW p \in Processes, HasSent(p)
  PROVE  ViewsFollow'
<1>1. /\ pub \in [Processes -> PublisherRec] /\ pub[p].at = "sending" /\ pub[p].left = {}
      /\ pub' = [pub EXCEPT ![p] = Continue(p)] /\ UNCHANGED <<version, sub, handler, view, linked>>
  BY DEF BusInv, BusTyped, HasSent, clientVars
<1>2. pub'[p] = Continue(p) /\ \A q \in Processes : q # p => pub'[q] = pub[q]
  BY <1>1
<1>3. Truthful'
  BY <1>1, <1>2, ContinueKinds, TruthFrame DEF ViewsFollow
<1>4. \A s \in Sessions : \A k \in Kinds : ~Carries(p, s, k)
  BY <1>1 DEF Carries
<1>5. \A s \in Sessions : Linked(s)' => Linked(s)
  BY <1>1 DEF Linked
<1> QED BY <1>1, <1>2, <1>3, <1>4, <1>5, PublisherViews

\* What is sent shows the present state.
LEMMA SendsViews ==
  ASSUME BusInv, ViewsFollow, NEW p \in Processes, NEW s \in Sessions, Sends(p, s)
  PROVE  ViewsFollow'
<1> DEFINE e == pub[p].evt  u == sub[s]
<1>1. /\ e \in Event /\ u \in SubscriberRec /\ sub'[s] = Sent(u, e) /\ pub[p].at = "sending" /\ e.kind = pub[p].kind
      /\ \A t \in Sessions : t # s => sub'[t] = sub[t]
  BY SendsFacts, SendsPlaced DEF BusInv, BusTyped, PublishersPlaced, Placed
<1>2. UNCHANGED <<version, handler, linked, view>>
  BY DEF Sends, clientVars
<1>3. \A q \in Processes : pub'[q].evt = pub[q].evt /\ pub'[q].at = pub[q].at /\ pub'[q].kind = pub[q].kind
  BY SendsFacts DEF BusInv
<1>4. \A q \in Processes : pub'[q].left = IF q = p THEN pub[q].left \ {s} ELSE pub[q].left
  BY SendsFacts DEF BusInv
<1>5. \A q \in Processes : pub'[q].content = pub[q].content
  BY DEF Sends, BusInv, BusTyped, PublisherRec
<1>6. Truthful'
  BY <1>2, <1>3, <1>5, TruthFrame DEF ViewsFollow
<1>7. e.kind \in Kinds => e.content = version[e.kind]
  BY <1>1 DEF ViewsFollow, Truthful
<1> HIDE DEF e, u
<1> SUFFICES ASSUME NEW t \in Sessions, Reads(t)', ~sub'[t].closed, NEW k \in Kinds PROVE Current(t, k)'
  BY <1>6 DEF ViewsFollow
<1>8. Reads(t)
  BY <1>2 DEF Reads, Linked
<1>9. CASE t # s
  <2>1. Current(t, k)
    BY <1>1, <1>8, <1>9 DEF ViewsFollow
  <2>2. \A q \in Processes : Carries(q, t, k) => Carries(q, t, k)'
    BY <1>3, <1>4, <1>9 DEF Carries
  <2> QED BY <1>1, <1>2, <1>9, <2>1, <2>2, CurrentFrame
<1>10. CASE t = s
  <2>1. ~u.closed /\ ~Overflows(u, e)
    BY <1>1, <1>10, SentCloses
  <2>2. Current(s, k)
    BY <1>8, <1>10, <2>1 DEF ViewsFollow, u
  <2>3. CASE e.kind = k
    <3>1. Sent(u, e) = [u EXCEPT !.latest[k] = e, !.wake = TRUE]
      BY <2>1, <2>3 DEF Sent
    <3>2. sub'[s].latest[k] = e /\ e # NoEvent
      BY <1>1, <3>1, BusFacts DEF SubscriberRec
    <3> QED BY <1>2, <1>7, <1>10, <2>3, <3>2 DEF Current, ShowsLast
  <2>4. CASE e.kind # k
    <3>1. sub'[s].latest[k] = u.latest[k] /\ sub'[s].hand = u.hand
      <4>1. CASE e.kind \in Kinds
        <5>1. Sent(u, e) = [u EXCEPT !.latest[e.kind] = e, !.wake = TRUE]
          BY <2>1, <4>1 DEF Sent
        <5> QED BY <1>1, <2>4, <5>1 DEF SubscriberRec
      <4>2. CASE e.kind \notin Kinds
        <5>1. Sent(u, e) = [u EXCEPT !.queue = Append(u.queue, e), !.wake = TRUE]
          BY <2>1, <4>2 DEF Sent
        <5> QED BY <1>1, <5>1 DEF SubscriberRec
      <4> QED BY <4>1, <4>2
    <3>2. \A q \in Processes : Carries(q, s, k) => Carries(q, s, k)'
      BY <1>1, <1>3, <1>4, <2>4 DEF Carries
    <3> QED BY <1>2, <1>10, <2>2, <3>1, <3>2 DEF Current, ShowsLast, u
  <2> QED BY <2>3, <2>4
<1> QED BY <1>9, <1>10

LEMMA BusClosesViews ==
  ASSUME BusInv, ViewsFollow, BusCloses
  PROVE  ViewsFollow'
<1>1. UNCHANGED <<version, pub, handler, linked>>
  BY DEF BusCloses, clientVars
<1>2. Truthful'
  BY <1>1, TruthFrame DEF ViewsFollow
<1>3. \A s \in Sessions : handler'[s].at = "open" => sub'[s].closed
  <2> SUFFICES ASSUME NEW s \in Sessions, handler'[s].at = "open" PROVE sub'[s].closed
    OBVIOUS
  <2>1. handler[s].at = "open" /\ sub'[s] = IF s \in subscribers THEN [sub[s] EXCEPT !.closed = TRUE] ELSE sub[s]
    BY DEF BusCloses
  <2>2. sub[s] \in SubscriberRec
    BY DEF BusInv, BusTyped
  <2>3. s \in subscribers \/ sub[s].closed
    BY <2>1 DEF BusInv, Registered, SubscribersMatchStreams
  <2> QED BY <2>1, <2>2, <2>3 DEF SubscriberRec
<1> QED BY <1>2, <1>3 DEF ViewsFollow, Reads

LEMMA RunnerViews ==
  ASSUME BusInv, ViewsFollow, NEW s \in Sessions, RunnerStep(s)
  PROVE  ViewsFollow'
<1>1. /\ UNCHANGED <<version, linked, view, handler, pub>>
      /\ \A t \in Sessions : t # s => sub'[t] = sub[t]
      /\ sub[s] \in SubscriberRec /\ sub'[s].closed = sub[s].closed
  BY RunnerFacts DEF BusInv, clientVars
<1>2. Truthful'
  BY <1>1, TruthFrame DEF ViewsFollow
<1> SUFFICES ASSUME NEW t \in Sessions, Reads(t)', ~sub'[t].closed, NEW k \in Kinds PROVE Current(t, k)'
  BY <1>2 DEF ViewsFollow
<1>3. ~sub[t].closed /\ Current(t, k)
  BY <1>1 DEF ViewsFollow, Reads, Linked
<1>4. \A q \in Processes : Carries(q, t, k) => Carries(q, t, k)'
  BY <1>1 DEF Carries
<1>5. CASE t # s
  BY <1>1, <1>3, <1>4, <1>5, CurrentFrame
<1>6. CASE t = s
  <2> DEFINE u == sub[s]  v == sub'[s]  j == FirstOf(Pending(u))
  <2>1. RunnerPlaced(u) /\ u.latest \in [Kinds -> Event \cup {NoEvent}] /\ u.queue \in Seq(Event)
    BY <1>1 DEF BusInv, RunnersPlaced, SubscriberRec
  <2>2. CASE RunnerWakes(s)
    <3>1. BusTyped
      BY DEF BusInv
    <3>2. v = [u EXCEPT !.wake = FALSE, !.run = "next"]
      BY <2>2, <3>1, WakesFacts
    <3>3. v.hand = u.hand /\ v.latest = u.latest
      BY <1>1, <3>2 DEF SubscriberRec
    <3> QED BY <1>1, <1>3, <1>4, <1>6, <3>3, CurrentFrame
  <2>3. CASE RunnerEnds(s)
    BY <1>3, <1>6, <2>3, EndsFacts DEF BusInv
  <2>4. CASE RunnerTakes(s)
    <3>1. u.hand = NoEvent
      BY <2>1, <2>4, TakesFacts DEF BusInv, RunnerPlaced
    <3>2. CASE v.hand = u.hand /\ v.latest = u.latest
      BY <1>1, <1>3, <1>4, <1>6, <3>2, CurrentFrame
    <3>3. ASSUME \E p \in Processes : Carries(p, s, k) PROVE Current(t, k)'
      BY <1>4, <1>6, <3>3 DEF Current
    <3>4. ASSUME ShowsLast(version[k], k, v, handler[s].hello, view[s[1]][k]) PROVE Current(t, k)'
      BY <1>1, <1>6, <3>4 DEF Current, ShowsLast
    <3>5. ShowsLast(version[k], k, u, handler[s].hello, view[s[1]][k]) \/ \E p \in Processes : Carries(p, s, k)
      BY <1>3, <1>6 DEF Current
    <3>6. CASE u.queue # <<>> /\ v.hand = Head(u.queue) /\ v.latest = u.latest
      <4>1. v.hand.kind \notin Kinds
        <5>1. \E i \in DOMAIN u.queue : Head(u.queue) = u.queue[i]
          BY <2>1, <3>6, RestOf DEF ElementsOf
        <5> QED BY <2>1, <3>6, <5>1, BusFacts DEF RunnerPlaced
      <4> HIDE DEF u, v
      <4>2. ShowsLast(version[k], k, u, handler[s].hello, view[s[1]][k])
              => ShowsLast(version[k], k, v, handler[s].hello, view[s[1]][k])
        BY <3>1, <3>6, <4>1 DEF ShowsLast
      <4> QED BY <3>3, <3>4, <3>5, <4>2
    <3>7. CASE j \in Pending(u) /\ v.hand = u.latest[j] /\ v.latest = [u.latest EXCEPT ![j] = NoEvent]
      <4>1. j \in Kinds /\ u.latest[j] # NoEvent /\ u.latest[j].kind = j
        BY <2>1, <3>7 DEF Pending, RunnerPlaced
      <4>2. v.latest[k] = IF k = j THEN NoEvent ELSE u.latest[k]
        BY <2>1, <3>7
      <4> HIDE DEF u, v, j
      <4>3. ShowsLast(version[k], k, u, handler[s].hello, view[s[1]][k])
              => ShowsLast(version[k], k, v, handler[s].hello, view[s[1]][k])
        BY <3>1, <3>7, <4>1, <4>2 DEF ShowsLast
      <4> QED BY <3>3, <3>4, <3>5, <4>3
    <3> QED BY <2>4, <3>2, <3>6, <3>7, TakesFacts DEF BusInv
  <2> QED BY <2>2, <2>3, <2>4 DEF RunnerStep
<1> QED BY <1>5, <1>6

\* A handler's step leaves the other sessions as they are: only one session of a client is read.
LEMMA OthersViews ==
  ASSUME ViewsFollow, NEW s \in Sessions, UNCHANGED <<version, pub, linked>>,
         \A t \in Sessions : t # s => sub'[t] = sub[t] /\ handler'[t] = handler[t],
         \A c \in Clients : ~Linked(s) \/ c # s[1] => view'[c] = view[c],
         Reads(s)' /\ ~sub'[s].closed => \A k \in Kinds : Current(s, k)'
  PROVE  ViewsFollow'
<1>1. Truthful'
  BY TruthFrame DEF ViewsFollow
<1> SUFFICES ASSUME NEW t \in Sessions, t # s, Reads(t)', ~sub'[t].closed, NEW k \in Kinds PROVE Current(t, k)'
  BY <1>1 DEF ViewsFollow
<1>2. Reads(t) /\ Current(t, k)
  BY DEF ViewsFollow, Reads, Linked
<1>3. view'[t[1]] = view[t[1]]
  BY <1>2, OneLinked, SessionFacts DEF Reads
<1>4. \A q \in Processes : Carries(q, t, k) => Carries(q, t, k)'
  BY DEF Carries
<1> QED BY <1>2, <1>3, <1>4, CurrentFrame

LEMMA HandlerViews ==
  ASSUME BusInv, ViewsFollow, NEW s \in Sessions, HandlerNext(s)
  PROVE  ViewsFollow'
<1>1. /\ UNCHANGED <<version, pub, linked>>
      /\ \A t \in Sessions : t # s => sub'[t] = sub[t] /\ handler'[t] = handler[t]
  BY HandlerFacts DEF BusInv
<1>2. /\ sub[s] \in SubscriberRec /\ handler[s] \in HandlerRec /\ sub \in [Sessions -> SubscriberRec]
      /\ handler \in [Sessions -> HandlerRec] /\ RunnerPlaced(sub[s]) /\ ReplayPlaced(handler[s])
      /\ s[1] \in Clients /\ view \in [Clients -> [Kinds -> Nat]]
  BY SessionFacts DEF BusInv, BusTyped, RunnersPlaced, EventsPublished
<1>3. \A k \in Kinds : \A q \in Processes : Carries(q, s, k) => Carries(q, s, k)'
  BY <1>1 DEF Carries
<1>4. CASE HandlerGreets(s)
  <2> DEFINE j == FirstOf(handler[s].hello)  h == [handler[s] EXCEPT !.hello = handler[s].hello \ {j}]
  <2>1. /\ handler'[s] = h /\ sub' = sub /\ handler[s].at = "open" /\ j \in Kinds
        /\ view' = IF Linked(s) THEN [view EXCEPT ![s[1]] = [view[s[1]] EXCEPT ![j] = version[j]]] ELSE view
    <3>1. handler[s].hello # {} /\ handler[s].hello \in SUBSET Kinds
      BY <1>2, <1>4 DEF HandlerGreets, HandlerRec
    <3>2. j \in Kinds
      BY <3>1, BusFacts
    <3> QED BY <1>2, <1>4, <3>2 DEF HandlerGreets
  <2>2. h.hello = handler[s].hello \ {j} /\ h.at = "open"
    BY <1>2, <2>1 DEF HandlerRec
  <2>3. \A c \in Clients : ~Linked(s) \/ c # s[1] => view'[c] = view[c]
    BY <1>2, <2>1
  <2>4. Linked(s) => \A k \in Kinds : view'[s[1]][k] = IF k = j THEN version[j] ELSE view[s[1]][k]
    BY <1>2, <2>1
  <2> HIDE DEF h, j
  <2>5. ASSUME Reads(s)', ~sub'[s].closed, NEW k \in Kinds PROVE Current(s, k)'
    <3>1. Linked(s) /\ Current(s, k)
      BY <1>1, <2>1, <2>5 DEF Reads, Linked, ViewsFollow
    <3>2. ShowsLast(version[k], k, sub[s], handler[s].hello, view[s[1]][k])
            => ShowsLast(version[k], k, sub[s], h.hello, view'[s[1]][k])
      BY <2>2, <2>4, <3>1 DEF ShowsLast
    <3>3. CASE \E q \in Processes : Carries(q, s, k)
      BY <1>3, <3>3 DEF Current
    <3>4. CASE ShowsLast(version[k], k, sub[s], h.hello, view'[s[1]][k])
      BY <1>1, <2>1, <3>4 DEF Current, ShowsLast
    <3> QED BY <3>1, <3>2, <3>3, <3>4 DEF Current
  <2> QED BY <1>1, <2>3, <2>5, OthersViews
<1>5. CASE HandlerReplays(s)
  <2> DEFINE q == handler[s].replay  e == Head(q)  h == Taken(handler[s], e)
  <2>1. q \in Seq(Event) /\ q # <<>> /\ handler'[s] = [h EXCEPT !.replay = Tail(q)] /\ sub' = sub
        /\ handler[s].at = "open" /\ Writes(s, e)
    BY <1>2, <1>5 DEF HandlerReplays, HandlerRec
  <2>2. handler'[s].hello = handler[s].hello /\ handler'[s].at = handler[s].at
    BY <1>2, <2>1 DEF HandlerRec, Taken
  <2>3. e \in Event /\ e.kind \notin Kinds
    <3>1. e \in Event /\ e \in ElementsOf(q)
      BY <2>1, RestOf
    <3> QED BY <1>2, <3>1, BusFacts DEF ReplayPlaced
  <2> HIDE DEF h, e, q
  <2>4. view' = view
    BY <2>1, <2>3 DEF Writes, Event
  <2>5. ASSUME Reads(s)', ~sub'[s].closed, NEW k \in Kinds PROVE Current(s, k)'
    <3>1. Current(s, k)
      BY <1>1, <2>1, <2>5 DEF Reads, Linked, ViewsFollow
    <3> QED BY <1>1, <1>3, <2>1, <2>2, <2>4, <3>1, CurrentFrame
  <2> QED BY <1>1, <2>4, <2>5, OthersViews
<1>6. CASE HandlerReceives(s)
  <2> DEFINE u == sub[s]  v == sub'[s]  e == u.hand
  <2>1. /\ e \in Event /\ e # NoEvent /\ Writes(s, e) /\ handler[s].at = "open" /\ handler[s].hello = {}
        /\ v = [u EXCEPT !.run = "next", !.hand = NoEvent]
        /\ handler'[s] = Taken(handler[s], e) \/ handler'[s] = [NoHandler EXCEPT !.at = "leaving"]
    BY <1>2, <1>6, BusFacts DEF HandlerReceives, Streams, RunnerPlaced, SubscriberRec
  <2>2. v.hand = NoEvent /\ v.latest = u.latest /\ v.closed = u.closed
    BY <1>2, <2>1 DEF SubscriberRec
  <2>3. handler'[s].at = "open" => handler'[s].hello = {}
    BY <1>2, <2>1 DEF Taken, HandlerRec, NoHandler
  <2>4. /\ \A c \in Clients : ~Linked(s) \/ c # s[1] => view'[c] = view[c]
        /\ Linked(s) => \A k \in Kinds : view'[s[1]][k] = IF e.kind = k THEN e.content ELSE view[s[1]][k]
    <3>1. BusTyped /\ e \in Event /\ Writes(s, e)
      BY <2>1 DEF BusInv
    <3> HIDE DEF e
    <3> QED BY <3>1, WritesFacts
  <2>5. ASSUME Reads(s)', ~sub'[s].closed, NEW k \in Kinds PROVE Current(s, k)'
    <3>1. Linked(s) /\ Current(s, k) /\ handler'[s].hello = {}
      BY <1>1, <2>1, <2>2, <2>3, <2>5 DEF Reads, Linked, ViewsFollow
    <3> HIDE DEF u, v
    <3>2. ShowsLast(version[k], k, u, {}, view[s[1]][k]) => ShowsLast(version[k], k, v, {}, view'[s[1]][k])
      BY <2>1, <2>2, <2>4, <3>1 DEF ShowsLast
    <3>3. CASE \E q \in Processes : Carries(q, s, k)
      BY <1>3, <3>3 DEF Current
    <3>4. CASE ShowsLast(version[k], k, v, {}, view'[s[1]][k])
      BY <1>1, <3>1, <3>4 DEF Current, ShowsLast, v
    <3> QED BY <2>1, <3>1, <3>2, <3>3, <3>4 DEF Current, u
  <2> HIDE DEF e, u, v
  <2> QED BY <1>1, <2>4, <2>5, OthersViews
<1>7. CASE HandlerLeaves(s)
  <2>1. PICK a : HandlerStep(s, a) /\ a # "open"
    BY <1>7 DEF HandlerLeaves, HandlerSeesEnd, HandlerSeesDrop, HandlerUnsubscribes, HandlerCloses
  <2>2. handler'[s].at # "open" /\ view' = view
    BY <1>2, <2>1 DEF HandlerStep, NoHandler, clientVars
  <2> QED BY <1>1, <2>2, OthersViews DEF Reads
<1> QED BY <1>4, <1>5, <1>6, <1>7 DEF HandlerNext, HandlerLeaves

\* A new session starts with snapshots of all.
LEMMA ConnectsViews ==
  ASSUME BusInv, ViewsFollow, NEW c \in Clients, Connects(c)
  PROVE  ViewsFollow'
<1> DEFINE s == NewSession(c)
<1>0. BusTyped /\ EventsPublished /\ FreshSessions
  BY DEF BusInv
<1>1. s \in Sessions /\ sub[s] = Unused /\ s[1] = c /\ s[2] = used[c] + 1
  BY <1>0, ConnectsTyped DEF NewSession
<1>2. /\ sub'[s] = [Unused EXCEPT !.run = "wait", !.closed = busClosed] /\ handler'[s] = NewHandler(c)
      /\ \A t \in Sessions : t # s => sub'[t] = sub[t] /\ handler'[t] = handler[t]
  BY <1>0, <1>1, ConnectsSession DEF BusTyped
<1>3. UNCHANGED <<version, pub, view>> /\ linked' = [linked EXCEPT ![c] = used[c] + 1]
  BY ConnectsCounts
<1>4. /\ linked'[c] = used[c] + 1
      /\ \A d \in Clients : d # c => linked'[d] = linked[d]
  BY <1>0, <1>3 DEF BusTyped
<1>5. Truthful'
  BY <1>3, TruthFrame DEF ViewsFollow
<1> HIDE DEF s
<1> SUFFICES ASSUME NEW t \in Sessions, Reads(t)', ~sub'[t].closed, NEW k \in Kinds PROVE Current(t, k)'
  BY <1>5 DEF ViewsFollow
<1>6. CASE t = s
  <2>1. sub'[t].latest[k] = NoEvent /\ sub'[t].hand = NoEvent
    <3> DEFINE u == [Unused EXCEPT !.run = "wait", !.closed = busClosed]
    <3>1. u.latest = [j \in Kinds |-> NoEvent] /\ u.hand = NoEvent
      BY DEF Unused
    <3>2. sub'[t] = u
      BY <1>2, <1>6
    <3> HIDE DEF u
    <3> QED BY <3>1, <3>2
  <2>2. handler'[t].hello = Kinds
    BY <1>2, <1>6 DEF NewHandler
  <2> QED BY <2>1, <2>2 DEF Current, ShowsLast
<1>7. CASE t # s
  <2>1. t[1] # c
    <3>1. t[1] = c => t[2] = s[2]
      BY <1>1, <1>4 DEF Reads, Linked
    <3> QED BY <1>1, <1>7, <3>1, SessionFacts
  <2>2. Reads(t) /\ Current(t, k)
    BY <1>2, <1>4, <1>7, <2>1, SessionFacts DEF Reads, Linked, ViewsFollow
  <2>3. \A q \in Processes : Carries(q, t, k) => Carries(q, t, k)'
    BY <1>3 DEF Carries
  <2> QED BY <1>2, <1>3, <1>7, <2>2, <2>3, CurrentFrame
<1> QED BY <1>6, <1>7

-----------------------------------------------------------------------------
(* Both together.                                                          *)

ClientsInv == ViewsFollow /\ NotesInOrder

LEMMA ClientsInit ==
  ASSUME Init
  PROVE  ClientsInv
<1>1. \A s \in Sessions : ~Reads(s)
  BY DEF Reads, Init, NoHandler
<1>2. Truthful
  BY DEF Truthful, Init, Resting
<1>3. NoNoteSkipped
  BY DEF NoNoteSkipped, Init
<1> QED BY <1>1, <1>2, <1>3 DEF ClientsInv, ViewsFollow, NotesInOrder

\* Preparing an event changes nothing in the order of the notes.
LEMMA PreparesOrder ==
  ASSUME BusInv, NotesInOrder, NEW p \in Processes, Prepares(p)
  PROVE  NotesInOrder'
<1>1. StandsStill
  BY PreparesStill DEF BusInv
<1>2. UNCHANGED <<base, known, linked>>
  BY DEF Prepares, clientVars, historyVars
<1> QED BY <1>1, <1>2, StillOrder DEF Linked

LEMMA PublisherOrder ==
  ASSUME BusInv, TakingTurns, NotesInOrder, NEW p \in Processes, PublisherStep(p)
  PROVE  NotesInOrder'
<1>1. CASE Copies(p)
  BY <1>1, CopiesPrepares, PreparesOrder DEF BusInv
<1>2. CASE Publish(p)
  <2>1. CASE busClosed
    <3>1. StandsStill
      BY <1>2, <2>1, PublishClosedStill DEF BusInv
    <3>2. UNCHANGED <<base, known, linked>>
      BY <1>2, <2>1 DEF Publish, clientVars, historyVars
    <3> QED BY <3>1, <3>2, StillOrder DEF Linked
  <2> QED BY <1>2, <2>1, PublishOrder
<1>3. ASSUME NEW s \in Sessions, Sends(p, s) PROVE NotesInOrder'
  BY <1>3, SendsOrder
<1>4. CASE HasSent(p)
  BY <1>4, HasSentOrder
<1> QED BY <1>1, <1>2, <1>3, <1>4 DEF PublisherStep

LEMMA DropsKeeps ==
  ASSUME ClientsInv, NEW c \in Clients, Drops(c), BusInv
  PROVE  ClientsInv'
<1>1. UNCHANGED <<version, pub, sub, handler, view, base, known>>
  BY DEF Drops, historyVars
<1>2. \A s \in Sessions : Linked(s)' => Linked(s)
  <2> SUFFICES ASSUME NEW s \in Sessions, Linked(s)' PROVE Linked(s)
    OBVIOUS
  <2>1. linked \in [Clients -> Nat]
    BY DEF BusInv, BusTyped
  <2>2. s[1] \in Clients /\ s[2] \in 1 .. MaxSessions
    BY SessionFacts
  <2>3. s[2] # 0
    BY <2>2, EventBusAssumption
  <2>4. linked'[s[1]] = IF s[1] = c THEN 0 ELSE linked[s[1]]
    BY <2>1, <2>2 DEF Drops
  <2> QED BY <2>2, <2>3, <2>4 DEF Linked
<1>3. NotesInOrder'
  BY <1>1, <1>2, DropsStill, StillOrder DEF ClientsInv
<1>4. Truthful'
  BY <1>1, TruthFrame DEF ClientsInv, ViewsFollow
<1>5. ASSUME NEW s \in Sessions, Reads(s)', ~sub'[s].closed, NEW k \in Kinds PROVE Current(s, k)'
  <2>1. Current(s, k)
    BY <1>1, <1>2, <1>5 DEF ClientsInv, ViewsFollow, Reads
  <2> QED BY <1>1, <2>1, CurrentFrame DEF Carries
<1> QED BY <1>3, <1>4, <1>5 DEF ClientsInv, ViewsFollow

LEMMA ClientsStep ==
  ASSUME BusInv, TakingTurns, TakingTurns', ClientsInv, [Next]_vars
  PROVE  ClientsInv'
<1> USE DEF ClientsInv
<1>1. ASSUME NEW p \in Publishers, NEW k \in Kinds, NEW note \in Endings, Changes(p, k, note) PROVE ClientsInv'
  <2>1. p \in Processes
    BY DEF Processes
  <2>2. Prepares(p) /\ ViewsFollow'
    BY <1>1, <2>1, ChangesPrepares, ChangesViews, Zenon DEF BusInv
  <2> HIDE <1>1
  <2> QED BY <2>1, <2>2, PreparesOrder
<1>2. ASSUME NEW p \in Processes, PublisherStep(p) PROVE ClientsInv'
  <2>1. ViewsFollow'
    BY <1>2, CopiesViews, PublishViews, SendsViews, HasSentViews DEF PublisherStep
  <2> QED BY <1>2, <2>1, PublisherOrder
<1>3. CASE ShutdownAnnounces
  <2>1. Prepares(Server) /\ Server \in Processes
    BY <1>3, ShutdownPrepares, BusFacts DEF BusInv
  <2> QED BY <1>3, <2>1, PreparesOrder, ShutdownViews
<1>4. CASE BusCloses
  BY <1>4, BusClosesOrder, BusClosesViews
<1>5. ASSUME NEW s \in Sessions, RunnerStep(s) PROVE ClientsInv'
  BY <1>5, RunnerOrder, RunnerViews
<1>6. ASSUME NEW s \in Sessions, HandlerNext(s) PROVE ClientsInv'
  BY <1>6, HandlerOrder, HandlerViews
<1>7. ASSUME NEW c \in Clients, Connects(c) PROVE ClientsInv'
  BY <1>7, ConnectsOrder, ConnectsViews
<1>8. ASSUME NEW c \in Clients, Drops(c) PROVE ClientsInv'
  BY <1>8, DropsKeeps
<1>9. CASE UNCHANGED vars
  <2>1. UNCHANGED <<version, pub, sub, handler, view, linked, base, known, notes, lastEventID>>
    BY <1>9 DEF vars, clientVars, historyVars
  <2>2. StandsStill
    BY <1>9 DEF StandsStill, vars, busVars, clientVars, historyVars, Announced
  <2>3. NotesInOrder'
    BY <2>1, <2>2, StillOrder DEF Linked
  <2>4. Truthful'
    BY <2>1, TruthFrame DEF ViewsFollow
  <2>5. ASSUME NEW s \in Sessions, Reads(s)', ~sub'[s].closed, NEW k \in Kinds PROVE Current(s, k)'
    <3>1. Current(s, k)
      BY <2>1, <2>5 DEF ViewsFollow, Reads, Linked
    <3> QED BY <2>1, <3>1, CurrentFrame DEF Carries
  <2> QED BY <2>3, <2>4, <2>5 DEF ViewsFollow
<1> HIDE DEF ClientsInv
<1>10. CASE \E p \in Publishers, k \in Kinds, note \in Endings : Changes(p, k, note)
  BY <1>1, <1>10, Zenon
<1>11. CASE Next /\ ~\E p \in Publishers, k \in Kinds, note \in Endings : Changes(p, k, note)
  BY <1>2, <1>3, <1>4, <1>5, <1>6, <1>7, <1>8, <1>11 DEF Next
<1> QED BY <1>9, <1>10, <1>11

\* When nothing is under way to a client, what it shows is the present state.
LEMMA ClientsFollow ==
  ASSUME BusInv, ClientsInv
  PROVE  ViewsAgree /\ NoNoteSkipped
<1> SUFFICES ASSUME NEW c \in Clients, Quiet(c) PROVE view[c] = version
  BY DEF ViewsAgree, ClientsInv, NotesInOrder
<1> DEFINE s == <<c, linked[c]>>
<1>1. /\ s \in Sessions /\ Streams(s) /\ sub[s].run = "wait" /\ ~sub[s].wake /\ ~sub[s].closed
      /\ \A p \in Processes : pub[p].at \in {"idle", "announced"}
  BY DEF Quiet
<1>2. s[1] = c /\ Linked(s)
  BY DEF Linked
<1>3. RunnerPlaced(sub[s]) /\ view \in [Clients -> [Kinds -> Nat]] /\ version \in [Kinds -> 0 .. MaxChanges]
  BY <1>1 DEF BusInv, BusTyped, RunnersPlaced
<1>4. sub[s].hand = NoEvent /\ \A k \in Kinds : sub[s].latest[k] = NoEvent
  BY <1>1, <1>3 DEF RunnerPlaced, Pending
<1> HIDE DEF s
<1>5. \A k \in Kinds : view[c][k] = version[k]
  <2> SUFFICES ASSUME NEW k \in Kinds PROVE view[c][k] = version[k]
    OBVIOUS
  <2>1. Current(s, k)
    BY <1>1, <1>2 DEF ClientsInv, ViewsFollow, Reads, Streams
  <2>2. \A p \in Processes : ~Carries(p, s, k)
    BY <1>1 DEF Carries
  <2> QED BY <1>1, <1>2, <1>4, <2>1, <2>2 DEF Current, ShowsLast, Streams
<1> QED BY <1>3, <1>5

\* One publisher, and nobody who shuts the server down, take turns.
LEMMA OneTakesTurns ==
  ASSUME NEW p, Publishers = {p}, pub[Server].at = "idle"
  PROVE  TakingTurns
BY DEF TakingTurns, AtWork, Processes

(* What clients end up with: with publishers that take turns, each finishing   *)
(* what it sends before the next one changes the state, a client whose stream  *)
(* is quiet shows the tasks and schedules last announced, whatever overflows,  *)
(* reconnects and coalesces (event_bus.go, sse_tasks.go),                      *)
(* and the Last-Event-ID it reconnects with skips no notification.  Without    *)
(* turns the first fails: the model of two publishers finds it out of date.    *)
THEOREM ClientsEndUpRight == Spec /\ []TakingTurns => [](ViewsAgree /\ NoNoteSkipped)
<1>1. Init => ClientsInv
  BY ClientsInit
<1>2. BusInv /\ TakingTurns /\ TakingTurns' /\ ClientsInv /\ [Next]_vars => ClientsInv'
  BY ClientsStep
<1>3. BusInv /\ ClientsInv => ViewsAgree /\ NoNoteSkipped
  BY ClientsFollow
<1> QED BY <1>1, <1>2, <1>3, BusInvariant, PTL DEF Spec

-----------------------------------------------------------------------------
(* The bots: types, copies in the order of their changes, and who still    *)
(* has to announce an end.                                                 *)

Actors == BotTasks \cup Changers
PostRec == [at : {"idle", "copy", "send", "note"}, copy : TableCopy \cup {NoCopy}, note : BOOLEAN]
FeedRec == [latest : TableCopy \cup {NoCopy}, queue : 0..NoteLimit, hand : TableCopy \cup {NoCopy}, open : BOOLEAN]
LoopRec == [at : {"wait", "tell", "deaf"}, left : SUBSET BotTasks]
CommandRec == [at : {"none", "create", "track", "check", "announce", "forget", "done", "refused"}, bot : ChatBots \cup {NoBot}]

\* BotTypeOK, and which actors have a copy.
BotTyped ==
  /\ table \in [BotTasks -> Statuses] /\ changes \in Nat
  /\ command \in [BotTasks -> CommandRec]
  /\ posting \in [Actors -> PostRec]
  /\ \A p \in Actors : posting[p].at = "send" => posting[p].copy \in TableCopy
  /\ feed \in [ListenBots -> FeedRec]
  /\ loop \in [ListenBots -> LoopRec]
  /\ marks \in [ListenBots -> SUBSET BotTasks] /\ told \in [ListenBots -> [BotTasks -> 0..2]]
  /\ newest \in Nat /\ late \in BOOLEAN

\* What a task's status may be later.
Follows(s, r) ==
  s = r \/ s = "none" \/ (s = "queued" /\ r # "none") \/ (s \in EndStatuses /\ r = "deleted")

\* A copy was made of the table at the time, and whatever is copied later follows it.
OfTable(c) ==
  /\ c.at <= changes /\ (c.at = changes => c.of = table)
  /\ \A t \in BotTasks : Follows(c.of[t], table[t])
InOrderOf(c, d) == c.at <= d.at => \A t \in BotTasks : Follows(c.of[t], d.of[t])

OnItsWay(c) ==
  /\ c # NoCopy
  /\ \/ \E p \in Actors : posting[p].at = "send" /\ c = posting[p].copy
     \/ \E b \in ListenBots : c = feed[b].latest \/ c = feed[b].hand

CopiesInOrder ==
  /\ \A c \in TableCopy : OnItsWay(c) => OfTable(c)
  /\ \A c, d \in TableCopy : OnItsWay(c) /\ OnItsWay(d) => InOrderOf(c, d)
  /\ \A b \in ListenBots :
       /\ feed[b].latest # NoCopy => feed[b].latest.at <= newest
       /\ feed[b].hand # NoCopy => feed[b].hand.at <= newest
       /\ ~late /\ feed[b].hand # NoCopy /\ feed[b].latest # NoCopy => feed[b].hand.at <= feed[b].latest.at

\* Whatever bot b may still see of task t has a status of S.
Sees(b, t, S) ==
  /\ table[t] \in S
  /\ feed[b].latest # NoCopy => feed[b].latest.of[t] \in S
  /\ feed[b].hand # NoCopy => feed[b].hand.of[t] \in S
  /\ \A p \in Actors : posting[p].at = "send" /\ posting[p].copy.at >= newest => posting[p].copy.of[t] \in S

\* The status that a task has is in a copy that bot b has not taken, or will be in one.
CopyComes(b, t) ==
  \/ \E p \in Actors : posting[p].at = "copy" \/ (posting[p].at = "send" /\ posting[p].copy.of[t] = table[t])
  \/ feed[b].latest # NoCopy /\ feed[b].latest.of[t] = table[t]
  \/ feed[b].hand # NoCopy /\ feed[b].hand.of[t] = table[t]

Started(t) ==
  /\ command[t].at # "none" => table[t] # "none"
  /\ command[t].at \in {"track", "check", "announce", "forget"} => command[t].bot \in ChatBots
  /\ command[t].at = "announce" => table[t] \in {"ended", "deleted"}
  /\ command[t].at = "forget" => table[t] \in {"cancelled", "deleted"}

\* A chat bot: the end of a task is announced by who drains it from the tracker, where it was once.
ChatOnce(b, t) ==
  /\ told[b][t] <= 1
  /\ command[t].at \in {"none", "create", "track"} => t \notin marks[b] /\ t \notin loop[b].left /\ told[b][t] = 0
  /\ t \in marks[b] => t \notin loop[b].left /\ told[b][t] = 0 /\ command[t].bot = b
                       /\ command[t].at \in {"check", "announce", "forget", "done"}
  /\ t \in loop[b].left => told[b][t] = 0
  /\ command[t].bot = b /\ command[t].at \in {"check", "announce", "forget", "done"} =>
       t \in marks[b] \/ t \in loop[b].left \/ told[b][t] = 1 \/ table[t] \in {"cancelled", "deleted"}
  /\ ~late /\ feed[b].open /\ t \in marks[b] /\ command[t].at = "done" /\ table[t] \in EndStatuses => CopyComes(b, t)

\* A push bot: a mark stays as long as the task may be seen to have ended.
PushOnce(b, t) ==
  ~late =>
  /\ told[b][t] <= 1
  /\ t \in loop[b].left => told[b][t] = 0
  /\ t \in marks[b] => (t \in loop[b].left \/ told[b][t] = 1) /\ Sees(b, t, {"ended", "deleted"})
  /\ (t \in loop[b].left \/ told[b][t] = 1) /\ t \notin marks[b] => Sees(b, t, {"deleted"})
  /\ feed[b].open /\ table[t] = "ended" => CopyComes(b, t) \/ t \in loop[b].left \/ told[b][t] = 1

BotInv ==
  /\ BotTyped /\ CopiesInOrder
  /\ \A b \in ListenBots : loop[b].at # "tell" => loop[b].left = {}
  /\ \A t \in BotTasks : Started(t)
  /\ \A b \in ChatBots, t \in BotTasks : ChatOnce(b, t)
  /\ \A b \in PushBots, t \in BotTasks : PushOnce(b, t)

-----------------------------------------------------------------------------
(* Statuses and copies.                                                    *)

EndSets == {{"ended", "deleted"}, {"deleted"}}

LEMMA FollowsOn ==
  /\ \A s \in Statuses : Follows(s, s)
  /\ \A r, s, q \in Statuses : Follows(r, s) /\ Follows(s, q) => Follows(r, q)
  /\ \A S \in EndSets, s, r \in Statuses : s \in S /\ Follows(s, r) => r \in S
  /\ \A r \in Statuses : Follows("cancelled", r) => r \in {"cancelled", "deleted"}
  /\ \A s \in Statuses : s \in EndStatuses /\ Follows(s, "ended") => s = "ended"
BY DEF Follows, Statuses, EndStatuses, EndSets

LEMMA CopyFields ==
  /\ \A c \in TableCopy : c.at \in Nat /\ c.of \in [BotTasks -> Statuses] /\ \A t \in BotTasks : c.of[t] \in Statuses
  /\ NoCopy \notin TableCopy
BY BotAssumption DEF TableCopy

LEMMA BotFields ==
  ASSUME BotTyped
  PROVE  /\ \A t \in BotTasks : table[t] \in Statuses
         /\ \A t \in BotTasks : command[t] \in CommandRec
         /\ \A p \in Actors : posting[p] \in PostRec
         /\ \A b \in ListenBots : feed[b] \in FeedRec /\ loop[b] \in LoopRec /\ marks[b] \subseteq BotTasks
         /\ \A b \in ListenBots : /\ feed[b].latest # NoCopy => feed[b].latest \in TableCopy
                                  /\ feed[b].hand # NoCopy => feed[b].hand \in TableCopy
                                  /\ loop[b].left \subseteq BotTasks
         /\ \A b \in ListenBots, t \in BotTasks : told[b][t] \in 0..2
BY DEF BotTyped, FeedRec, LoopRec

\* Copies are made of the table that is there, and the table goes on from what it was.
LEMMA CopiesGoOn ==
  ASSUME BotTyped, CopiesInOrder, table' \in [BotTasks -> Statuses], changes' \in Nat,
         changes <= changes', changes' = changes => table' = table,
         \A t \in BotTasks : Follows(table[t], table'[t]),
         \A c \in TableCopy : OnItsWay(c)' => OnItsWay(c) \/ (c = [of |-> table, at |-> changes] /\ table' = table /\ changes' = changes)
  PROVE  /\ \A c \in TableCopy : OnItsWay(c)' => OfTable(c)'
         /\ \A c, d \in TableCopy : OnItsWay(c)' /\ OnItsWay(d)' => InOrderOf(c, d)
<1>1. changes \in Nat /\ \A t \in BotTasks : table[t] \in Statuses /\ table'[t] \in Statuses
  BY DEF BotTyped
<1>2. ASSUME NEW c \in TableCopy, OnItsWay(c) PROVE OfTable(c)'
  <2>1. OfTable(c)
    BY <1>2 DEF CopiesInOrder
  <2>2. c.at <= changes' /\ (c.at = changes' => c.of = table')
    BY <1>1, <2>1, CopyFields DEF OfTable
  <2>3. ASSUME NEW t \in BotTasks PROVE Follows(c.of[t], table'[t])
    <3>1. Follows(c.of[t], table[t]) /\ Follows(table[t], table'[t]) /\ c.of[t] \in Statuses
      BY <2>1, <2>3, CopyFields DEF OfTable
    <3> QED BY <1>1, <2>3, <3>1, FollowsOn
  <2> QED BY <2>2, <2>3 DEF OfTable
<1> DEFINE new == [of |-> table, at |-> changes]
<1>3. ASSUME table' = table, changes' = changes PROVE OfTable(new)'
  <2>1. \A t \in BotTasks : Follows(table[t], table[t])
    BY <1>1, FollowsOn
  <2> QED BY <1>1, <1>3, <2>1 DEF OfTable
<1>4. ASSUME NEW c \in TableCopy, OnItsWay(c)' PROVE OfTable(c)'
  BY <1>2, <1>3, <1>4
<1>5. ASSUME NEW c \in TableCopy, NEW d \in TableCopy, OnItsWay(c)', OnItsWay(d)' PROVE InOrderOf(c, d)
  <2>1. OfTable(c)' /\ OfTable(d)'
    BY <1>4, <1>5
  <2>2. CASE OnItsWay(c) /\ OnItsWay(d)
    BY <2>2 DEF CopiesInOrder
  <2>3. CASE d = new /\ table' = table /\ changes' = changes
    BY <2>1, <2>3 DEF OfTable, InOrderOf
  <2>4. CASE c = new /\ table' = table /\ changes' = changes
    <3>1. SUFFICES ASSUME c.at <= d.at PROVE \A t \in BotTasks : Follows(c.of[t], d.of[t])
      BY DEF InOrderOf
    <3>2. d.at \in Nat /\ d.at <= changes /\ (d.at = changes => d.of = table)
      BY <2>1, <2>4, CopyFields DEF OfTable
    <3>3. c.at = changes /\ c.of = table
      BY <2>4
    <3>4. d.of = table
      BY <1>1, <3>1, <3>2, <3>3
    <3> QED BY <1>1, <3>3, <3>4, FollowsOn
  <2> QED BY <1>5, <2>2, <2>3, <2>4
<1> QED BY <1>4, <1>5

\* Everything a bot may still see of a task is later than what it has in hand.
LEMMA SeesLater ==
  ASSUME BotInv, ~late, NEW b \in ListenBots, NEW t \in BotTasks, NEW S \in EndSets,
         feed[b].hand # NoCopy, feed[b].hand.of[t] \in S
  PROVE  Sees(b, t, S)
<1> DEFINE h == feed[b].hand
<1>1. h \in TableCopy /\ h.at \in Nat /\ h.of[t] \in Statuses /\ OnItsWay(h) /\ BotTyped /\ CopiesInOrder
  BY BotFields, CopyFields DEF BotInv, OnItsWay
<1>2. ASSUME NEW c \in TableCopy, OnItsWay(c), h.at <= c.at PROVE c.of[t] \in S
  <2>1. Follows(h.of[t], c.of[t]) /\ c.of[t] \in Statuses
    BY <1>1, <1>2, CopyFields DEF CopiesInOrder, InOrderOf
  <2> QED BY <1>1, <2>1, FollowsOn
<1>3. table[t] \in S
  <2>1. Follows(h.of[t], table[t]) /\ table[t] \in Statuses
    BY <1>1, BotFields DEF CopiesInOrder, OfTable
  <2> QED BY <1>1, <2>1, FollowsOn
<1>4. ASSUME feed[b].latest # NoCopy PROVE feed[b].latest.of[t] \in S
  <2>1. feed[b].latest \in TableCopy /\ OnItsWay(feed[b].latest) /\ h.at <= feed[b].latest.at
    BY <1>1, <1>4, BotFields DEF OnItsWay, CopiesInOrder
  <2> QED BY <1>2, <2>1
<1>5. ASSUME NEW p \in Actors, posting[p].at = "send", posting[p].copy.at >= newest PROVE posting[p].copy.of[t] \in S
  <2>1. posting[p].copy \in TableCopy /\ posting[p].copy.at \in Nat /\ newest \in Nat /\ h.at <= newest
    BY <1>1, <1>5, CopyFields DEF BotTyped, CopiesInOrder
  <2>2. OnItsWay(posting[p].copy) /\ h.at <= posting[p].copy.at
    BY <1>1, <1>5, <2>1, CopyFields DEF OnItsWay
  <2> QED BY <1>2, <2>1, <2>2
<1> QED BY <1>3, <1>4, <1>5 DEF Sees

LEMMA BotBegins == BotInit => BotInv
<1> SUFFICES ASSUME BotInit PROVE BotInv
  OBVIOUS
<1>1. BotTyped
  <2>1. table \in [BotTasks -> Statuses] /\ changes \in Nat /\ newest \in Nat /\ late \in BOOLEAN
    BY DEF BotInit, Statuses
  <2>2. command \in [BotTasks -> CommandRec]
    BY DEF BotInit, CommandRec
  <2>3. posting \in [Actors -> PostRec] /\ \A p \in Actors : posting[p].at = "idle"
    BY DEF BotInit, Actors, PostRec, NoPub
  <2>4. feed \in [ListenBots -> FeedRec]
    BY BotAssumption DEF BotInit, FeedRec
  <2>5. loop \in [ListenBots -> LoopRec]
    BY DEF BotInit, LoopRec
  <2>6. marks \in [ListenBots -> SUBSET BotTasks] /\ told \in [ListenBots -> [BotTasks -> 0..2]]
    BY DEF BotInit
  <2> QED BY <2>1, <2>2, <2>3, <2>4, <2>5, <2>6 DEF BotTyped
<1>2. \A p \in Actors : posting[p].at = "idle"
  BY DEF BotInit, Actors, NoPub
<1>3. \A b \in ListenBots : feed[b].latest = NoCopy /\ feed[b].hand = NoCopy /\ loop[b].left = {} /\ marks[b] = {}
  BY DEF BotInit
<1>4. \A t \in BotTasks : table[t] = "none" /\ command[t].at = "none" /\ \A b \in ListenBots : told[b][t] = 0
  BY DEF BotInit
<1>5. CopiesInOrder
  BY <1>2, <1>3 DEF CopiesInOrder, OnItsWay
<1>6. ChatBots \subseteq ListenBots /\ PushBots \subseteq ListenBots
  BY DEF ListenBots
<1>7. \A b \in ListenBots, t \in BotTasks : ChatOnce(b, t)
  BY <1>3, <1>4 DEF ChatOnce
<1>8. \A b \in ListenBots, t \in BotTasks : PushOnce(b, t)
  BY <1>3, <1>4 DEF PushOnce
<1>9. \A t \in BotTasks : Started(t)
  BY <1>4 DEF Started
<1> QED BY <1>1, <1>3, <1>5, <1>6, <1>7, <1>8, <1>9 DEF BotInv

-----------------------------------------------------------------------------
(* The bus: copies go from actors to bots.                                 *)

LEMMA SeesKept ==
  ASSUME NEW b, NEW t, NEW S, Sees(b, t, S), BotTyped, BotTyped', newest <= newest', table'[t] \in S,
         feed'[b].latest # NoCopy => feed'[b].latest.of[t] \in S,
         feed'[b].hand # NoCopy => feed'[b].hand.of[t] \in S,
         \A p \in Actors : posting'[p].at = "send" =>
            posting'[p].copy.of[t] \in S \/ (posting[p].at = "send" /\ posting'[p].copy = posting[p].copy)
  PROVE  Sees(b, t, S)'
<1>1. ASSUME NEW p \in Actors, posting'[p].at = "send", posting'[p].copy.at >= newest' PROVE posting'[p].copy.of[t] \in S
  <2>1. posting'[p].copy.at \in Nat /\ newest \in Nat /\ newest' \in Nat
    BY <1>1, CopyFields DEF BotTyped
  <2>2. CASE posting[p].at = "send" /\ posting'[p].copy = posting[p].copy
    <3>1. posting[p].copy.at >= newest
      BY <1>1, <2>1, <2>2
    <3> QED BY <2>2, <3>1 DEF Sees
  <2> QED BY <1>1, <2>2
<1> QED BY <1>1 DEF Sees

\* A step of the bus keeps the invariant, when what a bot sees and what is on its way to it stay.
LEMMA BusMoves ==
  ASSUME BotInv, BotTyped', CopiesInOrder', table' = table, command' = command, marks' = marks, told' = told,
         \A b \in ListenBots : loop'[b].left = loop[b].left /\ (loop'[b].at # "tell" => loop[b].at # "tell"),
         late => late', \A b \in ListenBots : feed'[b].open => feed[b].open,
         \A b \in ListenBots, t \in BotTasks, S \in EndSets : ~late' /\ Sees(b, t, S) => Sees(b, t, S)',
         \A b \in ListenBots, t \in BotTasks : ~late' /\ feed'[b].open /\ table[t] \in EndStatuses /\ CopyComes(b, t) => CopyComes(b, t)'
  PROVE  BotInv'
<1>1. ChatBots \subseteq ListenBots /\ PushBots \subseteq ListenBots
  BY DEF ListenBots
<1>2. \A t \in BotTasks : Started(t)'
  BY DEF BotInv, Started
<1>3. ASSUME NEW b \in ChatBots, NEW t \in BotTasks PROVE ChatOnce(b, t)'
  <2>1. ChatOnce(b, t) /\ loop'[b].left = loop[b].left /\ (feed'[b].open => feed[b].open)
    BY <1>1 DEF BotInv
  <2>2. ~late' /\ feed'[b].open /\ table[t] \in EndStatuses /\ CopyComes(b, t) => CopyComes(b, t)'
    BY <1>1
  <2> HIDE DEF BotInv
  <2>3. ~late' /\ feed'[b].open /\ t \in marks[b] /\ command[t].at = "done" /\ table[t] \in EndStatuses => CopyComes(b, t)'
    BY <2>1, <2>2 DEF ChatOnce
  <2> QED BY <2>1, <2>3 DEF ChatOnce
<1>4. ASSUME NEW b \in PushBots, NEW t \in BotTasks PROVE PushOnce(b, t)'
  <2>1. SUFFICES ASSUME ~late' PROVE PushOnce(b, t)'
    BY DEF PushOnce
  <2>2. PushOnce(b, t) /\ ~late /\ loop'[b].left = loop[b].left /\ (feed'[b].open => feed[b].open)
    BY <1>1, <2>1 DEF BotInv
  <2>3. \A S \in EndSets : Sees(b, t, S) => Sees(b, t, S)'
    BY <1>1, <2>1
  <2>4. feed'[b].open /\ table[t] = "ended" /\ CopyComes(b, t) => CopyComes(b, t)'
    BY <1>1, <2>1 DEF EndStatuses
  <2>5. t \in marks[b] => Sees(b, t, {"ended", "deleted"})'
    BY <2>2, <2>3 DEF PushOnce, EndSets
  <2>6. (t \in loop[b].left \/ told[b][t] = 1) /\ t \notin marks[b] => Sees(b, t, {"deleted"})'
    BY <2>2, <2>3 DEF PushOnce, EndSets
  <2> QED BY <2>2, <2>4, <2>5, <2>6 DEF PushOnce
<1>5. \A b \in ListenBots : loop'[b].at # "tell" => loop'[b].left = {}
  BY DEF BotInv
<1> QED BY <1>2, <1>3, <1>4, <1>5 DEF BotInv

LEMMA CopyTasksKeeps == ASSUME BotInv, NEW p \in Actors, CopyTasks(p) PROVE BotInv'
<1> DEFINE new == [of |-> table, at |-> changes]
<1>1. /\ posting[p].at = "copy" /\ posting' = [posting EXCEPT ![p].at = "send", ![p].copy = new]
      /\ table' = table /\ changes' = changes /\ command' = command /\ feed' = feed /\ newest' = newest /\ late' = late
      /\ loop' = loop /\ marks' = marks /\ told' = told
  BY DEF CopyTasks, botTableVars, botFeedVars
<1>2. BotTyped /\ CopiesInOrder /\ new \in TableCopy /\ new.of = table
  BY DEF BotInv, BotTyped, TableCopy
<1> HIDE DEF new
<1>3. /\ posting \in [Actors -> PostRec] /\ posting'[p].at = "send" /\ posting'[p].copy = new
      /\ \A q \in Actors : q # p => posting'[q] = posting[q]
  BY <1>1, <1>2 DEF BotTyped, PostRec
<1>4. BotTyped'
  <2>1. posting' \in [Actors -> PostRec]
    BY <1>1, <1>2, <1>3 DEF PostRec
  <2>2. \A q \in Actors : posting'[q].at = "send" => posting'[q].copy \in TableCopy
    BY <1>2, <1>3 DEF BotTyped
  <2> QED BY <1>1, <1>2, <2>1, <2>2 DEF BotTyped
<1>5. \A c \in TableCopy : OnItsWay(c)' => OnItsWay(c) \/ c = new
  BY <1>1, <1>3 DEF OnItsWay
<1>6. CopiesInOrder'
  <2>1. /\ \A c \in TableCopy : OnItsWay(c)' => OfTable(c)'
        /\ \A c, d \in TableCopy : OnItsWay(c)' /\ OnItsWay(d)' => InOrderOf(c, d)
    <3>1. \A t \in BotTasks : Follows(table[t], table'[t])
      BY <1>1 DEF Follows
    <3>2. changes \in Nat /\ table \in [BotTasks -> Statuses]
      BY <1>2 DEF BotTyped
    <3> QED BY <1>1, <1>2, <1>5, <3>1, <3>2, CopiesGoOn DEF new
  <2> QED BY <1>1, <1>2, <2>1 DEF CopiesInOrder, InOrderOf
<1>7. ASSUME NEW b \in ListenBots, NEW t \in BotTasks, NEW S \in EndSets, ~late', Sees(b, t, S) PROVE Sees(b, t, S)'
  <2>1. newest <= newest'
    BY <1>1, <1>2 DEF BotTyped
  <2>2. table[t] \in S /\ (feed[b].latest # NoCopy => feed[b].latest.of[t] \in S) /\ (feed[b].hand # NoCopy => feed[b].hand.of[t] \in S)
    BY <1>7 DEF Sees
  <2>3. \A q \in Actors : posting'[q].at = "send" =>
            posting'[q].copy.of[t] \in S \/ (posting[q].at = "send" /\ posting'[q].copy = posting[q].copy)
    BY <1>2, <1>3, <2>2
  <2> QED BY <1>1, <1>2, <1>4, <1>7, <2>1, <2>2, <2>3, SeesKept
<1>8. ASSUME NEW b \in ListenBots, NEW t \in BotTasks, CopyComes(b, t) PROVE CopyComes(b, t)'
  <2>1. posting'[p].at = "send" /\ posting'[p].copy.of[t] = table'[t]
    BY <1>1, <1>2, <1>3
  <2> QED BY <2>1 DEF CopyComes
<1> QED BY <1>1, <1>4, <1>6, <1>7, <1>8, BusMoves

LEMMA PublishTasksKeeps == ASSUME BotInv, NEW p \in Actors, PublishTasks(p) PROVE BotInv'
<1> DEFINE copy == posting[p].copy
<1>1. /\ posting[p].at = "send"
      /\ feed' = [b \in ListenBots |-> IF feed[b].open THEN [feed[b] EXCEPT !.latest = copy] ELSE feed[b]]
      /\ late' = (late \/ copy.at < newest) /\ newest' = IF copy.at > newest THEN copy.at ELSE newest
      /\ posting' = [posting EXCEPT ![p] = [NoPub EXCEPT !.at = IF posting[p].note THEN "note" ELSE "idle"]]
      /\ table' = table /\ changes' = changes /\ command' = command
      /\ loop' = loop /\ marks' = marks /\ told' = told
  BY DEF PublishTasks, botTableVars
<1>2. BotTyped /\ CopiesInOrder /\ copy \in TableCopy /\ copy # NoCopy /\ newest \in Nat /\ late \in BOOLEAN /\ copy.at \in Nat
  BY <1>1, CopyFields DEF BotInv, BotTyped
<1>3. /\ posting'[p].at \in {"note", "idle"} /\ posting'[p] \in PostRec
      /\ \A q \in Actors : q # p => posting'[q] = posting[q]
  BY <1>1, <1>2 DEF BotTyped, PostRec, NoPub
<1>4. /\ newest' \in Nat /\ newest <= newest' /\ copy.at <= newest'
      /\ ~late' => ~late /\ newest <= copy.at
  <2>1. newest' \in Nat /\ newest <= newest' /\ copy.at <= newest'
    BY <1>1, <1>2
  <2>2. ~late' => ~late /\ ~(copy.at < newest)
    BY <1>1, Zenon
  <2> QED BY <1>2, <2>1, <2>2
<1> HIDE DEF copy
<1>5. \A b \in ListenBots : /\ feed'[b] \in FeedRec /\ feed'[b].hand = feed[b].hand /\ feed'[b].open = feed[b].open
                            /\ feed'[b].latest = IF feed[b].open THEN copy ELSE feed[b].latest
  BY <1>1, <1>2, BotFields DEF FeedRec
<1>6. BotTyped'
  <2>1. posting' \in [Actors -> PostRec] /\ feed' \in [ListenBots -> FeedRec]
    BY <1>1, <1>2, <1>3, <1>5 DEF BotTyped
  <2>2. \A q \in Actors : posting'[q].at = "send" => posting'[q].copy \in TableCopy
    BY <1>2, <1>3 DEF BotTyped
  <2>3. late' \in BOOLEAN
    BY <1>1
  <2> QED BY <1>1, <1>2, <1>4, <2>1, <2>2, <2>3 DEF BotTyped
<1>7. OnItsWay(copy)
  BY <1>1, <1>2 DEF OnItsWay, copy
<1>8. \A c \in TableCopy : OnItsWay(c)' => OnItsWay(c)
  BY <1>3, <1>5, <1>7 DEF OnItsWay
<1>9. CopiesInOrder'
  <2>1. /\ \A c \in TableCopy : OnItsWay(c)' => OfTable(c)'
        /\ \A c, d \in TableCopy : OnItsWay(c)' /\ OnItsWay(d)' => InOrderOf(c, d)
    <3>1. \A t \in BotTasks : Follows(table[t], table'[t])
      BY <1>1 DEF Follows
    <3>2. changes \in Nat /\ table \in [BotTasks -> Statuses]
      BY <1>2 DEF BotTyped
    <3> QED BY <1>1, <1>2, <1>8, <3>1, <3>2, CopiesGoOn
  <2>2. ASSUME NEW b \in ListenBots
        PROVE  /\ feed'[b].latest # NoCopy => feed'[b].latest.at <= newest'
               /\ feed'[b].hand # NoCopy => feed'[b].hand.at <= newest'
               /\ ~late' /\ feed'[b].hand # NoCopy /\ feed'[b].latest # NoCopy => feed'[b].hand.at <= feed'[b].latest.at
    <3>1. /\ feed[b].latest # NoCopy => feed[b].latest.at <= newest /\ feed[b].latest.at \in Nat
          /\ feed[b].hand # NoCopy => feed[b].hand.at <= newest /\ feed[b].hand.at \in Nat
          /\ ~late /\ feed[b].hand # NoCopy /\ feed[b].latest # NoCopy => feed[b].hand.at <= feed[b].latest.at
      BY <1>2, BotFields, CopyFields DEF CopiesInOrder
    <3> QED BY <1>2, <1>4, <1>5, <3>1
  <2>3. \A c, d \in TableCopy : OnItsWay(c)' /\ OnItsWay(d)' => InOrderOf(c, d)'
    BY <2>1 DEF InOrderOf
  <2> QED BY <2>1, <2>2, <2>3 DEF CopiesInOrder
<1>10. ASSUME NEW b \in ListenBots, NEW t \in BotTasks, NEW S \in EndSets, ~late', Sees(b, t, S) PROVE Sees(b, t, S)'
  <2>1. /\ table[t] \in S /\ (feed[b].latest # NoCopy => feed[b].latest.of[t] \in S)
        /\ (feed[b].hand # NoCopy => feed[b].hand.of[t] \in S)
    BY <1>10 DEF Sees
  <2>2. copy.of[t] \in S
    BY <1>1, <1>2, <1>4, <1>10 DEF Sees, copy
  <2>3. \A q \in Actors : posting'[q].at = "send" => posting[q].at = "send" /\ posting'[q].copy = posting[q].copy
    BY <1>3
  <2> QED BY <1>1, <1>2, <1>4, <1>5, <1>6, <1>10, <2>1, <2>2, <2>3, SeesKept
<1>11. ASSUME NEW b \in ListenBots, NEW t \in BotTasks, ~late', feed'[b].open, table[t] \in EndStatuses, CopyComes(b, t)
       PROVE  CopyComes(b, t)'
  <2>1. feed[b].open /\ feed'[b].latest = copy /\ copy # NoCopy /\ feed'[b].hand = feed[b].hand
    BY <1>2, <1>5, <1>11
  <2>2. CASE \E q \in Actors : q # p /\ (posting[q].at = "copy" \/ (posting[q].at = "send" /\ posting[q].copy.of[t] = table[t]))
    <3>1. PICK q \in Actors : q # p /\ (posting[q].at = "copy" \/ (posting[q].at = "send" /\ posting[q].copy.of[t] = table[t]))
      BY <2>2
    <3>2. posting'[q] = posting[q]
      BY <1>3, <3>1
    <3> QED BY <1>1, <3>1, <3>2 DEF CopyComes
  <2>3. CASE copy.of[t] = table[t]
    BY <1>1, <2>1, <2>3 DEF CopyComes
  <2>4. CASE feed[b].latest # NoCopy /\ feed[b].latest.of[t] = table[t]
    <3>1. /\ feed[b].latest \in TableCopy /\ feed[b].latest.at \in Nat /\ OnItsWay(feed[b].latest)
          /\ feed[b].latest.at <= copy.at
      BY <1>2, <1>4, <1>11, <2>4, BotFields, CopyFields DEF OnItsWay, CopiesInOrder
    <3>2. Follows(table[t], copy.of[t]) /\ Follows(copy.of[t], table[t])
      BY <1>2, <1>7, <2>4, <3>1 DEF CopiesInOrder, InOrderOf, OfTable
    <3>3. copy.of[t] = table[t]
      BY <1>11, <3>2 DEF Follows, EndStatuses
    <3> QED BY <2>3, <3>3
  <2>5. CASE feed[b].hand # NoCopy /\ feed[b].hand.of[t] = table[t]
    BY <1>1, <2>1, <2>5 DEF CopyComes
  <2> QED BY <1>1, <1>11, <2>2, <2>3, <2>4, <2>5 DEF CopyComes, copy
<1> QED BY <1>1, <1>4, <1>5, <1>6, <1>9, <1>10, <1>11, BusMoves

\* A step that moves no copy but to the bot it is for, or away from one that is cut off.
LEMMA FeedMoves ==
  ASSUME BotInv, BotTyped', table' = table, changes' = changes, command' = command, marks' = marks, told' = told,
         newest' = newest, late' = late,
         \A q \in Actors : posting[q].at \in {"copy", "send"} \/ posting'[q].at \in {"copy", "send"} => posting'[q] = posting[q],
         \A b \in ListenBots : loop'[b].left = loop[b].left /\ (loop'[b].at # "tell" => loop[b].at # "tell"),
         \A b \in ListenBots : feed'[b].open => feed[b].open,
         \A b \in ListenBots :
           \/ feed'[b].latest = feed[b].latest /\ feed'[b].hand = feed[b].hand
           \/ feed[b].hand = NoCopy /\ feed'[b].hand = feed[b].latest /\ feed'[b].latest = NoCopy
           \/ ~feed'[b].open /\ feed'[b].hand = NoCopy /\ feed'[b].latest = NoCopy
  PROVE  BotInv'
<1>1. BotTyped /\ CopiesInOrder /\ newest \in Nat
  BY DEF BotInv, BotTyped
<1>2. \A c \in TableCopy : OnItsWay(c)' => OnItsWay(c)
  <2>1. \A q \in Actors : posting'[q].at = "send" => posting[q].at = "send" /\ posting'[q].copy = posting[q].copy
    OBVIOUS
  <2>2. ASSUME NEW b \in ListenBots
        PROVE  /\ feed'[b].latest \in {NoCopy, feed[b].latest}
               /\ feed'[b].hand \in {NoCopy, feed[b].latest, feed[b].hand}
    OBVIOUS
  <2> QED BY <2>1, <2>2 DEF OnItsWay
<1>3. CopiesInOrder'
  <2>1. /\ \A c \in TableCopy : OnItsWay(c)' => OfTable(c)'
        /\ \A c, d \in TableCopy : OnItsWay(c)' /\ OnItsWay(d)' => InOrderOf(c, d)
    <3>1. \A t \in BotTasks : Follows(table[t], table'[t])
      BY DEF Follows
    <3>2. changes \in Nat /\ table \in [BotTasks -> Statuses]
      BY <1>1 DEF BotTyped
    <3> QED BY <1>1, <1>2, <3>1, <3>2, CopiesGoOn
  <2>2. ASSUME NEW b \in ListenBots
        PROVE  /\ feed'[b].latest # NoCopy => feed'[b].latest.at <= newest'
               /\ feed'[b].hand # NoCopy => feed'[b].hand.at <= newest'
               /\ ~late' /\ feed'[b].hand # NoCopy /\ feed'[b].latest # NoCopy => feed'[b].hand.at <= feed'[b].latest.at
    BY <1>1 DEF CopiesInOrder
  <2>3. \A c, d \in TableCopy : OnItsWay(c)' /\ OnItsWay(d)' => InOrderOf(c, d)'
    BY <2>1 DEF InOrderOf
  <2> QED BY <2>1, <2>2, <2>3 DEF CopiesInOrder
<1>4. ASSUME NEW b \in ListenBots, NEW t \in BotTasks, NEW S \in EndSets, ~late', Sees(b, t, S) PROVE Sees(b, t, S)'
  <2>1. /\ table[t] \in S /\ (feed[b].latest # NoCopy => feed[b].latest.of[t] \in S)
        /\ (feed[b].hand # NoCopy => feed[b].hand.of[t] \in S)
    BY <1>4 DEF Sees
  <2>2. /\ feed'[b].latest # NoCopy => feed'[b].latest.of[t] \in S
        /\ feed'[b].hand # NoCopy => feed'[b].hand.of[t] \in S
    BY <2>1
  <2>3. newest <= newest'
    BY <1>1
  <2>4. \A q \in Actors : posting'[q].at = "send" => posting[q].at = "send" /\ posting'[q].copy = posting[q].copy
    OBVIOUS
  <2> QED BY <1>1, <1>4, <2>1, <2>2, <2>3, <2>4, SeesKept
<1>5. ASSUME NEW b \in ListenBots, NEW t \in BotTasks, feed'[b].open, CopyComes(b, t) PROVE CopyComes(b, t)'
  <2>1. CASE \E q \in Actors : posting[q].at = "copy" \/ (posting[q].at = "send" /\ posting[q].copy.of[t] = table[t])
    <3>1. PICK q \in Actors : posting[q].at = "copy" \/ (posting[q].at = "send" /\ posting[q].copy.of[t] = table[t])
      BY <2>1
    <3>2. posting'[q] = posting[q]
      BY <3>1
    <3> QED BY <3>1, <3>2 DEF CopyComes
  <2>2. CASE \/ feed[b].latest # NoCopy /\ feed[b].latest.of[t] = table[t]
             \/ feed[b].hand # NoCopy /\ feed[b].hand.of[t] = table[t]
    BY <1>5, <2>2 DEF CopyComes
  <2> QED BY <1>5, <2>1, <2>2 DEF CopyComes
<1> QED BY <1>3, <1>4, <1>5, BusMoves

LEMMA NoteKeeps == ASSUME BotInv, NEW p \in Actors, PublishNote(p) PROVE BotInv'
<1>1. /\ posting[p].at = "note" /\ posting' = [posting EXCEPT ![p] = NoPub]
      /\ feed' = [b \in ListenBots |->
                    IF ~feed[b].open THEN feed[b]
                    ELSE IF feed[b].queue = NoteLimit THEN [feed[b] EXCEPT !.open = FALSE]
                    ELSE [feed[b] EXCEPT !.queue = @ + 1]]
      /\ table' = table /\ changes' = changes /\ command' = command /\ newest' = newest /\ late' = late
      /\ loop' = loop /\ marks' = marks /\ told' = told
  BY DEF PublishNote, botTableVars
<1>2. BotTyped
  BY DEF BotInv
<1>3. /\ posting'[p] = NoPub /\ NoPub \in PostRec /\ NoPub.at = "idle"
      /\ \A q \in Actors : q # p => posting'[q] = posting[q]
  BY <1>1, <1>2 DEF BotTyped, PostRec, NoPub
<1>4. ASSUME NEW b \in ListenBots
      PROVE  /\ feed'[b] \in FeedRec /\ feed'[b].hand = feed[b].hand /\ feed'[b].latest = feed[b].latest
             /\ feed'[b].open => feed[b].open
  <2>1. feed[b] \in FeedRec /\ NoteLimit \in Nat
    BY <1>2, BotFields, BotAssumption
  <2>2. CASE ~feed[b].open
    BY <1>1, <2>1, <2>2
  <2>3. CASE feed[b].open /\ feed[b].queue = NoteLimit
    BY <1>1, <2>1, <2>3 DEF FeedRec
  <2>4. CASE feed[b].open /\ feed[b].queue # NoteLimit
    <3>1. feed[b].queue + 1 \in 0..NoteLimit
      BY <2>1, <2>4 DEF FeedRec
    <3>2. feed'[b] = [feed[b] EXCEPT !.queue = feed[b].queue + 1]
      BY <1>1, <2>4
    <3> QED BY <2>1, <2>4, <3>1, <3>2 DEF FeedRec
  <2> QED BY <2>2, <2>3, <2>4
<1>5. BotTyped'
  <2>1. posting' \in [Actors -> PostRec] /\ feed' \in [ListenBots -> FeedRec]
    BY <1>1, <1>2, <1>3, <1>4 DEF BotTyped
  <2>2. \A q \in Actors : posting'[q].at = "send" => posting'[q].copy \in TableCopy
    BY <1>2, <1>3 DEF BotTyped
  <2> QED BY <1>1, <1>2, <2>1, <2>2 DEF BotTyped
<1>6. \A q \in Actors : posting[q].at \in {"copy", "send"} \/ posting'[q].at \in {"copy", "send"} => posting'[q] = posting[q]
  BY <1>1, <1>3
<1> QED BY <1>1, <1>4, <1>5, <1>6, FeedMoves

LEMMA OfferKeeps == ASSUME BotInv, NEW b \in ListenBots, OfferNext(b) PROVE BotInv'
<1> DEFINE f == IF feed[b].queue > 0 THEN [feed[b] EXCEPT !.queue = feed[b].queue - 1]
                ELSE [feed[b] EXCEPT !.hand = feed[b].latest, !.latest = NoCopy]
<1>0. BotTyped /\ feed[b] \in FeedRec
  BY BotFields DEF BotInv
<1>1. /\ feed[b].open /\ feed[b].hand = NoCopy /\ feed' = [feed EXCEPT ![b] = f]
      /\ table' = table /\ changes' = changes /\ command' = command /\ newest' = newest /\ late' = late
      /\ loop' = loop /\ marks' = marks /\ told' = told /\ posting' = posting
  <2>1. /\ feed[b].open /\ feed[b].hand = NoCopy
        /\ table' = table /\ changes' = changes /\ command' = command /\ newest' = newest /\ late' = late
        /\ loop' = loop /\ marks' = marks /\ told' = told /\ posting' = posting
    BY DEF OfferNext, botTableVars
  <2>2. feed' = [feed EXCEPT ![b] = f]
    <3>1. feed \in [ListenBots -> FeedRec]
      BY <1>0 DEF BotTyped
    <3>2. CASE feed[b].queue > 0
      <4>1. feed' = [feed EXCEPT ![b].queue = feed[b].queue - 1]
        BY <3>2 DEF OfferNext
      <4> QED BY <3>1, <3>2, <4>1
    <3>3. CASE ~(feed[b].queue > 0)
      <4>1. feed' = [feed EXCEPT ![b].hand = feed[b].latest, ![b].latest = NoCopy]
        BY <3>3 DEF OfferNext
      <4> QED BY <3>1, <3>3, <4>1
    <3> QED BY <3>2, <3>3
  <2> QED BY <2>1, <2>2
<1>2. BotTyped /\ feed[b] \in FeedRec
  BY <1>0
<1>3. /\ f \in FeedRec /\ f.open = feed[b].open
      /\ \/ f.latest = feed[b].latest /\ f.hand = feed[b].hand
         \/ f.hand = feed[b].latest /\ f.latest = NoCopy
  <2>1. CASE feed[b].queue > 0
    <3>1. feed[b].queue - 1 \in 0..NoteLimit
      BY <1>2, <2>1, BotAssumption DEF FeedRec
    <3>2. f = [feed[b] EXCEPT !.queue = feed[b].queue - 1]
      BY <2>1
    <3> QED BY <1>2, <3>1, <3>2 DEF FeedRec
  <2>2. CASE ~(feed[b].queue > 0)
    <3>1. f = [feed[b] EXCEPT !.hand = feed[b].latest, !.latest = NoCopy]
      BY <2>2
    <3> QED BY <1>2, <3>1 DEF FeedRec
  <2> QED BY <2>1, <2>2
<1> HIDE DEF f
<1>4. /\ feed' \in [ListenBots -> FeedRec] /\ feed'[b] = f
      /\ \A a \in ListenBots : a # b => feed'[a] = feed[a]
  BY <1>1, <1>2, <1>3 DEF BotTyped
<1>5. BotTyped'
  BY <1>1, <1>2, <1>4 DEF BotTyped
<1>6. \A a \in ListenBots :
        /\ feed'[a].open => feed[a].open
        /\ \/ feed'[a].latest = feed[a].latest /\ feed'[a].hand = feed[a].hand
           \/ feed[a].hand = NoCopy /\ feed'[a].hand = feed[a].latest /\ feed'[a].latest = NoCopy
  BY <1>1, <1>3, <1>4
<1> QED BY <1>1, <1>5, <1>6, FeedMoves

LEMMA DeafKeeps == ASSUME BotInv, NEW b \in ListenBots, GoDeaf(b) PROVE BotInv'
<1> DEFINE f == [latest |-> NoCopy, queue |-> 0, hand |-> NoCopy, open |-> FALSE]
<1>1. /\ loop[b].at = "wait" /\ feed' = [feed EXCEPT ![b] = f] /\ loop' = [loop EXCEPT ![b].at = "deaf"]
      /\ table' = table /\ changes' = changes /\ command' = command /\ newest' = newest /\ late' = late
      /\ marks' = marks /\ told' = told /\ posting' = posting
  BY DEF GoDeaf, botTableVars
<1>2. BotTyped
  BY DEF BotInv
<1>3. f \in FeedRec /\ f.latest = NoCopy /\ f.hand = NoCopy /\ ~f.open
  BY BotAssumption DEF FeedRec
<1> HIDE DEF f
<1>4. /\ feed' \in [ListenBots -> FeedRec] /\ feed'[b] = f /\ loop' \in [ListenBots -> LoopRec]
      /\ \A a \in ListenBots : a # b => feed'[a] = feed[a] /\ loop'[a] = loop[a]
      /\ loop'[b].left = loop[b].left /\ loop'[b].at = "deaf"
  BY <1>1, <1>2, <1>3 DEF BotTyped, LoopRec
<1>5. BotTyped'
  BY <1>1, <1>2, <1>4 DEF BotTyped
<1>6. \A a \in ListenBots :
        /\ feed'[a].open => feed[a].open
        /\ loop'[a].left = loop[a].left /\ (loop'[a].at # "tell" => loop[a].at # "tell")
        /\ \/ feed'[a].latest = feed[a].latest /\ feed'[a].hand = feed[a].hand
           \/ ~feed'[a].open /\ feed'[a].hand = NoCopy /\ feed'[a].latest = NoCopy
  BY <1>1, <1>3, <1>4
<1> QED BY <1>1, <1>5, <1>6, FeedMoves

-----------------------------------------------------------------------------
(* The table changes.                                                      *)

LEMMA TableMoves ==
  ASSUME BotInv, NEW p \in Actors, NEW u \in BotTasks, NEW status \in Statuses, NEW note \in BOOLEAN,
         ChangeTask(p, u, status, note), Follows(table[u], status),
         feed' = feed, newest' = newest, late' = late, loop' = loop, marks' = marks, told' = told,
         command' \in [BotTasks -> CommandRec],
         \A t \in BotTasks : command'[t].at # "none" => table'[t] # "none",
         \A t \in BotTasks :
           \/ command'[t] = command[t]
           \/ command[t].at = "none" /\ command'[t].at = "create"
           \/ command[t].at = "create" /\ command'[t].at = "refused"
  PROVE  BotInv'
<1> DEFINE new == [at |-> "copy", copy |-> NoCopy, note |-> note]
<1>1. /\ table' = [table EXCEPT ![u] = status] /\ changes' = changes + 1 /\ posting' = [posting EXCEPT ![p] = new]
  BY DEF ChangeTask
<1>2. BotTyped /\ CopiesInOrder /\ new \in PostRec /\ new.at = "copy"
  BY DEF BotInv, PostRec
<1> HIDE DEF new
<1>3. /\ posting'[p] = new /\ posting' \in [Actors -> PostRec]
      /\ \A q \in Actors : q # p => posting'[q] = posting[q]
  BY <1>1, <1>2 DEF BotTyped
<1>4. /\ table' \in [BotTasks -> Statuses] /\ changes \in Nat /\ changes' \in Nat /\ newest \in Nat
      /\ \A t \in BotTasks : table[t] \in Statuses /\ table'[t] \in Statuses /\ Follows(table[t], table'[t])
  BY <1>1, <1>2, FollowsOn DEF BotTyped
<1>5. BotTyped'
  <2>1. \A q \in Actors : posting'[q].at = "send" => posting'[q].copy \in TableCopy
    BY <1>2, <1>3 DEF BotTyped
  <2> QED BY <1>2, <1>3, <1>4, <2>1 DEF BotTyped
<1>6. \A q \in Actors : posting'[q].at = "send" => posting[q].at = "send" /\ posting'[q].copy = posting[q].copy
  BY <1>2, <1>3
<1>7. CopiesInOrder'
  <2>1. \A c \in TableCopy : OnItsWay(c)' => OnItsWay(c)
    BY <1>6 DEF OnItsWay
  <2>2. changes <= changes' /\ changes' # changes
    BY <1>1, <1>4
  <2>3. /\ \A c \in TableCopy : OnItsWay(c)' => OfTable(c)'
        /\ \A c, d \in TableCopy : OnItsWay(c)' /\ OnItsWay(d)' => InOrderOf(c, d)
    BY <1>2, <1>4, <2>1, <2>2, CopiesGoOn
  <2>4. \A c, d \in TableCopy : OnItsWay(c)' /\ OnItsWay(d)' => InOrderOf(c, d)'
    BY <2>3 DEF InOrderOf
  <2> QED BY <1>2, <2>3, <2>4 DEF CopiesInOrder
<1>8. \A b \in ListenBots, t \in BotTasks : CopyComes(b, t)'
  BY <1>2, <1>3 DEF CopyComes
<1>9. ASSUME NEW b \in ListenBots, NEW t \in BotTasks, NEW S \in EndSets, Sees(b, t, S) PROVE Sees(b, t, S)'
  <2>1. table'[t] \in S
    <3>1. table[t] \in S
      BY <1>9 DEF Sees
    <3> QED BY <1>4, <1>9, <3>1, FollowsOn
  <2>2. newest <= newest'
    BY <1>4
  <2>3. /\ feed[b].latest # NoCopy => feed[b].latest.of[t] \in S
        /\ feed[b].hand # NoCopy => feed[b].hand.of[t] \in S
    BY <1>9 DEF Sees
  <2> QED BY <1>2, <1>5, <1>6, <1>9, <2>1, <2>2, <2>3, SeesKept
<1>10. ASSUME NEW t \in BotTasks PROVE Started(t)'
  <2>1. Started(t)
    BY DEF BotInv
  <2>2. \A S \in {{"ended", "deleted"}, {"cancelled", "deleted"}} : table[t] \in S => table'[t] \in S
    BY <1>4 DEF Follows, EndStatuses
  <2> QED BY <2>1, <2>2 DEF Started
<1>11. ASSUME NEW b \in ChatBots, NEW t \in BotTasks PROVE ChatOnce(b, t)'
  <2>1. ChatOnce(b, t) /\ b \in ListenBots
    BY DEF BotInv, ListenBots
  <2>2. table[t] \in {"cancelled", "deleted"} => table'[t] \in {"cancelled", "deleted"}
    BY <1>4 DEF Follows, EndStatuses
  <2>3. CopyComes(b, t)'
    BY <1>8, <2>1
  <2>4. CASE command'[t] = command[t]
    BY <2>1, <2>2, <2>3, <2>4 DEF ChatOnce
  <2>5. CASE command[t].at = "none" /\ command'[t].at = "create"
    BY <2>1, <2>5 DEF ChatOnce
  <2>6. CASE command[t].at = "create" /\ command'[t].at = "refused"
    BY <2>1, <2>6 DEF ChatOnce
  <2> QED BY <2>4, <2>5, <2>6
<1>12. ASSUME NEW b \in PushBots, NEW t \in BotTasks PROVE PushOnce(b, t)'
  <2>1. SUFFICES ASSUME ~late PROVE PushOnce(b, t)'
    BY DEF PushOnce
  <2>2. PushOnce(b, t) /\ b \in ListenBots
    BY DEF BotInv, ListenBots
  <2>3. CopyComes(b, t)' /\ \A S \in EndSets : Sees(b, t, S) => Sees(b, t, S)'
    BY <1>8, <1>9, <2>2
  <2>4. t \in marks[b] => Sees(b, t, {"ended", "deleted"})'
    BY <2>1, <2>2, <2>3 DEF PushOnce, EndSets
  <2>5. (t \in loop[b].left \/ told[b][t] = 1) /\ t \notin marks[b] => Sees(b, t, {"deleted"})'
    BY <2>1, <2>2, <2>3 DEF PushOnce, EndSets
  <2> QED BY <2>1, <2>2, <2>3, <2>4, <2>5 DEF PushOnce
<1> QED BY <1>5, <1>7, <1>10, <1>11, <1>12 DEF BotInv

LEMMA ChangeKeeps == ASSUME BotInv, NEW p \in Changers, ChangeStatus(p) PROVE BotInv'
<1>1. PICK u \in BotTasks :
       \/ table[u] = "queued" /\ command[u].at # "create" /\ ChangeTask(p, u, "ended", TRUE)
       \/ table[u] = "queued" /\ ChangeTask(p, u, "cancelled", TRUE)
       \/ table[u] \in EndStatuses /\ ChangeTask(p, u, "deleted", FALSE)
  BY DEF ChangeStatus
<1>2. /\ command' = command /\ feed' = feed /\ newest' = newest /\ late' = late /\ loop' = loop /\ marks' = marks /\ told' = told
  BY DEF ChangeStatus, botFeedVars
<1>3. p \in Actors /\ BotTyped
  BY DEF Actors, BotInv
<1>4. \A status \in Statuses, note \in BOOLEAN : ChangeTask(p, u, status, note) /\ status # "none" =>
        \A t \in BotTasks : command'[t].at # "none" => table'[t] # "none"
  BY <1>2, <1>3 DEF ChangeTask, BotInv, Started, BotTyped
<1>5. command' \in [BotTasks -> CommandRec]
  BY <1>2, <1>3 DEF BotTyped
<1>6. {"ended", "cancelled", "deleted"} \subseteq Statuses
  BY DEF Statuses
<1>7. CASE table[u] = "queued" /\ ChangeTask(p, u, "ended", TRUE)
  <2>1. Follows(table[u], "ended") /\ \A t \in BotTasks : command'[t].at # "none" => table'[t] # "none"
    BY <1>4, <1>6, <1>7 DEF Follows
  <2> QED BY <1>2, <1>3, <1>5, <1>6, <1>7, <2>1, TableMoves
<1>8. CASE table[u] = "queued" /\ ChangeTask(p, u, "cancelled", TRUE)
  <2>1. Follows(table[u], "cancelled") /\ \A t \in BotTasks : command'[t].at # "none" => table'[t] # "none"
    BY <1>4, <1>6, <1>8 DEF Follows
  <2> QED BY <1>2, <1>3, <1>5, <1>6, <1>8, <2>1, TableMoves
<1>9. CASE table[u] \in EndStatuses /\ ChangeTask(p, u, "deleted", FALSE)
  <2>1. Follows(table[u], "deleted") /\ \A t \in BotTasks : command'[t].at # "none" => table'[t] # "none"
    BY <1>4, <1>6, <1>9 DEF Follows
  <2> QED BY <1>2, <1>3, <1>5, <1>6, <1>9, <2>1, TableMoves
<1> QED BY <1>1, <1>7, <1>8, <1>9

LEMMA BeginTaskKeeps == ASSUME BotInv, NEW u \in BotTasks, BeginDownload(u) PROVE BotInv'
<1>1. PICK b \in ChatBots \cup {NoBot} : command' = [command EXCEPT ![u] = [at |-> "create", bot |-> b]]
  BY DEF BeginDownload
<1>2. /\ command[u].at = "none" /\ table[u] = "none" /\ ChangeTask(u, u, "queued", FALSE)
      /\ feed' = feed /\ newest' = newest /\ late' = late /\ loop' = loop /\ marks' = marks /\ told' = told
  BY DEF BeginDownload, botFeedVars
<1>3. u \in Actors /\ BotTyped /\ "queued" \in Statuses /\ Follows(table[u], "queued")
  BY <1>2 DEF Actors, BotInv, Statuses, Follows
<1>4. /\ command' \in [BotTasks -> CommandRec] /\ command'[u].at = "create"
      /\ \A t \in BotTasks : t # u => command'[t] = command[t]
  BY <1>1, <1>3 DEF BotTyped, CommandRec
<1>5. \A t \in BotTasks : command'[t].at # "none" => table'[t] # "none"
  BY <1>2, <1>3, <1>4 DEF ChangeTask, BotInv, Started, BotTyped
<1>6. \A t \in BotTasks : command'[t] = command[t] \/ (command[t].at = "none" /\ command'[t].at = "create")
  BY <1>2, <1>4
<1> QED BY <1>2, <1>3, <1>4, <1>5, <1>6, TableMoves

-----------------------------------------------------------------------------
(* The commands.                                                           *)

\* A step of a command that changes neither the table nor what is on its way.
LEMMA CommandMoves ==
  ASSUME BotInv, BotTyped', table' = table, changes' = changes, posting' = posting, feed' = feed, newest' = newest,
         late' = late, loop' = loop,
         \A b \in PushBots : marks'[b] = marks[b] /\ told'[b] = told[b],
         \A t \in BotTasks : Started(t)',
         \A b \in ChatBots, t \in BotTasks : ChatOnce(b, t)'
  PROVE  BotInv'
<1>1. CopiesInOrder'
  BY DEF BotInv, CopiesInOrder, OnItsWay, OfTable, InOrderOf
<1>2. ASSUME NEW b \in PushBots, NEW t \in BotTasks PROVE PushOnce(b, t)'
  <2>1. PushOnce(b, t) /\ marks'[b] = marks[b] /\ told'[b] = told[b]
    BY DEF BotInv
  <2>2. CopyComes(b, t)' = CopyComes(b, t) /\ \A S : Sees(b, t, S)' = Sees(b, t, S)
    BY DEF CopyComes, Sees
  <2> QED BY <2>1, <2>2 DEF PushOnce
<1> QED BY <1>1, <1>2 DEF BotInv

LEMMA EnqueueKeeps == ASSUME BotInv, NEW u \in BotTasks, EnqueueTask(u) PROVE BotInv'
<1>1. /\ command[u].at = "create" /\ feed' = feed /\ newest' = newest /\ late' = late
      /\ loop' = loop /\ marks' = marks /\ told' = told
  BY DEF EnqueueTask, botFeedVars
<1>2. BotTyped /\ command \in [BotTasks -> CommandRec] /\ command[u].bot \in ChatBots \cup {NoBot} /\ table[u] # "none"
  BY <1>1 DEF BotInv, BotTyped, CommandRec, Started
<1>3. CASE \E at \in {"done", "track", "refused"} :
             /\ command' = [command EXCEPT ![u].at = at] /\ table' = table /\ changes' = changes /\ posting' = posting
             /\ at = "done" => command[u].bot = NoBot
             /\ at = "track" => command[u].bot # NoBot
  <2>1. PICK at \in {"done", "track", "refused"} :
             /\ command' = [command EXCEPT ![u].at = at] /\ table' = table /\ changes' = changes /\ posting' = posting
             /\ at = "done" => command[u].bot = NoBot
             /\ at = "track" => command[u].bot # NoBot
    BY <1>3
  <2>2. /\ command' \in [BotTasks -> CommandRec] /\ command'[u].at = at /\ command'[u].bot = command[u].bot
        /\ \A t \in BotTasks : t # u => command'[t] = command[t]
    BY <1>2, <2>1 DEF CommandRec
  <2>3. BotTyped'
    BY <1>1, <1>2, <2>1, <2>2 DEF BotTyped
  <2>4. ASSUME NEW t \in BotTasks PROVE Started(t)'
    <3>1. Started(t)
      BY DEF BotInv
    <3>2. CASE t = u
      BY <1>2, <2>1, <2>2, <3>2 DEF Started
    <3>3. CASE t # u
      BY <2>1, <2>2, <3>1, <3>3 DEF Started
    <3> QED BY <3>2, <3>3
  <2>5. ASSUME NEW b \in ChatBots, NEW t \in BotTasks PROVE ChatOnce(b, t)'
    <3>1. ChatOnce(b, t) /\ b # NoBot
      BY BotAssumption DEF BotInv
    <3>2. CopyComes(b, t)' = CopyComes(b, t)
      BY <1>1, <2>1 DEF CopyComes
    <3>3. CASE t = u
      BY <1>1, <2>1, <2>2, <3>1, <3>3 DEF ChatOnce
    <3>4. CASE t # u
      BY <1>1, <2>1, <2>2, <3>1, <3>2, <3>4 DEF ChatOnce
    <3> QED BY <3>3, <3>4
  <2> QED BY <1>1, <2>1, <2>3, <2>4, <2>5, CommandMoves
<1>4. CASE table[u] = "queued" /\ CommandAt(u, "refused") /\ ChangeTask(u, u, "ended", TRUE)
  <2>1. /\ command' \in [BotTasks -> CommandRec] /\ command'[u].at = "refused"
        /\ \A t \in BotTasks : t # u => command'[t] = command[t]
    BY <1>2, <1>4 DEF CommandRec, CommandAt
  <2>2. u \in Actors /\ "ended" \in Statuses /\ Follows(table[u], "ended")
    BY <1>4 DEF Actors, Statuses, Follows
  <2>3. \A t \in BotTasks : command'[t].at # "none" => table'[t] # "none"
    BY <1>2, <1>4, <2>1 DEF ChangeTask, BotInv, Started, BotTyped
  <2>4. \A t \in BotTasks : command'[t] = command[t] \/ (command[t].at = "create" /\ command'[t].at = "refused")
    BY <1>1, <2>1
  <2> QED BY <1>1, <1>4, <2>1, <2>2, <2>3, <2>4, TableMoves
<1>5. \/ CommandAt(u, IF command[u].bot = NoBot THEN "done" ELSE "track") /\ UNCHANGED <<botTableVars, posting>>
      \/ CommandAt(u, "refused") /\ IF table[u] = "queued" THEN ChangeTask(u, u, "ended", TRUE) ELSE UNCHANGED <<botTableVars, posting>>
  BY DEF EnqueueTask
<1>6. CASE CommandAt(u, IF command[u].bot = NoBot THEN "done" ELSE "track") /\ UNCHANGED <<botTableVars, posting>>
  BY <1>3, <1>6 DEF CommandAt, botTableVars
<1>7. CASE CommandAt(u, "refused") /\ UNCHANGED <<botTableVars, posting>>
  BY <1>3, <1>7 DEF CommandAt, botTableVars
<1> QED BY <1>4, <1>5, <1>6, <1>7

LEMMA TrackKeeps == ASSUME BotInv, NEW u \in BotTasks, Track(u) PROVE BotInv'
<1> DEFINE o == command[u].bot
<1>1. /\ command[u].at = "track" /\ command' = [command EXCEPT ![u].at = "check"]
      /\ marks' = [marks EXCEPT ![o] = @ \cup {u}]
      /\ table' = table /\ changes' = changes /\ posting' = posting
      /\ feed' = feed /\ newest' = newest /\ late' = late /\ loop' = loop /\ told' = told
  BY DEF Track, CommandAt, botTableVars, botFeedVars
<1>2. BotTyped /\ command \in [BotTasks -> CommandRec] /\ o \in ChatBots /\ o \in ListenBots /\ o \notin PushBots
      /\ marks \in [ListenBots -> SUBSET BotTasks] /\ ChatBots \subseteq ListenBots /\ PushBots \subseteq ListenBots
  BY <1>1, BotAssumption DEF BotInv, BotTyped, Started, ListenBots
<1> HIDE DEF o
<1>3. /\ command' \in [BotTasks -> CommandRec] /\ command'[u].at = "check" /\ command'[u].bot = o
      /\ \A t \in BotTasks : t # u => command'[t] = command[t]
  BY <1>1, <1>2 DEF CommandRec, o
<1>4. marks' \in [ListenBots -> SUBSET BotTasks] /\ \A b \in ListenBots : marks'[b] = IF b = o THEN marks[b] \cup {u} ELSE marks[b]
  BY <1>1, <1>2
<1>5. BotTyped'
  BY <1>1, <1>2, <1>3, <1>4 DEF BotTyped
<1>6. ASSUME NEW t \in BotTasks PROVE Started(t)'
  <2>1. Started(t)
    BY DEF BotInv
  <2>2. CASE t = u
    BY <1>1, <1>2, <1>3, <2>1, <2>2 DEF Started
  <2>3. CASE t # u
    BY <1>1, <1>3, <2>1, <2>3 DEF Started
  <2> QED BY <2>2, <2>3
<1>7. ASSUME NEW b \in ChatBots, NEW t \in BotTasks PROVE ChatOnce(b, t)'
  <2>1. ChatOnce(b, t) /\ b \in ListenBots
    BY <1>2 DEF BotInv
  <2>2. CopyComes(b, t)' = CopyComes(b, t)
    BY <1>1 DEF CopyComes
  <2>3. CASE t = u
    BY <1>1, <1>3, <1>4, <2>1, <2>3 DEF ChatOnce
  <2>4. CASE t # u
    <3>1. t \in marks'[b] <=> t \in marks[b]
      BY <1>4, <2>1, <2>4
    <3> QED BY <1>1, <1>3, <2>1, <2>2, <2>4, <3>1 DEF ChatOnce
  <2> QED BY <2>3, <2>4
<1> QED BY <1>1, <1>2, <1>4, <1>5, <1>6, <1>7, CommandMoves

LEMMA NotifyKeeps == ASSUME BotInv, NEW u \in BotTasks, NotifyIfTerminal(u) PROVE BotInv'
<1> DEFINE at == CASE table[u] = "ended" -> "announce" [] table[u] = "cancelled" -> "forget" [] OTHER -> "done"
<1>1. /\ command[u].at = "check" /\ command' = [command EXCEPT ![u].at = at] /\ marks' = marks
      /\ table' = table /\ changes' = changes /\ posting' = posting
      /\ feed' = feed /\ newest' = newest /\ late' = late /\ loop' = loop /\ told' = told
  BY DEF NotifyIfTerminal, CommandAt, botTableVars, botFeedVars
<1>2. BotTyped /\ command \in [BotTasks -> CommandRec]
  BY DEF BotInv, BotTyped
<1>3. \/ at = "announce" /\ table[u] = "ended"
      \/ at = "forget" /\ table[u] = "cancelled"
      \/ at = "done" /\ table[u] \notin EndStatuses
  BY DEF EndStatuses
<1> HIDE DEF at
<1>4. /\ command' \in [BotTasks -> CommandRec] /\ command'[u].at = at /\ command'[u].bot = command[u].bot
      /\ \A t \in BotTasks : t # u => command'[t] = command[t]
  BY <1>1, <1>2, <1>3 DEF CommandRec
<1>5. BotTyped'
  BY <1>1, <1>2, <1>4 DEF BotTyped
<1>6. ASSUME NEW t \in BotTasks PROVE Started(t)'
  <2>1. Started(t)
    BY DEF BotInv
  <2>2. CASE t = u
    BY <1>1, <1>3, <1>4, <2>1, <2>2 DEF Started
  <2>3. CASE t # u
    BY <1>1, <1>4, <2>1, <2>3 DEF Started
  <2> QED BY <2>2, <2>3
<1>7. ASSUME NEW b \in ChatBots, NEW t \in BotTasks PROVE ChatOnce(b, t)'
  <2>1. ChatOnce(b, t)
    BY DEF BotInv
  <2>2. CopyComes(b, t)' = CopyComes(b, t)
    BY <1>1 DEF CopyComes
  <2>3. CASE t = u
    BY <1>1, <1>3, <1>4, <2>1, <2>3 DEF ChatOnce
  <2>4. CASE t # u
    BY <1>1, <1>4, <2>1, <2>2, <2>4 DEF ChatOnce
  <2> QED BY <2>3, <2>4
<1> QED BY <1>1, <1>5, <1>6, <1>7, CommandMoves

LEMMA DrainOwnKeeps == ASSUME BotInv, NEW u \in BotTasks, DrainOwn(u) PROVE BotInv'
<1> DEFINE o == command[u].bot
<1>1. /\ command[u].at \in {"announce", "forget"} /\ command' = [command EXCEPT ![u].at = "done"]
      /\ marks' = [marks EXCEPT ![o] = @ \ {u}]
      /\ table' = table /\ changes' = changes /\ posting' = posting
      /\ feed' = feed /\ newest' = newest /\ late' = late /\ loop' = loop
      /\ IF command[u].at = "announce" /\ u \in marks[o] THEN Told(o, {u}) ELSE told' = told
  BY DEF DrainOwn, CommandAt, botTableVars, botFeedVars
<1>2. /\ BotTyped /\ command \in [BotTasks -> CommandRec] /\ o \in ChatBots /\ o \in ListenBots /\ o \notin PushBots
      /\ marks \in [ListenBots -> SUBSET BotTasks] /\ ChatBots \subseteq ListenBots /\ PushBots \subseteq ListenBots
      /\ told \in [ListenBots -> [BotTasks -> 0..2]]
  BY <1>1, BotAssumption DEF BotInv, BotTyped, Started, ListenBots
<1> HIDE DEF o
<1>3. /\ command' \in [BotTasks -> CommandRec] /\ command'[u].at = "done" /\ command'[u].bot = o
      /\ \A t \in BotTasks : t # u => command'[t] = command[t]
  BY <1>1, <1>2 DEF CommandRec, o
<1>4. marks' \in [ListenBots -> SUBSET BotTasks] /\ \A b \in ListenBots : marks'[b] = IF b = o THEN marks[b] \ {u} ELSE marks[b]
  BY <1>1, <1>2
<1>5. /\ told' \in [ListenBots -> [BotTasks -> 0..2]]
      /\ \A b \in ListenBots, t \in BotTasks :
           IF b = o /\ t = u /\ command[u].at = "announce" /\ u \in marks[o] /\ told[b][t] < 2
           THEN told'[b][t] = told[b][t] + 1 ELSE told'[b][t] = told[b][t]
      /\ \A b \in ListenBots : b # o => told'[b] = told[b]
  <2>1. CASE command[u].at = "announce" /\ u \in marks[o]
    <3> DEFINE new == [t \in BotTasks |-> IF t \in {u} /\ told[o][t] < 2 THEN told[o][t] + 1 ELSE told[o][t]]
    <3>1. told' = [told EXCEPT ![o] = new]
      BY <1>1, <2>1 DEF Told
    <3>2. new \in [BotTasks -> 0..2] /\ \A t \in BotTasks : new[t] = IF t = u /\ told[o][t] < 2 THEN told[o][t] + 1 ELSE told[o][t]
      <4>1. told[o] \in [BotTasks -> 0..2]
        BY <1>2
      <4> QED BY <4>1
    <3> HIDE DEF new
    <3> QED BY <1>2, <2>1, <3>1, <3>2
  <2>2. CASE ~(command[u].at = "announce" /\ u \in marks[o])
    BY <1>1, <1>2, <2>2
  <2> QED BY <2>1, <2>2
<1>6. BotTyped'
  BY <1>1, <1>2, <1>3, <1>4, <1>5 DEF BotTyped
<1>7. ASSUME NEW t \in BotTasks PROVE Started(t)'
  <2>1. Started(t)
    BY DEF BotInv
  <2>2. CASE t = u
    BY <1>1, <1>2, <1>3, <2>1, <2>2 DEF Started
  <2>3. CASE t # u
    BY <1>1, <1>3, <2>1, <2>3 DEF Started
  <2> QED BY <2>2, <2>3
<1>8. ASSUME NEW b \in ChatBots, NEW t \in BotTasks PROVE ChatOnce(b, t)'
  <2>1. ChatOnce(b, t) /\ b \in ListenBots
    BY <1>2 DEF BotInv
  <2>2. CopyComes(b, t)' = CopyComes(b, t)
    BY <1>1 DEF CopyComes
  <2>3. CASE t = u /\ b = o
    <3>1. t \notin marks'[b] /\ loop'[b].left = loop[b].left
      BY <1>1, <1>4, <2>1, <2>3
    <3>2. command[t].at = "forget" => table[t] \in {"cancelled", "deleted"}
      BY DEF BotInv, Started
    <3>3. command[t].bot = b
      BY <2>3 DEF o
    <3>4. CASE command[u].at = "announce" /\ u \in marks[o]
      <4>1. told[b][t] = 0 /\ t \notin loop[b].left
        BY <2>1, <2>3, <3>4 DEF ChatOnce
      <4>2. told'[b][t] = 1
        BY <1>5, <2>1, <2>3, <3>4, <4>1
      <4> QED BY <1>1, <1>3, <2>3, <3>1, <4>1, <4>2 DEF ChatOnce
    <3>5. CASE ~(command[u].at = "announce" /\ u \in marks[o])
      <4>1. told'[b][t] = told[b][t]
        BY <1>5, <2>1, <3>5
      <4> QED BY <1>1, <1>3, <2>1, <2>3, <3>1, <3>2, <3>3, <3>5, <4>1 DEF ChatOnce
    <3> QED BY <3>4, <3>5
  <2>4. CASE t = u /\ b # o
    <3>1. command[t].bot = o /\ marks'[b] = marks[b] /\ told'[b][t] = told[b][t]
      BY <1>4, <1>5, <2>1, <2>4 DEF o
    <3> QED BY <1>1, <1>3, <2>1, <2>4, <3>1 DEF ChatOnce
  <2>5. CASE t # u
    <3>1. (t \in marks'[b] <=> t \in marks[b]) /\ told'[b][t] = told[b][t]
      BY <1>4, <1>5, <2>1, <2>5
    <3> QED BY <1>1, <1>3, <2>1, <2>2, <2>5, <3>1 DEF ChatOnce
  <2> QED BY <2>3, <2>4, <2>5
<1>9. \A b \in PushBots : marks'[b] = marks[b] /\ told'[b] = told[b]
  BY <1>2, <1>4, <1>5
<1> QED BY <1>1, <1>6, <1>7, <1>8, <1>9, CommandMoves

-----------------------------------------------------------------------------
(* The event loops.                                                        *)

\* Other bots see what they saw, and nothing changes but bot b's marks and announcements.
LEMMA LoopMoves ==
  ASSUME BotInv, BotTyped', CopiesInOrder', NEW b \in ListenBots,
         table' = table, changes' = changes, command' = command, posting' = posting, newest' = newest, late' = late,
         \A a \in ListenBots : a # b => /\ feed'[a] = feed[a] /\ loop'[a] = loop[a]
                                        /\ marks'[a] = marks[a] /\ told'[a] = told[a],
         loop'[b].at # "tell" => loop'[b].left = {},
         b \in ChatBots => \A t \in BotTasks : ChatOnce(b, t)',
         b \in PushBots => \A t \in BotTasks : PushOnce(b, t)'
  PROVE  BotInv'
<1>1. ChatBots \subseteq ListenBots /\ PushBots \subseteq ListenBots
  BY DEF ListenBots
<1>2. ASSUME NEW a \in ListenBots, a # b, NEW t \in BotTasks
      PROVE  CopyComes(a, t)' = CopyComes(a, t) /\ \A S : Sees(a, t, S)' = Sees(a, t, S)
  <2>1. feed'[a] = feed[a]
    BY <1>2
  <2> QED BY <2>1 DEF CopyComes, Sees
<1>3. ASSUME NEW a \in ChatBots, NEW t \in BotTasks PROVE ChatOnce(a, t)'
  <2>1. CASE a = b
    BY <2>1
  <2>2. CASE a # b
    <3>1. /\ feed'[a] = feed[a] /\ loop'[a] = loop[a] /\ marks'[a] = marks[a] /\ told'[a] = told[a]
          /\ ChatOnce(a, t) /\ CopyComes(a, t)' = CopyComes(a, t)
      BY <1>1, <1>2, <2>2 DEF BotInv
    <3> QED BY <3>1 DEF ChatOnce
  <2> QED BY <2>1, <2>2
<1>4. ASSUME NEW a \in PushBots, NEW t \in BotTasks PROVE PushOnce(a, t)'
  <2>1. CASE a = b
    BY <2>1
  <2>2. CASE a # b
    <3>1. /\ feed'[a] = feed[a] /\ loop'[a] = loop[a] /\ marks'[a] = marks[a] /\ told'[a] = told[a]
          /\ PushOnce(a, t) /\ CopyComes(a, t)' = CopyComes(a, t) /\ \A S : Sees(a, t, S)' = Sees(a, t, S)
      BY <1>1, <1>2, <2>2 DEF BotInv
    <3> QED BY <3>1 DEF PushOnce
  <2> QED BY <2>1, <2>2
<1>5. \A t \in BotTasks : Started(t)'
  BY DEF BotInv, Started
<1>6. \A a \in ListenBots : loop'[a].at # "tell" => loop'[a].left = {}
  BY DEF BotInv
<1> QED BY <1>3, <1>4, <1>5, <1>6 DEF BotInv

LEMMA ShowingOf ==
  ASSUME NEW c, NEW S, NEW t \in BotTasks
  PROVE  t \in Showing(c, S) <=> c.of[t] \in S
BY DEF Showing

LEMMA TakeTasksKeeps == ASSUME BotInv, NEW b \in ListenBots, TakeTasks(b) PROVE BotInv'
<1> DEFINE h == feed[b].hand
<1>1. /\ loop[b].at = "wait" /\ h # NoCopy /\ feed' = [feed EXCEPT ![b].hand = NoCopy]
      /\ IF b \in ChatBots THEN Drained(b, h) ELSE Notified(b, h)
      /\ table' = table /\ changes' = changes /\ command' = command /\ newest' = newest /\ late' = late
      /\ told' = told /\ posting' = posting
  BY DEF TakeTasks, botTableVars
<1>2. /\ BotTyped /\ CopiesInOrder /\ h \in TableCopy /\ OnItsWay(h) /\ loop[b].left = {}
      /\ \A t \in BotTasks : h.of[t] \in Statuses
      /\ feed \in [ListenBots -> FeedRec] /\ loop \in [ListenBots -> LoopRec] /\ marks \in [ListenBots -> SUBSET BotTasks]
      /\ newest \in Nat
  BY <1>1, BotFields, CopyFields DEF BotInv, OnItsWay, BotTyped
<1> HIDE DEF h
<1>3. /\ feed' \in [ListenBots -> FeedRec] /\ \A a \in ListenBots : a # b => feed'[a] = feed[a]
      /\ feed'[b].hand = NoCopy /\ feed'[b].latest = feed[b].latest /\ feed'[b].open = feed[b].open
  BY <1>1, <1>2 DEF FeedRec
<1>4. \A c \in TableCopy : OnItsWay(c)' => OnItsWay(c)
  <2>1. \A a \in ListenBots : feed'[a].latest = feed[a].latest /\ feed'[a].hand \in {NoCopy, feed[a].hand}
    BY <1>3
  <2> QED BY <1>1, <2>1 DEF OnItsWay
<1>5. CopiesInOrder'
  <2>1. /\ \A c \in TableCopy : OnItsWay(c)' => OfTable(c)'
        /\ \A c, d \in TableCopy : OnItsWay(c)' /\ OnItsWay(d)' => InOrderOf(c, d)
    <3>1. \A t \in BotTasks : Follows(table[t], table'[t])
      BY <1>1 DEF Follows
    <3>2. changes \in Nat /\ table \in [BotTasks -> Statuses]
      BY <1>2 DEF BotTyped
    <3> QED BY <1>1, <1>2, <1>4, <3>1, <3>2, CopiesGoOn
  <2>2. ASSUME NEW a \in ListenBots
        PROVE  /\ feed'[a].latest # NoCopy => feed'[a].latest.at <= newest'
               /\ feed'[a].hand # NoCopy => feed'[a].hand.at <= newest'
               /\ ~late' /\ feed'[a].hand # NoCopy /\ feed'[a].latest # NoCopy => feed'[a].hand.at <= feed'[a].latest.at
    BY <1>1, <1>2, <1>3 DEF CopiesInOrder
  <2>3. \A c, d \in TableCopy : OnItsWay(c)' /\ OnItsWay(d)' => InOrderOf(c, d)'
    BY <2>1 DEF InOrderOf
  <2> QED BY <2>1, <2>2, <2>3 DEF CopiesInOrder
<1>6. ASSUME NEW t \in BotTasks, CopyComes(b, t), h.of[t] # table[t] PROVE CopyComes(b, t)'
  BY <1>1, <1>3, <1>6 DEF CopyComes, h
<1>7. ASSUME NEW t \in BotTasks, NEW S \in EndSets, Sees(b, t, S), BotTyped' PROVE Sees(b, t, S)'
  <2>1. /\ table[t] \in S /\ (feed[b].latest # NoCopy => feed[b].latest.of[t] \in S)
    BY <1>7 DEF Sees
  <2>2. newest <= newest'
    BY <1>1, <1>2
  <2> QED BY <1>1, <1>2, <1>3, <1>7, <2>1, <2>2, SeesKept
<1>8. CASE b \in ChatBots
  <2> DEFINE left == marks[b] \cap Showing(h, {"ended"})
  <2>1. /\ marks' = [marks EXCEPT ![b] = @ \ Showing(h, EndStatuses)]
        /\ loop' = [loop EXCEPT ![b] = [at |-> "tell", left |-> left]]
    BY <1>1, <1>8 DEF Drained
  <2>2. left \in SUBSET BotTasks
    BY <1>2
  <2>3. \A t \in BotTasks : t \in left <=> t \in marks[b] /\ h.of[t] = "ended"
    BY ShowingOf
  <2> HIDE DEF left
  <2>4. /\ loop' \in [ListenBots -> LoopRec] /\ loop'[b].at = "tell" /\ loop'[b].left = left
        /\ marks' \in [ListenBots -> SUBSET BotTasks]
        /\ \A a \in ListenBots : a # b => loop'[a] = loop[a] /\ marks'[a] = marks[a]
    BY <1>2, <2>1, <2>2 DEF LoopRec
  <2>5. \A t \in BotTasks : t \in marks'[b] <=> t \in marks[b] /\ h.of[t] \notin EndStatuses
    BY <1>2, <2>1, ShowingOf
  <2>6. BotTyped'
    BY <1>1, <1>2, <1>3, <2>4 DEF BotTyped
  <2>7. ASSUME NEW t \in BotTasks PROVE ChatOnce(b, t)'
    <3>1. ChatOnce(b, t) /\ t \notin loop[b].left
      BY <1>2, <1>8 DEF BotInv
    <3>2. h.of[t] = "cancelled" => table[t] \in {"cancelled", "deleted"}
      BY <1>2 DEF CopiesInOrder, OfTable, Follows, EndStatuses
    <3>3. t \in marks[b] => t \in marks'[b] \/ t \in left \/ table[t] \in {"cancelled", "deleted"}
      BY <2>3, <2>5, <3>2 DEF EndStatuses
    <3>4. ~late /\ feed[b].open /\ t \in marks'[b] /\ command[t].at = "done" /\ table[t] \in EndStatuses => CopyComes(b, t)'
      BY <1>6, <2>5, <3>1 DEF ChatOnce
    <3>5. (t \in marks'[b] => t \in marks[b] /\ t \notin left) /\ (t \in left => t \in marks[b] /\ t \notin marks'[b])
      BY <2>3, <2>5 DEF EndStatuses
    <3> QED BY <1>1, <1>3, <2>4, <3>1, <3>3, <3>4, <3>5 DEF ChatOnce
  <2>8. b \notin PushBots
    BY <1>8, BotAssumption
  <2> QED BY <1>1, <1>3, <1>5, <2>4, <2>6, <2>7, <2>8, LoopMoves
<1>9. CASE b \notin ChatBots
  <2> DEFINE kept == marks[b] \cap Showing(h, {"queued", "ended", "cancelled"})
             due == Showing(h, {"ended"}) \ kept
  <2>1. marks' = [marks EXCEPT ![b] = kept \cup due] /\ loop' = [loop EXCEPT ![b] = [at |-> "tell", left |-> due]]
    BY <1>1, <1>9 DEF Notified
  <2>2. kept \in SUBSET BotTasks /\ due \in SUBSET BotTasks
    BY <1>2 DEF Showing
  <2>3. \A t \in BotTasks : /\ t \in kept <=> t \in marks[b] /\ h.of[t] \in {"queued", "ended", "cancelled"}
                            /\ t \in due <=> h.of[t] = "ended" /\ t \notin marks[b]
    BY ShowingOf
  <2> HIDE DEF kept, due
  <2>4. /\ loop' \in [ListenBots -> LoopRec] /\ loop'[b].at = "tell" /\ loop'[b].left = due
        /\ marks' \in [ListenBots -> SUBSET BotTasks] /\ marks'[b] = kept \cup due
        /\ \A a \in ListenBots : a # b => loop'[a] = loop[a] /\ marks'[a] = marks[a]
    BY <1>2, <2>1, <2>2 DEF LoopRec
  <2>5. BotTyped'
    BY <1>1, <1>2, <1>3, <2>4 DEF BotTyped
  <2>6. b \in PushBots
    BY <1>9 DEF ListenBots
  <2>7. ASSUME NEW t \in BotTasks, ~late PROVE PushOnce(b, t)'
    <3>1. PushOnce(b, t) /\ t \notin loop[b].left /\ told[b][t] \in 0..2
      BY <1>2, <2>6, BotFields DEF BotInv
    <3>2. /\ told[b][t] <= 1
          /\ t \in marks[b] => told[b][t] = 1 /\ Sees(b, t, {"ended", "deleted"})
          /\ told[b][t] = 1 /\ t \notin marks[b] => Sees(b, t, {"deleted"})
          /\ feed[b].open /\ table[t] = "ended" => CopyComes(b, t) \/ told[b][t] = 1
      BY <2>7, <3>1 DEF PushOnce
    <3>3. \A S \in EndSets : Sees(b, t, S) => h.of[t] \in S /\ Sees(b, t, S)'
      BY <1>1, <1>7, <2>5 DEF Sees, h
    <3>4. \A S \in EndSets : h.of[t] \in S => Sees(b, t, S)'
      BY <1>1, <2>7, <3>3, SeesLater DEF h
    <3>5. t \in due => told[b][t] = 0
      <4>1. SUFFICES ASSUME t \in due, told[b][t] = 1 PROVE FALSE
        BY <3>1, <3>2
      <4>2. h.of[t] = "ended" /\ Sees(b, t, {"deleted"})
        BY <2>3, <3>2, <4>1
      <4> QED BY <3>3, <4>2 DEF EndSets
    <3>6. t \in kept \cup due => (t \in due \/ told[b][t] = 1) /\ Sees(b, t, {"ended", "deleted"})'
      <4>1. CASE t \in due
        BY <2>3, <3>4, <4>1 DEF EndSets
      <4>2. CASE t \in kept
        BY <2>3, <3>2, <3>3, <4>2 DEF EndSets
      <4> QED BY <4>1, <4>2
    <3>7. (t \in due \/ told[b][t] = 1) /\ t \notin kept \cup due => Sees(b, t, {"deleted"})'
      <4>1. SUFFICES ASSUME told[b][t] = 1, t \notin kept, t \notin due PROVE Sees(b, t, {"deleted"})'
        OBVIOUS
      <4>2. CASE t \notin marks[b]
        BY <3>2, <3>3, <4>1, <4>2 DEF EndSets
      <4>3. CASE t \in marks[b]
        <5>1. h.of[t] \in {"ended", "deleted"} /\ h.of[t] \notin {"queued", "ended", "cancelled"}
          BY <2>3, <3>2, <3>3, <4>1, <4>3 DEF EndSets
        <5> QED BY <3>4, <5>1 DEF EndSets
      <4> QED BY <4>2, <4>3
    <3>8. feed[b].open /\ table[t] = "ended" => CopyComes(b, t)' \/ t \in due \/ told[b][t] = 1
      <4>1. SUFFICES ASSUME feed[b].open, table[t] = "ended", told[b][t] # 1, t \notin due PROVE CopyComes(b, t)'
        OBVIOUS
      <4>2. CopyComes(b, t) /\ t \notin marks[b]
        BY <3>2, <4>1
      <4>3. h.of[t] # "ended"
        BY <2>3, <4>1, <4>2
      <4> QED BY <1>6, <4>1, <4>2, <4>3
    <3> QED BY <1>1, <1>3, <2>4, <3>2, <3>5, <3>6, <3>7, <3>8 DEF PushOnce
  <2>8. \A t \in BotTasks : PushOnce(b, t)'
    BY <1>1, <2>7 DEF PushOnce
  <2> QED BY <1>1, <1>3, <1>5, <1>9, <2>4, <2>5, <2>8, LoopMoves
<1> QED BY <1>8, <1>9

LEMMA AnnounceKeeps == ASSUME BotInv, NEW b \in ListenBots, Announce(b) PROVE BotInv'
<1> DEFINE left == loop[b].left
           new == [t \in BotTasks |-> IF t \in left /\ told[b][t] < 2 THEN told[b][t] + 1 ELSE told[b][t]]
<1>1. /\ loop[b].at = "tell" /\ loop' = [loop EXCEPT ![b] = [at |-> "wait", left |-> {}]]
      /\ told' = [told EXCEPT ![b] = new]
      /\ table' = table /\ changes' = changes /\ command' = command /\ newest' = newest /\ late' = late
      /\ feed' = feed /\ marks' = marks /\ posting' = posting
  BY DEF Announce, Told, botTableVars, botFeedVars
<1>2. /\ BotTyped /\ CopiesInOrder /\ loop \in [ListenBots -> LoopRec] /\ told \in [ListenBots -> [BotTasks -> 0..2]]
  BY DEF BotInv, BotTyped
<1>3. new \in [BotTasks -> 0..2] /\ \A t \in BotTasks : new[t] = IF t \in left /\ told[b][t] < 2 THEN told[b][t] + 1 ELSE told[b][t]
  <2>1. told[b] \in [BotTasks -> 0..2]
    BY <1>2
  <2> QED BY <2>1
<1> HIDE DEF new
<1>4. /\ told' \in [ListenBots -> [BotTasks -> 0..2]] /\ told'[b] = new
      /\ loop' \in [ListenBots -> LoopRec] /\ loop'[b].at = "wait" /\ loop'[b].left = {}
      /\ \A a \in ListenBots : a # b => told'[a] = told[a] /\ loop'[a] = loop[a]
  BY <1>1, <1>2, <1>3 DEF LoopRec
<1>5. BotTyped'
  BY <1>1, <1>2, <1>4 DEF BotTyped
<1>6. CopiesInOrder'
  BY <1>1, <1>2 DEF CopiesInOrder, OnItsWay, OfTable, InOrderOf
<1>7. \A t \in BotTasks : CopyComes(b, t)' = CopyComes(b, t) /\ \A S : Sees(b, t, S)' = Sees(b, t, S)
  BY <1>1 DEF CopyComes, Sees
<1>8. ASSUME b \in ChatBots, NEW t \in BotTasks PROVE ChatOnce(b, t)'
  <2>1. ChatOnce(b, t)
    BY <1>8 DEF BotInv
  <2>2. IF t \in left THEN told'[b][t] = 1 ELSE told'[b][t] = told[b][t]
    <3>1. t \in left => told[b][t] = 0
      BY <2>1 DEF ChatOnce
    <3> QED BY <1>3, <1>4, <3>1
  <2> QED BY <1>1, <1>4, <1>7, <2>1, <2>2 DEF ChatOnce
<1>9. ASSUME b \in PushBots, NEW t \in BotTasks PROVE PushOnce(b, t)'
  <2>1. SUFFICES ASSUME ~late PROVE PushOnce(b, t)'
    BY <1>1 DEF PushOnce
  <2>2. PushOnce(b, t)
    BY <1>9 DEF BotInv
  <2>3. IF t \in left THEN told'[b][t] = 1 ELSE told'[b][t] = told[b][t]
    <3>1. t \in left => told[b][t] = 0
      BY <2>1, <2>2 DEF PushOnce
    <3> QED BY <1>3, <1>4, <3>1
  <2> QED BY <1>1, <1>4, <1>7, <2>1, <2>2, <2>3 DEF PushOnce
<1> QED BY <1>1, <1>4, <1>5, <1>6, <1>8, <1>9, LoopMoves

-----------------------------------------------------------------------------
(* The theorems.                                                           *)

LEMMA BotStep == BotInv /\ [BotNext]_botVars => BotInv'
<1> SUFFICES ASSUME BotInv, [BotNext]_botVars PROVE BotInv'
  OBVIOUS
<1>1. CASE UNCHANGED botVars
  <2>1. /\ table' = table /\ changes' = changes /\ command' = command /\ posting' = posting /\ feed' = feed
        /\ newest' = newest /\ late' = late /\ loop' = loop /\ marks' = marks /\ told' = told
    BY <1>1 DEF botVars, botTableVars, botFeedVars
  <2>2. BotTyped'
    BY <2>1 DEF BotInv, BotTyped
  <2> QED BY <2>1, <2>2, FeedMoves
<1>2. CASE \E p \in Actors : CopyTasks(p) \/ PublishTasks(p) \/ PublishNote(p)
  BY <1>2, CopyTasksKeeps, PublishTasksKeeps, NoteKeeps
<1>3. CASE \E p \in Changers : ChangeStatus(p)
  BY <1>3, ChangeKeeps
<1>4. CASE \E t \in BotTasks : BeginDownload(t) \/ EnqueueTask(t) \/ Track(t) \/ NotifyIfTerminal(t) \/ DrainOwn(t)
  BY <1>4, BeginTaskKeeps, EnqueueKeeps, TrackKeeps, NotifyKeeps, DrainOwnKeeps
<1>5. CASE \E b \in ListenBots : OfferNext(b) \/ TakeTasks(b) \/ Announce(b) \/ GoDeaf(b)
  BY <1>5, OfferKeeps, TakeTasksKeeps, AnnounceKeeps, DeafKeeps
<1> QED BY <1>1, <1>2, <1>3, <1>4, <1>5 DEF BotNext, Actors

\* Copies are in the order of their changes, and who drains a task is the one to announce it.
THEOREM BotInvariant == BotSpec => []BotInv
<1> QED BY BotBegins, BotStep, PTL DEF BotSpec

LEMMA BotInvMeans == BotInv => BotTypeOK /\ EndsAnnouncedOnce
<1> SUFFICES ASSUME BotInv PROVE BotTypeOK /\ EndsAnnouncedOnce
  OBVIOUS
<1>1. BotTyped /\ ChatBots \subseteq ListenBots /\ PushBots \subseteq ListenBots /\ ListenBots = ChatBots \cup PushBots
  BY DEF BotInv, ListenBots
<1>2. BotTypeOK
  BY <1>1 DEF BotTypeOK, BotTyped, Actors, PostRec, FeedRec, LoopRec, CommandRec
<1>3. ASSUME NEW b \in ListenBots, NEW t \in BotTasks PROVE told[b][t] <= 1 \/ (b \in PushBots /\ late)
  <2>1. CASE b \in ChatBots
    BY <2>1 DEF BotInv, ChatOnce
  <2>2. CASE b \in PushBots
    BY <2>2 DEF BotInv, PushOnce
  <2> QED BY <1>1, <2>1, <2>2
<1>4. ASSUME NEW b \in ListenBots, NEW t \in BotTasks, Heard(b), ~late
      PROVE  /\ table[t] = "ended" /\ (b \in ChatBots => command[t] = [at |-> "done", bot |-> b]) => told[b][t] = 1
             /\ b \in ChatBots /\ t \in marks[b] => table[t] \in {"queued", "deleted"}
  <2>1. ~CopyComes(b, t) /\ feed[b].open /\ loop[b].left = {}
    BY <1>4 DEF Heard, CopyComes, Actors, BotInv
  <2>2. table[t] \in Statuses /\ table[t] \in {"none", "queued", "deleted"} \cup EndStatuses
    BY <1>1, BotFields DEF Statuses, EndStatuses
  <2>3. CASE b \in ChatBots
    <3>1. ChatOnce(b, t) /\ Started(t) /\ t \notin loop[b].left
      BY <2>1, <2>3 DEF BotInv
    <3>2. t \in marks[b] => command[t].at = "done" /\ table[t] # "none"
      BY <1>4, <3>1 DEF ChatOnce, Heard, Started
    <3>3. t \in marks[b] => table[t] \notin EndStatuses
      BY <1>4, <2>1, <3>1, <3>2 DEF ChatOnce
    <3>4. t \in marks[b] => table[t] \in {"queued", "deleted"}
      BY <2>2, <3>2, <3>3
    <3>5. table[t] = "ended" /\ command[t] = [at |-> "done", bot |-> b] => told[b][t] = 1
      BY <3>1, <3>4 DEF ChatOnce
    <3> QED BY <2>3, <3>4, <3>5
  <2>4. CASE b \notin ChatBots
    <3>1. PushOnce(b, t)
      BY <1>1, <2>4 DEF BotInv
    <3>2. table[t] = "ended" => told[b][t] = 1
      BY <1>4, <2>1, <3>1 DEF PushOnce
    <3> QED BY <2>4, <3>2
  <2> QED BY <2>3, <2>4
<1> QED BY <1>2, <1>3, <1>4 DEF EndsAnnouncedOnce

\* The types of the variables of BotNotifications.
THEOREM BotTypeCorrect == BotSpec => []BotTypeOK
<1> QED BY BotInvariant, BotInvMeans, PTL

\* The users of a bot are told of a task's end once: never twice, and in the end they were told
\* (the command and the event loop of bot_commands.go and bot_notify.go both look for it).
THEOREM EndsAreAnnouncedOnce == BotSpec => []EndsAnnouncedOnce
<1> QED BY BotInvariant, BotInvMeans, PTL
=============================================================================
