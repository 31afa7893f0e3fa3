------------------------------- MODULE LogHub -------------------------------
(***************************************************************************)
(* The console log (internal/consolelog/hub.go) and the streams that show  *)
(* it (handleLogStream, internal/api/sse_logs.go).                         *)
(*                                                                         *)
(* While the output is captured, what the program prints to stdout and     *)
(* stderr goes through two pipes to a goroutine each, which writes it to   *)
(* the terminal and adds its lines to the hub: a ring of the last lines    *)
(* and a buffered channel for every subscriber.  A line is stored under    *)
(* the hub's lock and sent after it.  A subscriber that is too slow is     *)
(* closed; Close closes them all and stops the capture.  Lines are         *)
(* numbered in the order they are stored; their text is left out.          *)
(***************************************************************************)
EXTENDS Integers, Sequences, FiniteSets, SequencesExt

CONSTANTS
  Outputs,      \* the captured streams
  Viewers,      \* requests for the log stream
  Stoppers,     \* calls of Close and of StopCapture
  ClosingCalls, \* those that are Close
  RingLimit,    \* Hub.limit
  ViewerBuffer, \* subscriberBuffer
  MaxPrinted,   \* bound: lines printed
  PipeSize      \* bound: lines a pipe holds

ASSUME LogHubAssumption ==
  ClosingCalls \subseteq Stoppers /\ RingLimit \in Nat \ {0} /\ ViewerBuffer \in Nat \ {0}

VARIABLES
  ring,       \* Hub.lines, start, count and closed
  viewerSet,  \* Hub.subscribers
  viewer,     \* each subscriber: where its handler is, its channel, whether that is closed, what it got
  adder,      \* each capturePipe: where it is, the line in hand, whom it is still to be sent to
  pipes,      \* lines in each pipe
  capture,    \* captureMu's holder, whether a session is active and whether it reads
  starting,   \* StartCapture: "none", "check", "install" or "done"
  stopper,    \* each Close or StopCapture
  printed, stored  \* history: number of lines printed, lines stored

hubVars  == <<ring, viewerSet, viewer, stored>>
capVars  == <<adder, pipes, capture, starting, printed>>
logVars  == <<hubVars, capVars, stopper>>

Free    == "free"
Reading == [at |-> "read", line |-> 0, todo |-> {}, over |-> {}]
Absent  == [at |-> "none", ch |-> << >>, closed |-> FALSE, got |-> << >>, from |-> 0]

LogInit ==
  /\ ring = [lines |-> [i \in 0..(RingLimit - 1) |-> 0], start |-> 0, count |-> 0, closed |-> FALSE]
  /\ viewerSet = {} /\ viewer = [v \in Viewers |-> Absent]
  /\ adder = [o \in Outputs |-> [Reading EXCEPT !.at = "off"]]
  /\ pipes = [o \in Outputs |-> << >>]
  /\ capture = [lock |-> Free, active |-> FALSE, reading |-> FALSE]
  /\ starting = "none"
  /\ stopper = [s \in Stoppers |-> [at |-> "none", todo |-> {}]]
  /\ printed = 0 /\ stored = << >>

-----------------------------------------------------------------------------
(* The capture.                                                            *)

\* (mistake: the hub is asked before captureMu is locked)
StartCaptureUnlocked ==
  \/ /\ starting = "none"
     /\ starting' = IF ring.closed THEN "done" ELSE "install"
     /\ UNCHANGED <<hubVars, capture, adder, pipes, printed, stopper>>
  \/ /\ starting = "install" /\ capture.lock = Free /\ starting' = "done"
     /\ capture' = [lock |-> Free, active |-> TRUE, reading |-> TRUE]
     /\ adder' = [o \in Outputs |-> Reading]
     /\ UNCHANGED <<hubVars, pipes, printed, stopper>>

\* captureMu, then the hub is asked whether it is closed.
StartCapture ==
  \/ /\ starting = "none" /\ capture.lock = Free
     /\ IF ring.closed THEN starting' = "done" /\ UNCHANGED capture
        ELSE starting' = "install" /\ capture' = [capture EXCEPT !.lock = "starter"]
     /\ UNCHANGED <<hubVars, adder, pipes, printed, stopper>>
  \/ /\ starting = "install" /\ starting' = "done"
     /\ capture' = [lock |-> Free, active |-> TRUE, reading |-> TRUE]
     /\ adder' = [o \in Outputs |-> Reading]
     /\ UNCHANGED <<hubVars, pipes, printed, stopper>>

\* The program prints a line while os.Stdout is the pipe.
PrintLine(o) ==
  /\ capture.reading /\ printed < MaxPrinted /\ Len(pipes[o]) < PipeSize
  /\ printed' = printed + 1 /\ pipes' = [pipes EXCEPT ![o] = Append(@, printed + 1)]
  /\ UNCHANGED <<hubVars, adder, capture, starting, stopper>>

\* capturePipe: the next line, or the end when the pipe is closed, whatever is left in it.
ReadPipe(o) ==
  /\ adder[o].at = "read"
  /\ \/ /\ pipes[o] # << >> /\ capture.reading
        /\ adder' = [adder EXCEPT ![o].at = "add", ![o].line = Head(pipes[o])]
        /\ pipes' = [pipes EXCEPT ![o] = Tail(@)]
     \/ /\ ~capture.reading /\ adder' = [adder EXCEPT ![o].at = "off"] /\ UNCHANGED pipes
  /\ UNCHANGED <<hubVars, capture, starting, printed, stopper>>

-----------------------------------------------------------------------------
(* The hub.                                                                *)

\* Add, under the hub's lock.
AddLine(o) ==
  /\ adder[o].at = "add"
  /\ IF ring.closed
     THEN adder' = [adder EXCEPT ![o] = Reading] /\ UNCHANGED <<ring, stored>>
     ELSE /\ adder' = [adder EXCEPT ![o].at = "send", ![o].todo = viewerSet]
          /\ stored' = Append(stored, adder[o].line)
          /\ ring' = IF ring.count < RingLimit
                     THEN [ring EXCEPT !.lines[(ring.start + ring.count) % RingLimit] = adder[o].line,
                                       !.count = @ + 1]
                     ELSE [ring EXCEPT !.lines[ring.start] = adder[o].line,
                                       !.start = (@ + 1) % RingLimit]
  /\ UNCHANGED <<viewerSet, viewer, pipes, capture, starting, printed, stopper>>

\* (mistake: what a slow subscriber has no room for is dropped)
SendOrDrop(o, v) ==
  /\ adder[o].at = "send" /\ v \in adder[o].todo
  /\ adder' = [adder EXCEPT ![o].todo = @ \ {v}]
  /\ viewer' = IF viewer[v].closed \/ Len(viewer[v].ch) = ViewerBuffer THEN viewer
               ELSE [viewer EXCEPT ![v].ch = Append(@, adder[o].line)]
  /\ UNCHANGED <<ring, viewerSet, stored, pipes, capture, starting, printed, stopper>>

\* logSubscriber.send, to the subscribers in any order.
SendLine(o, v) ==
  /\ adder[o].at = "send" /\ v \in adder[o].todo
  /\ LET full == ~viewer[v].closed /\ Len(viewer[v].ch) = ViewerBuffer IN
     /\ adder' = [adder EXCEPT ![o].todo = @ \ {v}, ![o].over = IF full THEN @ \cup {v} ELSE @]
     /\ viewer' = IF viewer[v].closed THEN viewer
                  ELSE IF full THEN [viewer EXCEPT ![v].closed = TRUE]
                  ELSE [viewer EXCEPT ![v].ch = Append(@, adder[o].line)]
  /\ UNCHANGED <<ring, viewerSet, stored, pipes, capture, starting, printed, stopper>>

\* removeSubscribers, and back to the pipe.
EndAdd(o) ==
  /\ adder[o].at = "send" /\ adder[o].todo = {}
  /\ viewerSet' = viewerSet \ adder[o].over
  /\ adder' = [adder EXCEPT ![o] = Reading]
  /\ UNCHANGED <<ring, viewer, stored, pipes, capture, starting, printed, stopper>>

-----------------------------------------------------------------------------
(* handleLogStream.                                                        *)

\* Subscribe: a closed hub gives a closed channel.
Subscribe(v) ==
  /\ viewer[v].at = "none"
  /\ viewer' = [viewer EXCEPT ![v].at = "open", ![v].closed = ring.closed, ![v].from = Len(stored)]
  /\ viewerSet' = IF ring.closed THEN viewerSet ELSE viewerSet \cup {v}
  /\ UNCHANGED <<ring, stored, capVars, stopper>>

\* A line is written; a closed channel that is empty, or a client that has gone, ends the stream.
ReceiveLine(v) ==
  /\ viewer[v].at = "open"
  /\ \/ /\ viewer[v].ch # << >>
        /\ viewer' = [viewer EXCEPT ![v].ch = Tail(@), ![v].got = Append(@, Head(viewer[v].ch))]
     \/ /\ viewer[v].ch = << >> /\ viewer[v].closed
        /\ viewer' = [viewer EXCEPT ![v].at = "leaving"]
  /\ UNCHANGED <<ring, viewerSet, stored, capVars, stopper>>

ViewerGone(v) ==
  /\ viewer[v].at = "open" /\ viewer' = [viewer EXCEPT ![v].at = "leaving"]
  /\ UNCHANGED <<ring, viewerSet, stored, capVars, stopper>>

\* The unsubscribe function: out of the map, and the channel is closed by who takes it out.
Unsubscribe(v) ==
  /\ \/ /\ viewer[v].at = "leaving"
        /\ viewer' = [viewer EXCEPT ![v].at = IF v \in viewerSet THEN "closing" ELSE "gone"]
        /\ viewerSet' = viewerSet \ {v}
     \/ /\ viewer[v].at = "closing" /\ viewer' = [viewer EXCEPT ![v].at = "gone", ![v].closed = TRUE]
        /\ UNCHANGED viewerSet
  /\ UNCHANGED <<ring, stored, capVars, stopper>>

-----------------------------------------------------------------------------
(* Close and StopCapture.                                                  *)

\* (mistake: the subscribers that Close forgets are not closed)
CloseHubQuietly(s) ==
  /\ s \in ClosingCalls /\ stopper[s].at = "none"
  /\ ring' = [ring EXCEPT !.closed = TRUE] /\ viewerSet' = {}
  /\ stopper' = [stopper EXCEPT ![s] = [at |-> "close", todo |-> {}]]
  /\ UNCHANGED <<viewer, stored, capVars>>

\* The subscribers of the first Close are closed one by one.
CloseHub(s) ==
  /\ s \in ClosingCalls /\ stopper[s].at = "none"
  /\ ring' = [ring EXCEPT !.closed = TRUE] /\ viewerSet' = {}
  /\ stopper' = [stopper EXCEPT ![s] = [at |-> "close", todo |-> viewerSet]]
  /\ UNCHANGED <<viewer, stored, capVars>>

CloseViewer(s) ==
  /\ \E v \in stopper[s].todo :
       /\ viewer' = [viewer EXCEPT ![v].closed = TRUE]
       /\ stopper' = [stopper EXCEPT ![s].todo = @ \ {v}]
  /\ UNCHANGED <<ring, viewerSet, stored, capVars>>

\* stopCaptureLocked, under captureMu: the output is the terminal's again and the pipes are
\* closed, with what they hold ...
StopCapture(s) ==
  /\ stopper[s] = [at |-> IF s \in ClosingCalls THEN "close" ELSE "none", todo |-> {}]
  /\ capture.lock = Free
  /\ IF capture.active
     THEN capture' = [capture EXCEPT !.lock = "stopper", !.reading = FALSE] /\ stopper' = [stopper EXCEPT ![s].at = "wait"]
     ELSE stopper' = [stopper EXCEPT ![s].at = "done"] /\ UNCHANGED capture
  /\ UNCHANGED <<hubVars, adder, pipes, starting, printed>>

\* ... and their goroutines are waited for.
CaptureStopped(s) ==
  /\ stopper[s].at = "wait" /\ \A o \in Outputs : adder[o].at = "off"
  /\ stopper' = [stopper EXCEPT ![s].at = "done"]
  /\ capture' = [lock |-> Free, active |-> FALSE, reading |-> FALSE]
  /\ pipes' = [o \in Outputs |-> << >>]
  /\ UNCHANGED <<hubVars, adder, starting, printed>>

LogOutput(o) == ReadPipe(o) \/ AddLine(o) \/ (\E v \in Viewers : SendLine(o, v)) \/ EndAdd(o)
LogViewer(v) == ReceiveLine(v) \/ Unsubscribe(v)
LogStopper(s) == CloseHub(s) \/ CloseViewer(s) \/ StopCapture(s) \/ CaptureStopped(s)

LogNext ==
  \/ StartCapture
  \/ \E o \in Outputs : PrintLine(o) \/ LogOutput(o)
  \/ \E v \in Viewers : Subscribe(v) \/ ViewerGone(v) \/ LogViewer(v)
  \/ \E s \in Stoppers : LogStopper(s)

LogSpec == LogInit /\ [][LogNext]_logVars

-----------------------------------------------------------------------------
(* What the log promises.                                                  *)

(* Every variable has its type.                                                                  *)
LogTypeOK ==
  /\ ring.start \in 0..(RingLimit - 1) /\ ring.count \in 0..RingLimit
  /\ viewerSet \subseteq Viewers
  /\ \A v \in Viewers : viewer[v].at \in {"none", "open", "leaving", "closing", "gone"}
  /\ \A v \in Viewers : Len(viewer[v].ch) <= ViewerBuffer
  /\ \A o \in Outputs : adder[o].at \in {"off", "read", "add", "send"}
  /\ capture.lock \in {Free, "starter", "stopper"}

Snapshot == [i \in 1..ring.count |-> ring.lines[(ring.start + i - 1) % RingLimit]]

\* Lines on their way to a subscriber.
OnTheWay(v) == {adder[o].line : o \in {p \in Outputs : v \in adder[p].todo}}

(* The snapshot is the last lines stored.  A stream that is open has, with what is buffered for  *)
(* it and what is being sent, every line stored since it began, each once, though lines are sent *)
(* outside the lock by two goroutines and subscribers come and go meanwhile; one that could not  *)
(* keep up is closed, never given a log with a hole.                                             *)
StreamsHaveNoHoles ==
  /\ Snapshot = SubSeq(stored, Len(stored) - ring.count + 1, Len(stored))
  /\ ring.count = IF Len(stored) < RingLimit THEN Len(stored) ELSE RingLimit
  /\ \A v \in Viewers :
       LET have == viewer[v].got \o viewer[v].ch
           due  == ToSet(SubSeq(stored, viewer[v].from + 1, Len(stored))) IN
       /\ IsInjective(have)
       /\ viewer[v].at # "none" => ToSet(have) \cup OnTheWay(v) \subseteq due /\ ToSet(have) \cap OnTheWay(v) = {}
       /\ viewer[v].at = "open" /\ ~viewer[v].closed => due = ToSet(have) \cup OnTheWay(v)

(* However Close, StopCapture and StartCapture meet: once Close has returned the hub captures    *)
(* nothing, and nobody's stream is left open that only Close would have ended.                   *)
ClosedHubIsQuiet ==
  \A s \in ClosingCalls : stopper[s].at = "done" =>
    /\ ~capture.active
    /\ \A v \in Viewers :
         viewer[v].at = "open" => viewer[v].closed \/ \E t \in ClosingCalls : v \in stopper[t].todo
=============================================================================
