------------------------------- MODULE Connection -------------------------------
(***************************************************************************)
(* One connection of a daemon and the client at its other end              *)
(* (oc-server: conn.rs, codec.rs; oc-tui client.rs; oc-cli cli_client.rs). *)
(*                                                                         *)
(* The daemon's side is three tasks: the read loop handles one request     *)
(* after the other, the forwarder passes on what is broadcast, the writer  *)
(* puts on the wire what both, and a run started here, leave in the        *)
(* bounded outbound queue.  The client asks, waits for the answer, sleeps, *)
(* asks again under the same id (oc debug --watch), and may be killed.     *)
(* Each operator maps the state before a step to the set of states after   *)
(* it, the empty set where the step must wait.                             *)
(***************************************************************************)
EXTENDS Integers, FiniteSets, SequencesExt

CONSTANTS
  None,       \* absence of a value
  OutCap,     \* OUTBOUND_CAP
  BusCap,     \* EVENT_CHANNEL_CAP
  WireCap     \* frames the socket holds

Fresh ==
  [asked |-> 0,            \* requests the client sent
   waiting |-> FALSE,      \* it waits for an answer
   gone |-> FALSE,         \* it was killed, or gave up
   up |-> <<>>,            \* requests on the wire
   answer |-> None,        \* the read loop's answer, until there is room for it
   open |-> TRUE,          \* the handler runs
   forwards |-> TRUE,      \* the event task runs
   writes |-> TRUE,        \* the write task runs; it owns the queue's receiver
   bus |-> <<>>,           \* events broadcast and not received here yet
   held |-> None,          \* the event the forwarder has in hand
   queue |-> <<>>,         \* the outbound queue
   down |-> <<>>,          \* frames on the wire
   run |-> None,           \* a run started here that waits in silence: "silent", or "over"
   got |-> <<>>,           \* for what is promised: the answers taken by the client,
   heard |-> <<>>,         \*   the events that passed it,
   said |-> 0,             \*   the events broadcast so far,
   missed |-> {}]          \*   and those that fell out of the ring

Answer(n) == [kind |-> "answer", n |-> n]
News(n) == [kind |-> "event", n |-> n]

-------------------------------------------------------------------------------
(* The client.                                                               *)

(* call: the request goes out, and the client waits. *)
Ask(s) == IF s.gone \/ s.waiting THEN {}
          ELSE {[s EXCEPT !.asked = @ + 1, !.waiting = TRUE, !.up = Append(@, s.asked + 1)]}

(* recv, connect and call: events are skipped, the answer ends the wait; the end of the
   stream is an error. *)
Receive(s) ==
  IF s.gone \/ ~s.waiting THEN {}
  ELSE IF s.down # <<>>
       THEN LET f == Head(s.down)
            IN  {IF f.kind = "answer"
                 THEN [s EXCEPT !.down = Tail(@), !.waiting = FALSE, !.got = Append(@, f.n)]
                 ELSE [s EXCEPT !.down = Tail(@), !.heard = Append(@, f.n)]}
       ELSE IF s.writes THEN {} ELSE {[s EXCEPT !.gone = TRUE, !.waiting = FALSE]}

(* Ctrl-C. *)
Kill(s) == IF s.gone THEN {} ELSE {[s EXCEPT !.gone = TRUE, !.waiting = FALSE, !.down = <<>>]}

-------------------------------------------------------------------------------
(* The daemon's side.                                                        *)

(* A sender's await: it goes on when there is room.  A slip: it does not wait. *)
DropIfFull(s, frame) == IF Len(s.queue) < OutCap THEN {[s EXCEPT !.queue = Append(@, frame)]} ELSE {s}
Push(s, frame) == IF Len(s.queue) < OutCap THEN {[s EXCEPT !.queue = Append(@, frame)]} ELSE {}

(* The handler's end: neither the forwarder nor the writer outlives it.  A slip: it waits for
   the writer, which waits for all who may still send. *)
EndWhenDrained(s) ==
  IF s.run = "silent" \/ s.queue # <<>> THEN {}
  ELSE {[s EXCEPT !.open = FALSE, !.forwards = FALSE, !.held = None, !.writes = FALSE]}
End(s) == {[s EXCEPT !.open = FALSE, !.answer = None, !.forwards = FALSE, !.held = None,
                     !.writes = FALSE, !.queue = <<>>]}

(* read_loop: the next request is handled; the one that begins a run hands it the queue. *)
Handle(s) ==
  IF ~s.open \/ s.answer # None THEN {}
  ELSE IF s.up # <<>>
       THEN {[s EXCEPT !.up = Tail(@), !.answer = Answer(Head(s.up)), !.run = r] :
               r \in IF s.run = None THEN {None, "silent"} ELSE {s.run}}
       ELSE IF s.gone THEN End(s) ELSE {}

(* Its answer goes into the queue, or nobody reads the queue any more. *)
Reply(s) ==
  IF ~s.open \/ s.answer = None THEN {}
  ELSE IF ~s.writes THEN End(s)
  ELSE {[t EXCEPT !.answer = None] : t \in Push(s, s.answer)}

(* An event is broadcast: a receiver that is too slow loses the oldest. *)
Broadcast(s) ==
  LET all == IF s.forwards THEN Append(s.bus, s.said + 1) ELSE <<>>
  IN  {[s EXCEPT !.said = @ + 1,
                 !.bus = IF Len(all) > BusCap THEN Tail(all) ELSE all,
                 !.missed = IF Len(all) > BusCap THEN @ \cup {Head(all)} ELSE @]}

(* The event task: a gap is no reason to stop.  Slips: it stops; it goes back to the first. *)
StopsAtGap(s) == {[s EXCEPT !.forwards = s.missed = {}, !.held = Head(s.bus), !.bus = Tail(@)]}
TakeNext(s) == {[s EXCEPT !.held = Head(s.bus), !.bus = Tail(@)]}
Forward(s) ==
  IF ~s.forwards THEN {}
  ELSE IF s.held # None
       THEN IF ~s.writes THEN {[s EXCEPT !.forwards = FALSE, !.held = None]}
            ELSE {[t EXCEPT !.held = None] : t \in Push(s, News(s.held))}
       ELSE IF s.bus = <<>> THEN {} ELSE TakeNext(s)

(* The write task: a frame goes out when the wire has room; the client's end is an error. *)
Write(s) ==
  IF ~s.writes \/ s.queue = <<>> THEN {}
  ELSE IF s.gone THEN {[s EXCEPT !.writes = FALSE, !.queue = <<>>]}
  ELSE IF Len(s.down) < WireCap
       THEN {[s EXCEPT !.down = Append(@, Head(s.queue)), !.queue = Tail(@)]} ELSE {}

(* sink.closed: the run, waiting for an answer or for its model, learns that nobody
   listens. *)
RunSeesClosed(s) == IF s.run = "silent" /\ ~s.writes THEN {[s EXCEPT !.run = "over"]} ELSE {}

(* What goes on without anybody's asking. *)
OwnSteps(s) == Receive(s) \cup Handle(s) \cup Reply(s) \cup Forward(s) \cup Write(s) \cup RunSeesClosed(s)

-------------------------------------------------------------------------------
(* cli_client.rs:48 "按 req id 匹配，忽略事件帧": the client takes for its answer the answer of the
   request it asked last, whatever else comes in between. *)
AnswersFit(s) ==
  /\ s.got = [n \in DOMAIN s.got |-> n]
  /\ ~s.gone => s.asked = Len(s.got) + (IF s.waiting THEN 1 ELSE 0)

(* conn.rs:47-50: what is broadcast while the connection lives reaches the client in order,
   once, and whole but for what fell out of the ring. *)
NewsInOrder(s) ==
  LET numbers(frames) == [i \in 1..Len(SelectSeq(frames, LAMBDA f : f.kind = "event"))
                            |-> SelectSeq(frames, LAMBDA f : f.kind = "event")[i].n]
      all == s.heard \o numbers(s.down) \o numbers(s.queue)
               \o (IF s.held = None THEN <<>> ELSE <<s.held>>) \o s.bus
  IN  /\ \A i \in 1..(Len(all) - 1) : all[i] < all[i + 1]
      /\ s.open /\ s.writes /\ ~s.gone => ToSet(all) = (1..s.said) \ s.missed

(* conn.rs:66-73: whatever the queue and the wire are filled with, the connection never comes to
   rest with a client that waits for an answer; and once its client has gone, it comes to
   rest with all its tasks over and with no run that still waits for that client. *)
NobodyIsStuck(s) ==
  OwnSteps(s) = {} => /\ ~s.waiting
                      /\ s.gone => ~s.open /\ ~s.forwards /\ ~s.writes /\ s.run # "silent"
===============================================================================
