-------------------------------- MODULE Gateway --------------------------------
(***************************************************************************)
(* The HTTP gateway's connections to the daemon (oc-http/src/conn_pool.rs, *)
(* proto.rs and the handlers of native/ and server.rs), with the daemon's  *)
(* side of a connection (oc-server/src/conn.rs) and the runs that stream   *)
(* into it.                                                                *)
(*                                                                         *)
(* A handler takes a connection from the pool, shakes hands, sends one     *)
(* request and waits for one Res; answers carry no name the gateway looks  *)
(* at, so a connection must be at rest when the next handler gets it.  A   *)
(* handler whose client disconnects is dropped where it stands, and its    *)
(* connection with it.  The connection task answers a chat.send while the  *)
(* run already pushes events, so an event may overtake the Res.            *)
(*                                                                         *)
(* Dropping a connection stops its writer; its reader, and with it the     *)
(* socket, lives until the next frame arrives.                             *)
(***************************************************************************)
EXTENDS Naturals, FiniteSets, SequencesExt

CONSTANTS
  Requests,     \* HTTP requests, each made once
  Kinds,        \* kinds of requests tried
  MaxConns,     \* max_conns
  MaxIdle,      \* max_idle (4 in the code), clamped to MaxConns
  MaxSockets,   \* bound: connections opened
  MaxEvents,    \* bound: events of a run
  MaxRestarts,  \* bound: restarts of the daemon
  None          \* no request

AllKinds == {"call", "create", "send", "resume"}
Sockets == 1..MaxSockets

ASSUME GatewayAssumption ==
  /\ Kinds \subseteq AllKinds
  /\ MaxConns \in Nat \ {0} /\ MaxIdle \in Nat /\ MaxIdle <= MaxConns
  /\ MaxSockets \in Nat /\ MaxEvents \in Nat \ {0} /\ MaxRestarts \in Nat
  /\ None \notin Requests

VARIABLES
  kind,      \* what a request is: see AllKinds
  pc,        \* its handler: "new", "waiting", "hello", "sent", "streaming", "over"
  outcome,   \* how it ended: "none", "ok", "busy", "failed", "left"
  held,      \* events a resume has read before its Res
  streamed,  \* events of its run the HTTP client received, by position
  user,      \* of a connection in use: the request, else None
  idle,      \* ConnPool.inner
  permits,   \* available permits
  writer,    \* the writer task of a connection is there: tx is not closed
  up,        \* frames on their way to the daemon
  down,      \* frames on their way to the handler: outbound queue, socket, rx
  socket,    \* "unused", "open", "shut" by the daemon, "closed" by the gateway too
  answer,    \* what the connection task has still to push: a Res or nothing
  run,       \* the run of a request: "none", "running", "asking", "over"
  sink,      \* the connection it streams into, 0 for none
  events,    \* events it has pushed
  restarts   \* restarts of the daemon left

poolVars   == <<user, idle, permits>>
wireVars   == <<writer, up, down, socket, answer>>
runVars    == <<run, sink, events>>
requestVars == <<pc, outcome, held, streamed>>
vars == <<kind, requestVars, poolVars, wireVars, runVars, restarts>>

Frame(type, r, n) == [type |-> type, of |-> r, n |-> n]
Hello(r) == Frame("hello", r, 0)
Ask(r) == Frame("request", r, 0)
Responses == {"hello", "res", "err"}
Ends == {"end", "error"}

Init ==
  /\ kind \in [Requests -> Kinds]
  /\ pc = [r \in Requests |-> "new"] /\ outcome = [r \in Requests |-> "none"]
  /\ held = [r \in Requests |-> <<>>] /\ streamed = [r \in Requests |-> <<>>]
  /\ user = [s \in Sockets |-> None] /\ idle = <<>> /\ permits = MaxConns
  /\ writer = [s \in Sockets |-> FALSE]
  /\ up = [s \in Sockets |-> <<>>] /\ down = [s \in Sockets |-> <<>>]
  /\ socket = [s \in Sockets |-> "unused"]
  /\ answer = [s \in Sockets |-> <<>>]
  /\ run = [r \in Requests |-> "none"] /\ sink = [r \in Requests |-> 0]
  /\ events = [r \in Requests |-> 0]
  /\ restarts = MaxRestarts

-------------------------------------------------------------------------------
(* The pool.                                                                *)

InUse == {s \in Sockets : user[s] # None}
Mine(r) == {s \in Sockets : user[s] = r}

(* is_healthy: asks the writer only. *)
Healthy(s) == writer[s]

Goto(r, where) == pc' = [pc EXCEPT ![r] = where]
Ended(r, how) == Goto(r, "over") /\ outcome' = [outcome EXCEPT ![r] = how]
StillOpen(r) == UNCHANGED outcome

(* A slip: the permit is not tied to the connection and is forgotten. *)
DropForgets(s) ==
  /\ user' = [user EXCEPT ![s] = None]
  /\ writer' = [writer EXCEPT ![s] = FALSE]
  /\ UNCHANGED permits

(* Dropping an NdjsonConn returns its permit and ends its writer. *)
Drop(s) ==
  /\ user' = [user EXCEPT ![s] = None]
  /\ permits' = permits + 1
  /\ writer' = [writer EXCEPT ![s] = FALSE]

(* ConnPool::release. *)
Release(s) ==
  IF Healthy(s) /\ Len(idle) < MaxIdle
  THEN /\ idle' = Append(idle, s)
       /\ user' = [user EXCEPT ![s] = None]
       /\ UNCHANGED <<permits, writer>>
  ELSE Drop(s) /\ UNCHANGED idle

(* handshake: every handler begins with it, also on a reused connection. *)
ShakeHands(r, s) ==
  /\ user' = [user EXCEPT ![s] = r]
  /\ up' = [up EXCEPT ![s] = Append(@, Hello(r))]
  /\ Goto(r, "hello")

(* acquire: the most recent idle connection, if it looks alive. *)
Reuse(r) ==
  /\ pc[r] = "new" /\ idle # <<>>
  /\ idle' = Front(idle)
  /\ IF Healthy(Last(idle))
     THEN ShakeHands(r, Last(idle)) /\ UNCHANGED <<permits, writer>>
     ELSE Drop(Last(idle)) /\ UNCHANGED <<pc, up>>
  /\ UNCHANGED <<kind, outcome, held, streamed, down, socket, answer, runVars, restarts>>

(* No idle connection: from here on the request waits for a permit, and for
   nothing else. *)
NoIdle(r) ==
  /\ pc[r] = "new" /\ idle = <<>>
  /\ Goto(r, "waiting")
  /\ UNCHANGED <<kind, outcome, held, streamed, poolVars, wireVars, runVars, restarts>>

Connect(r) ==
  /\ pc[r] = "waiting" /\ permits > 0
  /\ \E s \in Sockets :
       /\ socket[s] = "unused" /\ \A t \in 1..(s - 1) : socket[t] # "unused"
       /\ socket' = [socket EXCEPT ![s] = "open"]
       /\ writer' = [writer EXCEPT ![s] = TRUE]
       /\ permits' = permits - 1
       /\ ShakeHands(r, s)
  /\ UNCHANGED <<kind, outcome, held, streamed, idle, down, answer, runVars, restarts>>

(* The daemon is not there: the permit is dropped with the error. *)
ConnectFails(r) ==
  /\ pc[r] = "waiting" /\ permits > 0 /\ restarts < MaxRestarts
  /\ Ended(r, "failed")
  /\ UNCHANGED <<kind, held, streamed, poolVars, wireVars, runVars, restarts>>

(* ACQUIRE_TIMEOUT. *)
AcquireTimeout(r) ==
  /\ pc[r] = "waiting" /\ permits = 0
  /\ Ended(r, "busy")
  /\ UNCHANGED <<kind, held, streamed, poolVars, wireVars, runVars, restarts>>

-------------------------------------------------------------------------------
(* A handler.                                                               *)

(* A slip: the handler of a client that left gives its connection back. *)
GiveUpReleases(s) == Release(s)

GiveUp(s) == Drop(s) /\ UNCHANGED idle

(* The HTTP client disconnects: axum drops the handler or its stream. *)
ClientLeaves(r) ==
  /\ pc[r] \in {"waiting", "hello", "sent", "streaming"}
  /\ Ended(r, "left")
  /\ IF Mine(r) = {} THEN UNCHANGED <<poolVars, writer>>
                     ELSE \E s \in Mine(r) : GiveUp(s)
  /\ UNCHANGED <<kind, held, streamed, up, down, socket, answer, runVars, restarts>>

Head1(s) == Head(down[s])
Read(s) == down' = [down EXCEPT ![s] = Tail(@)]
Hangup(r, s) == /\ Ended(r, "failed") /\ Drop(s)
                /\ UNCHANGED <<idle, up, held, streamed>>

(* A slip: resume waits for its Res as every other handler does. *)
HoldNothing(r, f) == UNCHANGED held

(* await_res drops the events it meets; resume keeps them. *)
Hold(r, f) ==
  held' = IF kind[r] = "resume" /\ f.type \in {"text"} \cup Ends
          THEN [held EXCEPT ![r] = Append(@, f)] ELSE held

(* What a stream shows of an event: sse_for_event, accumulate_response. *)
ItsOwn(r, fs) == {i \in DOMAIN fs : fs[i].of = r}
Nth(D, k) == CHOOSE i \in D : Cardinality({j \in D : j < i}) = k - 1
Shown(r, fs) == [k \in 1..Cardinality(ItsOwn(r, fs)) |-> fs[Nth(ItsOwn(r, fs), k)].n]

(* A slip: an Error does not end a stream. *)
EndOnly(f, r) == f.of = r /\ f.type = "end"

Terminal(f, r) == f.of = r /\ f.type \in Ends

(* The answer to the handshake, then the request itself. *)
HearsHello(r, s) ==
  /\ pc[r] = "hello" /\ Head1(s).type \in Responses
  /\ up' = [up EXCEPT ![s] = Append(@, Ask(r))]
  /\ Goto(r, "sent")
  /\ StillOpen(r)
  /\ UNCHANGED <<held, streamed, poolVars, writer>>

(* A call ends with its answer and releases the connection. *)
CallEnds(r, s) ==
  /\ kind[r] = "call"
  /\ Ended(r, "ok") /\ Release(s)
  /\ UNCHANGED <<streamed, held>>

Streams(r) == Goto(r, "streaming") /\ StillOpen(r) /\ UNCHANGED <<poolVars, writer>>

TurnBegins(r, s) ==
  /\ kind[r] \in {"create", "send"}
  /\ Streams(r)
  /\ UNCHANGED <<streamed, held>>

(* A resume first shows what it held, up to the end of the run. *)
ResumeBegins(r, s) ==
  /\ kind[r] = "resume"
  /\ streamed' = [streamed EXCEPT ![r] = Shown(r, held[r])]
  /\ held' = [held EXCEPT ![r] = <<>>]
  /\ IF \E i \in DOMAIN held[r] : Terminal(held[r][i], r)
     THEN Ended(r, "ok") /\ Drop(s) /\ UNCHANGED idle
     ELSE Streams(r)

HearsRes(r, s) ==
  /\ pc[r] = "sent" /\ Head1(s).type \in {"hello", "res"}
  /\ CallEnds(r, s) \/ TurnBegins(r, s) \/ ResumeBegins(r, s)
  /\ UNCHANGED up

HearsError(r, s) ==
  /\ pc[r] = "sent" /\ Head1(s).type = "err"
  /\ Hangup(r, s)

HearsEarlyEvent(r, s) ==
  /\ pc[r] \in {"hello", "sent"} /\ Head1(s).type \notin Responses
  /\ IF pc[r] = "sent" THEN Hold(r, Head1(s)) ELSE UNCHANGED held
  /\ UNCHANGED <<pc, outcome, streamed, poolVars, writer, up>>

(* A non-streaming response goes back to the pool at its terminal event: the
   run is over.  A stream's connection is dropped, whatever ended it. *)
HearsEvent(r, s) ==
  /\ pc[r] = "streaming"
  /\ streamed' = [streamed EXCEPT ![r] = @ \o Shown(r, <<Head1(s)>>)]
  /\ IF Terminal(Head1(s), r)
     THEN /\ Ended(r, "ok")
          /\ IF kind[r] = "create" THEN Release(s) ELSE Drop(s) /\ UNCHANGED idle
     ELSE UNCHANGED <<pc, outcome, poolVars, writer>>
  /\ UNCHANGED <<held, up>>

Hears(r) ==
  \E s \in Mine(r) :
    /\ down[s] # <<>>
    /\ Read(s)
    /\ \/ HearsHello(r, s) \/ HearsRes(r, s) \/ HearsError(r, s)
       \/ HearsEarlyEvent(r, s) \/ HearsEvent(r, s)
    /\ UNCHANGED <<kind, socket, answer, runVars, restarts>>

(* rx is closed: the reader has seen the end of the stream. *)
HearsClosed(r) ==
  \E s \in Mine(r) :
    /\ down[s] = <<>> /\ socket[s] = "shut"
    /\ Hangup(r, s)
    /\ UNCHANGED <<kind, down, socket, answer, runVars, restarts>>

-------------------------------------------------------------------------------
(* A connection's own tasks.                                                *)

(* The reader of a dropped connection learns of it from the next frame, or
   from the daemon. *)
ReaderEnds(s) ==
  /\ socket[s] \in {"open", "shut"} /\ user[s] = None /\ ~Contains(idle, s)
  /\ down[s] # <<>> \/ socket[s] = "shut"
  /\ socket' = [socket EXCEPT ![s] = "closed"]
  /\ down' = [down EXCEPT ![s] = <<>>] /\ up' = [up EXCEPT ![s] = <<>>]
  /\ UNCHANGED <<kind, requestVars, poolVars, writer, answer, runVars, restarts>>

(* The writer notices a daemon that is gone only when it writes. *)
WriterEnds(s) ==
  /\ writer[s] /\ socket[s] = "shut" /\ up[s] # <<>>
  /\ writer' = [writer EXCEPT ![s] = FALSE]
  /\ up' = [up EXCEPT ![s] = <<>>]
  /\ UNCHANGED <<kind, requestVars, poolVars, down, socket, answer, runVars, restarts>>

(* The daemon's read loop: one request at a time, its answer pushed before the
   next is read. *)
Handles(s, ans) ==
  /\ up' = [up EXCEPT ![s] = Tail(@)]
  /\ answer' = [answer EXCEPT ![s] = <<ans>>]

Serve(s) ==
  /\ socket[s] = "open" /\ up[s] # <<>> /\ answer[s] = <<>>
  /\ LET f == Head(up[s]) IN
     \/ /\ f.type = "hello"
        /\ Handles(s, Frame("hello", f.of, 0))
        /\ UNCHANGED runVars
     \/ /\ f.type = "request" /\ kind[f.of] = "call"
        /\ Handles(s, Frame("res", f.of, 0))
        /\ UNCHANGED runVars
     \/ /\ f.type = "request" /\ kind[f.of] # "call"    \* accepted, or attached to
        /\ Handles(s, Frame("res", f.of, 0))
        /\ run' = [run EXCEPT ![f.of] = "running"]
        /\ sink' = [sink EXCEPT ![f.of] = s]
        /\ UNCHANGED events
     \/ /\ f.type = "request"     \* queue full, unknown session, no run to attach to
        /\ Handles(s, Frame("err", f.of, 0))
        /\ UNCHANGED runVars
  /\ UNCHANGED <<kind, requestVars, poolVars, writer, down, socket, restarts>>

PushAnswer(s) ==
  /\ socket[s] = "open" /\ answer[s] # <<>>
  /\ down' = [down EXCEPT ![s] = @ \o answer[s]]
  /\ answer' = [answer EXCEPT ![s] = <<>>]
  /\ UNCHANGED <<kind, requestVars, poolVars, writer, up, socket, runVars, restarts>>

(* The gateway has closed the socket: the read loop ends, the writer task is
   aborted, and the run's sink is closed. *)
HandlerEnds(s) ==
  /\ socket[s] = "closed" /\ \E r \in Requests : sink[r] = s
  /\ sink' = [r \in Requests |-> IF sink[r] = s THEN 0 ELSE sink[r]]
  /\ answer' = [answer EXCEPT ![s] = <<>>]
  /\ UNCHANGED <<kind, requestVars, poolVars, writer, up, down, socket, run, events, restarts>>

-------------------------------------------------------------------------------
(* Runs.  Every run of the gateway is Detached: it goes on without its sink. *)

Push(r, type) ==
  /\ events' = [events EXCEPT ![r] = @ + 1]
  /\ down' = IF sink[r] # 0 /\ socket[sink[r]] = "open"
             THEN [down EXCEPT ![sink[r]] = Append(@, Frame(type, r, events[r] + 1))]
             ELSE down
  /\ UNCHANGED <<kind, requestVars, poolVars, writer, up, socket, answer, sink, restarts>>

RunSays(r) ==
  /\ run[r] = "running" /\ events[r] < MaxEvents - 1
  /\ \/ Push(r, "text") /\ UNCHANGED run
     \/ Push(r, "text") /\ run' = [run EXCEPT ![r] = "asking"]

RunEnds(r) ==
  /\ run[r] = "running"
  /\ \E e \in Ends : Push(r, e)
  /\ run' = [run EXCEPT ![r] = "over"]

(* ask_user is answered, or sees that its connection is closed. *)
AskAnswered(r) ==
  /\ run[r] = "asking"
  /\ run' = [run EXCEPT ![r] = "running"]
  /\ UNCHANGED <<kind, requestVars, poolVars, wireVars, sink, events, restarts>>

AskSeesClosed(r) ==
  /\ run[r] = "asking" /\ sink[r] = 0
  /\ run' = [run EXCEPT ![r] = "running"]
  /\ UNCHANGED <<kind, requestVars, poolVars, wireVars, sink, events, restarts>>

(* The daemon goes down with its connections and runs, and is up again. *)
Restart ==
  /\ restarts > 0
  /\ restarts' = restarts - 1
  /\ socket' = [s \in Sockets |-> IF socket[s] = "open" THEN "shut" ELSE socket[s]]
  /\ answer' = [s \in Sockets |-> <<>>]
  /\ run' = [r \in Requests |-> IF run[r] = "none" THEN "none" ELSE "over"]
  /\ sink' = [r \in Requests |-> 0]
  /\ UNCHANGED <<kind, requestVars, poolVars, writer, up, down, events>>

Handler(r) == Reuse(r) \/ NoIdle(r) \/ Connect(r) \/ ConnectFails(r) \/ Hears(r) \/ HearsClosed(r)
Tasks(s) == ReaderEnds(s) \/ WriterEnds(s) \/ PushAnswer(s) \/ HandlerEnds(s)

Next == \/ \E r \in Requests : \/ Handler(r) \/ AcquireTimeout(r) \/ ClientLeaves(r)
                               \/ RunSays(r) \/ RunEnds(r) \/ AskAnswered(r) \/ AskSeesClosed(r)
        \/ \E s \in Sockets : Tasks(s) \/ Serve(s)
        \/ Restart

Spec == Init /\ [][Next]_vars

(* Tasks of both processes are polled and timers fire.  Nothing is owed by
   HTTP clients, by the people a run asks, or by runs. *)
Fairness ==
  /\ \A r \in Requests : /\ WF_vars(Handler(r)) /\ WF_vars(AcquireTimeout(r))
                         /\ WF_vars(AskSeesClosed(r))
  /\ \A s \in Sockets : WF_vars(Tasks(s)) /\ WF_vars(Serve(s))

FairSpec == Spec /\ Fairness

-------------------------------------------------------------------------------
(* Properties.                                                              *)

Frames == [type : {"hello", "request", "res", "err", "text"} \cup Ends, of : Requests,
           n : 0..MaxEvents]

TypeOK ==
  /\ kind \in [Requests -> Kinds]
  /\ pc \in [Requests -> {"new", "waiting", "hello", "sent", "streaming", "over"}]
  /\ outcome \in [Requests -> {"none", "ok", "busy", "failed", "left"}]
  /\ held \in [Requests -> Seq(Frames)] /\ streamed \in [Requests -> Seq(1..MaxEvents)]
  /\ user \in [Sockets -> Requests \cup {None}] /\ idle \in Seq(Sockets)
  /\ permits \in 0..MaxConns
  /\ writer \in [Sockets -> BOOLEAN]
  /\ up \in [Sockets -> Seq(Frames)] /\ down \in [Sockets -> Seq(Frames)]
  /\ socket \in [Sockets -> {"unused", "open", "shut", "closed"}]
  /\ answer \in [Sockets -> Seq(Frames)]
  /\ run \in [Requests -> {"none", "running", "asking", "over"}]
  /\ sink \in [Requests -> 0..MaxSockets] /\ events \in [Requests -> 0..MaxEvents]
  /\ restarts \in 0..MaxRestarts

(* No path, dropped handler, failed connect or dead idle entry, loses a permit
   or returns it twice. *)
PermitsAddUp == permits + Len(idle) + Cardinality(InUse) = MaxConns

Line(s) == up[s] \o answer[s] \o down[s]
Owed(s) == {i \in DOMAIN Line(s) : Line(s)[i].type \in Responses \cup {"request"}}

(* Answers are matched by their order alone.  So a connection in the pool owes
   no answer and no run streams into it, and in one that is in use at most one
   answer is under way, to the request that uses it. *)
ConnectionsAreAtRest ==
  \A s \in Sockets :
    /\ Contains(idle, s) => /\ Owed(s) = {}
                            /\ \A r \in Requests : sink[r] = s => run[r] = "over"
    /\ user[s] # None => /\ Cardinality(Owed(s)) <= 1
                         /\ \A i \in Owed(s) : Line(s)[i].of = user[s]

(* conn_pool.rs: a permit stands for one connection, in use or idle; a request has one connection
   while it needs one; and what lies in the pool can be used as it is. *)
PoolInv ==
  /\ TypeOK
  /\ PermitsAddUp
  /\ Len(idle) <= MaxIdle /\ Cardinality(ToSet(idle)) = Len(idle)
  /\ \A r \in Requests : Cardinality(Mine(r)) = IF pc[r] \in {"hello", "sent", "streaming"}
                                                 THEN 1 ELSE 0
  /\ ConnectionsAreAtRest

(* What a page sees of a run is a part of the stream without a gap, and a page
   that resumed sees it from the first event the daemon sent it, the replayed
   ones that overtook the Res included. *)
RelayHasNoGap ==
  \A r \in Requests : streamed[r] # <<>> =>
    /\ \A i \in 1..(Len(streamed[r]) - 1) : streamed[r][i + 1] = streamed[r][i] + 1
    /\ kind[r] = "resume" => streamed[r][1] = 1

(* A stream that was sent a terminal event, or whose client left, or whose
   daemon died, ends and gives its permit back. *)
StreamsEnd ==
  \A r \in Requests :
    (/\ pc[r] = "streaming"
     /\ \E s \in Mine(r) : \/ socket[s] = "shut"
                           \/ \E i \in DOMAIN down[s] : /\ down[s][i].of = r
                                                        /\ down[s][i].type \in Ends)
      ~> pc[r] = "over"

(* What session.rs:150 says of a turn that was accepted: whoever waits for its
   Lifecycle event does not wait in vain.  Here: once the run has pushed its
   end into the connection of a request, the request ends. *)
EndIsHeard ==
  \A r \in Requests :
    (pc[r] = "streaming" /\ kind[r] # "resume" /\ run[r] = "over") ~> pc[r] = "over"

(* What sink.rs:85 says of a run that asks its user: when the page is gone the
   wait ends, without the timeout of ten minutes. *)
AbsenceIsNoticed ==
  \A r \in Requests :
    (run[r] = "asking" /\ outcome[r] = "left" /\ sink[r] # 0) ~> run[r] # "asking"

(* What conn_pool.rs:31 says of the wait for a permit: a request that only had
   to wait out a fast turn is not refused. *)
BusyMeansBusy ==
  [][\A r \in Requests : (outcome[r] # "busy" /\ outcome'[r] = "busy") => idle = <<>>]_vars
===============================================================================
