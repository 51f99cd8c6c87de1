-------------------------------- MODULE WebClient --------------------------------
(***************************************************************************)
(* The web page (oc-http/ui): what it shows of one run of the session      *)
(* main, from the history it loads, the stream of its own request or of a  *)
(* resumed run, and the snapshots of the ambient stream; every answer of   *)
(* the gateway comes when it likes.                                        *)
(*                                                                         *)
(* The page's state is a record; the operators give the next one.  A piece *)
(* of text stands for the event it came in.  Only main has a run; the      *)
(* notices, the usage and the list of sessions are left out.               *)
(***************************************************************************)
EXTENDS Integers, FiniteSets, SequencesExt

CONSTANTS
  None,       \* absence of a value
  Extras,     \* bound: sessions selected, commands typed, streams broken, ambient streams
              \* opened again and histories refused, together
  Lag         \* bound: events on their way to the page before the run waits for it

(* The run as the daemon makes it: the user's entry, then what the driver emits and stores.  The
   writer stores an entry before the driver, which waits for it, sets its mark (persist); the
   user's entry has none.  RunDriver and RunLog say why in this order. *)
Events == <<"text", "start", "update", "end", "text", "over">>
Emit(n) == [emit |-> n, store |-> 0, mark |-> 0]
Store(k) == [emit |-> 0, store |-> k, mark |-> 0]
Mark(k) == [emit |-> 0, store |-> 0, mark |-> k]
Course == <<Store(1), Emit(1), Store(2), Mark(2), Emit(2), Emit(3), Emit(4), Store(3), Mark(3),
            Emit(5), Emit(6), Store(4), Mark(4)>>

Emitted(pos) == Cardinality({i \in 1..pos : Course[i].emit > 0})
Stored(pos) == Cardinality({i \in 1..pos : Course[i].store > 0})
(* The last mark set so far at or before entry k, and the events in front of it. *)
LastMark(pos, k) == Max({0} \cup {Course[i].mark : i \in {j \in 1..pos : Course[j].mark <= k}})
MarkOf(pos, k) ==
  LET m == LastMark(pos, k)
  IN  IF m = 0 THEN 0 ELSE Emitted(CHOOSE i \in DOMAIN Course : Course[i].mark = m)

(* The run: pos, stopped, and how many entries a reset has put away.  The page: whether it has sent
   its message; the session in view; the messages of each; the water mark of main's history; the
   run the last snapshot told of; main's stream with the events on their way to the page; the
   activity card; histories and snapshots under way; the command typed; whether the login page
   covers all.
   For the properties: streamed, since main's history came a stream has; disturbed, a stream was
   cut, joined by a second one or by another history; again, the events of an entry in the
   history that had no mark yet when the run was resumed. *)
Fresh == [pos |-> 0, reset |-> 0, stopped |-> FALSE, stopping |-> FALSE, sent |-> FALSE,
          view |-> "main", list |-> [s \in {"main", "side"} |-> <<>>], seq |-> None,
          active_run |-> FALSE, stream |-> None, act |-> "idle",
          loads |-> <<>>, ambient |-> FALSE, snap |-> None, command |-> None,
          gate |-> "probing", streamed |-> FALSE, disturbed |-> FALSE, again |-> {},
          extras |-> 0]

InFlight(p) == p.pos \in 1..(Len(Course) - 1) /\ ~p.stopped
Message(role, body, pending, status) ==
  [role |-> role, body |-> body, pending |-> pending, status |-> status]
IsCard(m) == m.role = "tool"
IsOpen(m) == m.role = "assistant" /\ m.pending

-------------------------------------------------------------------------------
(* What events do to the list.                                               *)

CardOf(list) == SelectInSeq(list, IsCard)
OpenBubble(list) == SelectLastInSeq(list, IsOpen)

UpdateLastAssistant(list, n) ==
  LET at == OpenBubble(list)
  IN  IF at = 0 THEN Append(list, Message("assistant", <<n>>, TRUE, None))
      ELSE [list EXCEPT ![at].body = Append(@, n)]
FinalizeLastAssistant(list) ==
  LET at == OpenBubble(list) IN IF at = 0 THEN list ELSE [list EXCEPT ![at].pending = FALSE]

(* A slip: a call that has a card gets another. *)
SecondCard(list) == Append(list, Message("tool", <<>>, FALSE, "running"))
StartCard(list) ==
  IF CardOf(list) = 0 THEN Append(list, Message("tool", <<>>, FALSE, "running"))
  ELSE [list EXCEPT ![CardOf(list)].status = "running"]

Write(p, list) == [p EXCEPT !.list["main"] = list]
OnTool(p, n) ==
  LET list == p.list["main"]
      at == CardOf(list)
  IN  CASE Events[n] = "start" ->
             [Write(p, StartCard(FinalizeLastAssistant(list))) EXCEPT !.act = "hidden"]
        [] Events[n] = "update" ->
             IF at = 0 THEN p ELSE Write(p, [list EXCEPT ![at].body = Append(@, n)])
        [] Events[n] = "end" ->
             [Write(p, IF at = 0 THEN list ELSE [list EXCEPT ![at].status = "done"])
                EXCEPT !.act = "armed"]

(* A slip: an error leaves the bubble open. *)
LeaveBubble(p) == [p EXCEPT !.stream = None, !.act = "idle"]
(* onEnd, onError and stop: the activity card goes, the bubble is closed, the session is free. *)
EndStream(p) ==
  [Write(p, FinalizeLastAssistant(p.list["main"]))
     EXCEPT !.stream = None, !.act = "idle"]

(* The callbacks of sendChat and resumeChat. *)
OnFrame(p, n) ==
  IF n = 0 THEN [p EXCEPT !.stream.known = TRUE]
  ELSE CASE Events[n] = "text" ->
              [Write(p, UpdateLastAssistant(p.list["main"], n)) EXCEPT !.act = "hidden"]
         [] Events[n] \in {"start", "update", "end"} -> OnTool(p, n)
         [] Events[n] = "over" -> EndStream(p)

Receive(p) == OnFrame([p EXCEPT !.stream.queue = Tail(@)], Head(p.stream.queue))

-------------------------------------------------------------------------------
(* History, and attaching to a run.                                          *)

(* loadHistory: a dispatch is its text and a card, a result completes the card; what was before
   a reset is not among the entries. *)
AddEntry(list, k) ==
  CASE k = 1 -> Append(list, Message("user", <<>>, FALSE, None))
    [] k = 2 -> list \o <<Message("assistant", <<1>>, FALSE, None),
                          Message("tool", <<>>, FALSE, "running")>>
    [] k = 3 -> IF CardOf(list) = 0 THEN Append(list, Message("result", <<3>>, FALSE, None))
                ELSE [list EXCEPT ![CardOf(list)].body = <<3>>, ![CardOf(list)].status = "done"]
    [] k = 4 -> Append(list, Message("assistant", <<5>>, FALSE, None))
History(reset, n) == FoldLeft(AddEntry, <<>>, [k \in 1..(n - reset) |-> reset + k])
HistoryMaxSeq(reset, n) == IF n > reset THEN n ELSE 0
(* The events that entry k holds the content of. *)
ContentOf(k) == CASE k = 2 -> {1} [] k = 3 -> {3} [] k = 4 -> {5} [] OTHER -> {}

(* A slip: the page claims to have nothing. *)
ReportNothing(p) == 0
ReportHistory(p) == p.seq

(* maybeResume: only main, only a run that is known of, only one stream, and not before the
   history is there. *)
MaybeResume(p, s) ==
  IF s # "main" \/ ~p.active_run \/ p.stream # None \/ p.seq = None THEN p
  ELSE [p EXCEPT !.act = "armed",
                 !.streamed = TRUE, !.disturbed = @ \/ p.streamed,
                 !.stream = [kind |-> "resume", asked |-> TRUE, queue |-> <<>>, known |-> FALSE,
                             since |-> ReportHistory(p)]]

Fetch(p, s, then) ==
  [p EXCEPT !.loads = Append(@, [session |-> s, from |-> Stored(p.pos), then |-> then])]

StartAmbient(p) == [p EXCEPT !.ambient = TRUE, !.snap = "asked"]
OnAuthRequired(p) == [p EXCEPT !.gate = "login", !.ambient = FALSE, !.snap = None]

(* What awaits a history: start, handleSelectSession, submitCommand. *)
Continue(p, load) ==
  CASE load.then = "start" -> MaybeResume(StartAmbient(p), p.view)
    [] load.then = "select" -> MaybeResume(p, load.session)
    [] load.then = "command" -> [p EXCEPT !.command.phase = "listing"]

(* A history arrives: it was read after it was asked for. *)
Land(p, i, n) ==
  LET load == p.loads[i]
      main == load.session = "main"
      landed == [p EXCEPT !.loads = RemoveAt(@, i),
                          !.list[load.session] = IF main THEN History(p.reset, n) ELSE <<>>,
                          !.seq = IF main THEN HistoryMaxSeq(p.reset, n) ELSE @,
                          !.streamed = IF main THEN p.stream # None ELSE @,
                          !.again = IF main THEN {} ELSE @,
                          !.disturbed = IF main THEN p.stream # None \/ p.reset > 0 ELSE @]
  IN  Continue(landed, load)

(* It is refused because the login has expired: loadHistory returns as if it had loaded. *)
LandRefused(p, i) ==
  Continue(OnAuthRequired([p EXCEPT !.loads = RemoveAt(@, i), !.extras = @ + 1]), p.loads[i])

ReadStatus(p) == [p EXCEPT !.snap = IF InFlight(p) THEN "active" ELSE "quiet"]
OnStatus(p) ==
  LET told == [p EXCEPT !.active_run = p.snap = "active", !.snap = None]
  IN  IF p.snap = "active" /\ p.view = "main" /\ p.stream = None THEN MaybeResume(told, "main")
      ELSE told

-------------------------------------------------------------------------------
(* The user.                                                                 *)

(* bootstrap after the probe, and onLoggedIn. *)
Start(p) == Fetch([p EXCEPT !.gate = "app"], p.view, "start")
Select(p, s) == Fetch([p EXCEPT !.view = s, !.extras = @ + 1], s, "select")

Submit(p) ==
  [Write(p, Append(p.list["main"], Message("user", <<>>, FALSE, None)))
     EXCEPT !.act = "armed", !.sent = TRUE, !.streamed = TRUE,
            !.stream = [kind |-> "send", asked |-> TRUE, queue |-> <<>>, known |-> FALSE,
                        since |-> 0]]

(* stop: the daemon hears of it if the page knows the run and asked for it itself. *)
Stop(p) ==
  [EndStream(p) EXCEPT !.disturbed = TRUE,
                       !.stopping = @ \/ (p.stream.kind = "send" /\ p.stream.known)]

TypeCommand(p, kind) ==
  [p EXCEPT !.list[p.view] = Append(@, Message("command", <<>>, FALSE, None)), !.extras = @ + 1,
            !.command = [kind |-> kind, target |-> p.view, landed |-> p.view, phase |-> "asked"]]

IsCommand(m) == m.role = "command"
(* A slip: the card is put where the command landed, and left where it was. *)
PlaceAgain(list, s) == [list EXCEPT ![s] = IF SelectInSeq(@, IsCommand) > 0 THEN @
                                           ELSE Append(@, Message("command", <<>>, FALSE, None))]
(* placeCommandMessage: out of every list where it is not the last, then in if it is missing. *)
Place(list, s) ==
  LET stays(t) == t = s /\ list[t] # <<>> /\ IsCommand(Last(list[t]))
      without(m) == ~IsCommand(m)
      cleaned == [t \in DOMAIN list |-> IF stays(t) THEN list[t] ELSE SelectSeq(list[t], without)]
  IN  IF SelectInSeq(cleaned[s], IsCommand) > 0 THEN cleaned
      ELSE [cleaned EXCEPT ![s] = Append(@, Message("command", <<>>, FALSE, None))]
Placed(p, s) == [p EXCEPT !.list = Place(@, s), !.command.phase = "done"]

(* submitCommand: the answer to /clear, to /session side, to another one, or a refusal. *)
OnCommandResult(p) ==
  LET c == p.command
  IN  CASE c.kind = "clear" ->
             Placed([p EXCEPT !.list[c.target] = <<>>,
                              !.reset = IF c.target = "main" THEN Stored(p.pos) ELSE @,
                              !.disturbed = @ \/ c.target = "main"], c.target)
        [] c.kind = "switch" /\ c.target # "side" ->
             Fetch([p EXCEPT !.view = "side", !.command.landed = "side",
                             !.command.phase = "loading"], "side", "command")
        [] c.kind = "help" \/ (c.kind = "switch" /\ c.target = "side") -> Placed(p, c.target)
        [] c.kind = "bad" -> [p EXCEPT !.command.phase = "done"]

-------------------------------------------------------------------------------
(* The gateway and the run.                                                  *)

Deliver(p, n) ==
  IF p.stream = None \/ p.stream.asked THEN p ELSE [p EXCEPT !.stream.queue = Append(@, n)]

(* The run goes on; it begins with the page's request if there is one. *)
Advance(p) ==
  LET moved == [p EXCEPT !.pos = @ + 1]
      n == Course[p.pos + 1].emit
  IN  IF p.pos = 0 /\ p.stream # None /\ p.stream.kind = "send"
      THEN [moved EXCEPT !.stream.asked = FALSE, !.stream.queue = <<0>>]
      ELSE IF n > 0 THEN Deliver(moved, n) ELSE moved

(* The replay: what came after the mark.  A run that is over is refused. *)
Replay(p) ==
  SelectSeq([n \in 1..Emitted(p.pos) |-> n],
            LAMBDA n : n > MarkOf(p.pos, p.stream.since))
Unmarked(p) ==
  IF LastMark(p.pos, p.stream.since) = p.stream.since THEN {} ELSE ContentOf(p.stream.since)
Answer(p) ==
  IF InFlight(p)
  THEN [p EXCEPT !.stream.asked = FALSE, !.stream.queue = Replay(p), !.again = Unmarked(p)]
  ELSE EndStream(p)

(* The abort arrives: the run announces its end, with what it has stored. *)
Aborted(p) ==
  IF InFlight(p) THEN Deliver([p EXCEPT !.stopping = FALSE, !.stopped = TRUE], Len(Events))
  ELSE [p EXCEPT !.stopping = FALSE]

Break(p) == [EndStream(p) EXCEPT !.disturbed = TRUE, !.extras = @ + 1]
(* The ambient stream is opened again by the browser, and sends a snapshot first. *)
Reopen(p) == [p EXCEPT !.snap = "asked", !.extras = @ + 1]
(* Behind the login page its probe finds out, and closes it. *)
ProbeRefused(p) == OnAuthRequired(p)

Steps(p) ==
  LET app == p.gate = "app"
      listening == p.stream # None /\ p.stream.queue # <<>>
      typing == p.command = None \/ p.command.phase = "done"
  IN  UNION
   {IF ~app THEN {Start(p)} ELSE {},
    IF app /\ p.extras < Extras THEN {Select(p, s) : s \in DOMAIN p.list} ELSE {},
    IF app /\ p.view = "main" /\ p.stream = None /\ p.pos = 0 /\ ~p.sent
      THEN {Submit(p)} ELSE {},
    IF app /\ p.view = "main" /\ p.stream # None THEN {Stop(p)} ELSE {},
    IF app /\ p.command = None /\ p.extras < Extras /\ (p.view = "side" \/ p.stream = None)
      THEN {TypeCommand(p, k) : k \in {"clear", "switch", "help", "bad"}} ELSE {},
    IF ~typing /\ p.command.phase = "asked" THEN {OnCommandResult(p)} ELSE {},
    IF ~typing /\ p.command.phase = "listing" THEN {Placed(p, p.command.landed)} ELSE {},
    UNION {{Land(p, i, n) : n \in Max({p.loads[i].from, p.reset})..Stored(p.pos)} :
             i \in DOMAIN p.loads},
    IF p.extras < Extras THEN {LandRefused(p, i) : i \in DOMAIN p.loads} ELSE {},
    IF p.snap = "asked" THEN {ReadStatus(p)} ELSE IF p.snap # None THEN {OnStatus(p)} ELSE {},
    IF listening THEN {Receive(p)} ELSE {},
    IF p.pos < Len(Course) /\ ~p.stopped /\ (p.stream # None => Len(p.stream.queue) < Lag)
      THEN {Advance(p)} ELSE {},
    IF p.stream # None /\ p.stream.kind = "resume" /\ p.stream.asked THEN {Answer(p)}
      ELSE {},
    IF p.stopping THEN {Aborted(p)} ELSE {},
    IF p.stream # None /\ ~p.stream.asked /\ p.extras < Extras THEN {Break(p)} ELSE {},
    IF p.ambient /\ p.snap = None /\ p.extras < Extras THEN {Reopen(p)} ELSE {},
    IF p.ambient /\ p.gate = "login" THEN {ProbeRefused(p)} ELSE {}}

-------------------------------------------------------------------------------
(* What the page promises.                                                   *)

Shown(p) == FoldLeft(LAMBDA all, m : all \o m.body, <<>>, p.list["main"])
Said == {n \in DOMAIN Events : Events[n] \in {"text", "update"}}

(* state.js:300-302, 54: whatever loads, streams and resumptions come together, a call has one
   card; and a page whose stream was not cut nor its list replaced meanwhile shows all that was
   said in order, and once, but for what the newest entry of its history holds if that entry had
   no mark yet when the run was resumed (run.rs:929): that is shown twice. *)
ShownOnce(p) ==
  LET cards == {i \in DOMAIN p.list["main"] : IsCard(p.list["main"][i])}
      shown == Shown(p)
      once == SelectSeq(shown, LAMBDA n : n \notin p.again)
  IN  /\ Cardinality(cards) <= 1
      /\ p.seq # None /\ ~p.disturbed =>
           /\ \A i, j \in DOMAIN once : i < j => once[i] < once[j]
           /\ \A n \in p.again : Len(SelectSeq(shown, LAMBDA m : m = n)) <= 2
           /\ p.stream # None /\ ~p.stream.asked =>
                {n \in Said : n <= Emitted(p.pos)} \subseteq ToSet(shown) \cup ToSet(p.stream.queue)

(* api.js:295-296 and onEnd, onError, stop of ChatPane.vue: when nothing streams, no bubble is
   still being written, and no card says that the model works. *)
QuietWhenOver(p) ==
  p.stream = None => /\ \A i \in DOMAIN p.list["main"] : ~IsOpen(p.list["main"][i])
                     /\ p.act = "idle"

(* state.js:165-170: whatever happened to the lists meanwhile, when a command is placed its card
   is in one list, once, and last. *)
CommandHasItsCard(p) ==
  \A s \in DOMAIN p.list :
    p.command # None =>
      LET placed == Place(p.list, s)
      IN  /\ placed[s] # <<>> /\ IsCommand(Last(placed[s]))
          /\ \A t \in DOMAIN placed :
               Cardinality({i \in DOMAIN placed[t] : IsCommand(placed[t][i])})
                 = IF t = s THEN 1 ELSE 0

(* Not kept by the code.  state.js:54 of any page: after Stop or a broken stream a snapshot that
   still tells of the run resumes it from the history loaded before it began. *)
NothingTwice(p) == IsInjective(Shown(p))
(* Not kept by the code.  state.js:263-264: a stream that goes on while its user looks elsewhere
   loses what it has shown when he comes back. *)
StreamIsKept(p) ==
  p.stream # None /\ ~p.stream.asked =>
    {n \in Said : n <= Emitted(p.pos)} \subseteq ToSet(Shown(p)) \cup ToSet(p.stream.queue)
(* Not kept by the code.  api.js:155-156: a run stopped before its number is known, or after it
   was resumed, goes on. *)
StopStops(p) == p.disturbed /\ p.extras = 0 => ~InFlight(p) \/ p.stopping \/ p.stream # None
(* Not kept by the code.  App.vue:49: behind the login page no ambient stream is open. *)
GateIsQuiet(p) == p.gate = "login" => ~p.ambient
===============================================================================
