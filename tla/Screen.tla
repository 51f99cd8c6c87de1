---------------------------------- MODULE Screen ----------------------------------
(***************************************************************************)
(* The terminal client (oc-tui/src/app.rs): one event loop that takes in   *)
(* keys, the daemon's frames and the timer of the queue hint, in any       *)
(* order.                                                                  *)
(*                                                                         *)
(* Its state is a record; OnKey, OnFrame, HintDue and Disconnect give the  *)
(* next one.  Layout, scrolling, colours and the usage line are left out.  *)
(* A text is a sequence of pieces.                                         *)
(***************************************************************************)
EXTENDS Integers, FiniteSets, SequencesExt

CONSTANTS
  Runs,        \* the runs the daemon executes
  SessionOf,   \* SessionOf[r]: the session of run r
  Main,        \* the session a client starts in
  None         \* absence of a value

(* msgs: what is on the screen, each piece of a text with what it came from.  out: the requests
   sent, oldest first.  For the properties: asked, the prompts shown; meant, the question that
   was open when the line was begun; heard, the deltas of a run that came since the view was
   cleared or switched to its session. *)
Fresh == [msgs |-> <<>>, input |-> <<>>, status |-> "connected", connected |-> TRUE,
          approval |-> None, question |-> None, last_run |-> None, session |-> Main,
          hint |-> FALSE, quit |-> FALSE,
          out |-> <<>>, asked |-> <<>>, meant |-> None, heard |-> [r \in Runs |-> <<>>]]

Say(st, who, from, text) ==
  [st EXCEPT !.msgs = Append(@, [who |-> who, body |-> [i \in DOMAIN text |-> <<from, text[i]>>]])]
Send(st, method, what) ==
  [st EXCEPT !.out = Append(@, [method |-> method, what |-> what, session |-> st.session,
                                meant |-> IF st.input = <<>> THEN None ELSE st.meant])]
LastIs(st, who) == st.msgs # <<>> /\ Last(st.msgs).who = who
Extend(st, from, piece) == [st EXCEPT !.msgs[Len(st.msgs)].body = Append(@, <<from, piece>>)]

-------------------------------------------------------------------------------
(* Frames.                                                                   *)

(* A slip: the deltas of any run are put together. *)
AnyRun(st, run) == LastIs(st, "assistant")
SameRun(st, run) == LastIs(st, "assistant") /\ st.last_run = run

Heard(st, run, n) == [st EXCEPT !.heard[run] = Append(@, n)]

OnDelta(st, run, n) ==
  IF SameRun(st, run) THEN Extend(Heard(st, run, n), run, n)
  ELSE [Say(Heard(st, run, n), "assistant", run, <<n>>) EXCEPT !.last_run = run]

Ends == [end |-> "connected", error |-> "failed"]

(* on_event, for an event of a run of the session in view; all others are passed over. *)
OnEvent(st, ev) ==
  IF SessionOf[ev.run] # st.session THEN st
  ELSE CASE ev.kind = "start" -> [st EXCEPT !.hint = FALSE, !.status = "thinking"]
         [] ev.kind \in DOMAIN Ends -> [st EXCEPT !.hint = FALSE, !.status = Ends[ev.kind]]
         [] ev.kind = "delta" -> OnDelta(st, ev.run, ev.n)
         [] ev.kind = "tool" -> Say(st, "tool", ev.run, <<>>)
         [] ev.kind = "update" -> IF LastIs(st, "tool") THEN Extend(st, ev.run, ev.n)
                                  ELSE Say(st, "tool", ev.run, <<ev.n>>)
         [] ev.kind = "approval" ->
              [Say(st, "approval", ev.n, <<>>)
                 EXCEPT !.approval = ev.n, !.status = "approve?",
                        !.asked = Append(@, [kind |-> "approval", id |-> ev.n])]
         [] ev.kind = "question" ->
              [Say(st, "question", ev.n, <<>>)
                 EXCEPT !.question = ev.n, !.status = "answer?",
                        !.asked = Append(@, [kind |-> "question", id |-> ev.n])]

(* The daemon's answer to a command may clear the view and switch the session. *)
ClearView(st, session) ==
  IF session = st.session
  THEN [st EXCEPT !.msgs = <<>>, !.heard = [r \in Runs |-> <<>>]] ELSE st
SwitchTo(st, session) == [st EXCEPT !.session = session, !.last_run = None]

(* on_frame, for the answer to a command, and for a request that was refused. *)
OnCommandResult(st, clears, switches) ==
  LET cleared == IF clears = None THEN st ELSE ClearView(st, clears)
  IN  Say(IF switches = None THEN cleared ELSE SwitchTo(cleared, switches), "system", None, <<>>)
OnRefused(st) == Say([st EXCEPT !.hint = FALSE, !.status = "failed"], "system", None, <<>>)

(* run's other two arms: the queue hint is due, and the daemon has gone. *)
HintDue(st) == [st EXCEPT !.hint = FALSE, !.status = "queued"]
Disconnect(st) == [st EXCEPT !.connected = FALSE, !.status = "gone"]

-------------------------------------------------------------------------------
(* Keys.                                                                     *)

(* A slip: a prompt stays open when it was answered. *)
LeaveOpen(st, prompt) == st
TakePrompt(st, prompt) == [st EXCEPT ![prompt] = None]

ReplyApproval(st, allow) ==
  Say([Send(TakePrompt(st, "approval"), "approval", <<st.approval, allow>>)
         EXCEPT !.status = "connected"], "system", None, <<>>)

(* A slip: the line stays when it was sent as an answer. *)
KeepLine(st) == st
ClearLine(st) == [st EXCEPT !.input = <<>>]

ReplyInput(st, text) ==
  ClearLine(Say([Send(TakePrompt(st, "question"), "answer", <<st.question, text>>)
                   EXCEPT !.status = "connected"], "you", None, text))

(* Enter outside of the prompts: an empty line is nothing, a command goes to the daemon as
   it is, anything else is shown and sent; without a connection it is discarded. *)
Submit(st) ==
  LET sent == IF st.input = <<>> \/ ~st.connected THEN st
              ELSE IF st.input[1] = "/" THEN Send(st, "command", st.input)
              ELSE [Send(Say(st, "you", None, st.input), "chat", st.input) EXCEPT !.hint = TRUE]
  IN  [sent EXCEPT !.input = <<>>]

Typed(st, key) ==
  [st EXCEPT !.input = Append(@, key), !.meant = IF st.input = <<>> THEN st.question ELSE @]
Erased(st) == [st EXCEPT !.input = IF @ = <<>> THEN @ ELSE Front(@)]

(* on_key: an open approval takes y and n and swallows the rest, then an open question takes
   the line; Ctrl-C always leaves. *)
OnKey(st, key) ==
  CASE key = "ctrl-c" -> [st EXCEPT !.quit = TRUE]
    [] key # "ctrl-c" /\ st.approval # None ->
         IF key \in {"y", "n"} THEN ReplyApproval(st, key = "y") ELSE st
    [] key # "ctrl-c" /\ st.approval = None /\ key = "esc" ->
         IF st.question = None THEN st ELSE ReplyInput(st, <<>>)
    [] key # "ctrl-c" /\ st.approval = None /\ key = "enter" ->
         IF st.question = None THEN Submit(st) ELSE ReplyInput(st, st.input)
    [] key # "ctrl-c" /\ st.approval = None /\ key = "back" -> Erased(st)
    [] key \notin {"ctrl-c", "esc", "enter", "back"} /\ st.approval = None -> Typed(st, key)

-------------------------------------------------------------------------------
(* What the screen promises.                                                 *)

Shown(st, run) ==
  LET said == SelectSeq(st.msgs, LAMBDA m : m.who = "assistant")
      all == FoldLeft(LAMBDA text, m : text \o m.body, <<>>, said)
  IN  SelectSeq(all, LAMBDA d : d[1] = run)

(* app.rs:452: a message holds the deltas of one run; and whatever runs, tools, prompts and
   commands come in between, all that was heard of a run since the view was cleared
   is on the screen, in order and once. *)
RunsAreReadable(st) ==
  /\ \A m \in ToSet(st.msgs) : m.who = "assistant" => \A d \in ToSet(m.body) : d[1] = m.body[1][1]
  /\ \A r \in Runs : Shown(st, r) = [i \in DOMAIN st.heard[r] |-> <<r, st.heard[r][i]>>]

(* app.rs:194-220: a prompt is answered once at most, only after it was shown, and is closed
   then; it goes unanswered only while it is open or because a later one of its kind took its
   place, of which the program holds one (app.rs:471, :479).  A line begun as an answer is sent
   once, as an answer, and to the question it was begun for, or to one that came while it was
   typed. *)
AnswersReachTheirPrompt(st) ==
  LET replies == SelectSeq(st.out, LAMBDA q : q.method \in {"approval", "answer"})
      named == [i \in DOMAIN replies |-> replies[i].what[1]]
      place(id) == SelectInSeq(st.asked, LAMBDA a : a.id = id)
      open == {st.approval, st.question}
  IN  /\ IsInjective(named)
      /\ \A id \in ToSet(named) : place(id) > 0 /\ id \notin open
      /\ \A i \in DOMAIN st.asked :
           \/ st.asked[i].id \in ToSet(named) \cup open
           \/ \E j \in DOMAIN st.asked : j > i /\ st.asked[j].kind = st.asked[i].kind
      /\ \A i \in DOMAIN st.out :
           LET q == st.out[i]
           IN  CASE q.method = "approval" -> TRUE
                 [] q.method = "answer" /\ q.what[2] # <<>> ->
                      q.meant = None \/ place(q.what[1]) >= place(q.meant)
                 [] q.method = "answer" /\ q.what[2] = <<>> -> TRUE
                 [] OTHER -> q.meant = None
===============================================================================
