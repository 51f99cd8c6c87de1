--------------------------------- MODULE Commands ---------------------------------
(***************************************************************************)
(* The slash commands and the requests they share their work with          *)
(* (oc-server: command.rs, dispatch.rs, the run views of diag.rs, the      *)
(* usage listener of lib.rs, gc_tick of state.rs).                         *)
(*                                                                         *)
(* The state is a record; commands, requests and what goes on beside them  *)
(* give the next one.  A command that waits in the middle (/stop, /clear)  *)
(* is several steps.  The texts are those of Tables.tla.                   *)
(***************************************************************************)
EXTENDS Integers, FiniteSets, SequencesExt

CONSTANTS
  Sessions, Main,   \* Main is one of Sessions
  None,             \* absence of a value
  InChannel         \* how many events the broadcast channel holds

(* entries: what was said in a session, by whom (a run); reset: how many of them are behind its
   context; kept: how many were looked at for memories; active: its run, as its diagnosis slot has
   it; queued: turns that wait for it; slot: whether it has a slot and an actor; usage, channel: the last usage taken in, and what
   the listener has not taken yet; evicted: sessions the collector is about to forget; waiting:
   commands in their middle; began, stopped, shown, cleared: for the properties. *)
Fresh ==
  [entries |-> [s \in Sessions |-> 0], reset |-> [s \in Sessions |-> 0],
   kept |-> [s \in Sessions |-> 0], slot |-> [s \in Sessions |-> FALSE],
   active |-> [s \in Sessions |-> None], queued |-> [s \in Sessions |-> 0], usage |-> [s \in Sessions |-> None],
   channel |-> <<>>, evicted |-> {}, waiting |-> {}, began |-> <<>>,
   stopped |-> {}, last |-> [s \in Sessions |-> None], cleared |-> {}]

(* get_or_spawn. *)
Spawn(st, s) == [st EXCEPT !.slot[s] = TRUE]

-------------------------------------------------------------------------------
(* What goes on beside the commands.                                         *)

(* A run of a session begins, another turn waits for it, it says something with what it cost, and
   it ends (run_start, set_queue_depth, run_done). *)
Begin(st, s) ==
  [Spawn(st, s) EXCEPT !.active[s] = Len(st.began) + 1, !.began = Append(@, s),
                       !.entries[s] = @ + 1]
Wait(st, s) == [st EXCEPT !.queued[s] = @ + 1]
Send(channel, event) ==
  IF Len(channel) < InChannel THEN Append(channel, event) ELSE Append(Tail(channel), event)
Report(st, s, tokens) ==
  [st EXCEPT !.channel = Send(@, [session |-> s, tokens |-> tokens]), !.entries[s] = @ + 1]
End(st, s) ==
  LET ended == [st EXCEPT !.active[s] = None]
  IN  IF st.queued[s] = 0 THEN ended ELSE Begin([ended EXCEPT !.queued[s] = @ - 1], s)

(* A slip: the usage is put down as the first session's. *)
ForMain(event) == Main
Whose(event) == event.session

(* serve_with's listener. *)
TakeUsage(st) ==
  LET event == Head(st.channel)
  IN  [st EXCEPT !.channel = Tail(@), !.usage[Whose(event)] = event.tokens,
                 !.last[event.session] = event.tokens]

(* gc_tick: idle actors end and lose their slots (evict_idle, which asks them one after the
   other), then their usage is forgotten. *)
Evict(st, s) == [st EXCEPT !.slot[s] = FALSE, !.evicted = @ \cup {s}]
ForgetUsage(st) == [st EXCEPT !.usage = [s \in Sessions |-> IF s \in st.evicted THEN None ELSE @[s]],
                              !.evicted = {}]

-------------------------------------------------------------------------------
(* Commands.  A command has a name, an argument and the session it was typed in.  A result
   says whether it succeeded, which view the client clears and which session it
   goes to; a refusal does neither.                                          *)

Result(clears, switches) == [ok |-> TRUE, clears |-> clears, switches |-> switches]
Refusal == [ok |-> FALSE, clears |-> None, switches |-> None]
Done(st, result) == [st |-> st, result |-> result]
Plain(st) == Done(st, Result(None, None))

(* reset_session, for session.reset as for /clear: what was said so far is looked at for
   memories; then the context starts behind all that is stored by now, unless that fails. *)
Flush(st, s, asked) ==
  [st EXCEPT !.kept[s] = st.entries[s], !.waiting = @ \cup {[what |-> "reset", session |-> s, asked |-> asked]}]
(* A slip: a failed write is passed over. *)
NeverFails(failing) == FALSE
Fails(failing) == failing
Reset(st, wait, failing) ==
  LET s == wait.session
      after == [st EXCEPT !.waiting = @ \ {wait}]
      moved == IF failing THEN after ELSE [after EXCEPT !.reset[s] = st.entries[s]]
  IN  IF Fails(failing) THEN Done(after, Refusal)
      ELSE Done([moved EXCEPT !.cleared = IF wait.asked = "/clear"
                                          THEN @ \cup {[session |-> s, at |-> st.entries[s]]} ELSE @],
                Result(IF wait.asked = "/clear" THEN s ELSE None, None))

(* /stop: the run its session's slot shows, then abort_all with its id.  The abort is a hard one:
   every actor throws its waiting turns away, also those of sessions that have nothing to
   do with the run. *)
ReadStop(st, s) ==
  [st EXCEPT !.waiting = @ \cup {[what |-> "stop", session |-> s, run |-> st.active[s]]}]
(* A slip: an actor stops whatever it is running. *)
AnyRun(st, s, wait) == st.active[s] # None /\ s = wait.session
Matches(st, s, wait) == st.active[s] = wait.run
AbortAll(st, wait) ==
  LET hit == {s \in Sessions : st.slot[s] /\ Matches(st, s, wait)}
  IN  [st EXCEPT !.waiting = @ \ {wait},
                 !.queued = [s \in Sessions |-> IF st.slot[s] THEN 0 ELSE @[s]],
                 !.stopped = @ \cup {[run |-> st.active[s], typed |-> wait] : s \in hit}]

(* snapshot, for the status of a session. *)
Snapshot(st, s) == [session |-> s, active |-> IF st.slot[s] THEN st.active[s] ELSE None,
                    used |-> st.usage[s],
                    queued |-> IF st.slot[s] THEN st.queued[s] ELSE 0]

(* Slips: a command typed without a session, or in any other, is about the main one; an unknown
   command is sent as a message. *)
AlwaysMain(session) == Main
Session(session) == IF session = None THEN Main ELSE session
SentAsMessage(st, s) == Plain(Begin(st, s))
Unknown(st, s) == Done(st, Refusal)

(* handle_command, for all that is done in one step. *)
Queries == {"/help", "/sessions", "/status", "/model", "/tasks", "/whoami"}
Lists == {"/cron", "/intent"}
Handle(st, cmd, fresh) ==
  LET s == Session(cmd.session)
  IN  CASE cmd.name \in Queries -> Plain(st)
        [] cmd.name \in Lists -> IF cmd.arg = "list" THEN Plain(st) ELSE Done(st, Refusal)
        [] cmd.name = "/memory" -> IF cmd.arg = "search x" THEN Plain(st) ELSE Done(st, Refusal)
        [] cmd.name = "/new" -> Done(st, Result(s, fresh))
        [] cmd.name = "/session" -> IF cmd.arg = None THEN Done(st, Refusal)
                                    ELSE Done(st, Result(None, cmd.arg))
        [] cmd.name = "/compact" -> Plain(Spawn(st, s))
        [] cmd.name = "/stop" -> IF Snapshot(st, s).active = None THEN Plain(st)
                                 ELSE Plain(ReadStop(st, s))
        [] cmd.name = "/clear" -> Plain(Flush(st, s, "/clear"))
        [] OTHER -> Unknown(st, s)

Names == Queries \cup Lists \cup {"/memory", "/new", "/session", "/compact", "/stop", "/clear", "/nothing"}
Arguments == {None, "list", "search", "search x"}
AllCommands == [name : Names, arg : Arguments, session : Sessions \cup {None}]

-------------------------------------------------------------------------------
(* The views of the diagnosis (snapshot_sessions): every slot, the main session's first.
   Order is the order of the other names.                                    *)

(* A slip: the main session has no place of its own. *)
ByName(Order, a, b) == Order[a] < Order[b]
Before(Order, a, b) == \/ a = Main /\ b # Main
                       \/ (a = Main) = (b = Main) /\ Order[a] < Order[b]
Snapshots(st, Order) ==
  LET shown == SetToSortSeq({s \in Sessions : st.slot[s]}, LAMBDA a, b : Before(Order, a, b))
  IN  [n \in DOMAIN shown |-> Snapshot(st, shown[n])]

-------------------------------------------------------------------------------
(* What is promised.                                                         *)

(* command.rs:69: a /stop stops a run only if it is of the session it was typed in and was already
   running then, whatever ended and began before the order arrived. *)
StopsWhatWasShown(st) ==
  \A x \in st.stopped : /\ st.began[x.run] = x.typed.session
                        /\ x.run <= x.typed.run

(* command.rs:1-10: whatever a user types, up to where it first waits only the session it was
   typed in is touched (what /stop then does to others' queues is above); what is refused and what only asks changes nothing; no command but a message starts a
   run; and a client is sent to another session or clears its view only by a
   command that succeeded. *)
SameBut(st, after, s) ==
  \A t \in Sessions \ {s} : /\ st.slot[t] = after.slot[t] /\ st.active[t] = after.active[t]
                            /\ st.queued[t] = after.queued[t]
                            /\ st.reset[t] = after.reset[t] /\ st.kept[t] = after.kept[t]
CommandsStayInside(st, cmd) ==
  LET s == IF cmd.session = None THEN Main ELSE cmd.session
      done == Handle(st, cmd, "fresh")
  IN  /\ SameBut(st, done.st, s)
      /\ \A w \in done.st.waiting \ st.waiting : w.session = s
      /\ cmd.name \in Queries \cup Lists \cup {"/memory", "/new", "/session"} => done.st = st
      /\ ~done.result.ok => done.st = st /\ done.result = Refusal
      /\ done.st.began = st.began
      /\ done.result.clears \in {None, s}
      /\ done.result.switches # None => cmd.name \in {"/new", "/session"}

(* command.rs:54: when a view was cleared the context has moved behind all that was in it. *)
ClearedIsReset(st) == \A c \in st.cleared : st.reset[c.session] >= c.at

(* What the status shows of a session is its own: a run it began, and the last usage taken in
   for it, or nothing. *)
StatusIsOwn(st, s, Order) ==
  LET view == Snapshot(st, s)
      all == Snapshots(st, Order)
  IN  /\ view.active # None => st.began[view.active] = s
      /\ view.used \in {None, st.last[s]}
      /\ \A n \in DOMAIN all : all[n].session = Main => n = 1
      /\ {all[n].session : n \in DOMAIN all} = {t \in Sessions : st.slot[t]}
===============================================================================
