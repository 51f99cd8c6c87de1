------------------------------- MODULE RunDriver -------------------------------
(***************************************************************************)
(* One run, from its Lifecycle Start to its return (oc-server/src/run.rs   *)
(* over the state machine of oc-core/src/agent.rs), with the connection    *)
(* its events go to (sink.rs), the writer thread and the provider.         *)
(*                                                                         *)
(* The driver is one task.  It waits in six places: for the provider to    *)
(* open a stream, for the next delta, for a tool, for the store, for room  *)
(* in the connection's outbound queue, and, if there is a run timeout,     *)
(* that one runs against all of them.  "sending" holds the events it has   *)
(* still to send before it goes on.                                        *)
(*                                                                         *)
(* Text deltas are numbered in the order the model says them, so that what *)
(* is stored can be compared with what was said.                           *)
(***************************************************************************)
EXTENDS Naturals, FiniteSets, Sequences

CONSTANTS
  OutCap,           \* capacity of the connection's outbound queue
  Calls,            \* tool calls the model may make: a name with its arguments
  None,             \* no call
  LoopThreshold,    \* LOOP_REPEAT_THRESHOLD (3 in the code)
  MaxRounds,        \* MAX_TOOL_ROUNDS (24 in the code)
  MaxContinuations, \* MAX_TRUNCATION_CONTINUATIONS (2 in the code)
  MaxDeltas,        \* bound: text and reasoning deltas of the run
  MaxFailures       \* bound: writes the store refuses

ASSUME DriverAssumption ==
  /\ None \notin Calls
  /\ OutCap \in Nat \ {0} /\ LoopThreshold \in Nat \ {0}
  /\ MaxRounds \in Nat /\ MaxContinuations \in Nat
  /\ MaxDeltas \in Nat /\ MaxFailures \in Nat

VARIABLES
  setup,       \* the run's sink, Detached or Conn, and whether run_timeout_secs is not 0
  pc,          \* what the driver does once everything in "sending" is sent
  sending,     \* events the driver still has to send before that
  outcome,     \* what it will return: RunOutcome, with "none" before that is known
  said,        \* text deltas received from the model
  mused,       \* reasoning deltas received
  acc,         \* text of the model's current turn
  carried,     \* text of turns cut off by the length limit
  truncations, \* number of those turns
  call,        \* the tool call of the current round
  prints,      \* fingerprints of the calls made
  rounds,      \* tool_rounds
  writing,     \* entries queued for the writer thread
  entries,     \* entries the run has stored
  refused,     \* writes that failed
  cancelled,   \* the run's cancellation token has fired
  link,        \* the connection: "open" or "closed"
  outbound,    \* number of frames in its outbound queue
  announced,   \* the Lifecycle events handed to it, in order
  lost         \* an event was refused because the connection was gone

modelVars == <<said, mused, acc, carried, truncations, call, prints, rounds>>
storeVars == <<writing, entries, refused>>
linkVars  == <<setup, link, outbound>>
sentVars  == <<announced, lost>>
vars == <<pc, sending, outcome, modelVars, storeVars, cancelled, linkVars, sentVars>>

Lifecycle == {"start", "end", "error"}
Inline == {"text", "reasoning", "tool", "toolend"}
Entry(role, text, c) == [role |-> role, text |-> text, call |-> c]

Init == /\ setup \in [detached : BOOLEAN, timeout : BOOLEAN]
        /\ pc = "start" /\ sending = <<"start">> /\ outcome = "none"
        /\ said = 0 /\ mused = 0 /\ acc = <<>> /\ carried = <<>> /\ truncations = 0
        /\ call = None /\ prints = <<>> /\ rounds = 0
        /\ writing = <<>> /\ entries = <<>> /\ refused = 0
        /\ cancelled = FALSE
        /\ link = "open" /\ outbound = 0
        /\ announced = <<>> /\ lost = FALSE

-------------------------------------------------------------------------------
(* Sending an event: RunSink::send, called by emit_inline.                  *)

HandOver(ev) ==
  announced' = IF ev \in Lifecycle THEN Append(announced, ev) ELSE announced

(* A full queue suspends the driver, and nothing but room or the end of the
   connection wakes it: there is no select on the cancellation token here. *)
Send ==
  /\ sending # <<>>
  /\ sending' = Tail(sending)
  /\ \/ /\ link = "open" /\ outbound < OutCap
        /\ outbound' = outbound + 1
        /\ HandOver(Head(sending))
        /\ UNCHANGED <<cancelled, lost>>
     \/ /\ link = "closed" /\ ~setup.detached
        /\ cancelled' = TRUE /\ lost' = TRUE
        /\ UNCHANGED <<outbound, announced>>
     \/ /\ link = "closed" /\ setup.detached
        /\ HandOver(Head(sending))
        /\ UNCHANGED <<outbound, cancelled, lost>>
  /\ UNCHANGED <<setup, pc, outcome, modelVars, storeVars, link>>

At(label) == pc = label /\ sending = <<>>
Goto(label) == pc' = label
Emit(events) == sending' = events
Return(o) == Goto("return") /\ outcome' = o

(* What a step that neither hears from the model nor from anybody else does
   not change. *)
Quiet == UNCHANGED <<modelVars, linkVars, sentVars, storeVars, cancelled>>

(* drive_inner: if the very first event is refused the run returns at once,
   and outcome_of calls that completed. *)
Begin ==
  /\ At("start")
  /\ IF lost THEN Return("Completed")
             ELSE Goto("open") /\ UNCHANGED outcome
  /\ UNCHANGED sending
  /\ Quiet

-------------------------------------------------------------------------------
(* run_model_turn: opening the stream.                                      *)

(* Of a Detached sink closed() never returns. *)
SeesClosed == ~setup.detached /\ link = "closed"

OpenSucceeds ==
  /\ At("open")
  /\ Goto("stream")
  /\ UNCHANGED <<sending, outcome>>
  /\ Quiet

OpenFails ==
  /\ At("open")
  /\ Emit(<<"error">>)
  /\ Return("Failed")
  /\ Quiet

(* A slip: nobody looks at the connection while the provider is silent. *)
NeverSeesClosed == FALSE

NoticesClosed == SeesClosed

(* While it opens or reads a stream the driver also waits for the connection
   to close; step(Abort) announces the end. *)
Disconnected ==
  /\ At("open") \/ At("stream")
  /\ NoticesClosed
  /\ cancelled' = TRUE
  /\ Emit(<<"error">>)
  /\ Return("Aborted")
  /\ UNCHANGED <<modelVars, storeVars, linkVars, sentVars>>

-------------------------------------------------------------------------------
(* run_model_turn: reading the stream.                                      *)

Cancelled ==
  /\ At("stream") /\ cancelled
  /\ Emit(<<"error">>)
  /\ Return("Aborted")
  /\ Quiet

(* The idle watchdog announces the end twice: step(Abort) and emit_error. *)
IdleTimeout ==
  /\ At("stream")
  /\ cancelled' = TRUE
  /\ Emit(<<"error", "error">>)
  /\ Return("Aborted")
  /\ UNCHANGED <<modelVars, storeVars, linkVars, sentVars>>

StreamFails ==
  /\ At("stream")
  /\ Emit(<<"error">>)
  /\ Return("Failed")
  /\ Quiet

ModelText ==
  /\ At("stream") /\ said + mused < MaxDeltas
  /\ said' = said + 1
  /\ acc' = Append(acc, said + 1)
  /\ Emit(<<"text">>)
  /\ UNCHANGED <<pc, outcome, mused, carried, truncations, call, prints, rounds, storeVars,
                 cancelled, linkVars, sentVars>>

ModelReasoning ==
  /\ At("stream") /\ said + mused < MaxDeltas
  /\ mused' = mused + 1
  /\ Emit(<<"reasoning">>)
  /\ UNCHANGED <<pc, outcome, said, acc, carried, truncations, call, prints, rounds, storeVars,
                 cancelled, linkVars, sentVars>>

(* Done(Stop), or the stream just ends: the end is announced here, before the
   reply is stored. *)
ModelDone ==
  /\ At("stream")
  /\ Emit(<<"end">>)
  /\ Goto("completed")
  /\ UNCHANGED outcome
  /\ Quiet

ModelToolCall(c) ==
  /\ At("stream")
  /\ call' = c
  /\ Goto("toolcall")
  /\ UNCHANGED <<sending, outcome, said, mused, acc, carried, truncations, prints, rounds,
                 storeVars, cancelled, linkVars, sentVars>>

(* Done(Length): nothing is announced. *)
ModelLength ==
  /\ At("stream")
  /\ Goto("truncated")
  /\ UNCHANGED <<sending, outcome>>
  /\ Quiet

-------------------------------------------------------------------------------
(* drive_inner: after a model turn.                                         *)

(* A slip: an entry without text is not stored, whatever it carries. *)
WorthStoringText(e) == e.text # <<>>

(* persist skips an entry that has neither text nor tool_calls; only an
   assistant's entry has those. *)
WorthStoring(e) == e.text # <<>> \/ (e.role = "assistant" /\ e.call # None)

(* persist: the driver waits in "stored" until the writer has the entry. *)
Persist(e) == writing' = IF WorthStoring(e) THEN Append(writing, e) ELSE writing

(* A slip: a cancellation that arrives after the end was announced counts. *)
CompletedUnlessCancelled ==
  /\ At("completed")
  /\ Persist(Entry("assistant", carried \o acc, None))
  /\ Return(IF cancelled THEN "Aborted" ELSE "Completed")
  /\ UNCHANGED <<sending, modelVars, entries, refused, cancelled, linkVars, sentVars>>

(* The model has finished: one entry holds the whole reply, cut or not. *)
Completed ==
  /\ At("completed")
  /\ Persist(Entry("assistant", carried \o acc, None))
  /\ Return("Completed")
  /\ UNCHANGED <<sending, modelVars, entries, refused, cancelled, linkVars, sentVars>>

(* Slips: one continuation too many; a cut turn that only reasoned does not
   count; the cut text is stored although the reply is not complete. *)
OneTruncationMore == truncations > MaxContinuations
CountTurnsWithText == IF acc = <<>> THEN truncations ELSE truncations + 1
StoreFragment == Persist(Entry("assistant", acc, None))

TooManyTruncations == truncations + 1 > MaxContinuations
CountTruncation == truncations + 1
KeepFragment == UNCHANGED writing

(* The turn hit the length limit: carry its text to the next one, or give up.
   Nothing of it is stored. *)
Truncated ==
  /\ At("truncated")
  /\ truncations' = CountTruncation
  /\ KeepFragment
  /\ IF TooManyTruncations
     THEN /\ Emit(<<"error">>)
          /\ Return("Failed")
          /\ UNCHANGED <<carried, acc>>
     ELSE /\ carried' = carried \o acc
          /\ acc' = <<>>
          /\ Goto("open")
          /\ UNCHANGED <<sending, outcome>>
  /\ UNCHANGED <<said, mused, call, prints, rounds, entries, refused, cancelled, linkVars, sentVars>>

(* Slip: what was carried is stored here and with the reply. *)
KeepCarried == UNCHANGED carried

DropCarried == carried' = <<>>

(* The dispatch is stored before the call is made. *)
ToolCall ==
  /\ At("toolcall")
  /\ Persist(Entry("assistant", carried \o acc, call))
  /\ DropCarried
  /\ Goto("dispatched")
  /\ UNCHANGED <<sending, outcome, said, mused, acc, truncations, call, prints,
                 rounds, entries, refused, cancelled, linkVars, sentVars>>

(* A slip: a call that was made before is counted without this one. *)
RepeatsEarlier(seq) ==
  Cardinality({i \in 1..(Len(seq) - 1) : seq[i] = seq[Len(seq)]}) >= LoopThreshold

(* detect_loop: how often the last call occurs among all of the run. *)
Repeats(seq) == Cardinality({i \in DOMAIN seq : seq[i] = seq[Len(seq)]}) >= LoopThreshold

(* The store has the dispatch; a run that goes in circles ends here and
   leaves it without a result. *)
Dispatched ==
  /\ At("dispatched") /\ writing = <<>>
  /\ prints' = Append(prints, call)
  /\ \/ /\ Repeats(Append(prints, call))
        /\ Emit(<<"error">>)
        /\ Return("LoopDetected")
        /\ UNCHANGED rounds
     \/ /\ ~Repeats(Append(prints, call))
        /\ rounds' = rounds + 1
        /\ IF rounds + 1 > MaxRounds
           THEN Emit(<<"error">>) /\ Return("LoopDetected")
           ELSE Emit(<<"tool">>) /\ Goto("exec") /\ UNCHANGED outcome
  /\ UNCHANGED <<said, mused, acc, carried, truncations, call, storeVars, cancelled, linkVars,
                 sentVars>>

(* exec_tool: the executor answers, if only because the tool timed out or saw
   the cancellation. *)
ExecTool ==
  /\ At("exec")
  /\ Emit(<<"toolend">>)
  /\ Goto("result")
  /\ UNCHANGED outcome
  /\ Quiet

(* The output is stored as text 0; it may well be empty, as that of reading an
   empty file is. *)
ToolResult ==
  /\ At("result")
  /\ \E output \in {<<>>, <<0>>} : Persist(Entry("tool", output, call))
  /\ Goto("resulted")
  /\ UNCHANGED <<sending, outcome, modelVars, entries, refused, cancelled, linkVars, sentVars>>

(* A slip: the next turn starts with the text of this one. *)
KeepText == UNCHANGED acc

DropText == acc' = <<>>

NextTurn ==
  /\ At("resulted") /\ writing = <<>>
  /\ DropText
  /\ Goto("open")
  /\ UNCHANGED <<sending, outcome, said, mused, carried, truncations, call, prints, rounds,
                 storeVars, cancelled, linkVars, sentVars>>

(* drive returns once the store has the last entry. *)
Finish ==
  /\ At("return") /\ writing = <<>>
  /\ Goto("done")
  /\ UNCHANGED <<sending, outcome>>
  /\ Quiet

(* drive: the timeout drops drive_inner wherever it waits, also while it
   sends, and announces itself; an entry in the writer's queue stays there. *)
RunTimeout ==
  /\ setup.timeout /\ pc \notin {"expired", "done"}
  /\ cancelled' = TRUE
  /\ Emit(<<"error">>)
  /\ Goto("expired")
  /\ outcome' = "Aborted"
  /\ UNCHANGED <<modelVars, storeVars, linkVars, sentVars>>

Expired ==
  /\ At("expired")
  /\ Goto("done")
  /\ UNCHANGED <<sending, outcome>>
  /\ Quiet

-------------------------------------------------------------------------------
(* The others.                                                              *)

Write ==
  /\ writing # <<>>
  /\ entries' = Append(entries, Head(writing))
  /\ writing' = Tail(writing)
  /\ UNCHANGED <<pc, sending, outcome, modelVars, refused, cancelled, linkVars, sentVars>>

(* persist only logs the failure. *)
WriteFails ==
  /\ writing # <<>> /\ refused < MaxFailures
  /\ refused' = refused + 1
  /\ writing' = Tail(writing)
  /\ UNCHANGED <<pc, sending, outcome, modelVars, entries, cancelled, linkVars, sentVars>>

(* chat.abort, or a health scan that finds the run stuck. *)
Cancel ==
  /\ ~cancelled /\ pc # "done"
  /\ cancelled' = TRUE
  /\ UNCHANGED <<pc, sending, outcome, modelVars, storeVars, linkVars, sentVars>>

ClientReads ==
  /\ link = "open" /\ outbound > 0
  /\ outbound' = outbound - 1
  /\ UNCHANGED <<setup, pc, sending, outcome, modelVars, storeVars, cancelled, link, sentVars>>

ClientCloses ==
  /\ link = "open"
  /\ link' = "closed"
  /\ outbound' = 0
  /\ UNCHANGED <<setup, pc, sending, outcome, modelVars, storeVars, cancelled, sentVars>>

(* Steps the driver takes by itself: its timers, tools and the store answer. *)
Opens == OpenSucceeds \/ OpenFails
Streams == StreamFails \/ ModelText \/ ModelReasoning \/ ModelDone \/ ModelLength
           \/ \E c \in Calls : ModelToolCall(c)
Proceeds == Begin \/ Disconnected \/ Cancelled \/ IdleTimeout \/ Streams
            \/ Completed \/ Truncated \/ ToolCall \/ Dispatched \/ ExecTool \/ ToolResult
            \/ NextTurn \/ Finish \/ Expired

Over == /\ pc = "done" /\ writing = <<>>
        /\ UNCHANGED vars

Next == Send \/ Opens \/ Proceeds \/ RunTimeout \/ Write \/ WriteFails \/ Cancel
        \/ ClientReads \/ ClientCloses \/ Over

Spec == Init /\ [][Next]_vars

(* The driver is polled, its timers fire, tools end by their timeouts and the
   writer thread works off its queue. *)
DriverFairness == WF_vars(Proceeds) /\ WF_vars(Send) /\ WF_vars(Write \/ WriteFails)

(* Two parties the daemon has no hold on: a client that reads or goes away,
   and a provider that answers a request or refuses it. *)
ClientFairness == WF_vars(ClientReads)
ProviderFairness == WF_vars(Opens)

SilentProviderSpec == Spec /\ DriverFairness /\ ClientFairness
StalledClientSpec == Spec /\ DriverFairness /\ ProviderFairness

-------------------------------------------------------------------------------
(* Properties.                                                              *)

Texts == 0..MaxDeltas
Entries == [role : {"assistant", "tool"}, text : Seq(Texts), call : Calls \cup {None}]
Labels == {"start", "open", "stream", "completed", "truncated", "toolcall", "dispatched",
           "exec", "result", "resulted", "return", "expired", "done"}
Outcomes == {"Completed", "Aborted", "Failed", "LoopDetected"}

(* Every variable has its type, the outbound queue its capacity, and the run
   keeps to its limits on tool rounds and truncated turns. *)
TypeOK ==
  /\ setup \in [detached : BOOLEAN, timeout : BOOLEAN]
  /\ pc \in Labels /\ sending \in Seq(Lifecycle \cup Inline)
  /\ outcome \in Outcomes \cup {"none"}
  /\ said \in Nat /\ mused \in Nat /\ said + mused <= MaxDeltas
  /\ acc \in Seq(Texts) /\ carried \in Seq(Texts)
  /\ truncations \in 0..(MaxContinuations + 1)
  /\ call \in Calls \cup {None} /\ prints \in Seq(Calls) /\ rounds \in 0..(MaxRounds + 1)
  /\ writing \in Seq(Entries) /\ entries \in Seq(Entries) /\ refused \in 0..MaxFailures
  /\ cancelled \in BOOLEAN /\ lost \in BOOLEAN
  /\ link \in {"open", "closed"} /\ outbound \in 0..OutCap
  /\ announced \in Seq(Lifecycle)

TextOf(e) == IF e.role = "assistant" THEN e.text ELSE <<>>
Announced(kind) == \E i \in DOMAIN announced : announced[i] = kind
Dispatch(e) == e.role = "assistant" /\ e.call # None

(* What a log's entries say, one after the other, is 1, 2, ..., n. *)
Says(log, n) ==
  /\ \A i \in DOMAIN log : \A k \in DOMAIN TextOf(log[i]) : TextOf(log[i])[k] \in 1..n
  /\ \A m \in 1..n : \E i \in DOMAIN log : \E k \in DOMAIN TextOf(log[i]) : TextOf(log[i])[k] = m
  /\ \A i, j \in DOMAIN log : \A k \in DOMAIN TextOf(log[i]), l \in DOMAIN TextOf(log[j]) :
       i < j \/ (i = j /\ k < l) => TextOf(log[i])[k] < TextOf(log[j])[l]

(* A run that completed has stored all the model said, in order and once,
   whatever came between: tool rounds, and turns cut off at the length limit,
   whose text is carried into the next entry. *)
ReplyIsKept ==
  pc = "done" /\ outcome = "Completed" /\ refused = 0 => Says(entries, said)

(* Half a sentence never becomes history: what an assistant entry without a
   call holds is the last thing the run stores, after it announced its end. *)
NoFragmentStored ==
  \A i \in DOMAIN entries :
    entries[i].role = "assistant" /\ ~Dispatch(entries[i])
      => i = Len(entries) /\ (Announced("end") \/ lost)

(* A tool's result is never stored without the dispatch it answers directly
   before it: providers refuse a history where it is. *)
ResultsFollowDispatch ==
  refused = 0 =>
    \A i \in DOMAIN entries : entries[i].role = "tool" =>
      i > 1 /\ Dispatch(entries[i - 1]) /\ entries[i - 1].call = entries[i].call

(* Not kept by the code: an empty output is not stored (see README).
   drop_orphan_tool_msgs names two ways a pair of a call and its result can
   break: the token budget, and a run that ends between the two.  So in what a
   run stores, a dispatch that is not the last entry has its result. *)
PairsStayWhole ==
  refused = 0 =>
    \A i \in DOMAIN entries : Dispatch(entries[i]) /\ i < Len(entries) =>
      entries[i + 1].role = "tool" /\ entries[i + 1].call = entries[i].call

(* What the client was told is what the run returned: End if and only if it
   completed, Error otherwise; only the run timeout may take an End back. *)
VerdictMatches ==
  pc = "done" /\ ~lost =>
    IF outcome = "Completed"
    THEN Announced("end") /\ ~Announced("error")
    ELSE Announced("error") /\ (Announced("end") => setup.timeout)

(* Going in circles is noticed in time: of no call are LOOP_REPEAT_THRESHOLD
   results stored. *)
NoCallRepeats ==
  \A c \in Calls :
    Cardinality({i \in DOMAIN entries : entries[i].role = "tool" /\ entries[i].call = c})
      < LoopThreshold

(* Every run returns, and with it the lane, as long as the provider answers
   requests and the client reads or goes away. *)
RunEnds == ProviderFairness => <>(pc = "done")

(* A lost connection ends the run it is bound to, even while the provider says
   nothing at all. *)
DisconnectEnds == (link = "closed" /\ ~setup.detached) ~> (pc = "done")

(* What a run stores and announces. *)
DriverInv ==
  /\ TypeOK /\ ReplyIsKept /\ NoFragmentStored
  /\ ResultsFollowDispatch /\ VerdictMatches /\ NoCallRepeats

(* It ends, and with it the lane is free. *)
EndsInTime == RunEnds /\ DisconnectEnds

(* Not kept by the code while the outbound queue is full (see README).
   chat.abort and the stuck-run scan release the lane: a cancelled run ends. *)
CancelReleases == cancelled ~> (pc = "done")
===============================================================================
