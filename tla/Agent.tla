---------------------------------- MODULE Agent ----------------------------------
(***************************************************************************)
(* The state machine of a run (oc-core agent.rs) with the text that        *)
(* run.rs keeps for it: whatever order the model, the tools, the user and  *)
(* the network speak in, it says what is to be done next.                  *)
(*                                                                         *)
(* An effect is what is to be done and the text it is done with; a text is *)
(* a sequence of pieces.                                                   *)
(***************************************************************************)
EXTENDS Integers, SequencesExt

(* StepEvent: what a run can hear. *)
Signals == {"start", "text", "tool_call", "done", "length", "error", "abort", "tool_result"}

(* RunState, RunOutcome, and acc, the text of the present turn. *)
Fresh == [state |-> "idle", outcome |-> "", acc |-> <<>>, effects |-> <<>>]

Does(r, what, text) == [r EXCEPT !.effects = Append(@, [what |-> what, text |-> text])]
Ends(r, outcome) == [r EXCEPT !.state = "terminal", !.outcome = outcome]

Receiving(r) == r.state \in {"awaiting_model", "streaming"}

(* A slip: a run that has ended can be aborted and can fail. *)
Stoppable(r) == TRUE
Live(r) == r.state # "terminal"

Start(r) == Does(Does([r EXCEPT !.state = "awaiting_model"], "start", <<>>), "call_model", <<>>)

(* EmitAssistant: run.rs adds the piece to acc. *)
Text(r, piece) ==
  Does([r EXCEPT !.state = "streaming", !.acc = Append(@, piece)], "assistant", <<piece>>)

(* A slip: an answer cut off by its length is not kept. *)
EndOfCut(r, why) == Does(IF why = "done" THEN Does(Ends(r, "completed"), "persist", r.acc)
                         ELSE Ends(r, "completed"), "end", <<>>)
Complete(r, why) == Does(Does(Ends(r, "completed"), "persist", r.acc), "end", <<>>)

(* ExecTool; run.rs stores the text of the turn with the call. *)
ToolCall(r) == Does([r EXCEPT !.state = "awaiting_tool"], "exec_tool", r.acc)

(* A slip: the next turn still holds the text of this one. *)
ResultKeepsText(r) == Does([r EXCEPT !.state = "awaiting_model"], "call_model", <<>>)
ToolResult(r) == Does([r EXCEPT !.state = "awaiting_model", !.acc = <<>>], "call_model", <<>>)

Stop(r, outcome) == Does(Ends(r, outcome), "error", <<>>)

(* step: anything else leaves the run as it is. *)
Step(r, signal, piece) ==
  CASE signal = "start" /\ r.state = "idle" -> Start(r)
    [] signal = "text" /\ Receiving(r) -> Text(r, piece)
    [] signal \in {"done", "length"} /\ Receiving(r) -> Complete(r, signal)
    [] signal = "tool_call" /\ Receiving(r) -> ToolCall(r)
    [] signal = "tool_result" /\ r.state = "awaiting_tool" -> ToolResult(r)
    [] signal = "abort" /\ Live(r) -> Stop(r, "aborted")
    [] signal = "error" /\ Live(r) -> Stop(r, "failed")
    [] OTHER -> r

(* The run after a sequence of signals; a piece of text is its position. *)
After(signals) ==
  FoldLeft(LAMBDA r, i : Step(r, signals[i], i), Fresh, [i \in DOMAIN signals |-> i])

-------------------------------------------------------------------------------
(* What is promised.                                                         *)

Where(r, kinds) == {i \in DOMAIN r.effects : r.effects[i].what \in kinds}

(* The pieces shown to the client between two positions. *)
Shown(r, from, to) ==
  FoldLeft(LAMBDA text, e : IF e.what = "assistant" THEN text \o e.text ELSE text, <<>>,
           SubSeq(r.effects, from, to))

(* agent.rs step: the client hears of exactly one end, after which a run does nothing more, and
   only if it has ended; the model and the tools take turns, each asked once; and what is kept
   of a turn is what was shown of it, all of it and nothing of another turn. *)
RunsEndOnce(signals) ==
  LET r == After(signals)
      ends == Where(r, {"end", "error"})
      calls == Where(r, {"call_model"})
  IN  /\ r.state = "terminal" <=> ends = {Len(r.effects)}
      /\ r.state # "terminal" <=> ends = {}
      /\ \A i \in Where(r, {"persist"}) : i + 1 = Len(r.effects) /\ r.outcome = "completed"
      /\ r.outcome = "completed" => Where(r, {"persist"}) # {}
      /\ \A i \in Where(r, {"persist", "exec_tool"}) : \E c \in calls :
           /\ c < i /\ Where(r, {"call_model", "exec_tool"}) \cap (c + 1)..(i - 1) = {}
           /\ r.effects[i].text = Shown(r, c, i)
===============================================================================
