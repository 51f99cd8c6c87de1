------------------------------ MODULE ToolBridge ------------------------------
(***************************************************************************)
(* The tool calls of a run (ToolExecutor::run in                           *)
(* oc-server/src/tools_bridge.rs) with the tools that wait for somebody:   *)
(* exec, which may ask for approval, ask_user, and process, which leaves a *)
(* background task to the ledger.                                          *)
(*                                                                         *)
(* A call is four tasks.  The driver waits for the tool under the tool's   *)
(* timeout; the gate's pump registers the prompt, sends it and waits for   *)
(* an answer; the update pump forwards what the tool emits; and the client *)
(* answers through the registry of pending prompts (state.rs), maybe late, *)
(* twice or never.  Aborting a pump takes effect at its next await, so it  *)
(* may still finish a step; its guard takes the prompt out of the registry *)
(* when it is dropped.                                                     *)
(***************************************************************************)
EXTENDS TaskLedger, FiniteSets

CONSTANTS
  Setups,       \* configurations of the run: see AllSetups
  Risks,        \* the risk classes of the commands: of RiskClass
  MaxCalls,     \* bound: tool calls of the run
  MaxFailures   \* bound: calls that fail before they do anything

AllSetups == [detached : BOOLEAN, mode : {"Prompt", "Allow", "Deny"}, limit : BOOLEAN]

ASSUME BridgeAssumption ==
  /\ Setups \subseteq AllSetups
  /\ Risks \subseteq {"Safe", "NeedsApproval", "Blocked"}
  /\ MaxCalls \in Nat \ {0} /\ MaxFailures \in Nat
  /\ Tasks = 1..MaxCalls       \* a call starts at most one process

Calls == 1..MaxCalls

VARIABLES
  setup,     \* Detached sink?  approval mode, and whether approval_timeout is not 0
  current,   \* the call the driver is at
  request,   \* what the model asked for: the tool, and the command's risk
  tool,      \* the tool's future: "new", "asking", "allowed", "running", "returned", "dropped"
  result,    \* what run() returned: "none" before that
  pump,      \* the gate's pump: "none", "asked", "sending", "waiting", "gone"
  aborted,   \* calls whose pumps have been aborted
  pending,   \* prompts in the registry of ServerState
  shown,     \* prompts the client has received
  reply,     \* answer sent into a prompt's channel: "none", "yes", "no"
  verdict,   \* what the pump told the gate: "none", "allow", "deny"
  child,     \* the command of a call: "none", "running", "exited"
  emitted,   \* updates of a call still in its channel
  forwarded, \* updates of a call handed to the sink
  cancelled, \* the run's cancellation token has fired
  causes,    \* why: "user", "link" or "timeout"
  link       \* the client's connection: "open", "closed"

toolVars == <<current, request, tool, result, child>>
gateVars == <<pump, aborted, pending, shown, reply, verdict>>
sinkVars == <<emitted, forwarded>>
runVars  == <<cancelled, causes, link>>
vars == <<setup, toolVars, gateVars, sinkVars, runVars, ledgerVars>>

Requests == [kind : {"exec"}, risk : Risks] \cup [kind : {"ask", "process"}, risk : {"Safe"}]

(* approval_decision. *)
Decision(risk, mode) ==
  CASE mode = "Allow" -> "Execute"
    [] mode = "Deny" -> "Reject"
    [] mode = "Prompt" /\ risk = "Safe" -> "Execute"
    [] mode = "Prompt" /\ risk # "Safe" -> "AskUser"

Decided(c) == Decision(request[c].risk, setup.mode)

Init ==
  /\ setup \in Setups
  /\ current = 1
  /\ request \in [Calls -> Requests]
  /\ tool = [c \in Calls |-> "new"] /\ result = [c \in Calls |-> "none"]
  /\ pump = [c \in Calls |-> "none"] /\ aborted = {}
  /\ pending = {} /\ shown = {}
  /\ reply = [c \in Calls |-> "none"] /\ verdict = [c \in Calls |-> "none"]
  /\ child = [c \in Calls |-> "none"]
  /\ emitted = [c \in Calls |-> 0] /\ forwarded = [c \in Calls |-> 0]
  /\ cancelled = FALSE /\ causes = {} /\ link = "open"
  /\ LedgerInit

-------------------------------------------------------------------------------
(* The driver and the tool's future.                                        *)

Cancel(why) == cancelled' = TRUE /\ causes' = causes \cup {why}

Becomes(c, where) == tool' = [tool EXCEPT ![c] = where]
Updates(c, n) == emitted' = [emitted EXCEPT ![c] = @ + n]

(* The tail of run(): the pumps are aborted whatever the tool returned. *)
Return(c, r) ==
  /\ Becomes(c, "returned")
  /\ result' = [result EXCEPT ![c] = r]
  /\ aborted' = aborted \cup {c}

QuietGate == UNCHANGED <<pump, pending, shown, reply, verdict>>
QuietRun == UNCHANGED <<setup, current, request, runVars>>

Next1(c) == current = c /\ tool[c] = "new"

(* An unknown tool, or arguments that do not parse. *)
Unusable(c) ==
  /\ Next1(c)
  /\ Cardinality({d \in Calls : pump[d] = "none" /\ tool[d] = "returned"}) < MaxFailures
  /\ Becomes(c, "returned")
  /\ result' = [result EXCEPT ![c] = "error"]
  /\ UNCHANGED <<child, aborted, sinkVars, ledgerVars>> /\ QuietGate /\ QuietRun

(* ApprovalGate::ask and InputGate::ask queue a request with the pump. *)
Ask(c) ==
  /\ Next1(c)
  /\ \/ request[c].kind = "ask"
     \/ request[c].kind = "exec" /\ Decided(c) = "AskUser"
  /\ Becomes(c, "asking")
  /\ pump' = [pump EXCEPT ![c] = "asked"]
  /\ UNCHANGED <<result, child, aborted, pending, shown, reply, verdict,
                 sinkVars, ledgerVars>> /\ QuietRun

Reject(c) ==
  /\ Next1(c)
  /\ request[c].kind = "exec" /\ Decided(c) = "Reject"
  /\ Return(c, "denied")
  /\ UNCHANGED <<child, sinkVars, ledgerVars>> /\ QuietGate /\ QuietRun

(* The command is announced before the select over token and command. *)
Proceed(c) ==
  /\ request[c].kind = "exec"
  /\ \/ Next1(c) /\ Decided(c) = "Execute"
     \/ tool[c] = "asking" /\ verdict[c] = "allow"
  /\ Becomes(c, "allowed")
  /\ Updates(c, 1)
  /\ UNCHANGED <<result, child, aborted, forwarded, ledgerVars>> /\ QuietGate /\ QuietRun

(* The select polls its branches in any order: a token that has fired does
   not keep the command from being started. *)
StartCommand(c) ==
  /\ tool[c] = "allowed"
  /\ \/ /\ Becomes(c, "running")
        /\ child' = [child EXCEPT ![c] = "running"]
        /\ UNCHANGED <<result, aborted>>
     \/ Return(c, "error") /\ UNCHANGED child
  /\ UNCHANGED <<sinkVars, ledgerVars>> /\ QuietGate /\ QuietRun

(* run_command collects the output and emits it in one piece. *)
CommandDone(c) ==
  /\ tool[c] = "running" /\ child[c] = "exited"
  /\ \E n \in {0, 1} : Updates(c, n)
  /\ \E r \in {"ok", "error"} : Return(c, r)
  /\ UNCHANGED <<child, forwarded, ledgerVars>> /\ QuietGate /\ QuietRun

(* ProcessTool::invoke. *)
StartProcess(c) ==
  /\ Next1(c)
  /\ request[c].kind = "process"
  /\ Spawn(c)
  /\ Return(c, "ok")
  /\ UNCHANGED <<child, sinkVars>> /\ QuietGate /\ QuietRun

(* A slip: a gate that gives up waiting lets the command through. *)
GaveUpAllows(c) == verdict' = [verdict EXCEPT ![c] = "allow"] /\ UNCHANGED <<tool, result, aborted>>

(* ask() gave up: the command is denied. *)
GaveUp(c) == Return(c, "denied") /\ UNCHANGED verdict

(* approval_timeout, if there is one. *)
ApprovalTimeout(c) ==
  /\ tool[c] = "asking" /\ request[c].kind = "exec" /\ setup.limit
  /\ GaveUp(c)
  /\ UNCHANGED <<child, pump, pending, shown, reply, sinkVars, ledgerVars>>
  /\ QuietRun

(* The pump's answer, or its end, reaches the gate.  Without an answer
   ask_user tells the model so. *)
Answered(c) ==
  /\ tool[c] = "asking"
  /\ \/ verdict[c] # "none" /\ (request[c].kind = "ask" \/ verdict[c] = "deny")
     \/ verdict[c] = "none" /\ pump[c] = "gone"
  /\ Return(c, IF request[c].kind = "ask" THEN "ok" ELSE "denied")
  /\ UNCHANGED <<child, sinkVars, ledgerVars>> /\ QuietGate /\ QuietRun

(* A slip: while it asks, the tool does not look at the token. *)
LooksAtTokenLess(c) == tool[c] \in {"allowed", "running"}

LooksAtToken(c) == tool[c] \in {"asking", "allowed", "running"}

(* The token: the command, if it was started, goes on (no kill_on_drop). *)
SeesCancel(c) ==
  /\ cancelled /\ LooksAtToken(c)
  /\ Return(c, "aborted")
  /\ UNCHANGED <<child, sinkVars, ledgerVars>> /\ QuietGate /\ QuietRun

(* policy().timeout around the whole invocation, waiting for approval
   included; for exec it is the command's own timeout too. *)
ToolTimeout(c) ==
  /\ tool[c] \in {"asking", "running"}
  /\ Return(c, "timeout")
  /\ UNCHANGED <<child, sinkVars, ledgerVars>> /\ QuietGate /\ QuietRun

(* exec_tool's tool(end), then the model's next turn: a run that is cancelled
   ends there. *)
EndCall(c) ==
  /\ current = c /\ tool[c] = "returned"
  /\ current' = IF cancelled THEN MaxCalls + 1 ELSE c + 1
  /\ UNCHANGED <<setup, request, tool, result, child, sinkVars, runVars, ledgerVars, gateVars>>

(* A slip: the driver is dropped and the token left alone. *)
ExpireKeepsToken == UNCHANGED <<cancelled, causes>>

ExpireToken == Cancel("timeout")

(* run_timeout drops the driver and with it run(): nobody aborts the pumps,
   but they see the token. *)
RunTimeout(c) ==
  /\ current = c /\ tool[c] \in {"asking", "allowed", "running"}
  /\ ExpireToken
  /\ Becomes(c, "dropped")
  /\ current' = MaxCalls + 1
  /\ UNCHANGED <<setup, request, result, child, link, gateVars, sinkVars, ledgerVars>>

-------------------------------------------------------------------------------
(* The gate's pump: request_approval and request_input.                     *)

Pumping(c, where) == pump' = [pump EXCEPT ![c] = where]

(* The prompt is registered before it is sent, so that no answer is early. *)
PumpRegisters(c) ==
  /\ pump[c] = "asked"
  /\ Pumping(c, "sending")
  /\ pending' = pending \cup {c}
  /\ UNCHANGED <<setup, toolVars, aborted, shown, reply, verdict, sinkVars, runVars,
                 ledgerVars>>

(* The result of the send is ignored: of a closed connection the select that
   follows hears. *)
PumpSends(c) ==
  /\ pump[c] = "sending"
  /\ Pumping(c, "waiting")
  /\ shown' = IF link = "open" THEN shown \cup {c} ELSE shown
  /\ UNCHANGED <<setup, toolVars, aborted, pending, reply, verdict, sinkVars, runVars,
                 ledgerVars>>

(* Dropping the guard. *)
Release(c) == pending' = pending \ {c}

PumpAnswers(c, v) ==
  /\ Pumping(c, "gone")
  /\ Release(c)
  /\ verdict' = [verdict EXCEPT ![c] = v]
  /\ UNCHANGED <<setup, toolVars, aborted, shown, reply, sinkVars, ledgerVars>>

PumpSeesReply(c) ==
  /\ pump[c] = "waiting" /\ reply[c] # "none"
  /\ PumpAnswers(c, IF reply[c] = "yes" THEN "allow" ELSE "deny")
  /\ UNCHANGED runVars

PumpSeesCancel(c) ==
  /\ pump[c] = "waiting" /\ cancelled
  /\ PumpAnswers(c, "deny")
  /\ UNCHANGED runVars

(* RunSink::closed and closed_interactive: an approval of a Detached run waits
   on, for its answer may come through another connection. *)
SeesClosed(c) == link = "closed" /\ (setup.detached => request[c].kind = "ask")

(* A slip: a reloading page cancels its run. *)
ClosedAlwaysCancels(c) == Cancel("link")

ClosedCancels(c) ==
  IF setup.detached THEN UNCHANGED <<cancelled, causes>> ELSE Cancel("link")

PumpSeesClosed(c) ==
  /\ pump[c] = "waiting" /\ SeesClosed(c)
  /\ PumpAnswers(c, "deny")
  /\ ClosedCancels(c)
  /\ UNCHANGED link

(* The gate was dropped: nobody asks this pump any more. *)
PumpIsAborted(c) ==
  /\ c \in aborted /\ pump[c] \in {"asked", "sending", "waiting"}
  /\ Pumping(c, "gone")
  /\ Release(c)
  /\ UNCHANGED <<setup, toolVars, aborted, shown, reply, verdict, sinkVars, runVars,
                 ledgerVars>>

-------------------------------------------------------------------------------
(* The update pump, the client and the command.                             *)

Forward(c) ==
  /\ emitted[c] > 0
  /\ emitted' = [emitted EXCEPT ![c] = @ - 1]
  /\ forwarded' = [forwarded EXCEPT ![c] = @ + 1]
  /\ UNCHANGED <<setup, toolVars, gateVars, runVars, ledgerVars>>

(* pump.abort(): what is still in the channel is lost. *)
UpdatesAborted(c) ==
  /\ c \in aborted /\ emitted[c] > 0
  /\ emitted' = [emitted EXCEPT ![c] = 0]
  /\ UNCHANGED <<setup, toolVars, forwarded, gateVars, runVars, ledgerVars>>

(* resolve_approval, resolve_input: taken out of the registry first, so that
   a second answer finds nothing.  A page that reloaded answers through
   another connection, a terminal does not. *)
ClientAnswers(c) ==
  /\ c \in shown /\ (link = "open" \/ setup.detached)
  /\ c \in pending
  /\ pending' = pending \ {c}
  /\ \E a \in {"yes", "no"} : reply' = [reply EXCEPT ![c] = a]
  /\ UNCHANGED <<setup, toolVars, pump, aborted, shown, verdict, sinkVars, runVars, ledgerVars>>

CommandExits(c) ==
  /\ child[c] = "running"
  /\ child' = [child EXCEPT ![c] = "exited"]
  /\ UNCHANGED <<setup, current, request, tool, result, gateVars, sinkVars, runVars, ledgerVars>>

(* chat.abort or the stuck-run scan. *)
UserAborts ==
  /\ ~cancelled /\ current \in Calls
  /\ Cancel("user")
  /\ UNCHANGED <<setup, toolVars, gateVars, sinkVars, link, ledgerVars>>

LinkCloses ==
  /\ link = "open"
  /\ link' = "closed"
  /\ UNCHANGED <<setup, toolVars, gateVars, sinkVars, cancelled, causes, ledgerVars>>

Ledger == LedgerNext /\ UNCHANGED <<setup, toolVars, gateVars, sinkVars, runVars>>

ToolStep(c) == \/ Unusable(c) \/ Ask(c) \/ Reject(c) \/ Proceed(c) \/ StartCommand(c)
               \/ CommandDone(c) \/ StartProcess(c) \/ Answered(c) \/ SeesCancel(c) \/ EndCall(c)
PumpStep(c) == \/ PumpRegisters(c) \/ PumpSeesReply(c) \/ PumpSeesCancel(c)
               \/ PumpSeesClosed(c) \/ PumpIsAborted(c)

Next == \/ \E c \in Calls :
             \/ ToolStep(c) \/ ApprovalTimeout(c) \/ ToolTimeout(c) \/ RunTimeout(c)
             \/ PumpStep(c) \/ PumpSends(c) \/ Forward(c) \/ UpdatesAborted(c)
             \/ ClientAnswers(c) \/ CommandExits(c)
        \/ UserAborts \/ LinkCloses \/ Ledger

Spec == Init /\ [][Next]_vars

(* The tasks of the daemon are polled, and a send returns once its connection
   is closed or the pump is aborted.  No timer, client or command owes
   anything here: what follows does not lean on a timeout. *)
Fairness ==
  /\ \A c \in Calls :
       /\ WF_vars(ToolStep(c))
       /\ WF_vars(PumpStep(c))
       /\ WF_vars(link = "closed" /\ PumpSends(c))
  /\ WF_vars(Register /\ Ledger)
  /\ \A t \in Tasks : WF_vars((SeesRevoked(t) \/ SeesExit(t)) /\ Ledger)

FairSpec == Spec /\ Fairness

-------------------------------------------------------------------------------
(* Properties.                                                              *)

TypeOK ==
  /\ setup \in Setups
  /\ current \in 1..(MaxCalls + 1)
  /\ request \in [Calls -> Requests]
  /\ tool \in [Calls -> {"new", "asking", "allowed", "running", "returned", "dropped"}]
  /\ result \in [Calls -> {"none", "ok", "error", "denied", "aborted", "timeout"}]
  /\ pump \in [Calls -> {"none", "asked", "sending", "waiting", "gone"}]
  /\ aborted \subseteq Calls /\ pending \subseteq Calls /\ shown \subseteq Calls
  /\ reply \in [Calls -> {"none", "yes", "no"}]
  /\ verdict \in [Calls -> {"none", "allow", "deny"}]
  /\ child \in [Calls -> {"none", "running", "exited"}]
  /\ emitted \in [Calls -> 0..2] /\ forwarded \in [Calls -> 0..2]
  /\ cancelled \in BOOLEAN /\ causes \subseteq {"user", "link", "timeout"}
  /\ link \in {"open", "closed"}
  /\ LedgerTypeOK

(* A command that needs approval runs only if its own prompt was answered with
   yes while it was pending: not by a timeout, a closed connection, an abort,
   or the answer to another call; and one whose call was denied never ran. *)
ConsentComesFirst ==
  \A c \in Calls : child[c] # "none" =>
    /\ Decided(c) # "Reject"
    /\ Decided(c) = "AskUser" => reply[c] = "yes"
    /\ result[c] # "denied"

(* A run is cancelled by somebody who meant it: its user, its run timeout, or
   a terminal that went away.  A page that reloads, also while it is being
   asked something, never cancels its run. *)
ReloadIsNoAbort ==
  cancelled => causes # {} /\ ("link" \in causes => link = "closed" /\ ~setup.detached)

(* A prompt is registered exactly while a pump holds its guard and nobody has
   answered it. *)
PendingHasPump ==
  \A c \in Calls : (c \in pending) <=> (pump[c] \in {"sending", "waiting"} /\ reply[c] = "none")

(* tools_bridge.rs, ledger.rs: the prompts, the run and the ledger never tell different stories. *)
BridgeInv == TypeOK /\ PendingHasPump /\ LedgerTellsTruth /\ ReloadIsNoAbort

(* An abort ends a tool wherever it waits, for a person or for a command, and
   with no timer to help; a terminal that closes ends a call that is asking,
   and so does a page that closes if the question was ask_user's. *)
AbortFrees ==
  \A c \in Calls :
    /\ (cancelled /\ tool[c] \in {"asking", "running"}) ~> tool[c] \in {"returned", "dropped"}
    /\ (tool[c] = "asking" /\ SeesClosed(c)) ~> tool[c] # "asking"

(* The registry does not grow with the daemon's age: the prompt of a call that
   is over, by a timeout, an abort or a dropped run, is removed.  (The pump of
   a dropped run that is still sending into a full queue waits for room.) *)
PromptsAreRemoved ==
  \A c \in Calls :
    (c \in pending /\ (c \in aborted \/ (tool[c] = "dropped" /\ pump[c] = "waiting")))
      ~> c \notin pending

(* What tools_bridge.rs:256 says of updates: they are not lost. *)
UpdatesArrive ==
  [][\A c \in Calls : emitted'[c] < emitted[c] => forwarded'[c] > forwarded[c]]_vars
===============================================================================
