------------------------------ MODULE TaskLedger ------------------------------
(***************************************************************************)
(* Background processes (oc-tools/src/process.rs) and the ledger that      *)
(* follows them (oc-server/src/ledger.rs).                                 *)
(*                                                                         *)
(* The process tool starts the command, hands its output and its exit over *)
(* through a channel and answers at once; the server registers what comes  *)
(* out of the channel and one task per process follows it.  Cancelling     *)
(* ends the following, never the process.                                  *)
(***************************************************************************)
EXTENDS Naturals, Sequences, SequencesExt

CONSTANT Tasks   \* the processes that may be started, by their task ids

VARIABLES
  process,  \* a background process: "none", "running", "stuck" on a full pipe, "ok", "bad"
  handoff,  \* the channel between the tool and the ledger
  ledger,   \* TaskEntry.state, "none" without an entry
  follower, \* the task that follows a process: "none", "output" or "gone"
  revoked,  \* tasks whose cancellation token has fired
  pushed    \* Task events pushed to the bus, by task

ledgerVars == <<process, handoff, ledger, follower, revoked, pushed>>

Exited == {"ok", "bad"}
Final == {"done", "failed", "cancelled"}

LedgerInit ==
  /\ process = [t \in Tasks |-> "none"]
  /\ handoff = <<>>
  /\ ledger = [t \in Tasks |-> "none"]
  /\ follower = [t \in Tasks |-> "none"]
  /\ revoked = {}
  /\ pushed = [t \in Tasks |-> <<>>]

(* ProcessTool::invoke: spawn_background, then the handoff. *)
Spawn(t) ==
  /\ process[t] = "none"
  /\ process' = [process EXCEPT ![t] = "running"]
  /\ handoff' = Append(handoff, t)
  /\ UNCHANGED <<ledger, follower, revoked, pushed>>

(* set_state with its event; emit. *)
SetState(t, s) ==
  /\ ledger' = [ledger EXCEPT ![t] = s]
  /\ pushed' = [pushed EXCEPT ![t] = Append(@, s)]

(* TaskLedger::register. *)
Register ==
  /\ handoff # <<>>
  /\ LET t == Head(handoff)
     IN  /\ SetState(t, "running")
         /\ follower' = [follower EXCEPT ![t] = "output"]
  /\ handoff' = Tail(handoff)
  /\ UNCHANGED <<process, revoked>>

(* TaskLedger::cancel: answers whether there is an entry, whatever its state. *)
CancelTask(t) ==
  /\ ledger[t] # "none" /\ t \notin revoked
  /\ revoked' = revoked \cup {t}
  /\ UNCHANGED <<process, handoff, ledger, follower, pushed>>

(* The select over the token and the output. *)
SeesRevoked(t) ==
  /\ follower[t] = "output" /\ t \in revoked
  /\ SetState(t, "cancelled")
  /\ follower' = [follower EXCEPT ![t] = "gone"]
  /\ UNCHANGED <<process, handoff, revoked>>

(* A slip: a process that fails counts as done. *)
ExitStateAny(code) == "done"

ExitState(code) == IF code = "ok" THEN "done" ELSE "failed"

(* The reader keeps its end of the output channel until it has sent the exit
   code, so both are there at once. *)
SeesExit(t) ==
  /\ follower[t] = "output" /\ process[t] \in Exited
  /\ SetState(t, ExitState(process[t]))
  /\ follower' = [follower EXCEPT ![t] = "gone"]
  /\ UNCHANGED <<process, handoff, revoked>>

(* The process ends, or blocks: its error output is a pipe nobody reads. *)
ProcessEnds(t) ==
  /\ process[t] = "running"
  /\ \E e \in Exited \cup {"stuck"} : process' = [process EXCEPT ![t] = e]
  /\ UNCHANGED <<handoff, ledger, follower, revoked, pushed>>

LedgerNext ==
  \/ Register
  \/ \E t \in Tasks : CancelTask(t) \/ SeesRevoked(t) \/ SeesExit(t) \/ ProcessEnds(t)

(* The receiver of the channel and the followers are tasks of the daemon;
   processes and the user owe nothing. *)
LedgerFairness ==
  /\ WF_ledgerVars(Register)
  /\ \A t \in Tasks : WF_ledgerVars(SeesRevoked(t) \/ SeesExit(t))

(* unfinished_count. *)
Unfinished == {t \in Tasks : ledger[t] = "running"}

LedgerTypeOK ==
  /\ process \in [Tasks -> {"none", "running", "stuck"} \cup Exited]
  /\ handoff \in Seq(Tasks)
  /\ ledger \in [Tasks -> {"none", "running"} \cup Final]
  /\ follower \in [Tasks -> {"none", "output", "gone"}]
  /\ revoked \subseteq Tasks
  /\ pushed \in [Tasks -> Seq({"running"} \cup Final)]

(* What the ledger says of a task is what happened to it: one event when it is
   registered and one when it is over, the last of them the entry's state; it
   counts as unfinished exactly as long as somebody follows it; "done" and
   "failed" are the exit code, "cancelled" was asked for, and a process that
   nobody follows is one still in the channel or one that was cancelled. *)
LedgerTellsTruth ==
  \A t \in Tasks :
    /\ pushed[t] = CASE ledger[t] = "none" -> <<>>
                     [] ledger[t] = "running" -> <<"running">>
                     [] OTHER -> <<"running", ledger[t]>>
    /\ (t \in Unfinished) <=> (follower[t] = "output")
    /\ ledger[t] = "done" => process[t] = "ok"
    /\ ledger[t] = "failed" => process[t] = "bad"
    /\ ledger[t] = "cancelled" => t \in revoked
    /\ (process[t] # "none" /\ ledger[t] = "none") <=> Contains(handoff, t)
===============================================================================
