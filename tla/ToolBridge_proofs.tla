--------------------------- MODULE ToolBridge_proofs ---------------------------
(***************************************************************************)
(* Proofs about ToolBridge: BridgeInv and ConsentComesFirst hold of every  *)
(* number of calls, every setup and every risk.                            *)
(***************************************************************************)
EXTENDS ToolBridge, SequenceTheorems, TLAPS

-------------------------------------------------------------------------------
(* The inductive invariant.                                                *)

Tools == {"new", "asking", "allowed", "running", "returned", "dropped"}
Results == {"none", "ok", "error", "denied", "aborted", "timeout"}
Pumps == {"none", "asked", "sending", "waiting", "gone"}

(* The types, but for the bound of the updates. *)
Types ==
  /\ setup \in AllSetups
  /\ current \in 1..(MaxCalls + 1)
  /\ request \in [Calls -> Requests]
  /\ tool \in [Calls -> Tools] /\ result \in [Calls -> Results]
  /\ pump \in [Calls -> Pumps]
  /\ aborted \subseteq Calls /\ pending \subseteq Calls /\ shown \subseteq Calls
  /\ reply \in [Calls -> {"none", "yes", "no"}]
  /\ verdict \in [Calls -> {"none", "allow", "deny"}]
  /\ child \in [Calls -> {"none", "running", "exited"}]
  /\ cancelled \in BOOLEAN /\ causes \subseteq {"user", "link", "timeout"}
  /\ link \in {"open", "closed"}

(* How many updates a call has emitted where it stands: the announcement of its
   command, and what the command printed. *)
UpdatesOf(where) == CASE where \in {"new", "asking"} -> 0
                      [] where \in {"allowed", "running"} -> 1
                      [] where \in {"returned", "dropped"} -> 2

UpdatesBounded ==
  /\ emitted \in [Calls -> Nat] /\ forwarded \in [Calls -> Nat]
  /\ \A c \in Calls : emitted[c] + forwarded[c] <= UpdatesOf(tool[c])

(* A pump is asked once, by a call that is no longer new, and has told its gate
   something only when it is gone. *)
PumpServesOnce ==
  \A c \in Calls :
    /\ tool[c] = "new" => pump[c] = "none"
    /\ pump[c] \in {"none", "asked"} => reply[c] = "none"
    /\ verdict[c] # "none" => pump[c] = "gone"
    /\ verdict[c] = "allow" => reply[c] = "yes"

(* A command gets past its gate only if nobody has to be asked, or was. *)
GateIsPassed(c) ==
  /\ request[c].kind = "exec" /\ Decided(c) # "Reject"
  /\ Decided(c) = "AskUser" => reply[c] = "yes"

Consent ==
  \A c \in Calls :
    /\ tool[c] = "asking" /\ request[c].kind = "exec" => Decided(c) = "AskUser"
    /\ tool[c] \in {"allowed", "running"} \/ child[c] # "none" => GateIsPassed(c)
    /\ tool[c] \in {"new", "asking", "allowed"} => child[c] = "none"
    /\ tool[c] # "returned" => result[c] = "none"
    /\ child[c] # "none" => result[c] # "denied"

CausesAreTrue ==
  /\ cancelled => causes # {}
  /\ "link" \in causes => link = "closed" /\ ~setup.detached

(* No process is handed over twice, and none is known to the ledger before it
   was started. *)
HandoffIsOnce ==
  /\ \A i, j \in 1..Len(handoff) : handoff[i] = handoff[j] => i = j
  /\ \A t \in Tasks : process[t] = "none" => ledger[t] = "none"

LedgerIInv == LedgerTypeOK /\ LedgerTellsTruth /\ HandoffIsOnce

GateIInv == PendingHasPump /\ PumpServesOnce /\ Consent /\ CausesAreTrue

IInv == Types /\ setup \in Setups /\ UpdatesBounded /\ GateIInv /\ LedgerIInv

-------------------------------------------------------------------------------
(* Types.                                                                  *)

LEMMA TypesOfReturn ==
  ASSUME Types, NEW c \in Calls, NEW r \in Results, Return(c, r)
  PROVE  tool' \in [Calls -> Tools] /\ result' \in [Calls -> Results] /\ aborted' \subseteq Calls
BY DEF Types, Return, Becomes, Tools, Results

(* A step of the tool that leaves gate and run alone. *)
LEMMA TypesOfTool ==
  ASSUME Types, QuietGate, QuietRun,
         tool' \in [Calls -> Tools], result' \in [Calls -> Results], aborted' \subseteq Calls,
         child' \in [Calls -> {"none", "running", "exited"}]
  PROVE  Types'
BY DEF Types, QuietGate, QuietRun, runVars

LEMMA TypesOfToolStep ==
  ASSUME Types, NEW c \in Calls, ToolStep(c)
  PROVE  Types'
<1>1. CASE Unusable(c)
  <2>1. tool' \in [Calls -> Tools] /\ result' \in [Calls -> Results]
    BY <1>1 DEF Unusable, Types, Becomes, Tools, Results
  <2> QED BY <1>1, <2>1, TypesOfTool DEF Unusable, Types
<1>2. CASE Ask(c)
  BY <1>2 DEF Ask, Types, Becomes, QuietRun, runVars, Tools, Pumps
<1>3. CASE Reject(c)
  <2>1. Return(c, "denied") /\ UNCHANGED child /\ QuietGate /\ QuietRun
    BY <1>3 DEF Reject
  <2> QED BY <2>1, TypesOfReturn, TypesOfTool DEF Types, Results
<1>4. CASE Proceed(c)
  <2>1. tool' \in [Calls -> Tools]
    BY <1>4 DEF Proceed, Types, Becomes, Tools
  <2> QED BY <1>4, <2>1, TypesOfTool DEF Proceed, Types
<1>5. CASE StartCommand(c)
  <2>1. CASE Return(c, "error") /\ UNCHANGED child
    BY <1>5, <2>1, TypesOfReturn, TypesOfTool DEF StartCommand, Types, Results
  <2>2. CASE /\ Becomes(c, "running") /\ child' = [child EXCEPT ![c] = "running"]
             /\ UNCHANGED <<result, aborted>>
    <3>1. tool' \in [Calls -> Tools] /\ child' \in [Calls -> {"none", "running", "exited"}]
      BY <2>2 DEF Types, Becomes, Tools
    <3> QED BY <1>5, <2>2, <3>1, TypesOfTool DEF StartCommand, Types
  <2> QED BY <1>5, <2>1, <2>2 DEF StartCommand
<1>6. CASE CommandDone(c)
  <2>1. PICK r \in {"ok", "error"} : Return(c, r)
    BY <1>6 DEF CommandDone
  <2> QED BY <1>6, <2>1, TypesOfReturn, TypesOfTool DEF CommandDone, Types, Results
<1>7. CASE StartProcess(c)
  <2>1. Return(c, "ok") /\ UNCHANGED child /\ QuietGate /\ QuietRun
    BY <1>7 DEF StartProcess
  <2> QED BY <2>1, TypesOfReturn, TypesOfTool DEF Types, Results
<1>8. CASE Answered(c)
  <2>1. /\ Return(c, "ok") \/ Return(c, "denied")
        /\ UNCHANGED child /\ QuietGate /\ QuietRun
    BY <1>8 DEF Answered
  <2> QED BY <2>1, TypesOfReturn, TypesOfTool DEF Types, Results
<1>9. CASE SeesCancel(c)
  <2>1. Return(c, "aborted") /\ UNCHANGED child /\ QuietGate /\ QuietRun
    BY <1>9 DEF SeesCancel
  <2> QED BY <2>1, TypesOfReturn, TypesOfTool DEF Types, Results
<1>10. CASE EndCall(c)
  <2>1. current' \in 1..(MaxCalls + 1)
    BY <1>10, BridgeAssumption DEF EndCall, Calls
  <2> QED BY <1>10, <2>1 DEF EndCall, Types, runVars, gateVars
<1> QED BY <1>1, <1>2, <1>3, <1>4, <1>5, <1>6, <1>7, <1>8, <1>9, <1>10 DEF ToolStep

LEMMA TypesOfTimers ==
  ASSUME Types, NEW c \in Calls, ApprovalTimeout(c) \/ ToolTimeout(c) \/ RunTimeout(c)
  PROVE  Types'
<1>1. CASE ApprovalTimeout(c)
  <2>1. /\ Return(c, "denied") /\ UNCHANGED <<child, verdict, pump, pending, shown, reply>>
        /\ QuietRun
    BY <1>1 DEF ApprovalTimeout, GaveUp
  <2> QED BY <2>1, TypesOfReturn, TypesOfTool DEF Types, Results, QuietGate
<1>2. CASE ToolTimeout(c)
  <2>1. Return(c, "timeout") /\ UNCHANGED child /\ QuietGate /\ QuietRun
    BY <1>2 DEF ToolTimeout
  <2> QED BY <2>1, TypesOfReturn, TypesOfTool DEF Types, Results
<1>3. CASE RunTimeout(c)
  <2>1. tool' \in [Calls -> Tools] /\ current' \in 1..(MaxCalls + 1)
    BY <1>3, BridgeAssumption DEF RunTimeout, Types, Becomes, Tools
  <2>2. cancelled' \in BOOLEAN /\ causes' \subseteq {"user", "link", "timeout"}
    BY <1>3 DEF RunTimeout, ExpireToken, Cancel, Types
  <2> QED BY <1>3, <2>1, <2>2 DEF RunTimeout, Types, gateVars
<1> QED BY <1>1, <1>2, <1>3

LEMMA TypesOfPump ==
  ASSUME Types, NEW c \in Calls, PumpStep(c) \/ PumpSends(c)
  PROVE  Types'
<1>1. \A v \in {"allow", "deny"} : PumpAnswers(c, v) =>
        /\ pump' \in [Calls -> Pumps] /\ pending' \subseteq Calls
        /\ verdict' \in [Calls -> {"none", "allow", "deny"}]
        /\ UNCHANGED <<setup, toolVars, aborted, shown, reply>>
  BY DEF PumpAnswers, Pumping, Release, Types, Pumps
<1>2. CASE PumpRegisters(c)
  BY <1>2 DEF PumpRegisters, Pumping, Types, Pumps, toolVars, runVars
<1>3. CASE PumpSends(c)
  BY <1>3 DEF PumpSends, Pumping, Types, Pumps, toolVars, runVars
<1>4. CASE PumpSeesReply(c)
  <2>1. PICK v \in {"allow", "deny"} : PumpAnswers(c, v)
    BY <1>4 DEF PumpSeesReply
  <2> QED BY <1>1, <1>4, <2>1 DEF PumpSeesReply, Types, toolVars, runVars
<1>5. CASE PumpSeesCancel(c)
  <2>1. PumpAnswers(c, "deny") /\ UNCHANGED runVars
    BY <1>5 DEF PumpSeesCancel
  <2> QED BY <1>1, <2>1 DEF Types, toolVars, runVars
<1>6. CASE PumpSeesClosed(c)
  <2>1. PumpAnswers(c, "deny") /\ UNCHANGED link
    BY <1>6 DEF PumpSeesClosed
  <2>2. cancelled' \in BOOLEAN /\ causes' \subseteq {"user", "link", "timeout"}
    BY <1>6 DEF PumpSeesClosed, ClosedCancels, Cancel, Types
  <2> QED BY <1>1, <2>1, <2>2 DEF Types, toolVars
<1>7. CASE PumpIsAborted(c)
  BY <1>7 DEF PumpIsAborted, Pumping, Release, Types, Pumps, toolVars, runVars
<1> QED BY <1>2, <1>3, <1>4, <1>5, <1>6, <1>7 DEF PumpStep

LEMMA TypesOfOthers ==
  ASSUME Types,
         \/ \E c \in Calls : Forward(c) \/ UpdatesAborted(c) \/ ClientAnswers(c) \/ CommandExits(c)
         \/ UserAborts \/ LinkCloses \/ Ledger \/ UNCHANGED vars
  PROVE  Types'
<1>1. ASSUME NEW c \in Calls, Forward(c) \/ UpdatesAborted(c)
      PROVE  Types'
  BY <1>1 DEF Forward, UpdatesAborted, Types, toolVars, gateVars, runVars
<1>2. ASSUME NEW c \in Calls, ClientAnswers(c)
      PROVE  Types'
  <2>1. reply' \in [Calls -> {"none", "yes", "no"}] /\ pending' \subseteq Calls
    BY <1>2 DEF ClientAnswers, Types
  <2> QED BY <1>2, <2>1 DEF ClientAnswers, Types, toolVars, runVars
<1>3. ASSUME NEW c \in Calls, CommandExits(c)
      PROVE  Types'
  BY <1>3 DEF CommandExits, Types, gateVars, runVars
<1>4. CASE UserAborts
  BY <1>4 DEF UserAborts, Cancel, Types, toolVars, gateVars
<1>5. CASE LinkCloses
  BY <1>5 DEF LinkCloses, Types, toolVars, gateVars
<1>6. CASE Ledger \/ UNCHANGED vars
  BY <1>6 DEF Ledger, vars, Types, toolVars, gateVars, runVars
<1> QED BY <1>1, <1>2, <1>3, <1>4, <1>5, <1>6

LEMMA TypesStep == Types /\ [Next]_vars => Types'
<1> SUFFICES ASSUME Types, [Next]_vars PROVE Types'
  OBVIOUS
<1>1. ASSUME NEW c \in Calls,
             \/ ToolStep(c) \/ ApprovalTimeout(c) \/ ToolTimeout(c) \/ RunTimeout(c)
             \/ PumpStep(c) \/ PumpSends(c) \/ Forward(c) \/ UpdatesAborted(c)
             \/ ClientAnswers(c) \/ CommandExits(c)
      PROVE  Types'
  BY <1>1, TypesOfToolStep, TypesOfTimers, TypesOfPump, TypesOfOthers
<1> QED BY <1>1, TypesOfOthers DEF Next

-------------------------------------------------------------------------------
(* Updates.                                                                *)

(* A call that moves on without a word may only get to where it may have emitted
   as much. *)
LEMMA UpdatesOfMove ==
  ASSUME Types, UpdatesBounded, NEW c \in Calls, NEW w \in Tools, Becomes(c, w),
         UpdatesOf(tool[c]) <= UpdatesOf(w), UNCHANGED sinkVars
  PROVE  UpdatesBounded'
<1>1. ASSUME NEW d \in Calls
      PROVE  UpdatesOf(tool[d]) <= UpdatesOf(tool'[d])
  <2>1. tool'[d] = IF d = c THEN w ELSE tool[d]
    BY DEF Becomes, Types
  <2>2. tool[d] \in Tools
    BY DEF Types
  <2>3. UpdatesOf(tool[d]) \in Nat
    BY <2>2 DEF UpdatesOf, Tools
  <2> QED BY <2>1, <2>3
<1>2. ASSUME NEW d \in Calls
      PROVE  UpdatesOf(tool[d]) \in Nat /\ UpdatesOf(tool'[d]) \in Nat
  <2>1. tool[d] \in Tools /\ tool'[d] \in Tools
    BY DEF Types, Becomes
  <2> QED BY <2>1 DEF UpdatesOf, Tools
<1>3. ASSUME NEW d \in Calls
      PROVE  emitted'[d] + forwarded'[d] <= UpdatesOf(tool'[d])
  <2>1. emitted'[d] = emitted[d] /\ forwarded'[d] = forwarded[d]
    BY DEF sinkVars
  <2>2. /\ emitted[d] + forwarded[d] <= UpdatesOf(tool[d]) /\ emitted[d] \in Nat
        /\ forwarded[d] \in Nat
    BY DEF UpdatesBounded
  <2> QED BY <1>1, <1>2, <2>1, <2>2
<1> QED BY <1>3 DEF UpdatesBounded, sinkVars

LEMMA UpdatesOfEnds ==
  ASSUME Types, NEW c \in Calls
  PROVE  /\ UpdatesOf(tool[c]) <= UpdatesOf("returned")
         /\ UpdatesOf(tool[c]) <= UpdatesOf("dropped")
         /\ UpdatesOf("new") = 0 /\ UpdatesOf("asking") = 0 /\ UpdatesOf("allowed") = 1
         /\ UpdatesOf("running") = 1 /\ UpdatesOf("returned") = 2
BY DEF UpdatesOf, Types, Tools

LEMMA UpdatesOfReturn ==
  ASSUME Types, UpdatesBounded, NEW c \in Calls, NEW r, Return(c, r), UNCHANGED sinkVars
  PROVE  UpdatesBounded'
BY UpdatesOfMove, UpdatesOfEnds DEF Return, Tools

(* The update a call adds to its channel. *)
LEMMA UpdatesOfMore ==
  ASSUME Types, UpdatesBounded, NEW c \in Calls, NEW w \in Tools, Becomes(c, w),
         NEW n \in {0, 1}, Updates(c, n), UNCHANGED forwarded,
         UpdatesOf(tool[c]) + 1 <= UpdatesOf(w)
  PROVE  UpdatesBounded'
<1>1. ASSUME NEW d \in Calls
      PROVE  /\ emitted'[d] = (IF d = c THEN emitted[d] + n ELSE emitted[d])
             /\ tool'[d] = (IF d = c THEN w ELSE tool[d])
             /\ emitted[d] \in Nat /\ forwarded[d] \in Nat
             /\ emitted[d] + forwarded[d] <= UpdatesOf(tool[d])
  BY DEF UpdatesBounded, Updates, Becomes, Types
<1>2. emitted' \in [Calls -> Nat]
  BY <1>1 DEF UpdatesBounded, Updates
<1>3. ASSUME NEW d \in Calls
      PROVE  UpdatesOf(tool[d]) \in Nat /\ UpdatesOf(tool'[d]) \in Nat
  <2>1. tool[d] \in Tools /\ tool'[d] \in Tools
    BY DEF Types, Becomes
  <2> QED BY <2>1 DEF UpdatesOf, Tools
<1>4. ASSUME NEW d \in Calls
      PROVE  emitted'[d] + forwarded'[d] <= UpdatesOf(tool'[d])
  <2>1. CASE d = c
    BY <1>1, <1>3, <2>1
  <2>2. CASE d # c
    BY <1>1, <1>3, <2>2
  <2> QED BY <2>1, <2>2
<1> QED BY <1>2, <1>4 DEF UpdatesBounded

LEMMA UpdatesStep == Types /\ UpdatesBounded /\ [Next]_vars => UpdatesBounded'
<1> SUFFICES ASSUME Types, UpdatesBounded, [Next]_vars PROVE UpdatesBounded'
  OBVIOUS
<1>1. ASSUME NEW c \in Calls,
             \/ Reject(c) \/ StartProcess(c) \/ Answered(c) \/ SeesCancel(c)
             \/ ApprovalTimeout(c) \/ ToolTimeout(c)
      PROVE  UpdatesBounded'
  BY <1>1, UpdatesOfReturn
     DEF Reject, StartProcess, Answered, SeesCancel, ApprovalTimeout, GaveUp, ToolTimeout
<1>2. ASSUME NEW c \in Calls, Unusable(c) \/ Ask(c) \/ RunTimeout(c) \/ StartCommand(c)
      PROVE  UpdatesBounded'
  <2>1. UNCHANGED sinkVars
    BY <1>2 DEF Unusable, Ask, RunTimeout, StartCommand
  <2>2. PICK w \in Tools : Becomes(c, w) /\ UpdatesOf(tool[c]) <= UpdatesOf(w)
    <3>1. CASE Unusable(c) \/ RunTimeout(c)
      BY <3>1, UpdatesOfEnds DEF Unusable, RunTimeout, Tools
    <3>2. CASE Ask(c)
      BY <3>2, UpdatesOfEnds DEF Ask, Next1, Tools
    <3>3. CASE StartCommand(c)
      BY <3>3, UpdatesOfEnds DEF StartCommand, Return, Tools
    <3> QED BY <1>2, <3>1, <3>2, <3>3
  <2> QED BY <2>1, <2>2, UpdatesOfMove
<1>3. ASSUME NEW c \in Calls, Proceed(c) \/ CommandDone(c)
      PROVE  UpdatesBounded'
  <2>1. CASE Proceed(c)
    <3>1. UpdatesOf(tool[c]) + 1 <= UpdatesOf("allowed")
      BY <2>1, UpdatesOfEnds DEF Proceed, Next1
    <3> QED BY <2>1, <3>1, UpdatesOfMore DEF Proceed, Tools
  <2>2. CASE CommandDone(c)
    <3>1. UpdatesOf(tool[c]) + 1 <= UpdatesOf("returned")
      BY <2>2, UpdatesOfEnds DEF CommandDone
    <3> QED BY <2>2, <3>1, UpdatesOfMore DEF CommandDone, Return, Tools
  <2> QED BY <1>3, <2>1, <2>2
<1>4. ASSUME NEW c \in Calls, Forward(c) \/ UpdatesAborted(c)
      PROVE  UpdatesBounded'
  <2>1. ASSUME NEW d \in Calls
        PROVE  emitted[d] + forwarded[d] <= UpdatesOf(tool[d]) /\ UpdatesOf(tool[d]) \in Nat
               /\ emitted[d] \in Nat /\ forwarded[d] \in Nat
    BY DEF UpdatesBounded, Types, UpdatesOf, Tools
  <2>2. emitted' \in [Calls -> Nat] /\ forwarded' \in [Calls -> Nat] /\ UNCHANGED tool
    BY <1>4 DEF Forward, UpdatesAborted, UpdatesBounded, toolVars
  <2>3. ASSUME NEW d \in Calls
        PROVE  emitted'[d] + forwarded'[d] <= UpdatesOf(tool'[d])
    <3>1. emitted'[d] + forwarded'[d] <= emitted[d] + forwarded[d]
      BY <1>4, <2>1 DEF Forward, UpdatesAborted, UpdatesBounded
    <3> QED BY <2>1, <2>2, <3>1
  <2> QED BY <2>2, <2>3 DEF UpdatesBounded
<1>5. ASSUME NEW c \in Calls,
             \/ EndCall(c) \/ PumpStep(c) \/ PumpSends(c) \/ ClientAnswers(c) \/ CommandExits(c)
      PROVE  UpdatesBounded'
  <2>1. UNCHANGED <<tool, sinkVars>>
    BY <1>5 DEF EndCall, PumpStep, PumpSends, ClientAnswers, CommandExits, PumpRegisters,
                PumpSeesReply, PumpSeesCancel, PumpSeesClosed, PumpIsAborted, PumpAnswers, toolVars
  <2> QED BY <2>1 DEF UpdatesBounded, sinkVars
<1>6. CASE UserAborts \/ LinkCloses \/ Ledger \/ UNCHANGED vars
  <2>1. UNCHANGED <<tool, sinkVars>>
    BY <1>6 DEF UserAborts, LinkCloses, Ledger, vars, toolVars
  <2> QED BY <2>1 DEF UpdatesBounded, sinkVars
<1> QED BY <1>1, <1>2, <1>3, <1>4, <1>5, <1>6 DEF Next, ToolStep

-------------------------------------------------------------------------------
(* The gate.                                                               *)

(* What the gate's invariant says of one call. *)
GateOf(c) ==
  /\ (c \in pending) <=> (pump[c] \in {"sending", "waiting"} /\ reply[c] = "none")
  /\ tool[c] = "new" => pump[c] = "none"
  /\ pump[c] \in {"none", "asked"} => reply[c] = "none"
  /\ verdict[c] # "none" => pump[c] = "gone"
  /\ verdict[c] = "allow" => reply[c] = "yes"
  /\ tool[c] = "asking" /\ request[c].kind = "exec" => Decided(c) = "AskUser"
  /\ tool[c] \in {"allowed", "running"} \/ child[c] # "none" => GateIsPassed(c)
  /\ tool[c] \in {"new", "asking", "allowed"} => child[c] = "none"
  /\ tool[c] # "returned" => result[c] = "none"
  /\ child[c] # "none" => result[c] # "denied"

LEMMA GateIsOfCalls == GateIInv <=> CausesAreTrue /\ \A c \in Calls : GateOf(c)
BY DEF GateIInv, GateOf, PendingHasPump, PumpServesOnce, Consent

(* A step of one call is nothing to the gate of another. *)
LEMMA GateOfOthers ==
  ASSUME NEW c \in Calls, NEW d \in Calls, GateOf(d), UNCHANGED <<setup, request>>,
         pump'[d] = pump[d], reply'[d] = reply[d], verdict'[d] = verdict[d],
         tool'[d] = tool[d], child'[d] = child[d], result'[d] = result[d],
         d \in pending' <=> d \in pending
  PROVE  GateOf(d)'
BY DEF GateOf, GateIsPassed, Decided

(* What any step may do to a call it is not about. *)
LEMMA OthersUnmoved ==
  ASSUME Types, NEW c \in Calls, NEW d \in Calls, d # c,
         \/ ToolStep(c) \/ ApprovalTimeout(c) \/ ToolTimeout(c) \/ RunTimeout(c)
         \/ PumpStep(c) \/ PumpSends(c) \/ Forward(c) \/ UpdatesAborted(c)
         \/ ClientAnswers(c) \/ CommandExits(c)
  PROVE  /\ UNCHANGED <<setup, request>>
         /\ pump'[d] = pump[d] /\ reply'[d] = reply[d] /\ verdict'[d] = verdict[d]
         /\ tool'[d] = tool[d] /\ child'[d] = child[d] /\ result'[d] = result[d]
         /\ (d \in pending' <=> d \in pending)
<1> DEFINE Unmoved == /\ UNCHANGED <<setup, request>>
                      /\ pump'[d] = pump[d] /\ reply'[d] = reply[d] /\ verdict'[d] = verdict[d]
                      /\ tool'[d] = tool[d] /\ child'[d] = child[d] /\ result'[d] = result[d]
                      /\ (d \in pending' <=> d \in pending)
<1>0. \A w : Becomes(c, w) => tool'[d] = tool[d]
  BY DEF Becomes, Types
<1>1. \A r : Return(c, r) => tool'[d] = tool[d] /\ result'[d] = result[d]
  BY <1>0 DEF Return, Types
<1>2. CASE ToolStep(c)
  <2>1. CASE \/ Unusable(c) \/ Ask(c) \/ Reject(c) \/ Proceed(c) \/ StartCommand(c)
    BY <2>1, <1>0, <1>1
       DEF Unusable, Ask, Reject, Proceed, StartCommand, QuietGate, QuietRun, Types
  <2>2. CASE \/ CommandDone(c) \/ StartProcess(c) \/ Answered(c) \/ SeesCancel(c) \/ EndCall(c)
    BY <2>2, <1>0, <1>1
       DEF CommandDone, StartProcess, Answered, SeesCancel, EndCall, QuietGate, QuietRun, gateVars
  <2> QED BY <1>2, <2>1, <2>2 DEF ToolStep
<1>3. CASE ApprovalTimeout(c) \/ ToolTimeout(c) \/ RunTimeout(c)
  BY <1>3, <1>0, <1>1
     DEF ApprovalTimeout, GaveUp, ToolTimeout, RunTimeout, QuietGate, QuietRun, gateVars
<1>4. CASE PumpStep(c) \/ PumpSends(c)
  BY <1>4 DEF PumpStep, PumpSends, PumpRegisters, PumpSeesReply, PumpSeesCancel, PumpSeesClosed,
              PumpIsAborted, PumpAnswers, Pumping, Release, toolVars, Types
<1>5. CASE Forward(c) \/ UpdatesAborted(c) \/ ClientAnswers(c) \/ CommandExits(c)
  BY <1>5 DEF Forward, UpdatesAborted, ClientAnswers, CommandExits, toolVars, gateVars, Types
<1> QED BY <1>2, <1>3, <1>4, <1>5

(* A tool that returns, or is dropped: what it was denied it has not done. *)
LEMMA GateOfReturn ==
  ASSUME Types, NEW c \in Calls, GateOf(c), NEW r \in Results, Return(c, r),
         r = "denied" => child[c] = "none", UNCHANGED child, QuietGate, QuietRun
  PROVE  GateOf(c)'
<1>1. tool'[c] = "returned" /\ result'[c] = r
  BY DEF Return, Becomes, Types
<1> QED BY <1>1 DEF GateOf, QuietGate, QuietRun, GateIsPassed, Decided

LEMMA GateOfToolStep ==
  ASSUME Types, NEW c \in Calls, GateOf(c), ToolStep(c) \/ ApprovalTimeout(c) \/ ToolTimeout(c)
  PROVE  GateOf(c)'
<1>1. CASE Unusable(c)
  <2>1. /\ tool[c] = "new" /\ tool'[c] = "returned" /\ result'[c] = "error"
        /\ UNCHANGED child /\ QuietGate /\ QuietRun
    BY <1>1 DEF Unusable, Next1, Becomes, Types
  <2> QED BY <2>1 DEF GateOf, QuietGate, QuietRun, GateIsPassed, Decided
<1>2. CASE Ask(c)
  <2>1. /\ tool[c] = "new" /\ tool'[c] = "asking" /\ pump'[c] = "asked"
        /\ request[c].kind = "exec" => Decided(c) = "AskUser"
        /\ UNCHANGED <<result, child, pending, reply, verdict, setup, request>>
    BY <1>2 DEF Ask, Next1, Becomes, Types, QuietRun
  <2> QED BY <2>1 DEF GateOf, GateIsPassed, Decided
<1>3. CASE Reject(c)
  <2>1. tool[c] = "new" /\ Return(c, "denied") /\ UNCHANGED child /\ QuietGate /\ QuietRun
    BY <1>3 DEF Reject, Next1
  <2>2. child[c] = "none"
    BY <2>1 DEF GateOf
  <2> QED BY <2>1, <2>2, GateOfReturn DEF Results
<1>4. CASE Proceed(c)
  <2>1. /\ tool'[c] = "allowed" /\ request[c].kind = "exec"
        /\ \/ tool[c] = "new" /\ Decided(c) = "Execute"
           \/ tool[c] = "asking" /\ verdict[c] = "allow"
        /\ UNCHANGED <<result, child>> /\ QuietGate /\ QuietRun
    BY <1>4 DEF Proceed, Next1, Becomes, Types
  <2>2. GateIsPassed(c)
    BY <2>1 DEF GateOf, GateIsPassed
  <2>3. tool[c] = "asking" => pump[c] = "gone" /\ reply[c] = "yes"
    BY <2>1 DEF GateOf
  <2> QED BY <2>1, <2>2, <2>3 DEF GateOf, GateIsPassed, QuietGate, QuietRun, Decided
<1>5. CASE StartCommand(c)
  <2>1. CASE Return(c, "error") /\ UNCHANGED child
    BY <1>5, <2>1, GateOfReturn DEF StartCommand, Results
  <2>2. CASE /\ Becomes(c, "running") /\ child' = [child EXCEPT ![c] = "running"]
             /\ UNCHANGED <<result, aborted>>
    <3>1. /\ tool[c] = "allowed" /\ tool'[c] = "running" /\ child'[c] = "running"
          /\ UNCHANGED result /\ QuietGate /\ QuietRun
      BY <1>5, <2>2 DEF StartCommand, Becomes, Types
    <3> QED BY <3>1 DEF GateOf, GateIsPassed, QuietGate, QuietRun, Decided
  <2> QED BY <1>5, <2>1, <2>2 DEF StartCommand
<1>6. CASE CommandDone(c)
  <2>1. PICK r \in {"ok", "error"} : Return(c, r)
    BY <1>6 DEF CommandDone
  <2> QED BY <1>6, <2>1, GateOfReturn DEF CommandDone, Results
<1>7. CASE StartProcess(c)
  <2>1. Return(c, "ok") /\ UNCHANGED child /\ QuietGate /\ QuietRun
    BY <1>7 DEF StartProcess
  <2> QED BY <2>1, GateOfReturn DEF Results
<1>8. CASE Answered(c)
  <2>1. PICK r \in {"ok", "denied"} : Return(c, r)
    BY <1>8 DEF Answered
  <2>2. tool[c] = "asking" /\ UNCHANGED child /\ QuietGate /\ QuietRun
    BY <1>8 DEF Answered
  <2>3. child[c] = "none"
    BY <2>2 DEF GateOf
  <2> QED BY <2>1, <2>2, <2>3, GateOfReturn DEF Results
<1>9. CASE SeesCancel(c)
  <2>1. Return(c, "aborted") /\ UNCHANGED child /\ QuietGate /\ QuietRun
    BY <1>9 DEF SeesCancel
  <2> QED BY <2>1, GateOfReturn DEF Results
<1>10. CASE EndCall(c)
  BY <1>10 DEF EndCall, GateOf, GateIsPassed, Decided, gateVars
<1>11. CASE ApprovalTimeout(c)
  <2>1. tool[c] = "asking" /\ Return(c, "denied") /\ UNCHANGED child /\ QuietGate /\ QuietRun
    BY <1>11 DEF ApprovalTimeout, GaveUp, QuietGate
  <2>2. child[c] = "none"
    BY <2>1 DEF GateOf
  <2> QED BY <2>1, <2>2, GateOfReturn DEF Results
<1>12. CASE ToolTimeout(c)
  <2>1. Return(c, "timeout") /\ UNCHANGED child /\ QuietGate /\ QuietRun
    BY <1>12 DEF ToolTimeout
  <2> QED BY <2>1, GateOfReturn DEF Results
<1> QED BY <1>1, <1>2, <1>3, <1>4, <1>5, <1>6, <1>7, <1>8, <1>9, <1>10, <1>11, <1>12 DEF ToolStep

LEMMA GateOfPump ==
  ASSUME Types, NEW c \in Calls, GateOf(c),
         PumpStep(c) \/ PumpSends(c) \/ ClientAnswers(c)
  PROVE  GateOf(c)'
<1>1. CASE PumpRegisters(c)
  <2>1. /\ pump[c] = "asked" /\ pump'[c] = "sending" /\ c \in pending'
        /\ UNCHANGED <<setup, request, tool, result, child, reply, verdict>>
    BY <1>1 DEF PumpRegisters, Pumping, toolVars, Types
  <2> QED BY <2>1 DEF GateOf, GateIsPassed, Decided
<1>2. CASE PumpSends(c)
  <2>1. /\ pump[c] = "sending" /\ pump'[c] = "waiting"
        /\ UNCHANGED <<setup, request, tool, result, child, reply, verdict, pending>>
    BY <1>2 DEF PumpSends, Pumping, toolVars, Types
  <2> QED BY <2>1 DEF GateOf, GateIsPassed, Decided
<1>3. ASSUME NEW v \in {"allow", "deny"}, PumpAnswers(c, v), pump[c] = "waiting",
             v = "allow" => reply[c] = "yes"
      PROVE  GateOf(c)'
  <2>1. /\ pump'[c] = "gone" /\ c \notin pending' /\ verdict'[c] = v
        /\ UNCHANGED <<setup, request, tool, result, child, reply>>
    BY <1>3 DEF PumpAnswers, Pumping, Release, toolVars, Types
  <2> QED BY <1>3, <2>1 DEF GateOf, GateIsPassed, Decided
<1>4. CASE PumpSeesReply(c)
  BY <1>3, <1>4 DEF PumpSeesReply
<1>5. CASE PumpSeesCancel(c) \/ PumpSeesClosed(c)
  BY <1>3, <1>5 DEF PumpSeesCancel, PumpSeesClosed
<1>6. CASE PumpIsAborted(c)
  <2>1. /\ pump[c] \in {"asked", "sending", "waiting"} /\ pump'[c] = "gone" /\ c \notin pending'
        /\ UNCHANGED <<setup, request, tool, result, child, reply, verdict>>
    BY <1>6 DEF PumpIsAborted, Pumping, Release, toolVars, Types
  <2> QED BY <2>1 DEF GateOf, GateIsPassed, Decided
<1>7. CASE ClientAnswers(c)
  <2>1. /\ c \in pending /\ c \notin pending' /\ reply'[c] \in {"yes", "no"}
        /\ UNCHANGED <<setup, request, tool, result, child, pump, verdict>>
    BY <1>7 DEF ClientAnswers, toolVars, Types
  <2> QED BY <2>1 DEF GateOf, GateIsPassed, Decided
<1> QED BY <1>1, <1>2, <1>4, <1>5, <1>6, <1>7 DEF PumpStep

LEMMA GateOfRest ==
  ASSUME Types, NEW c \in Calls, GateOf(c),
         RunTimeout(c) \/ Forward(c) \/ UpdatesAborted(c) \/ CommandExits(c)
  PROVE  GateOf(c)'
<1>1. CASE RunTimeout(c)
  <2>1. /\ tool[c] \in {"asking", "allowed", "running"} /\ tool'[c] = "dropped"
        /\ UNCHANGED <<setup, request, result, child, pump, pending, reply, verdict>>
    BY <1>1 DEF RunTimeout, Becomes, gateVars, Types
  <2> QED BY <2>1 DEF GateOf, GateIsPassed, Decided
<1>2. CASE Forward(c) \/ UpdatesAborted(c)
  BY <1>2 DEF Forward, UpdatesAborted, toolVars, gateVars, GateOf, GateIsPassed, Decided
<1>3. CASE CommandExits(c)
  <2>1. /\ child[c] # "none" /\ child'[c] # "none"
        /\ UNCHANGED <<setup, request, tool, result, pump, pending, reply, verdict>>
    BY <1>3 DEF CommandExits, gateVars, Types
  <2> QED BY <2>1 DEF GateOf, GateIsPassed, Decided
<1> QED BY <1>1, <1>2, <1>3

(* A cause is added by whom it names. *)
LEMMA CausesStep == Types /\ CausesAreTrue /\ [Next]_vars => CausesAreTrue'
<1> SUFFICES ASSUME Types, CausesAreTrue, [Next]_vars PROVE CausesAreTrue'
  OBVIOUS
<1>1. ASSUME UNCHANGED <<setup, runVars>>
      PROVE  CausesAreTrue'
  BY <1>1 DEF CausesAreTrue, runVars
<1>2. ASSUME NEW c \in Calls, ToolStep(c) \/ ApprovalTimeout(c) \/ ToolTimeout(c)
      PROVE  UNCHANGED <<setup, runVars>>
  BY <1>2 DEF ToolStep, ApprovalTimeout, ToolTimeout, Unusable, Ask, Reject, Proceed, StartCommand,
              CommandDone, StartProcess, Answered, SeesCancel, EndCall, QuietRun
<1>3. ASSUME NEW c \in Calls,
             \/ PumpRegisters(c) \/ PumpSeesReply(c) \/ PumpSeesCancel(c) \/ PumpIsAborted(c)
             \/ PumpSends(c) \/ Forward(c) \/ UpdatesAborted(c) \/ ClientAnswers(c)
             \/ CommandExits(c)
      PROVE  UNCHANGED <<setup, runVars>>
  BY <1>3 DEF PumpRegisters, PumpSeesReply, PumpSeesCancel, PumpIsAborted, PumpSends, PumpAnswers,
              Forward, UpdatesAborted, ClientAnswers, CommandExits
<1>4. ASSUME NEW c \in Calls, PumpSeesClosed(c)
      PROVE  CausesAreTrue'
  BY <1>4 DEF PumpSeesClosed, PumpAnswers, SeesClosed, ClosedCancels, Cancel, CausesAreTrue
<1>5. ASSUME NEW c \in Calls, RunTimeout(c)
      PROVE  CausesAreTrue'
  BY <1>5 DEF RunTimeout, ExpireToken, Cancel, CausesAreTrue
<1>6. CASE UserAborts
  BY <1>6 DEF UserAborts, Cancel, CausesAreTrue
<1>7. CASE LinkCloses
  BY <1>7 DEF LinkCloses, CausesAreTrue
<1>8. CASE Ledger \/ UNCHANGED vars
  BY <1>1, <1>8 DEF Ledger, vars
<1> QED BY <1>1, <1>2, <1>3, <1>4, <1>5, <1>6, <1>7, <1>8 DEF Next, PumpStep

LEMMA GateStep == Types /\ GateIInv /\ [Next]_vars => GateIInv'
<1> SUFFICES ASSUME Types, GateIInv, [Next]_vars PROVE GateIInv'
  OBVIOUS
<1>1. \A c \in Calls : GateOf(c)
  BY GateIsOfCalls
<1>2. ASSUME NEW d \in Calls
      PROVE  GateOf(d)'
  <2>1. ASSUME NEW c \in Calls,
               \/ ToolStep(c) \/ ApprovalTimeout(c) \/ ToolTimeout(c) \/ RunTimeout(c)
               \/ PumpStep(c) \/ PumpSends(c) \/ Forward(c) \/ UpdatesAborted(c)
               \/ ClientAnswers(c) \/ CommandExits(c)
        PROVE  GateOf(d)'
    <3>1. CASE c = d
      BY <1>1, <2>1, <3>1, GateOfToolStep, GateOfPump, GateOfRest
    <3>2. CASE c # d
      BY <1>1, <2>1, <3>2, OthersUnmoved, GateOfOthers
    <3> QED BY <3>1, <3>2
  <2>2. CASE UserAborts \/ LinkCloses \/ Ledger \/ UNCHANGED vars
    <3>1. UNCHANGED <<setup, request, tool, result, child, pump, pending, reply, verdict>>
      BY <2>2 DEF UserAborts, LinkCloses, Ledger, vars, toolVars, gateVars
    <3> QED BY <1>1, <3>1 DEF GateOf, GateIsPassed, Decided
  <2> QED BY <2>1, <2>2 DEF Next
<1>3. CausesAreTrue'
  BY CausesStep DEF GateIInv
<1>4. (CausesAreTrue /\ \A c \in Calls : GateOf(c))' => GateIInv'
  BY DEF GateIInv, GateOf, PendingHasPump, PumpServesOnce, Consent
<1> QED BY <1>2, <1>3, <1>4

-------------------------------------------------------------------------------
(* The ledger.                                                             *)

(* What the ledger's invariant says of one process. *)
TruthOf(t) ==
  /\ pushed[t] = CASE ledger[t] = "none" -> <<>>
                   [] ledger[t] = "running" -> <<"running">>
                   [] OTHER -> <<"running", ledger[t]>>
  /\ (ledger[t] = "running") <=> (follower[t] = "output")
  /\ ledger[t] = "done" => process[t] = "ok"
  /\ ledger[t] = "failed" => process[t] = "bad"
  /\ ledger[t] = "cancelled" => t \in revoked
  /\ (process[t] # "none" /\ ledger[t] = "none") <=> \E i \in 1..Len(handoff) : handoff[i] = t
  /\ process[t] = "none" => ledger[t] = "none"

HandedOnce == \A i, j \in 1..Len(handoff) : handoff[i] = handoff[j] => i = j

LEMMA LedgerIsOfTasks ==
  LedgerIInv <=> LedgerTypeOK /\ HandedOnce /\ \A t \in Tasks : TruthOf(t)
BY DEF LedgerIInv, LedgerTellsTruth, HandoffIsOnce, HandedOnce, TruthOf, Unfinished, Contains

(* An element appended to a sequence of one makes a sequence of two. *)
LEMMA OneAndOne ==
  ASSUME NEW S, NEW one \in Seq(S), NEW two \in Seq(S), NEW b \in S,
         Len(one) = 1, Len(two) = 2, one[1] = two[1], two[2] = b
  PROVE  Append(one, b) = two
<1> DEFINE s == Append(one, b)
<1>1. Len(one) \in Nat
  OBVIOUS
<1>2. Len(s) = Len(one) + 1
  BY <1>1, AppendProperties
<1>3. s[1] = one[1]
  BY <1>1, AppendProperties
<1>4. s[Len(one) + 1] = b
  BY <1>1, AppendProperties
<1>5. s \in Seq(S)
  OBVIOUS
<1> HIDE DEF s
<1>6. Len(s) = 2 /\ s[1] = two[1] /\ s[2] = two[2]
  BY <1>2, <1>3, <1>4
<1>7. \A i \in 1..Len(s) : s[i] = two[i]
  BY <1>6
<1>8. s = two
  BY <1>5, <1>6, <1>7, SeqEqual
<1> QED BY <1>8 DEF s

(* The two events of a task. *)
LEMMA SecondEvent ==
  ASSUME NEW s \in Final
  PROVE  Append(<<"running">>, s) = <<"running", s>>
<1> DEFINE S == {"running"} \cup Final
<1>1. /\ <<"running">> \in Seq(S) /\ <<"running", s>> \in Seq(S) /\ s \in S
      /\ Len(<<"running">>) = 1 /\ Len(<<"running", s>>) = 2
      /\ <<"running">>[1] = "running" /\ <<"running", s>>[1] = "running" /\ <<"running", s>>[2] = s
  OBVIOUS
<1> HIDE DEF S
<1> QED BY <1>1, OneAndOne

(* An event is added for every new state. *)
LEMMA StatesAreTold ==
  ASSUME LedgerTypeOK, NEW t \in Tasks, NEW s \in {"running"} \cup Final, SetState(t, s)
  PROVE  /\ ledger' \in [Tasks -> {"none", "running"} \cup Final]
         /\ pushed' \in [Tasks -> Seq({"running"} \cup Final)]
         /\ ledger'[t] = s /\ pushed'[t] = Append(pushed[t], s)
         /\ \A u \in Tasks \ {t} : ledger'[u] = ledger[u] /\ pushed'[u] = pushed[u]
<1>1. Append(pushed[t], s) \in Seq({"running"} \cup Final)
  BY DEF LedgerTypeOK
<1> QED BY <1>1 DEF SetState, LedgerTypeOK

LEMMA SpawnKeeps ==
  ASSUME LedgerTypeOK, HandedOnce, \A t \in Tasks : TruthOf(t), NEW t \in Tasks, Spawn(t)
  PROVE  LedgerTypeOK' /\ HandedOnce' /\ \A u \in Tasks : TruthOf(u)'
<1>1. /\ process[t] = "none" /\ process' = [process EXCEPT ![t] = "running"]
      /\ handoff' = Append(handoff, t) /\ UNCHANGED <<ledger, follower, revoked, pushed>>
  BY DEF Spawn
<1>2. handoff \in Seq(Tasks) /\ Len(handoff) \in Nat
  BY DEF LedgerTypeOK
<1>3. /\ Len(handoff') = Len(handoff) + 1 /\ handoff'[Len(handoff) + 1] = t
      /\ \A i \in 1..Len(handoff) : handoff'[i] = handoff[i]
  BY <1>1, <1>2
<1>4. LedgerTypeOK'
  BY <1>1, <1>2 DEF LedgerTypeOK
<1>5. \A i \in 1..Len(handoff) : handoff[i] # t
  BY <1>1 DEF TruthOf
<1>6. HandedOnce'
  BY <1>2, <1>3, <1>5 DEF HandedOnce
<1>7. ASSUME NEW u \in Tasks
      PROVE  TruthOf(u)'
  <2>1. TruthOf(u)
    OBVIOUS
  <2>2. process'[u] = IF u = t THEN "running" ELSE process[u]
    BY <1>1 DEF LedgerTypeOK
  <2>3. CASE u = t
    <3>1. ledger[u] = "none"
      BY <1>1, <2>1, <2>3 DEF TruthOf
    <3>2. \E i \in 1..Len(handoff') : handoff'[i] = u
      BY <1>2, <1>3, <2>3
    <3> QED BY <1>1, <2>1, <2>2, <2>3, <3>1, <3>2 DEF TruthOf
  <2>4. CASE u # t
    <3>1. (\E i \in 1..Len(handoff') : handoff'[i] = u)
            <=> \E i \in 1..Len(handoff) : handoff[i] = u
      BY <1>2, <1>3, <2>4
    <3> QED BY <1>1, <2>1, <2>2, <2>4, <3>1 DEF TruthOf
  <2> QED BY <2>3, <2>4
<1> QED BY <1>4, <1>6, <1>7

LEMMA RegisterKeeps ==
  ASSUME LedgerTypeOK, HandedOnce, \A t \in Tasks : TruthOf(t), Register
  PROVE  LedgerTypeOK' /\ HandedOnce' /\ \A u \in Tasks : TruthOf(u)'
<1> DEFINE t == Head(handoff)
<1>1. /\ handoff # <<>> /\ SetState(t, "running") /\ follower' = [follower EXCEPT ![t] = "output"]
      /\ handoff' = Tail(handoff) /\ UNCHANGED <<process, revoked>>
  BY DEF Register
<1>2. /\ handoff \in Seq(Tasks) /\ Len(handoff) \in Nat \ {0} /\ t = handoff[1] /\ t \in Tasks
      /\ Len(handoff') = Len(handoff) - 1
      /\ \A i \in 1..Len(handoff') : handoff'[i] = handoff[i + 1]
      /\ handoff' \in Seq(Tasks)
  BY <1>1 DEF LedgerTypeOK
<1> HIDE DEF t
<1>3. /\ ledger' \in [Tasks -> {"none", "running"} \cup Final]
      /\ pushed' \in [Tasks -> Seq({"running"} \cup Final)]
      /\ ledger'[t] = "running" /\ pushed'[t] = Append(pushed[t], "running")
      /\ \A u \in Tasks \ {t} : ledger'[u] = ledger[u] /\ pushed'[u] = pushed[u]
  BY <1>1, <1>2, StatesAreTold
<1>4. LedgerTypeOK'
  BY <1>1, <1>2, <1>3 DEF LedgerTypeOK
<1>5. HandedOnce'
  BY <1>2 DEF HandedOnce
<1>6. process[t] # "none" /\ ledger[t] = "none"
  <2>1. \E i \in 1..Len(handoff) : handoff[i] = t
    BY <1>2
  <2>2. TruthOf(t)
    BY <1>2
  <2> QED BY <2>1, <2>2 DEF TruthOf
<1>7. ASSUME NEW u \in Tasks
      PROVE  TruthOf(u)'
  <2>1. TruthOf(u)
    OBVIOUS
  <2>2. CASE u = t
    <3>1. pushed'[u] = <<"running">>
      <4>1. pushed[t] = <<>>
        BY <1>2, <1>6 DEF TruthOf
      <4> QED BY <1>3, <2>2, <4>1
    <3>2. ~ \E i \in 1..Len(handoff') : handoff'[i] = u
      BY <1>2, <2>2 DEF HandedOnce
    <3>3. follower'[u] = "output"
      BY <1>1, <2>2 DEF LedgerTypeOK
    <3> QED BY <1>1, <1>3, <1>6, <2>2, <3>1, <3>2, <3>3 DEF TruthOf
  <2>3. CASE u # t
    <3>1. (\E i \in 1..Len(handoff') : handoff'[i] = u)
            <=> \E i \in 1..Len(handoff) : handoff[i] = u
      <4>1. ASSUME NEW i \in 1..Len(handoff), handoff[i] = u
            PROVE  \E j \in 1..Len(handoff') : handoff'[j] = u
        <5>1. i - 1 \in 1..Len(handoff') /\ handoff'[i - 1] = u
          BY <1>2, <2>3, <4>1
        <5> QED BY <5>1
      <4>2. ASSUME NEW i \in 1..Len(handoff'), handoff'[i] = u
            PROVE  \E j \in 1..Len(handoff) : handoff[j] = u
        <5>1. i + 1 \in 1..Len(handoff) /\ handoff[i + 1] = u
          BY <1>2, <4>2
        <5> QED BY <5>1
      <4> QED BY <4>1, <4>2
    <3>2. follower'[u] = follower[u]
      BY <1>1, <2>3 DEF LedgerTypeOK
    <3>3. ledger'[u] = ledger[u] /\ pushed'[u] = pushed[u]
      BY <1>3, <2>3
    <3> QED BY <1>1, <2>1, <3>1, <3>2, <3>3 DEF TruthOf
  <2> QED BY <2>2, <2>3
<1> QED BY <1>4, <1>5, <1>7

(* A follower ends with the last state it reports. *)
LEMMA FollowerEnds ==
  ASSUME LedgerTypeOK, HandedOnce, \A t \in Tasks : TruthOf(t), NEW t \in Tasks,
         follower[t] = "output", NEW s \in Final, SetState(t, s),
         follower' = [follower EXCEPT ![t] = "gone"], UNCHANGED <<process, handoff, revoked>>,
         s = "done" => process[t] = "ok", s = "failed" => process[t] = "bad",
         s = "cancelled" => t \in revoked
  PROVE  LedgerTypeOK' /\ HandedOnce' /\ \A u \in Tasks : TruthOf(u)'
<1>1. /\ ledger' \in [Tasks -> {"none", "running"} \cup Final]
      /\ pushed' \in [Tasks -> Seq({"running"} \cup Final)]
      /\ ledger'[t] = s /\ pushed'[t] = Append(pushed[t], s)
      /\ \A u \in Tasks \ {t} : ledger'[u] = ledger[u] /\ pushed'[u] = pushed[u]
  BY StatesAreTold
<1>2. LedgerTypeOK' /\ HandedOnce'
  BY <1>1 DEF LedgerTypeOK, HandedOnce
<1>3. s # "none" /\ s # "running"
  BY DEF Final
<1>4. ASSUME NEW u \in Tasks
      PROVE  TruthOf(u)'
  <2>1. TruthOf(u)
    OBVIOUS
  <2>2. CASE u = t
    <3>1. ledger[t] = "running" /\ pushed[t] = <<"running">>
      BY <2>1, <2>2 DEF TruthOf
    <3>2. pushed'[t] = <<"running", s>>
      <4>1. pushed'[t] = Append(<<"running">>, s)
        BY <1>1, <3>1
      <4> QED BY <4>1, SecondEvent
    <3>3. follower'[t] = "gone"
      BY DEF LedgerTypeOK
    <3>4. process[t] # "none" /\ ~ \E i \in 1..Len(handoff) : handoff[i] = t
      BY <2>1, <2>2, <3>1 DEF TruthOf
    <3> QED BY <1>1, <1>3, <2>2, <3>2, <3>3, <3>4 DEF TruthOf
  <2>3. CASE u # t
    <3>1. follower'[u] = follower[u] /\ ledger'[u] = ledger[u] /\ pushed'[u] = pushed[u]
      BY <1>1, <2>3 DEF LedgerTypeOK
    <3> QED BY <2>1, <3>1 DEF TruthOf
  <2> QED BY <2>2, <2>3
<1> QED BY <1>2, <1>4

LEMMA LedgerNextKeeps ==
  ASSUME LedgerTypeOK, HandedOnce, \A t \in Tasks : TruthOf(t), LedgerNext
  PROVE  LedgerTypeOK' /\ HandedOnce' /\ \A u \in Tasks : TruthOf(u)'
<1>1. CASE Register
  BY <1>1, RegisterKeeps
<1>2. ASSUME NEW t \in Tasks, SeesRevoked(t)
      PROVE  LedgerTypeOK' /\ HandedOnce' /\ \A u \in Tasks : TruthOf(u)'
  BY <1>2, FollowerEnds DEF SeesRevoked, Final
<1>3. ASSUME NEW t \in Tasks, SeesExit(t)
      PROVE  LedgerTypeOK' /\ HandedOnce' /\ \A u \in Tasks : TruthOf(u)'
  <2>1. /\ ExitState(process[t]) \in Final /\ ExitState(process[t]) # "cancelled"
        /\ ExitState(process[t]) = "done" => process[t] = "ok"
        /\ ExitState(process[t]) = "failed" => process[t] = "bad"
    BY <1>3 DEF SeesExit, ExitState, Exited, Final
  <2> QED BY <1>3, <2>1, FollowerEnds DEF SeesExit
<1>4. ASSUME NEW t \in Tasks, CancelTask(t)
      PROVE  LedgerTypeOK' /\ HandedOnce' /\ \A u \in Tasks : TruthOf(u)'
  <2>1. LedgerTypeOK' /\ HandedOnce'
    BY <1>4 DEF CancelTask, LedgerTypeOK, HandedOnce
  <2>2. \A u \in Tasks : TruthOf(u)'
    BY <1>4 DEF CancelTask, TruthOf
  <2> QED BY <2>1, <2>2
<1>5. ASSUME NEW t \in Tasks, ProcessEnds(t)
      PROVE  LedgerTypeOK' /\ HandedOnce' /\ \A u \in Tasks : TruthOf(u)'
  <2>1. /\ process[t] = "running" /\ process'[t] # "none"
        /\ process' \in [Tasks -> {"none", "running", "stuck"} \cup Exited]
        /\ \A u \in Tasks \ {t} : process'[u] = process[u]
        /\ UNCHANGED <<handoff, ledger, follower, revoked, pushed>>
    BY <1>5 DEF ProcessEnds, LedgerTypeOK, Exited
  <2>2. LedgerTypeOK' /\ HandedOnce'
    BY <2>1 DEF LedgerTypeOK, HandedOnce
  <2>3. ASSUME NEW u \in Tasks
        PROVE  TruthOf(u)'
    <3>1. TruthOf(u)
      OBVIOUS
    <3> QED BY <2>1, <3>1 DEF TruthOf
  <2> QED BY <2>2, <2>3
<1> QED BY <1>1, <1>2, <1>3, <1>4, <1>5 DEF LedgerNext

LEMMA LedgerStep == LedgerIInv /\ [Next]_vars => LedgerIInv'
<1> SUFFICES ASSUME LedgerTypeOK, HandedOnce, \A t \in Tasks : TruthOf(t), [Next]_vars
             PROVE  LedgerTypeOK' /\ HandedOnce' /\ \A u \in Tasks : TruthOf(u)'
  BY DEF LedgerIInv, LedgerTellsTruth, HandoffIsOnce, HandedOnce, TruthOf, Unfinished, Contains
<1>1. ASSUME UNCHANGED ledgerVars
      PROVE  LedgerTypeOK' /\ HandedOnce' /\ \A u \in Tasks : TruthOf(u)'
  BY <1>1 DEF ledgerVars, LedgerTypeOK, HandedOnce, TruthOf
<1>2. ASSUME NEW c \in Calls, StartProcess(c)
      PROVE  LedgerTypeOK' /\ HandedOnce' /\ \A u \in Tasks : TruthOf(u)'
  BY <1>2, SpawnKeeps, BridgeAssumption DEF StartProcess, Calls
<1>3. CASE Ledger
  BY <1>3, LedgerNextKeeps DEF Ledger
<1>4. ASSUME NEW c \in Calls,
             \/ Unusable(c) \/ Ask(c) \/ Reject(c) \/ Proceed(c) \/ StartCommand(c)
             \/ CommandDone(c)
             \/ Answered(c) \/ SeesCancel(c) \/ EndCall(c)
             \/ ApprovalTimeout(c) \/ ToolTimeout(c) \/ RunTimeout(c)
      PROVE  UNCHANGED ledgerVars
  BY <1>4 DEF Unusable, Ask, Reject, Proceed, StartCommand, CommandDone, Answered, SeesCancel,
              EndCall, ApprovalTimeout, ToolTimeout, RunTimeout
<1>5. ASSUME NEW c \in Calls,
             \/ PumpStep(c) \/ PumpSends(c) \/ Forward(c) \/ UpdatesAborted(c)
             \/ ClientAnswers(c) \/ CommandExits(c)
      PROVE  UNCHANGED ledgerVars
  BY <1>5 DEF PumpStep, PumpRegisters, PumpSeesReply, PumpSeesCancel, PumpSeesClosed, PumpIsAborted,
              PumpAnswers, PumpSends, Forward, UpdatesAborted, ClientAnswers, CommandExits
<1>6. CASE UserAborts \/ LinkCloses \/ UNCHANGED vars
  BY <1>1, <1>6 DEF UserAborts, LinkCloses, vars
<1> QED BY <1>1, <1>2, <1>3, <1>4, <1>5, <1>6 DEF Next, ToolStep

-------------------------------------------------------------------------------
(* The theorems.                                                           *)

LEMMA InitIInv == Init => IInv
<1> SUFFICES ASSUME Init PROVE IInv
  OBVIOUS
<1>1. /\ setup \in Setups /\ current = 1 /\ request \in [Calls -> Requests]
      /\ tool = [c \in Calls |-> "new"] /\ result = [c \in Calls |-> "none"]
      /\ pump = [c \in Calls |-> "none"] /\ aborted = {} /\ pending = {} /\ shown = {}
      /\ reply = [c \in Calls |-> "none"] /\ verdict = [c \in Calls |-> "none"]
      /\ child = [c \in Calls |-> "none"]
      /\ emitted = [c \in Calls |-> 0] /\ forwarded = [c \in Calls |-> 0]
      /\ cancelled = FALSE /\ causes = {} /\ link = "open"
  BY DEF Init
<1>2. Types
  <2>1. setup \in AllSetups /\ current \in 1..(MaxCalls + 1)
    BY <1>1, BridgeAssumption
  <2>2. /\ tool \in [Calls -> Tools] /\ result \in [Calls -> Results] /\ pump \in [Calls -> Pumps]
        /\ reply \in [Calls -> {"none", "yes", "no"}]
        /\ verdict \in [Calls -> {"none", "allow", "deny"}]
        /\ child \in [Calls -> {"none", "running", "exited"}]
    BY <1>1 DEF Tools, Results, Pumps
  <2> QED BY <1>1, <2>1, <2>2 DEF Types
<1>3. UpdatesBounded
  BY <1>1 DEF UpdatesBounded, UpdatesOf
<1>4. GateIInv
  BY <1>1 DEF GateIInv, PendingHasPump, PumpServesOnce, Consent, CausesAreTrue
<1>5. LedgerIInv
  <2>1. /\ process = [t \in Tasks |-> "none"] /\ handoff = <<>> /\ ledger = [t \in Tasks |-> "none"]
        /\ follower = [t \in Tasks |-> "none"] /\ revoked = {} /\ pushed = [t \in Tasks |-> <<>>]
    BY DEF Init, LedgerInit
  <2>2. LedgerTypeOK
    <3>1. handoff \in Seq(Tasks) /\ pushed \in [Tasks -> Seq({"running"} \cup Final)]
      BY <2>1
    <3> QED BY <2>1, <3>1 DEF LedgerTypeOK
  <2>3. HandedOnce /\ \A t \in Tasks : TruthOf(t)
    BY <2>1 DEF HandedOnce, TruthOf
  <2> QED BY <2>2, <2>3, LedgerIsOfTasks
<1> QED BY <1>1, <1>2, <1>3, <1>4, <1>5 DEF IInv

LEMMA SetupStays == [Next]_vars => UNCHANGED setup
<1> SUFFICES ASSUME [Next]_vars PROVE UNCHANGED setup
  OBVIOUS
<1>1. ASSUME NEW c \in Calls, ToolStep(c) \/ ApprovalTimeout(c) \/ ToolTimeout(c) \/ RunTimeout(c)
      PROVE  UNCHANGED setup
  BY <1>1 DEF ToolStep, ApprovalTimeout, ToolTimeout, RunTimeout, Unusable, Ask, Reject, Proceed,
              StartCommand, CommandDone, StartProcess, Answered, SeesCancel, EndCall, QuietRun
<1>2. ASSUME NEW c \in Calls,
             \/ PumpStep(c) \/ PumpSends(c) \/ Forward(c) \/ UpdatesAborted(c)
             \/ ClientAnswers(c) \/ CommandExits(c)
      PROVE  UNCHANGED setup
  BY <1>2 DEF PumpStep, PumpRegisters, PumpSeesReply, PumpSeesCancel, PumpSeesClosed, PumpIsAborted,
              PumpAnswers, PumpSends, Forward, UpdatesAborted, ClientAnswers, CommandExits
<1>3. CASE UserAborts \/ LinkCloses \/ Ledger \/ UNCHANGED vars
  BY <1>3 DEF UserAborts, LinkCloses, Ledger, vars
<1> QED BY <1>1, <1>2, <1>3 DEF Next

LEMMA NextIInv == IInv /\ [Next]_vars => IInv'
BY TypesStep, SetupStays, UpdatesStep, GateStep, LedgerStep DEF IInv

LEMMA AlwaysIInv == Spec => []IInv
BY InitIInv, NextIInv, PTL DEF Spec

LEMMA IInvGivesBridgeInv == IInv => BridgeInv
<1> SUFFICES ASSUME IInv PROVE BridgeInv
  OBVIOUS
<1>1. emitted \in [Calls -> 0..2] /\ forwarded \in [Calls -> 0..2]
  <2>1. ASSUME NEW c \in Calls
        PROVE  emitted[c] \in 0..2 /\ forwarded[c] \in 0..2
    <3>1. /\ emitted[c] \in Nat /\ forwarded[c] \in Nat
          /\ emitted[c] + forwarded[c] <= UpdatesOf(tool[c])
      BY DEF IInv, UpdatesBounded
    <3>2. UpdatesOf(tool[c]) \in 0..2
      BY DEF IInv, Types, UpdatesOf, Tools
    <3> QED BY <3>1, <3>2
  <2> QED BY <2>1 DEF IInv, UpdatesBounded
<1>2. TypeOK
  BY <1>1 DEF IInv, Types, TypeOK, Tools, Results, Pumps, LedgerIInv
<1> QED BY <1>2 DEF IInv, BridgeInv, GateIInv, CausesAreTrue, ReloadIsNoAbort, LedgerIInv

(* tools_bridge.rs, state.rs, ledger.rs: in a run of any number of calls a prompt
   is registered exactly while a pump waits for its answer, a run is cancelled
   only by somebody who meant it, and the ledger says of every background process
   what happened to it. *)
THEOREM BridgeIsSafe == Spec => []BridgeInv
BY AlwaysIInv, IInvGivesBridgeInv, PTL

(* tools_bridge.rs, approval_decision: no interleaving of timers, aborts, closed
   connections and late or second answers runs a command that was denied, or one
   that needs approval before its own prompt was answered with yes. *)
THEOREM ConsentIsSafe == Spec => []ConsentComesFirst
<1>1. IInv => ConsentComesFirst
  BY DEF IInv, GateIInv, Consent, GateIsPassed, ConsentComesFirst
<1> QED BY <1>1, AlwaysIInv, PTL

===============================================================================
