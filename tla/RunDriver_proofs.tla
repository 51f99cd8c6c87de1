---------------------------- MODULE RunDriver_proofs ---------------------------
(***************************************************************************)
(* Proofs about RunDriver: DriverInv holds whatever the model says and     *)
(* however often it calls tools, of any limits, failing writes and sizes.  *)
(***************************************************************************)
EXTENDS RunDriver, FiniteSetTheorems, SequenceTheorems, TLAPS

-------------------------------------------------------------------------------
(* The inductive invariant.                                                *)

(* The driver is still at work: nothing is decided. *)
Working == {"start", "open", "stream", "completed", "truncated", "toolcall", "dispatched",
            "exec", "result", "resulted"}

(* What the store has or will have, if no write fails. *)
Log == entries \o writing

(* One entry is under way at most, and the driver waits for it or is over. *)
OneWrite ==
  /\ Len(writing) <= 1
  /\ writing # <<>> => pc \in {"dispatched", "resulted", "return", "expired", "done"}
  /\ pc = "done" /\ outcome = "Completed" => writing = <<>>

(* The limits are kept, and what is over them ends the run. *)
Limits ==
  /\ outcome = "none" <=> pc \in Working
  /\ pc \in Working => truncations <= MaxContinuations /\ rounds <= MaxRounds
  /\ pc \in {"toolcall", "dispatched", "exec", "result"} => call # None

(* Of Lifecycle End and Error, what has been announced and is about to be. *)
Coming(kind) == \E i \in DOMAIN sending : sending[i] = kind
ToldOr(kind) == lost \/ Announced(kind) \/ Coming(kind)
Untold(kind) == ~Announced(kind) /\ ~Coming(kind)

Verdict ==
  /\ pc \in Working => Untold("error")
  /\ pc \in Working \ {"completed"} => Untold("end")
  /\ pc = "completed" => ToldOr("end")
  /\ pc = "return" /\ outcome = "Completed" => ToldOr("end") /\ Untold("error") /\ sending = <<>>
  /\ pc = "return" /\ outcome # "Completed" => ToldOr("error") /\ Untold("end")
  /\ pc = "expired" => ToldOr("error") /\ setup.timeout /\ outcome = "Aborted"
  /\ pc = "done" => sending = <<>> /\ VerdictMatches

(* Text the driver has received and not yet given to the store. *)
Unsaved == IF pc \in {"start", "open", "stream", "completed", "truncated", "toolcall"}
           THEN carried \o acc ELSE <<>>

(* A log says the first of n texts, and what is unsaved the rest. *)
GoesOn(log, unsaved, n) ==
  /\ \A k \in DOMAIN unsaved : unsaved[k] = (n - Len(unsaved)) + k
  /\ Len(unsaved) <= n
  /\ Says(log, n - Len(unsaved))

Reply == refused = 0 /\ outcome \in {"none", "Completed"} => GoesOn(Log, Unsaved, said)

(* Nothing is unsaved at the start, and nothing but the turn's own text, which
   the dispatch holds, in a tool round. *)
Carrying ==
  /\ pc = "start" => acc = <<>> /\ carried = <<>>
  /\ pc \in {"dispatched", "exec", "result", "resulted"} => carried = <<>>

(* Half a sentence is last in the log. *)
Fragments ==
  \A i \in DOMAIN Log : Log[i].role = "assistant" /\ ~Dispatch(Log[i]) =>
     i = Len(Log) /\ pc \notin Working /\ (Announced("end") \/ lost)

Results ==
  refused = 0 =>
    /\ \A i \in DOMAIN Log : Log[i].role = "tool" =>
         i > 1 /\ Dispatch(Log[i - 1]) /\ Log[i - 1].call = Log[i].call
    /\ pc \in {"dispatched", "exec", "result"} =>
         Log # <<>> /\ Dispatch(Log[Len(Log)]) /\ Log[Len(Log)].call = call

(* How often a call was made, and how many of its results are in a log. *)
Among(s, T) == {i \in DOMAIN s : s[i] \in T}
ResultEntries(c) == {e \in Entries : e.role = "tool" /\ e.call = c}
Made(c) == Among(prints, {c})
ResultsOf(log, c) == Among(log, ResultEntries(c))
Owed(c) == IF pc \in {"exec", "result"} /\ call = c THEN 1 ELSE 0

Circles ==
  \A c \in Calls :
    /\ Cardinality(ResultsOf(Log, c)) < LoopThreshold
    /\ pc \in Working => /\ Cardinality(Made(c)) < LoopThreshold
                         /\ Cardinality(ResultsOf(Log, c)) + Owed(c) <= Cardinality(Made(c))

IInv == /\ TypeOK /\ OneWrite /\ Limits /\ Carrying /\ Verdict
        /\ Reply /\ Fragments /\ Results /\ Circles

-------------------------------------------------------------------------------
(* Types.                                                                  *)

Events == Seq(Lifecycle \cup Inline)

LEMMA EventsAreTyped ==
  /\ <<"error">> \in Events /\ <<"error", "error">> \in Events /\ <<"end">> \in Events
  /\ <<"text">> \in Events /\ <<"reasoning">> \in Events
  /\ <<"tool">> \in Events /\ <<"toolend">> \in Events
<1>1. ASSUME NEW S, NEW x \in S, NEW y \in S
      PROVE  <<x>> \in Seq(S) /\ <<x, y>> \in Seq(S)
  OBVIOUS
<1>2. {"error", "end", "text", "reasoning", "tool", "toolend"} \subseteq Lifecycle \cup Inline
  BY DEF Lifecycle, Inline
<1> QED  BY <1>1, <1>2 DEF Events

(* What persist queues, if anything. *)
LEMMA PersistQueues ==
  ASSUME TypeOK, NEW e \in Entries, Persist(e)
  PROVE  writing' \in Seq(Entries)
BY DEF Persist, TypeOK

LEMMA EntryIsTyped ==
  ASSUME NEW r \in {"assistant", "tool"}, NEW t \in Seq(Texts), NEW c \in Calls \cup {None}
  PROVE  Entry(r, t, c) \in Entries
BY DEF Entry, Entries

(* Types, and the limits they name, from what a step writes. *)
LEMMA TypesKept ==
  ASSUME IInv, [Next]_vars
  PROVE  TypeOK'
<1>1. TypeOK /\ Limits /\ OneWrite
  BY DEF IInv
<1>2. carried \o acc \in Seq(Texts)
  BY <1>1 DEF TypeOK
<1>3. /\ OutCap \in Nat /\ MaxRounds \in Nat /\ MaxContinuations \in Nat
      /\ MaxDeltas \in Nat /\ MaxFailures \in Nat
  BY DriverAssumption
<1>4. CASE Send
  <2>1. Head(sending) \in Lifecycle \cup Inline /\ sending' \in Seq(Lifecycle \cup Inline)
    BY <1>1, <1>4 DEF Send, TypeOK
  <2>2. announced' \in Seq(Lifecycle)
    <3>1. announced \in Seq(Lifecycle) /\ (announced' = announced \/ HandOver(Head(sending)))
      BY <1>1, <1>4 DEF Send, TypeOK
    <3> QED  BY <3>1 DEF HandOver
  <2>3. outbound' \in 0..OutCap
    BY <1>1, <1>3, <1>4 DEF Send, TypeOK
  <2> QED  BY <1>1, <1>4, <2>1, <2>2, <2>3 DEF Send, TypeOK, modelVars, storeVars
<1>5. CASE Opens \/ Begin \/ Disconnected \/ Cancelled \/ IdleTimeout \/ StreamFails \/ ModelDone
           \/ ModelLength \/ ExecTool \/ Finish \/ Expired \/ RunTimeout
  <2>1. UNCHANGED <<modelVars, storeVars, linkVars, sentVars>>
    BY <1>5 DEF Opens, OpenSucceeds, OpenFails, Begin, Disconnected, Cancelled, IdleTimeout,
                StreamFails, ModelDone, ModelLength, ExecTool, Finish, Expired, RunTimeout, Quiet
  <2>2. cancelled' \in BOOLEAN
    <3>1. cancelled' = cancelled \/ cancelled' = TRUE
      BY <1>5 DEF Opens, OpenSucceeds, OpenFails, Begin, Disconnected, Cancelled, IdleTimeout,
                StreamFails, ModelDone, ModelLength, ExecTool, Finish, Expired, RunTimeout, Quiet
    <3> QED  BY <1>1, <3>1 DEF TypeOK
  <2>3. pc' \in Labels /\ outcome' \in Outcomes \cup {"none"}
    <3>1. /\ pc' \in {"open", "stream", "return", "completed", "truncated", "result", "done",
                      "expired"}
          /\ outcome' \in {outcome, "Completed", "Failed", "Aborted"}
      BY <1>5 DEF Opens, OpenSucceeds, OpenFails, Begin, Disconnected, Cancelled, IdleTimeout,
                StreamFails, ModelDone, ModelLength, ExecTool, Finish, Expired, RunTimeout, Goto,
                Return
    <3> QED  BY <1>1, <3>1 DEF TypeOK, Labels, Outcomes
  <2>4. sending' \in {sending, <<"error">>, <<"error", "error">>, <<"end">>, <<"toolend">>}
    BY <1>5 DEF Opens, OpenSucceeds, OpenFails, Begin, Disconnected, Cancelled, IdleTimeout,
                StreamFails, ModelDone, ModelLength, ExecTool, Finish, Expired, RunTimeout, Emit
  <2>5. sending' \in Seq(Lifecycle \cup Inline)
    BY <1>1, <2>4, EventsAreTyped DEF TypeOK, Events
  <2> QED  BY <1>1, <2>1, <2>2, <2>3, <2>5 DEF TypeOK, modelVars, storeVars, linkVars, sentVars
<1>6. CASE ModelText \/ ModelReasoning
  <2>1. said' \in Nat /\ mused' \in Nat /\ said' + mused' <= MaxDeltas
    <3>1. said \in Nat /\ mused \in Nat
      BY <1>1 DEF TypeOK
    <3>2. /\ said + mused < MaxDeltas
          /\ \/ said' = said + 1 /\ mused' = mused
             \/ said' = said /\ mused' = mused + 1
      BY <1>6 DEF ModelText, ModelReasoning
    <3> QED  BY <1>3, <3>1, <3>2
  <2>2. acc' \in Seq(Texts)
    <3>1. said \in Nat /\ mused \in Nat /\ acc \in Seq(Texts)
      BY <1>1 DEF TypeOK
    <3>2. CASE ModelText
      <4>1. said + 1 \in Texts
        BY <1>3, <3>1, <3>2 DEF ModelText, Texts
      <4> QED  BY <3>1, <3>2, <4>1 DEF ModelText
    <3> QED  BY <1>6, <3>1, <3>2 DEF ModelReasoning
  <2>3. sending' \in Seq(Lifecycle \cup Inline)
    BY <1>6, EventsAreTyped DEF ModelText, ModelReasoning, Emit, Events
  <2> QED  BY <1>1, <1>6, <2>1, <2>2, <2>3
             DEF ModelText, ModelReasoning, TypeOK, storeVars, linkVars, sentVars
<1>7. ASSUME NEW c \in Calls, ModelToolCall(c)
      PROVE  TypeOK'
  BY <1>1, <1>7 DEF ModelToolCall, TypeOK, Goto, Labels, storeVars, linkVars, sentVars
<1>8. CASE Completed
  <2>1. writing' \in Seq(Entries)
    BY <1>1, <1>2, <1>8, EntryIsTyped, PersistQueues DEF Completed
  <2> QED  BY <1>1, <1>8, <2>1 DEF Completed, TypeOK, Return, Goto, Labels, Outcomes, modelVars,
                                   linkVars, sentVars
<1>9. CASE Truncated
  <2>1. truncations' \in 0..(MaxContinuations + 1)
    BY <1>1, <1>3, <1>9 DEF Truncated, CountTruncation, TypeOK, Limits, Working, At
  <2>2. /\ carried' \in Seq(Texts) /\ acc' \in Seq(Texts) /\ writing' = writing
        /\ sending' \in Seq(Lifecycle \cup Inline)
    <3>1. carried \in Seq(Texts) /\ acc \in Seq(Texts) /\ <<>> \in Seq(Texts) /\ sending \in Events
      BY <1>1 DEF TypeOK, Events
    <3> QED  BY <1>2, <1>9, <3>1, EventsAreTyped DEF Truncated, KeepFragment, Emit, Events
  <2>3. pc' \in Labels /\ outcome' \in Outcomes \cup {"none"}
    BY <1>1, <1>9 DEF Truncated, TypeOK, Return, Goto, Labels, Outcomes
  <2> QED  BY <1>1, <1>9, <2>1, <2>2, <2>3 DEF Truncated, TypeOK, linkVars, sentVars
<1>10. CASE ToolCall
  <2>1. writing' \in Seq(Entries)
    <3>1. call \in Calls \cup {None}
      BY <1>1 DEF TypeOK
    <3> QED  BY <1>1, <1>2, <1>10, <3>1, EntryIsTyped, PersistQueues DEF ToolCall
  <2> QED  BY <1>1, <1>10, <2>1 DEF ToolCall, DropCarried, TypeOK, Goto, Labels, linkVars, sentVars
<1>11. CASE Dispatched
  <2>1. call \in Calls /\ rounds \in 0..MaxRounds
    BY <1>1, <1>11, <1>3 DEF Dispatched, At, Limits, TypeOK, Working
  <2>2. prints' \in Seq(Calls) /\ rounds' \in 0..(MaxRounds + 1)
    BY <1>1, <1>3, <1>11, <2>1 DEF Dispatched, TypeOK
  <2>3. sending' \in Seq(Lifecycle \cup Inline)
    BY <1>11, EventsAreTyped DEF Dispatched, Emit, Events
  <2>4. pc' \in Labels /\ outcome' \in Outcomes \cup {"none"}
    BY <1>1, <1>11 DEF Dispatched, TypeOK, Return, Goto, Labels, Outcomes
  <2> QED  BY <1>1, <1>11, <2>2, <2>3, <2>4 DEF Dispatched, TypeOK, storeVars, linkVars, sentVars
<1>12. CASE ToolResult
  <2>1. PICK output \in {<<>>, <<0>>} : Persist(Entry("tool", output, call))
    BY <1>12 DEF ToolResult
  <2>2. output \in Seq(Texts) /\ call \in Calls \cup {None}
    <3>1. 0 \in Texts /\ call \in Calls \cup {None}
      BY <1>1, <1>3 DEF TypeOK, Texts
    <3>2. <<>> \in Seq(Texts) /\ <<0>> \in Seq(Texts)
      BY <3>1
    <3> QED  BY <3>1, <3>2
  <2>3. writing' \in Seq(Entries)
    BY <1>1, <2>1, <2>2, EntryIsTyped, PersistQueues
  <2> QED  BY <1>1, <1>12, <2>3 DEF ToolResult, TypeOK, Goto, Labels, modelVars, linkVars, sentVars
<1>13. CASE NextTurn
  BY <1>1, <1>13 DEF NextTurn, DropText, TypeOK, Goto, Labels, storeVars, linkVars, sentVars
<1>14. CASE Write
  BY <1>1, <1>14 DEF Write, TypeOK, modelVars, linkVars, sentVars
<1>15. CASE WriteFails
  BY <1>1, <1>3, <1>15 DEF WriteFails, TypeOK, modelVars, linkVars, sentVars
<1>16. CASE Cancel \/ ClientReads \/ ClientCloses
  <2>1. outbound' \in 0..OutCap
    BY <1>1, <1>3, <1>16 DEF Cancel, ClientReads, ClientCloses, TypeOK, linkVars
  <2>2. link' \in {"open", "closed"} /\ cancelled' \in BOOLEAN /\ setup' = setup
    BY <1>1, <1>16 DEF Cancel, ClientReads, ClientCloses, TypeOK, linkVars
  <2> QED  BY <1>1, <1>16, <2>1, <2>2 DEF Cancel, ClientReads, ClientCloses, TypeOK, modelVars,
                                    storeVars, linkVars, sentVars
<1>17. CASE UNCHANGED vars
  BY <1>1, <1>17 DEF vars, TypeOK, modelVars, storeVars, linkVars, sentVars
<1> QED  BY <1>4, <1>5, <1>6, <1>7, <1>8, <1>9, <1>10, <1>11, <1>12, <1>13, <1>14, <1>15, <1>16,
            <1>17 DEF Next, Proceeds, Streams, Over

-------------------------------------------------------------------------------
(* Control: where the driver is, and what it has announced.                *)

(* The steps of others leave the driver where it is. *)
Others == Write \/ WriteFails \/ Cancel \/ ClientReads \/ ClientCloses \/ UNCHANGED vars

LEMMA OneWriteKept ==
  ASSUME IInv, [Next]_vars
  PROVE  OneWrite'
<1>1. OneWrite /\ Limits /\ writing \in Seq(Entries)
  BY DEF IInv, TypeOK
<1>2. ASSUME NEW e, Persist(e), writing = <<>>
      PROVE  Len(writing') <= 1
  BY <1>2 DEF Persist
<1>3. pc \in {"completed", "toolcall", "result"} => writing = <<>>
  BY <1>1 DEF OneWrite
<1>4. CASE Completed \/ ToolCall \/ ToolResult
  <2>1. Len(writing') <= 1
    BY <1>2, <1>3, <1>4 DEF Completed, ToolCall, ToolResult, At
  <2> QED  BY <1>4, <2>1 DEF Completed, ToolCall, ToolResult, OneWrite, Goto, Return
<1>5. CASE Truncated
  BY <1>1, <1>5 DEF Truncated, KeepFragment, At, OneWrite
<1>6. CASE Dispatched \/ NextTurn \/ Finish
  BY <1>1, <1>6 DEF Dispatched, NextTurn, Finish, Quiet, OneWrite, storeVars
<1>7. CASE Opens \/ Begin \/ Disconnected \/ Cancelled \/ IdleTimeout \/ StreamFails \/ ModelDone
           \/ ModelLength \/ ModelText \/ ModelReasoning \/ (\E c \in Calls : ModelToolCall(c))
           \/ ExecTool
  <2>1. writing = <<>>
    BY <1>1, <1>7 DEF Opens, OpenSucceeds, OpenFails, Begin, Disconnected, Cancelled, IdleTimeout,
                StreamFails, ModelDone, ModelLength, ModelText, ModelReasoning, ModelToolCall,
                ExecTool, At, OneWrite
  <2>2. writing' = writing
    BY <1>7 DEF Opens, OpenSucceeds, OpenFails, Begin, Disconnected, Cancelled, IdleTimeout,
                StreamFails, ModelDone, ModelLength, ModelText, ModelReasoning, ModelToolCall,
                ExecTool, Quiet, storeVars
  <2> QED  BY <2>1, <2>2 DEF OneWrite
<1>8. CASE RunTimeout
  BY <1>1, <1>8 DEF RunTimeout, Goto, OneWrite, storeVars
<1>9. CASE Expired
  <2>1. outcome = "Aborted"
    BY <1>9 DEF Expired, At, IInv, Verdict
  <2> QED  BY <1>1, <1>9, <2>1 DEF Expired, At, Goto, Quiet, OneWrite, storeVars
<1>10. CASE Send
  BY <1>1, <1>10 DEF Send, OneWrite, storeVars
<1>11. CASE Others
  <2>1. pc' = pc /\ outcome' = outcome
    BY <1>11 DEF Others, Write, WriteFails, Cancel, ClientReads, ClientCloses, vars
  <2>2. writing' = writing \/ (writing # <<>> /\ writing' = Tail(writing))
    BY <1>11 DEF Others, Write, WriteFails, Cancel, ClientReads, ClientCloses, vars, storeVars
  <2>3. Len(writing') <= 1 /\ (writing' # <<>> => writing # <<>>)
    BY <1>1, <2>2 DEF OneWrite
  <2> QED  BY <1>1, <2>1, <2>3 DEF OneWrite
<1> QED  BY <1>4, <1>5, <1>6, <1>7, <1>8, <1>9, <1>10, <1>11
         DEF Next, Proceeds, Streams, Over, Others

LEMMA LimitsKept ==
  ASSUME IInv, [Next]_vars
  PROVE  Limits' /\ Carrying'
<1>1. Limits /\ Carrying
  BY DEF IInv
<1>2. /\ None \notin Calls /\ acc \in Seq(Texts) /\ carried \in Seq(Texts)
      /\ truncations \in Nat /\ rounds \in Nat /\ MaxContinuations \in Nat /\ MaxRounds \in Nat
  BY DriverAssumption DEF IInv, TypeOK
<1>3. CASE Opens \/ Begin \/ Disconnected \/ Cancelled \/ IdleTimeout \/ StreamFails \/ ModelDone
           \/ ModelLength \/ ExecTool \/ Finish \/ Expired
  <2>1. UNCHANGED modelVars
    BY <1>3 DEF Opens, OpenSucceeds, OpenFails, Begin, Disconnected, Cancelled, IdleTimeout,
                StreamFails, ModelDone, ModelLength, ExecTool, Finish, Expired, Quiet
  <2>2. \/ pc' = "return" /\ outcome' # "none"
        \/ outcome' = outcome /\ pc = "start" /\ pc' = "open"
        \/ outcome' = outcome /\ pc = "open" /\ pc' = "stream"
        \/ outcome' = outcome /\ pc = "stream" /\ pc' \in {"completed", "truncated"}
        \/ outcome' = outcome /\ pc = "exec" /\ pc' = "result"
        \/ outcome' = outcome /\ pc \in {"return", "expired"} /\ pc' = "done"
    BY <1>3 DEF Opens, OpenSucceeds, OpenFails, Begin, Disconnected, Cancelled, IdleTimeout,
                StreamFails, ModelDone, ModelLength, ExecTool, Finish, Expired, At, Goto, Return
  <2> QED  BY <1>1, <2>1, <2>2 DEF Limits, Carrying, Working, modelVars
<1>4. CASE ModelText \/ ModelReasoning
  BY <1>1, <1>4 DEF ModelText, ModelReasoning, At, Limits, Carrying, Working
<1>5. ASSUME NEW c \in Calls, ModelToolCall(c)
      PROVE  Limits' /\ Carrying'
  BY <1>1, <1>2, <1>5 DEF ModelToolCall, At, Goto, Limits, Carrying, Working
<1>6. CASE Completed
  BY <1>1, <1>6 DEF Completed, Return, Goto, modelVars, Limits, Carrying, Working
<1>7. CASE Truncated
  <2>1. CASE TooManyTruncations
    BY <1>1, <1>7, <2>1 DEF Truncated, Return, Goto, At, Limits, Carrying, Working
  <2>2. CASE ~TooManyTruncations
    <3>1. truncations' <= MaxContinuations
      BY <1>2, <1>7, <2>2 DEF Truncated, TooManyTruncations, CountTruncation
    <3> QED  BY <1>1, <1>7, <2>2, <3>1 DEF Truncated, Goto, At, Limits, Carrying, Working
  <2> QED  BY <2>1, <2>2
<1>8. CASE ToolCall
  BY <1>1, <1>8 DEF ToolCall, DropCarried, Goto, At, Limits, Carrying, Working
<1>9. CASE Dispatched
  <2>1. CASE pc' = "exec"
    <3>1. rounds' <= MaxRounds
      BY <1>2, <1>9, <2>1 DEF Dispatched, Return, Goto
    <3> QED  BY <1>1, <1>9, <2>1, <3>1 DEF Dispatched, Return, Goto, At, Limits, Carrying, Working
  <2>2. CASE pc' # "exec"
    BY <1>1, <1>9, <2>2 DEF Dispatched, Return, Goto, At, Limits, Carrying, Working
  <2> QED  BY <2>1, <2>2
<1>10. CASE ToolResult
  BY <1>1, <1>10 DEF ToolResult, Goto, At, modelVars, Limits, Carrying, Working
<1>11. CASE NextTurn
  BY <1>1, <1>11 DEF NextTurn, Goto, At, Limits, Carrying, Working
<1>12. CASE RunTimeout
  BY <1>1, <1>12 DEF RunTimeout, Goto, modelVars, Limits, Carrying, Working
<1>13. CASE Send \/ Others
  BY <1>1, <1>13 DEF Send, Others, Write, WriteFails, Cancel, ClientReads, ClientCloses, vars,
                     modelVars, Limits, Carrying
<1> QED  BY <1>3, <1>4, <1>5, <1>6, <1>7, <1>8, <1>9, <1>10, <1>11, <1>12, <1>13
         DEF Next, Proceeds, Streams, Over, Others

(* An event that is sent is announced, unless the connection is gone; no other
   is. *)
LEMMA SendTells ==
  ASSUME TypeOK, Send, NEW kind \in {"end", "error"}
  PROVE  (ToldOr(kind) => ToldOr(kind)') /\ (Untold(kind) => Untold(kind)')
<1>1. /\ sending \in Seq(Lifecycle \cup Inline) /\ sending # <<>> /\ sending' = Tail(sending)
      /\ announced \in Seq(Lifecycle)
      /\ \/ lost'
         \/ lost' = lost /\ HandOver(Head(sending))
      /\ \/ announced' = announced
         \/ HandOver(Head(sending))
  BY DEF Send, TypeOK
<1>2. \A i \in DOMAIN sending : i = 1 \/ (i - 1 \in DOMAIN sending' /\ sending'[i - 1] = sending[i])
  BY <1>1
<1>3. \A i \in DOMAIN sending' : i + 1 \in DOMAIN sending /\ sending'[i] = sending[i + 1]
  BY <1>1
<1>4. Coming(kind) => Coming(kind)' \/ Head(sending) = kind
  <2>1. Head(sending) = sending[1]
    BY <1>1
  <2> QED  BY <1>2, <2>1 DEF Coming
<1>5. Coming(kind)' \/ Head(sending) = kind => Coming(kind)
  <2>1. 1 \in DOMAIN sending /\ Head(sending) = sending[1]
    BY <1>1
  <2> QED  BY <1>3, <2>1 DEF Coming
<1>6. HandOver(Head(sending)) =>
        (Announced(kind)' <=> Announced(kind) \/ Head(sending) = kind)
  <2>1. ASSUME NEW x
        PROVE  \A i \in DOMAIN Append(announced, x) :
                 i \in DOMAIN announced \/ Append(announced, x)[i] = x
    BY <1>1
  <2>2. ASSUME NEW x
        PROVE  /\ \A i \in DOMAIN announced :
                    i \in DOMAIN Append(announced, x) /\ Append(announced, x)[i] = announced[i]
               /\ Len(announced) + 1 \in DOMAIN Append(announced, x)
               /\ Append(announced, x)[Len(announced) + 1] = x
    BY <1>1
  <2>3. \A i \in DOMAIN Append(announced, Head(sending)) :
          \/ /\ i \in DOMAIN announced
             /\ Append(announced, Head(sending))[i] = announced[i]
          \/ Append(announced, Head(sending))[i] = Head(sending)
    BY <2>1, <2>2
  <2>4. kind \in Lifecycle
    BY DEF Lifecycle
  <2>5. CASE Head(sending) \in Lifecycle
    BY <2>2, <2>3, <2>5 DEF HandOver, Announced
  <2>6. CASE Head(sending) \notin Lifecycle
    BY <2>4, <2>6 DEF HandOver, Announced
  <2> QED  BY <2>5, <2>6
<1>7. announced' = announced => (Announced(kind)' <=> Announced(kind))
  BY DEF Announced
<1> QED  BY <1>1, <1>4, <1>5, <1>6, <1>7 DEF ToldOr, Untold

(* What a step that sends something has to announce. *)
LEMMA EmitTells ==
  ASSUME NEW events \in {<<"end">>, <<"error">>, <<"error", "error">>, <<"tool">>, <<"toolend">>,
                         <<"text">>, <<"reasoning">>},
         Emit(events)
  PROVE  /\ Coming("error")' <=> events \in {<<"error">>, <<"error", "error">>}
         /\ Coming("end")' <=> events = <<"end">>
<1>1. \A e \in Lifecycle \cup Inline : DOMAIN <<e>> = {1} /\ <<e>>[1] = e
  OBVIOUS
<1>2. DOMAIN <<"error", "error">> = {1, 2} /\ <<"error", "error">>[1] = "error"
      /\ <<"error", "error">>[2] = "error"
  OBVIOUS
<1> QED  BY <1>1, <1>2 DEF Emit, Coming, Lifecycle, Inline

LEMMA VerdictKept ==
  ASSUME IInv, [Next]_vars
  PROVE  Verdict'
<1>1. TypeOK /\ Limits /\ Verdict
  BY DEF IInv
<1>2. ~(sending = <<>> /\ Coming("error")) /\ ~(sending = <<>> /\ Coming("end"))
  BY DEF Coming
<1>3. ASSUME UNCHANGED <<announced, lost, setup, sending>>
      PROVE  \A kind : /\ ToldOr(kind)' <=> ToldOr(kind)
                       /\ Untold(kind)' <=> Untold(kind)
                       /\ Announced(kind)' <=> Announced(kind)
  BY <1>3 DEF ToldOr, Untold, Announced, Coming
<1>4. ASSUME UNCHANGED <<announced, lost>>
      PROVE  \A kind : /\ ToldOr(kind)' <=> lost \/ Announced(kind) \/ Coming(kind)'
                       /\ Untold(kind)' <=> ~Announced(kind) /\ ~Coming(kind)'
                       /\ Announced(kind)' <=> Announced(kind)
  BY <1>4 DEF ToldOr, Untold, Announced
<1>5. CASE Send
  <2>1. pc' = pc /\ outcome' = outcome /\ setup' = setup
    BY <1>5 DEF Send
  <2>2. pc # "done" /\ ~(pc = "return" /\ outcome = "Completed")
    BY <1>1, <1>5 DEF Send, Verdict
  <2>3. \A kind \in {"end", "error"} :
          (ToldOr(kind) => ToldOr(kind)') /\ (Untold(kind) => Untold(kind)')
    BY <1>1, <1>5, SendTells
  <2> QED  BY <1>1, <2>1, <2>2, <2>3 DEF Verdict
<1>6. CASE Others
  <2>1. UNCHANGED <<pc, outcome, announced, lost, setup, sending>>
    BY <1>6 DEF Others, Write, WriteFails, Cancel, ClientReads, ClientCloses, vars, sentVars,
                linkVars
  <2> QED  BY <1>1, <1>3, <2>1 DEF Verdict, VerdictMatches
(* The run ends with an error. *)
<1>7. ASSUME pc \in Working \ {"completed"}, UNCHANGED <<announced, lost, setup>>,
             Emit(<<"error">>) \/ Emit(<<"error", "error">>), pc' = "return",
             outcome' # "Completed"
      PROVE  Verdict'
  <2>1. Coming("error")' /\ ~Coming("end")'
    BY <1>7, EmitTells
  <2> QED  BY <1>1, <1>4, <1>7, <2>1 DEF Verdict, Untold, Working
(* It goes on, and announces neither. *)
<1>8. ASSUME pc \in Working \ {"completed"}, pc' \in Working \ {"completed"},
             UNCHANGED <<announced, lost, setup>>,
             sending' = sending \/ \E events \in {<<"text">>, <<"reasoning">>, <<"tool">>,
                                                  <<"toolend">>} : Emit(events)
      PROVE  Verdict'
  <2>1. /\ Coming("error")' => Coming("error")
        /\ Coming("end")' => Coming("end")
    <3>1. CASE sending' = sending
      BY <3>1 DEF Coming
    <3>2. CASE \E events \in {<<"text">>, <<"reasoning">>, <<"tool">>, <<"toolend">>} : Emit(events)
      <4>1. PICK events \in {<<"text">>, <<"reasoning">>, <<"tool">>, <<"toolend">>} : Emit(events)
        BY <3>2
      <4>2. events \notin {<<"error">>, <<"error", "error">>, <<"end">>}
        BY <4>1
      <4> QED  BY <4>1, <4>2, EmitTells
    <3> QED  BY <1>8, <3>1, <3>2
  <2> QED  BY <1>1, <1>4, <1>8, <2>1 DEF Verdict, Untold, Working
<1>9. CASE Begin
  <2>1. CASE lost
    <3>1. UNCHANGED <<announced, lost, setup, sending>> /\ sending = <<>> /\ pc = "start"
          /\ pc' = "return" /\ outcome' = "Completed"
      BY <1>9, <2>1 DEF Begin, Return, Goto, Quiet, At, sentVars, linkVars
    <3> QED  BY <1>1, <1>3, <2>1, <3>1 DEF Verdict, ToldOr, Working
  <2>2. CASE ~lost
    BY <1>8, <1>9, <2>2 DEF Begin, Goto, Quiet, At, sentVars, linkVars, Working
  <2> QED  BY <2>1, <2>2
<1>10. CASE OpenFails \/ Disconnected \/ Cancelled \/ IdleTimeout \/ StreamFails
  BY <1>7, <1>10 DEF OpenFails, Disconnected, Cancelled, IdleTimeout, StreamFails, At, Return, Goto,
                     Quiet, sentVars, linkVars, Working
<1>11. CASE OpenSucceeds \/ ModelText \/ ModelReasoning \/ ModelLength \/ ExecTool
            \/ (\E c \in Calls : ModelToolCall(c))
  BY <1>8, <1>11 DEF OpenSucceeds, ModelText, ModelReasoning, ModelLength, ExecTool, ModelToolCall,
                     At, Goto, Quiet, sentVars, linkVars, Working
<1>12. CASE ToolCall \/ ToolResult \/ NextTurn
  BY <1>8, <1>12 DEF ToolCall, ToolResult, NextTurn, At, Goto, sentVars, linkVars, Working
<1>13. CASE Truncated
  <2>1. pc = "truncated" /\ UNCHANGED <<announced, lost, setup>>
    BY <1>13 DEF Truncated, At, sentVars, linkVars
  <2>2. CASE TooManyTruncations
    BY <1>7, <1>13, <2>1, <2>2 DEF Truncated, Return, Goto, Working
  <2>3. CASE ~TooManyTruncations
    BY <1>8, <1>13, <2>1, <2>3 DEF Truncated, Goto, Working
  <2> QED  BY <2>2, <2>3
<1>14. CASE Dispatched
  <2>1. pc = "dispatched" /\ UNCHANGED <<announced, lost, setup>>
    BY <1>14 DEF Dispatched, At, sentVars, linkVars
  <2>2. \/ Emit(<<"error">>) /\ Return("LoopDetected")
        \/ Emit(<<"tool">>) /\ Goto("exec")
    BY <1>14 DEF Dispatched
  <2> QED  BY <1>7, <1>8, <2>1, <2>2 DEF Return, Goto, Working
<1>15. CASE ModelDone
  <2>1. /\ pc = "stream" /\ UNCHANGED <<announced, lost, setup>> /\ Emit(<<"end">>)
        /\ pc' = "completed"
    BY <1>15 DEF ModelDone, At, Goto, Quiet, sentVars, linkVars
  <2>2. Coming("end")' /\ ~Coming("error")'
    <3>1. <<"end">> \notin {<<"error">>, <<"error", "error">>}
      OBVIOUS
    <3> QED  BY <2>1, <3>1, EmitTells
  <2> QED  BY <1>1, <1>4, <2>1, <2>2 DEF Verdict, Untold, Working
<1>16. CASE Completed
  <2>1. /\ pc = "completed" /\ sending = <<>> /\ UNCHANGED <<announced, lost, setup, sending>>
        /\ pc' = "return" /\ outcome' = "Completed"
    BY <1>16 DEF Completed, At, Return, Goto, sentVars, linkVars
  <2> QED  BY <1>1, <1>3, <2>1 DEF Verdict, Working
<1>17. CASE Finish \/ Expired
  <2>1. /\ pc \in {"return", "expired"} /\ sending = <<>>
        /\ UNCHANGED <<announced, lost, setup, sending, outcome>> /\ pc' = "done"
    BY <1>17 DEF Finish, Expired, At, Goto, Quiet, sentVars, linkVars
  <2>2. VerdictMatches'
    <3>1. CASE pc = "return" /\ outcome = "Completed"
      BY <1>1, <1>2, <1>3, <2>1, <3>1 DEF Verdict, VerdictMatches, ToldOr, Untold
    <3>2. CASE pc = "return" /\ outcome # "Completed"
      BY <1>1, <1>2, <1>3, <2>1, <3>2 DEF Verdict, VerdictMatches, ToldOr, Untold
    <3>3. CASE pc = "expired"
      BY <1>1, <1>2, <1>3, <2>1, <3>3 DEF Verdict, VerdictMatches, ToldOr
    <3> QED  BY <2>1, <3>1, <3>2, <3>3
  <2> QED  BY <2>1, <2>2 DEF Verdict, Working
<1>18. CASE RunTimeout
  <2>1. /\ setup.timeout /\ Emit(<<"error">>) /\ pc' = "expired" /\ outcome' = "Aborted"
        /\ UNCHANGED <<announced, lost, setup>>
    BY <1>18 DEF RunTimeout, Goto, sentVars, linkVars
  <2>2. Coming("error")'
    BY <2>1, EmitTells
  <2> QED  BY <1>4, <2>1, <2>2 DEF Verdict, Working
<1> QED  BY <1>5, <1>6, <1>9, <1>10, <1>11, <1>12, <1>13, <1>14, <1>15, <1>16, <1>17, <1>18
         DEF Next, Proceeds, Streams, Over, Others, Opens

-------------------------------------------------------------------------------
(* The log: what the store has and what is under way to it.                *)

Persists == Completed \/ ToolCall \/ ToolResult

LEMMA LogIsTyped == TypeOK => Log \in Seq(Entries)
BY DEF TypeOK, Log

LEMMA OneElement ==
  ASSUME NEW S, NEW s \in Seq(S), Len(s) <= 1, s # <<>>
  PROVE  \E x \in S : s = <<x>>
<1>1. Len(s) = 1 /\ s[1] \in S
  <2>1. Len(s) \in Nat \ {0}
    BY EmptySeq
  <2>2. Len(s) = 1
    BY <2>1
  <2> QED  BY <2>2, ElementOfSeq
<1>2. s = <<s[1]>>
  BY <1>1, SeqEqual
<1> QED  BY <1>1, <1>2

(* A write that succeeds moves an entry from the queue to the store. *)
LEMMA LogStays ==
  ASSUME IInv, [Next]_vars, ~Persists, ~WriteFails
  PROVE  Log' = Log /\ refused' = refused
<1>1. entries \in Seq(Entries) /\ writing \in Seq(Entries) /\ Len(writing) <= 1
  BY DEF IInv, TypeOK, OneWrite
<1>2. CASE Write
  <2>1. PICK x : writing = <<x>>
    BY <1>1, <1>2, OneElement DEF Write
  <2>2. entries' = Append(entries, x) /\ writing' = <<>> /\ refused' = refused
    BY <1>2, <2>1 DEF Write
  <2> QED  BY <1>1, <2>1, <2>2 DEF Log
<1>3. CASE ~Write
  <2>1. UNCHANGED storeVars
    BY <1>3 DEF Next, Opens, OpenSucceeds, OpenFails, Proceeds, Streams, Begin, Disconnected,
      Cancelled, IdleTimeout, StreamFails, ModelText, ModelReasoning, ModelDone, ModelLength,
      ModelToolCall, Persists, Truncated, KeepFragment, Dispatched, ExecTool, NextTurn, Finish,
      Expired, RunTimeout, Send, Cancel, ClientReads, ClientCloses, Over, Quiet, vars, storeVars
  <2> QED  BY <2>1 DEF storeVars, Log
<1> QED  BY <1>2, <1>3

(* One that fails takes the last entry with it. *)
LEMMA LogShrinks ==
  ASSUME IInv, WriteFails
  PROVE  /\ refused' # 0 /\ Log' \in Seq(Entries) /\ Len(Log) = Len(Log') + 1
         /\ \A i \in DOMAIN Log' : i \in DOMAIN Log /\ Log'[i] = Log[i]
<1>1. /\ entries \in Seq(Entries) /\ writing \in Seq(Entries) /\ Len(writing) <= 1
      /\ refused \in Nat /\ writing # <<>> /\ entries' = entries
      /\ refused' = refused + 1 /\ writing' = Tail(writing)
  BY DEF IInv, TypeOK, OneWrite, WriteFails
<1>2. PICK x \in Entries : writing = <<x>>
  BY <1>1, OneElement
<1>3. Log' = entries /\ Log = Append(entries, x)
  BY <1>1, <1>2 DEF Log
<1> QED  BY <1>1, <1>3

(* persist adds an entry, if it is worth storing. *)
LEMMA LogGrows ==
  ASSUME IInv, NEW e, Persist(e), writing = <<>>, UNCHANGED entries
  PROVE  Log' = IF WorthStoring(e) THEN Append(Log, e) ELSE Log
<1>1. entries \in Seq(Entries)
  BY DEF IInv, TypeOK
<1> QED  BY <1>1 DEF Persist, Log

(* What a longer log holds. *)
LEMMA Appending ==
  ASSUME NEW log \in Seq(Entries), NEW e \in Entries
  PROVE  /\ Append(log, e) \in Seq(Entries) /\ Len(Append(log, e)) = Len(log) + 1
         /\ DOMAIN Append(log, e) = DOMAIN log \cup {Len(log) + 1}
         /\ Len(log) + 1 \notin DOMAIN log
         /\ \A i \in DOMAIN log : Append(log, e)[i] = log[i] /\ i <= Len(log) /\ i \in Nat
         /\ Append(log, e)[Len(log) + 1] = e
OBVIOUS

(* The three entries a run stores. *)
LEMMA WhatIsPersisted ==
  ASSUME IInv, Persists
  PROVE  /\ writing = <<>> /\ refused' = refused /\ entries' = entries
         /\ \E e \in Entries :
              /\ Persist(e)
              /\ \/ /\ Completed /\ pc = "completed" /\ e = Entry("assistant", carried \o acc, None)
                 \/ /\ ToolCall /\ pc = "toolcall" /\ e = Entry("assistant", carried \o acc, call)
                    /\ call \in Calls
                 \/ /\ ToolResult /\ pc = "result" /\ e.role = "tool" /\ e.call = call
                    /\ call \in Calls
<1>1. TypeOK /\ OneWrite /\ Limits
  BY DEF IInv
<1>2. carried \o acc \in Seq(Texts) /\ call \in Calls \cup {None}
  BY <1>1 DEF TypeOK
<1>3. writing = <<>> /\ refused' = refused /\ entries' = entries
  BY <1>1 DEF Persists, Completed, ToolCall, ToolResult, At, OneWrite
<1>4. CASE Completed
  BY <1>2, <1>3, <1>4, EntryIsTyped DEF Completed, At
<1>5. CASE ToolCall
  BY <1>1, <1>2, <1>3, <1>5, EntryIsTyped DEF ToolCall, At, Limits
<1>6. CASE ToolResult
  <2>1. PICK output \in {<<>>, <<0>>} : Persist(Entry("tool", output, call))
    BY <1>6 DEF ToolResult
  <2>2. output \in Seq(Texts) /\ pc = "result" /\ call \in Calls
    <3>1. 0 \in Texts
      BY DriverAssumption DEF Texts
    <3>2. <<>> \in Seq(Texts) /\ <<0>> \in Seq(Texts)
      BY <3>1
    <3> QED  BY <1>1, <1>2, <1>6, <3>2 DEF ToolResult, At, Limits
  <2> DEFINE e == Entry("tool", output, call)
  <2>3. e \in Entries
    BY <2>2, EntryIsTyped
  <2>4. e.role = "tool" /\ e.call = call
    BY DEF Entry
  <2> QED  BY <1>3, <1>6, <2>1, <2>2, <2>3, <2>4
<1> QED  BY <1>4, <1>5, <1>6 DEF Persists

-------------------------------------------------------------------------------
(* Which entries it holds.                                                 *)

(* Once half a sentence is stored, the run stores nothing any more. *)
LEMMA FragmentsKept ==
  ASSUME IInv, [Next]_vars
  PROVE  Fragments'
<1>1. /\ TypeOK /\ Fragments /\ Log \in Seq(Entries)
      /\ announced \in Seq(Lifecycle) /\ lost \in BOOLEAN
  BY LogIsTyped DEF IInv, TypeOK
<1>2. Announced("end") \/ lost => (Announced("end") \/ lost)'
  <2>1. lost => lost'
    BY DEF Next, Opens, OpenSucceeds, OpenFails, Proceeds, Streams, Begin, Disconnected,
      Cancelled, IdleTimeout, StreamFails, ModelText, ModelReasoning, ModelDone, ModelLength,
      ModelToolCall, Completed, Truncated, ToolCall, Dispatched, ExecTool, ToolResult, NextTurn,
      Finish, Expired, RunTimeout, Send, Write, WriteFails, Cancel, ClientReads, ClientCloses, Over,
      Quiet, vars, sentVars
  <2>2. announced' = announced \/ HandOver(Head(sending))
    BY DEF Next, Opens, OpenSucceeds, OpenFails, Proceeds, Streams, Begin, Disconnected,
      Cancelled, IdleTimeout, StreamFails, ModelText, ModelReasoning, ModelDone, ModelLength,
      ModelToolCall, Completed, Truncated, ToolCall, Dispatched, ExecTool, ToolResult, NextTurn,
      Finish, Expired, RunTimeout, Send, Write, WriteFails, Cancel, ClientReads, ClientCloses, Over,
      Quiet, vars, sentVars
  <2>3. Announced("end") => Announced("end")'
    <3>1. \A x : \A i \in DOMAIN announced :
            i \in DOMAIN Append(announced, x) /\ Append(announced, x)[i] = announced[i]
      BY <1>1
    <3> QED  BY <2>2, <3>1 DEF HandOver, Announced
  <2> QED  BY <2>1, <2>3
<1>3. pc \notin Working => pc' \notin Working
  BY DEF Next, Opens, OpenSucceeds, OpenFails, Proceeds, Streams, Begin, Disconnected,
      Cancelled, IdleTimeout, StreamFails, ModelText, ModelReasoning, ModelDone, ModelLength,
      ModelToolCall, Completed, Truncated, ToolCall, Dispatched, ExecTool, ToolResult, NextTurn,
      Finish, Expired, RunTimeout, Send, Write, WriteFails, Cancel, ClientReads, ClientCloses, Over,
      vars, At, Goto, Return, Working
<1>4. CASE Log' = Log
  BY <1>1, <1>2, <1>3, <1>4 DEF Fragments, Dispatch
<1>5. CASE WriteFails
  <2> SUFFICES ASSUME NEW i \in DOMAIN Log', Log'[i].role = "assistant", ~Dispatch(Log'[i])
               PROVE  FALSE
    BY DEF Fragments, Dispatch
  <2>1. /\ Log' \in Seq(Entries) /\ Len(Log) = Len(Log') + 1
        /\ i \in DOMAIN Log /\ Log'[i] = Log[i]
    BY <1>5, LogShrinks
  <2>2. i = Len(Log)
    BY <1>1, <2>1 DEF Fragments
  <2> QED  BY <2>1, <2>2
<1>6. CASE Persists /\ Log' # Log
  <2>1. PICK e \in Entries :
           /\ Persist(e)
           /\ \/ /\ Completed /\ pc = "completed" /\ e = Entry("assistant", carried \o acc, None)
              \/ /\ ToolCall /\ pc = "toolcall" /\ e = Entry("assistant", carried \o acc, call)
                 /\ call \in Calls
              \/ /\ ToolResult /\ pc = "result" /\ e.role = "tool" /\ e.call = call
                 /\ call \in Calls
    BY <1>6, WhatIsPersisted
  <2>2. Log' = Append(Log, e)
    BY <1>6, <2>1, LogGrows, WhatIsPersisted
  <2>3. pc \in Working
    BY <2>1 DEF Working
  <2>4. \A i \in DOMAIN Log' :
          (i \in DOMAIN Log /\ Log'[i] = Log[i]) \/ (i = Len(Log') /\ Log'[i] = e)
    BY <1>1, <2>2, Appending
  <2>5. CASE Completed
    <3>1. pc' \notin Working /\ (Announced("end") \/ lost)'
      <4>1. sending = <<>> /\ pc = "completed"
        BY <2>5 DEF Completed, At
      <4>2. ~Coming("end")
        BY <4>1 DEF Coming
      <4>3. Announced("end") \/ lost
        BY <4>1, <4>2 DEF IInv, Verdict, ToldOr
      <4> QED  BY <1>2, <2>5, <4>3 DEF Completed, Return, Goto, Working
    <3> QED  BY <1>1, <2>3, <2>4, <3>1 DEF Fragments, Dispatch
  <2>6. CASE ~Completed
    <3>1. e.role = "tool" \/ Dispatch(e)
      <4>1. None \notin Calls
        BY DriverAssumption
      <4> QED  BY <2>1, <2>6, <4>1 DEF Dispatch, Entry
    <3>2. \A i \in DOMAIN Log' : Log'[i].role = "assistant" /\ ~Dispatch(Log'[i]) => FALSE
      <4>1. e.role = "tool" => e.role # "assistant"
        OBVIOUS
      <4> QED  BY <1>1, <2>3, <2>4, <3>1, <4>1 DEF Fragments, Dispatch
    <3> QED  BY <3>2 DEF Fragments, Dispatch
  <2> QED  BY <2>5, <2>6
<1> QED  BY <1>4, <1>5, <1>6, LogStays

(* A result is asked for where its dispatch is the last entry. *)
LEMMA ResultsKept ==
  ASSUME IInv, [Next]_vars
  PROVE  Results'
<1>1. TypeOK /\ Limits /\ Results /\ Log \in Seq(Entries) /\ refused \in Nat
  BY LogIsTyped DEF IInv, TypeOK
<1>2. CASE WriteFails
  BY <1>2, LogShrinks DEF Results
<1>3. CASE ~WriteFails /\ ~Persists
  <2>1. Log' = Log /\ refused' = refused
    BY <1>3, LogStays
  <2>2. pc' \in {"dispatched", "exec", "result"} =>
          pc \in {"dispatched", "exec", "result"} /\ call' = call
    BY <1>3 DEF Next, Opens, OpenSucceeds, OpenFails, Proceeds, Streams, Begin, Disconnected,
      Cancelled, IdleTimeout, StreamFails, ModelText, ModelReasoning, ModelDone, ModelLength,
      ModelToolCall, Persists, Truncated, Dispatched, ExecTool, NextTurn, Finish, Expired,
      RunTimeout, Send, Write, Cancel, ClientReads, ClientCloses, Over, vars, modelVars, At, Goto,
      Return, Quiet
  <2> QED  BY <1>1, <2>1, <2>2 DEF Results, Dispatch
<1>4. CASE Persists
  <2>1. /\ writing = <<>> /\ refused' = refused /\ entries' = entries
    BY <1>4, WhatIsPersisted
  <2>2. PICK e \in Entries :
           /\ Persist(e)
           /\ \/ /\ Completed /\ pc = "completed" /\ e = Entry("assistant", carried \o acc, None)
              \/ /\ ToolCall /\ pc = "toolcall" /\ e = Entry("assistant", carried \o acc, call)
                 /\ call \in Calls
              \/ /\ ToolResult /\ pc = "result" /\ e.role = "tool" /\ e.call = call
                 /\ call \in Calls
    BY <1>4, WhatIsPersisted
  <2>3. Log' = Append(Log, e) \/ Log' = Log
    BY <2>1, <2>2, LogGrows
  <2>4. Log' \in Seq(Entries) /\ Len(Log) \in Nat
    BY <1>1, <2>3
  <2>5. Log' = Append(Log, e) =>
          /\ Len(Log') = Len(Log) + 1 /\ DOMAIN Log' = DOMAIN Log \cup {Len(Log) + 1}
          /\ \A i \in DOMAIN Log : Log'[i] = Log[i]
          /\ Log'[Len(Log) + 1] = e
    BY <1>1, Appending
  <2> SUFFICES ASSUME refused = 0
               PROVE  /\ \A i \in DOMAIN Log' : Log'[i].role = "tool" =>
                           i > 1 /\ Dispatch(Log'[i - 1]) /\ Log'[i - 1].call = Log'[i].call
                      /\ pc' \in {"dispatched", "exec", "result"} =>
                           /\ Log' # <<>> /\ Dispatch(Log'[Len(Log')])
                           /\ Log'[Len(Log')].call = call'
    BY <2>1 DEF Results, Dispatch
  <2>6. \A i \in DOMAIN Log :
          i \in Nat /\ i >= 1 /\ i <= Len(Log) /\ (i > 1 => i - 1 \in DOMAIN Log)
    BY <1>1
  <2>7. ASSUME NEW i \in DOMAIN Log, Log'[i] = Log[i], Log'[i].role = "tool",
               \A j \in DOMAIN Log : Log'[j] = Log[j]
        PROVE  i > 1 /\ Dispatch(Log'[i - 1]) /\ Log'[i - 1].call = Log'[i].call
    BY <1>1, <2>6, <2>7 DEF Results
  <2>8. CASE Completed
    <3>1. e.role # "tool" /\ pc' = "return"
      BY <2>2, <2>8 DEF Entry, Completed, Return, Goto, ToolCall, ToolResult, At
    <3> QED  BY <2>3, <2>5, <2>7, <3>1
  <2>9. CASE ToolCall
    <3>1. /\ e.role # "tool" /\ pc' = "dispatched" /\ call' = call
          /\ e.role = "assistant" /\ e.call = call /\ call \in Calls /\ None \notin Calls
      BY <2>2, <2>9, DriverAssumption DEF Entry, Completed, Goto, ToolCall, ToolResult, At
    <3>2. Dispatch(e)
      BY <3>1 DEF Dispatch
    <3>3. Log' = Append(Log, e)
      BY <2>1, <2>2, <3>1, LogGrows DEF WorthStoring
    <3>4. Log' # <<>> /\ Log'[Len(Log')] = e
      BY <1>1, <2>5, <3>3
    <3> QED  BY <2>5, <2>7, <3>1, <3>2, <3>3, <3>4
  <2>10. CASE ToolResult
    <3>1. /\ pc = "result" /\ pc' = "resulted" /\ e.call = call
      BY <2>2, <2>10 DEF Completed, Goto, ToolCall, ToolResult, At
    <3>2. Log # <<>> /\ Dispatch(Log[Len(Log)]) /\ Log[Len(Log)].call = call
      BY <1>1, <3>1 DEF Results
    <3>3. Len(Log) \in DOMAIN Log /\ Len(Log) + 1 > 1 /\ Len(Log) + 1 - 1 = Len(Log)
      BY <1>1, <3>2
    <3> QED  BY <2>3, <2>5, <2>7, <3>1, <3>2, <3>3
  <2> QED  BY <2>2, <2>8, <2>9, <2>10
<1> QED  BY <1>2, <1>3, <1>4

-------------------------------------------------------------------------------
(* How often it calls a tool.                                              *)

LEMMA AmongIsFinite ==
  ASSUME NEW S, NEW s \in Seq(S), NEW T
  PROVE  /\ IsFiniteSet(Among(s, T)) /\ Cardinality(Among(s, T)) \in Nat
         /\ Len(s) + 1 \notin Among(s, T)
<1>1. IsFiniteSet(1..Len(s)) /\ Among(s, T) \in SUBSET (1..Len(s)) /\ Len(s) \in Nat
  <2>1. Len(s) \in Nat /\ DOMAIN s = 1..Len(s)
    OBVIOUS
  <2> QED  BY <2>1, FS_Interval DEF Among
<1>2. IsFiniteSet(Among(s, T))
  BY <1>1, FS_Subset
<1>3. Cardinality(Among(s, T)) \in Nat
  BY <1>2, FS_CardinalityType
<1>4. Len(s) + 1 \notin Among(s, T)
  BY <1>1
<1> QED  BY <1>2, <1>3, <1>4

(* One more element is one more of its kind. *)
LEMMA OneMore ==
  ASSUME NEW S, NEW s \in Seq(S), NEW x \in S, NEW T
  PROVE  Cardinality(Among(Append(s, x), T)) =
           IF x \in T THEN Cardinality(Among(s, T)) + 1 ELSE Cardinality(Among(s, T))
<1>1. Among(Append(s, x), T) = IF x \in T THEN Among(s, T) \cup {Len(s) + 1} ELSE Among(s, T)
  <2>1. DOMAIN Append(s, x) = DOMAIN s \cup {Len(s) + 1} /\ Append(s, x)[Len(s) + 1] = x
        /\ \A i \in DOMAIN s : Append(s, x)[i] = s[i]
    OBVIOUS
  <2> QED  BY <2>1 DEF Among
<1>2. Cardinality(Among(s, T) \cup {Len(s) + 1}) = Cardinality(Among(s, T)) + 1
  BY AmongIsFinite, FS_AddElement
<1> QED  BY <1>1, <1>2

(* A shorter log holds no more of a kind. *)
LEMMA NoMore ==
  ASSUME NEW S, NEW s \in Seq(S), NEW t \in Seq(S), NEW T,
         \A i \in DOMAIN t : i \in DOMAIN s /\ t[i] = s[i]
  PROVE  Cardinality(Among(t, T)) <= Cardinality(Among(s, T))
<1>1. IsFiniteSet(Among(s, T))
  BY AmongIsFinite
<1>2. Among(t, T) \in SUBSET Among(s, T)
  BY DEF Among
<1> QED  BY <1>1, <1>2, FS_Subset

(* A result is stored of a call that was made and found to be no repetition. *)
LEMMA CirclesKept ==
  ASSUME IInv, [Next]_vars
  PROVE  Circles'
<1>1. /\ TypeOK /\ Limits /\ Circles /\ Log \in Seq(Entries) /\ prints \in Seq(Calls)
      /\ LoopThreshold \in Nat
  BY LogIsTyped, DriverAssumption DEF IInv, TypeOK
<1>2. ASSUME NEW c \in Calls
      PROVE  Cardinality(ResultsOf(Log, c)) \in Nat /\ Cardinality(Made(c)) \in Nat
             /\ Owed(c) \in {0, 1}
  <2>1. Cardinality(ResultsOf(Log, c)) \in Nat
    BY <1>1, AmongIsFinite DEF ResultsOf
  <2>2. Cardinality(Made(c)) \in Nat
    BY <1>1, AmongIsFinite DEF Made
  <2> QED  BY <2>1, <2>2 DEF Owed
(* Most steps neither store, make nor owe anything. *)
<1>3. ASSUME Log' = Log, prints' = prints,
             pc' \in Working => /\ pc \in Working
                                /\ pc' \in {"exec", "result"} =>
                                     pc \in {"exec", "result"} /\ call' = call
      PROVE  Circles'
  <2> SUFFICES ASSUME NEW c \in Calls
               PROVE  /\ Cardinality(ResultsOf(Log, c)) < LoopThreshold
                      /\ pc' \in Working =>
                           /\ Cardinality(Made(c)) < LoopThreshold
                           /\ Cardinality(ResultsOf(Log, c)) + Owed(c)' <= Cardinality(Made(c))
    BY <1>3 DEF Circles, ResultsOf, Made
  <2>1. pc' \in Working => Owed(c)' <= Owed(c)
    <3>1. pc' \in {"exec", "result"} => pc' \in Working
      BY DEF Working
    <3> QED  BY <1>3, <3>1 DEF Owed
  <2>2. Owed(c)' \in {0, 1}
    BY DEF Owed
  <2> QED  BY <1>1, <1>2, <1>3, <2>1, <2>2 DEF Circles
<1>4. CASE WriteFails
  <2>1. UNCHANGED <<pc, call, prints>>
    BY <1>4 DEF WriteFails, modelVars
  <2>2. /\ Log' \in Seq(Entries) /\ \A i \in DOMAIN Log' : i \in DOMAIN Log /\ Log'[i] = Log[i]
    BY <1>4, LogShrinks
  <2> SUFFICES ASSUME NEW c \in Calls
               PROVE  /\ Cardinality(ResultsOf(Log', c)) < LoopThreshold
                      /\ pc \in Working =>
                           /\ Cardinality(Made(c)) < LoopThreshold
                           /\ Cardinality(ResultsOf(Log', c)) + Owed(c) <= Cardinality(Made(c))
    BY <2>1 DEF Circles, ResultsOf, Made, Owed
  <2>3. Cardinality(ResultsOf(Log', c)) <= Cardinality(ResultsOf(Log, c))
    BY <1>1, <2>2, NoMore DEF ResultsOf
  <2>4. Cardinality(ResultsOf(Log', c)) \in Nat
    BY <2>2, AmongIsFinite DEF ResultsOf
  <2>5. /\ Cardinality(ResultsOf(Log, c)) < LoopThreshold
        /\ pc \in Working => /\ Cardinality(Made(c)) < LoopThreshold
                             /\ Cardinality(ResultsOf(Log, c)) + Owed(c) <= Cardinality(Made(c))
    BY <1>1 DEF Circles
  <2>6. /\ Cardinality(ResultsOf(Log, c)) \in Nat /\ Cardinality(Made(c)) \in Nat
        /\ Owed(c) \in {0, 1} /\ LoopThreshold \in Nat
    BY <1>1, <1>2
  <2> QED  BY <2>3, <2>4, <2>5, <2>6
<1>5. CASE Persists
  <2>1. /\ writing = <<>> /\ refused' = refused /\ entries' = entries
    BY <1>5, WhatIsPersisted
  <2>2. PICK e \in Entries :
           /\ Persist(e)
           /\ \/ /\ Completed /\ pc = "completed" /\ e = Entry("assistant", carried \o acc, None)
              \/ /\ ToolCall /\ pc = "toolcall" /\ e = Entry("assistant", carried \o acc, call)
                 /\ call \in Calls
              \/ /\ ToolResult /\ pc = "result" /\ e.role = "tool" /\ e.call = call
                 /\ call \in Calls
    BY <1>5, WhatIsPersisted
  <2>3. Log' = Append(Log, e) \/ Log' = Log
    BY <2>1, <2>2, LogGrows
  <2>4. prints' = prints /\ pc \in Working /\ pc' \notin {"exec", "result"}
    BY <2>2 DEF Completed, ToolCall, ToolResult, modelVars, Goto, Return, Working
  <2> SUFFICES ASSUME NEW c \in Calls
               PROVE  /\ Cardinality(ResultsOf(Log', c)) < LoopThreshold
                      /\ Cardinality(Made(c)) < LoopThreshold
                      /\ Cardinality(ResultsOf(Log', c)) + Owed(c)' <= Cardinality(Made(c))
    BY <2>4 DEF Circles, ResultsOf, Made
  <2>5. /\ Cardinality(ResultsOf(Log, c)) < LoopThreshold
        /\ Cardinality(Made(c)) < LoopThreshold
        /\ Cardinality(ResultsOf(Log, c)) + Owed(c) <= Cardinality(Made(c))
    BY <1>1, <2>4 DEF Circles
  <2>6. Owed(c)' = 0
    BY <2>4 DEF Owed
  <2>7. Cardinality(ResultsOf(Append(Log, e), c)) =
          IF e \in ResultEntries(c) THEN Cardinality(ResultsOf(Log, c)) + 1
                                    ELSE Cardinality(ResultsOf(Log, c))
    BY <1>1, OneMore DEF ResultsOf
  <2>8. e \in ResultEntries(c) => Owed(c) = 1
    BY <2>2 DEF ResultEntries, Owed, Entry
  <2>9. \/ Cardinality(ResultsOf(Log', c)) = Cardinality(ResultsOf(Log, c))
        \/ Cardinality(ResultsOf(Log', c)) = Cardinality(ResultsOf(Log, c)) + 1 /\ Owed(c) = 1
    BY <2>3, <2>7, <2>8
  <2>10. /\ Cardinality(ResultsOf(Log, c)) \in Nat /\ Cardinality(Made(c)) \in Nat
         /\ Owed(c) \in {0, 1} /\ LoopThreshold \in Nat
    BY <1>1, <1>2
  <2> QED  BY <2>5, <2>6, <2>9, <2>10
<1>6. CASE Dispatched
  <2>1. /\ Log' = Log /\ pc = "dispatched" /\ prints' = Append(prints, call) /\ call' = call
        /\ call \in Calls
    <3>1. ~Persists /\ ~WriteFails
      BY <1>6 DEF Dispatched, Persists, Completed, ToolCall, ToolResult, At, WriteFails
    <3> QED  BY <1>1, <1>6, <3>1, LogStays DEF Dispatched, At, Limits, TypeOK
  <2>2. \A c \in Calls : /\ Cardinality(ResultsOf(Log, c)) < LoopThreshold
                         /\ Cardinality(Made(c)) < LoopThreshold
                         /\ Cardinality(ResultsOf(Log, c)) <= Cardinality(Made(c))
    BY <1>1, <1>2, <2>1 DEF Circles, Working, Owed
  <2>3. CASE pc' # "exec"
    <3>1. pc' \notin Working
      BY <1>6, <2>3 DEF Dispatched, Return, Goto, Working
    <3> QED  BY <2>1, <2>2, <3>1 DEF Circles, ResultsOf
  <2>4. CASE pc' = "exec"
    <3>1. ~Repeats(Append(prints, call))
      BY <1>6, <2>4 DEF Dispatched, Return, Goto
    <3>2. Cardinality(Among(Append(prints, call), {call})) < LoopThreshold
      <4>1. Append(prints, call)[Len(Append(prints, call))] = call
        BY <1>1, <2>1
      <4>2. Append(prints, call) \in Seq(Calls)
        BY <1>1, <2>1
      <4>3. Cardinality(Among(Append(prints, call), {call})) \in Nat
        BY <4>2, AmongIsFinite
      <4>4. Among(Append(prints, call), {call}) =
              {i \in DOMAIN Append(prints, call) : Append(prints, call)[i] = call}
        BY DEF Among
      <4>5. ~(Cardinality(Among(Append(prints, call), {call})) >= LoopThreshold)
        BY <3>1, <4>1, <4>4 DEF Repeats
      <4> QED  BY <1>1, <4>3, <4>5
    <3> SUFFICES ASSUME NEW c \in Calls
                 PROVE  /\ Cardinality(Among(Append(prints, call), {c})) < LoopThreshold
                        /\ Cardinality(ResultsOf(Log, c)) + (IF call = c THEN 1 ELSE 0)
                             <= Cardinality(Among(Append(prints, call), {c}))
      BY <2>1, <2>2, <2>4 DEF Circles, ResultsOf, Made, Owed
    <3>3. Cardinality(Among(Append(prints, call), {c})) =
            IF call = c THEN Cardinality(Made(c)) + 1 ELSE Cardinality(Made(c))
      BY <1>1, <2>1, OneMore DEF Made
    <3>4. Cardinality(ResultsOf(Log, c)) \in Nat /\ Cardinality(Made(c)) \in Nat
      BY <1>2
    <3>5. /\ Cardinality(ResultsOf(Log, c)) <= Cardinality(Made(c))
          /\ Cardinality(Made(c)) < LoopThreshold
      BY <2>2
    <3> QED  BY <3>2, <3>3, <3>4, <3>5
  <2> QED  BY <2>3, <2>4
<1>7. CASE ~WriteFails /\ ~Persists /\ ~Dispatched
  <2>1. Log' = Log
    BY <1>7, LogStays
  <2>2. prints' = prints
    BY <1>7 DEF Next, Opens, OpenSucceeds, OpenFails, Proceeds, Streams, Begin, Disconnected,
      Cancelled, IdleTimeout, StreamFails, ModelText, ModelReasoning, ModelDone, ModelLength,
      ModelToolCall, Persists, Truncated, ExecTool, NextTurn, Finish, Expired,
      RunTimeout, Send, Write, Cancel, ClientReads, ClientCloses, Over, vars, modelVars, Quiet
  <2>3. pc' \in Working => /\ pc \in Working
                           /\ pc' \in {"exec", "result"} =>
                                pc \in {"exec", "result"} /\ call' = call
    BY <1>7 DEF Next, Opens, OpenSucceeds, OpenFails, Proceeds, Streams, Begin, Disconnected,
      Cancelled, IdleTimeout, StreamFails, ModelText, ModelReasoning, ModelDone, ModelLength,
      ModelToolCall, Persists, Truncated, ExecTool, NextTurn, Finish, Expired,
      RunTimeout, Send, Write, Cancel, ClientReads, ClientCloses, Over, vars, modelVars, Quiet,
      At, Goto, Return, Working
  <2> QED  BY <1>3, <2>1, <2>2, <2>3
<1> QED  BY <1>4, <1>5, <1>6, <1>7

-------------------------------------------------------------------------------
(* What it says.                                                           *)

(* An entry that goes on where the log ends. *)
LEMMA SaysMore ==
  ASSUME NEW log \in Seq(Entries), NEW n \in Nat, NEW t \in Nat, NEW e \in Entries, Says(log, n),
         TextOf(e) \in Seq(Texts), Len(TextOf(e)) = t,
         \A k \in DOMAIN TextOf(e) : TextOf(e)[k] = n + k
  PROVE  Says(Append(log, e), n + t)
<1> DEFINE longer == Append(log, e)
           V(i) == TextOf(longer[i])
           old == Len(log)
<1>1. /\ DOMAIN longer = DOMAIN log \cup {old + 1} /\ old \in Nat
      /\ longer[old + 1] = e
      /\ \A i \in DOMAIN log : longer[i] = log[i] /\ i <= old /\ i \in Nat
  BY Appending
<1>2. DOMAIN TextOf(e) = 1..t
  OBVIOUS
<1>3. ASSUME NEW i \in DOMAIN longer, NEW k \in DOMAIN V(i)
      PROVE  /\ i \in DOMAIN log => k \in DOMAIN TextOf(log[i]) /\ V(i)[k] = TextOf(log[i])[k]
                                    /\ V(i)[k] \in 1..n
             /\ i = old + 1 => k \in 1..t /\ V(i)[k] = n + k
  BY <1>1, <1>2, <1>3 DEF Says
<1>4. \A i \in DOMAIN longer : \A k \in DOMAIN V(i) : V(i)[k] \in 1..(n + t)
  <2> TAKE i \in DOMAIN longer
  <2> TAKE k \in DOMAIN V(i)
  <2>1. V(i)[k] \in 1..n \/ (k \in 1..t /\ V(i)[k] = n + k)
    BY <1>1, <1>3
  <2> HIDE DEF V, longer, old
  <2> QED  BY <2>1
<1>5. \A m \in 1..(n + t) : \E i \in DOMAIN longer : \E k \in DOMAIN V(i) : V(i)[k] = m
  <2> TAKE m \in 1..(n + t)
  <2>1. CASE m \in 1..n
    <3>1. PICK i \in DOMAIN log : \E k \in DOMAIN TextOf(log[i]) : TextOf(log[i])[k] = m
      BY <2>1 DEF Says
    <3>2. i \in DOMAIN longer /\ V(i) = TextOf(log[i])
      BY <1>1
    <3> QED  BY <3>1, <3>2
  <2>2. CASE m \notin 1..n
    <3>1. m - n \in 1..t /\ n + (m - n) = m
      BY <2>2
    <3>2. V(old + 1) = TextOf(e) /\ old + 1 \in DOMAIN longer
      BY <1>1
    <3> HIDE DEF V, longer, old
    <3> QED  BY <1>2, <3>1, <3>2
  <2> QED  BY <2>1, <2>2
<1>6. \A i, j \in DOMAIN longer : \A k \in DOMAIN V(i), l \in DOMAIN V(j) :
        i < j \/ (i = j /\ k < l) => V(i)[k] < V(j)[l]
  <2> SUFFICES ASSUME NEW i \in DOMAIN longer, NEW j \in DOMAIN longer,
                      NEW k \in DOMAIN V(i), NEW l \in DOMAIN V(j),
                      i < j \/ (i = j /\ k < l)
               PROVE  V(i)[k] < V(j)[l]
    OBVIOUS
  <2>1. CASE i \in DOMAIN log /\ j \in DOMAIN log
    <3>1. /\ k \in DOMAIN TextOf(log[i]) /\ V(i)[k] = TextOf(log[i])[k]
          /\ l \in DOMAIN TextOf(log[j]) /\ V(j)[l] = TextOf(log[j])[l]
      BY <1>3, <2>1
    <3> QED  BY <2>1, <3>1 DEF Says
  <2>2. CASE i \in DOMAIN log /\ j = old + 1
    <3>1. V(i)[k] \in 1..n /\ l \in 1..t /\ V(j)[l] = n + l
      BY <1>3, <2>2
    <3> HIDE DEF V, longer, old
    <3> QED  BY <3>1
  <2>3. CASE i = old + 1
    <3>1. j = old + 1 /\ k < l
      <4>1. j \in DOMAIN log => j <= old /\ j \in Nat
        BY <1>1
      <4>2. j \in DOMAIN log \/ j = old + 1
        BY <1>1
      <4>3. old \in Nat
        BY <1>1
      <4> HIDE DEF V, longer, old
      <4> QED  BY <2>3, <4>1, <4>2, <4>3
    <3>2. k \in 1..t /\ V(i)[k] = n + k /\ l \in 1..t /\ V(j)[l] = n + l
      BY <1>3, <2>3, <3>1
    <3> HIDE DEF V, longer, old
    <3> QED  BY <3>1, <3>2
  <2> QED  BY <1>1, <2>1, <2>2, <2>3
<1> QED  BY <1>4, <1>5, <1>6 DEF Says

(* What was said is in the log or unsaved, at every step of a run that may
   still complete. *)
LEMMA ReplyKept ==
  ASSUME IInv, [Next]_vars
  PROVE  Reply'
<1>1. /\ TypeOK /\ Limits /\ Carrying /\ Reply /\ Log \in Seq(Entries)
      /\ said \in Nat /\ refused \in Nat /\ carried \in Seq(Texts) /\ acc \in Seq(Texts)
  BY LogIsTyped DEF IInv, TypeOK
<1>2. Unsaved \in Seq(Texts) /\ Len(Unsaved) \in Nat
  BY <1>1 DEF Unsaved
<1>3. ASSUME Log' = Log, refused' = refused, said' = said, Unsaved' = Unsaved,
             outcome' = outcome \/ outcome = "none"
      PROVE  Reply'
  BY <1>1, <1>3 DEF Reply
<1>4. ASSUME outcome' \in {"Aborted", "Failed", "LoopDetected"}
      PROVE  Reply'
  BY <1>4 DEF Reply
<1>5. CASE WriteFails
  BY <1>5, LogShrinks DEF Reply
<1>6. ASSUME ~WriteFails, ~Persists
      PROVE  Log' = Log /\ refused' = refused
  BY <1>6, LogStays
<1>7. CASE Persists
  <2>1. /\ writing = <<>> /\ refused' = refused /\ entries' = entries
    BY <1>7, WhatIsPersisted
  <2>2. PICK e \in Entries :
           /\ Persist(e)
           /\ \/ /\ Completed /\ pc = "completed" /\ e = Entry("assistant", carried \o acc, None)
              \/ /\ ToolCall /\ pc = "toolcall" /\ e = Entry("assistant", carried \o acc, call)
                 /\ call \in Calls
              \/ /\ ToolResult /\ pc = "result" /\ e.role = "tool" /\ e.call = call
                 /\ call \in Calls
    BY <1>7, WhatIsPersisted
  <2>3. TextOf(e) = Unsaved
    <3>1. CASE pc \in {"completed", "toolcall"}
      <4>1. e.role = "assistant" /\ e.text = carried \o acc
        BY <2>2, <3>1 DEF Entry
      <4> QED  BY <3>1, <4>1 DEF TextOf, Unsaved
    <3>2. CASE pc = "result"
      <4>1. e.role = "tool"
        BY <2>2, <3>2
      <4> QED  BY <3>2, <4>1 DEF TextOf, Unsaved
    <3> QED  BY <2>2, <3>1, <3>2
  <2>4. Unsaved' = <<>> /\ said' = said
    BY <2>2 DEF Unsaved, Completed, ToolCall, ToolResult, Goto, Return, modelVars
  <2>5. outcome = "none"
    BY <1>1, <2>2 DEF Limits, Working
  <2> SUFFICES ASSUME refused = 0
               PROVE  Says(Log', said)
    <3>1. DOMAIN <<>> = {} /\ Len(<<>>) = 0 /\ said - 0 = said /\ 0 <= said
      BY <1>1
    <3> QED  BY <2>1, <2>4, <3>1 DEF Reply, GoesOn
  <2>6. /\ \A k \in DOMAIN Unsaved : Unsaved[k] = (said - Len(Unsaved)) + k
        /\ Len(Unsaved) <= said /\ Says(Log, said - Len(Unsaved))
    BY <1>1, <2>5 DEF Reply, GoesOn
  <2>7. CASE WorthStoring(e)
    <3>1. Log' = Append(Log, e)
      BY <2>1, <2>2, <2>7, LogGrows
    <3>2. said - Len(Unsaved) \in Nat /\ (said - Len(Unsaved)) + Len(Unsaved) = said
      BY <1>1, <1>2, <2>6
    <3> QED  BY <1>1, <1>2, <2>3, <2>6, <3>1, <3>2, SaysMore
  <2>8. CASE ~WorthStoring(e)
    <3>1. Log' = Log
      BY <2>1, <2>2, <2>8, LogGrows
    <3>2. Unsaved = <<>>
      BY <2>3, <2>8 DEF WorthStoring, TextOf
    <3>3. said - Len(Unsaved) = said
      BY <1>1, <3>2
    <3> QED  BY <2>6, <3>1, <3>3
  <2> QED  BY <2>7, <2>8
<1>8. CASE ModelText
  <2>1. /\ pc = "stream" /\ pc' = pc /\ said' = said + 1 /\ acc' = Append(acc, said + 1)
        /\ carried' = carried /\ outcome' = outcome
    BY <1>8 DEF ModelText, At
  <2>2. Log' = Log /\ refused' = refused
    BY <1>6, <1>8 DEF ModelText, At, Persists, Completed, ToolCall, ToolResult, WriteFails,
       storeVars
  <2>3. Unsaved' = Append(Unsaved, said + 1)
    BY <1>1, <2>1 DEF Unsaved
  <2>4. outcome = "none"
    BY <1>1, <2>1 DEF Limits, Working
  <2> SUFFICES ASSUME refused = 0
               PROVE  GoesOn(Log, Append(Unsaved, said + 1), said + 1)
    BY <2>1, <2>2, <2>3, <2>4 DEF Reply
  <2>5. /\ \A k \in DOMAIN Unsaved : Unsaved[k] = (said - Len(Unsaved)) + k
        /\ Len(Unsaved) <= said /\ Says(Log, said - Len(Unsaved))
    BY <1>1, <2>4 DEF Reply, GoesOn
  <2> DEFINE more == Append(Unsaved, said + 1)
  <2>6. /\ Len(more) = Len(Unsaved) + 1 /\ DOMAIN more = DOMAIN Unsaved \cup {Len(Unsaved) + 1}
        /\ more[Len(Unsaved) + 1] = said + 1
        /\ \A k \in DOMAIN Unsaved : more[k] = Unsaved[k]
    BY <1>2
  <2>7. /\ (said + 1) - Len(more) = said - Len(Unsaved)
        /\ (said - Len(Unsaved)) + (Len(Unsaved) + 1) = said + 1
        /\ Len(Unsaved) + 1 <= said + 1
    BY <1>1, <1>2, <2>5, <2>6
  <2> HIDE DEF more
  <2>8. \A k \in DOMAIN more : more[k] = (said + 1) - Len(more) + k
    BY <2>5, <2>6, <2>7
  <2>9. GoesOn(Log, more, said + 1)
    <3>1. Len(more) <= said + 1
      BY <2>6, <2>7
    <3>2. Says(Log, (said + 1) - Len(more))
      BY <2>5, <2>7
    <3> QED  BY <2>8, <3>1, <3>2 DEF GoesOn
  <2> QED  BY <2>9 DEF more
(* The other steps keep the text where it is, or give up. *)
<1>9. CASE Opens \/ Begin \/ Disconnected \/ Cancelled \/ IdleTimeout \/ StreamFails
           \/ ModelReasoning \/ ModelDone \/ ModelLength \/ (\E c \in Calls : ModelToolCall(c))
  <2>1. Log' = Log /\ refused' = refused
    BY <1>6, <1>9 DEF Opens, OpenSucceeds, OpenFails, Begin, Disconnected, Cancelled, IdleTimeout,
       StreamFails, ModelReasoning, ModelDone, ModelLength, ModelToolCall, At, Persists, Completed,
       ToolCall, ToolResult, WriteFails, Quiet, storeVars
  <2>2. said' = said /\ acc' = acc /\ carried' = carried
    BY <1>9 DEF Opens, OpenSucceeds, OpenFails, Begin, Disconnected, Cancelled, IdleTimeout,
       StreamFails, ModelReasoning, ModelDone, ModelLength, ModelToolCall, Quiet, modelVars
  <2>3. \/ outcome' \in {"Aborted", "Failed", "LoopDetected"}
        \/ pc = "start" /\ pc' = "return" /\ outcome' = "Completed"
        \/ /\ pc \in {"start", "open", "stream"} /\ outcome' = outcome
           /\ pc' \in {"open", "stream", "completed", "truncated", "toolcall"}
    BY <1>9 DEF Opens, OpenSucceeds, OpenFails, Begin, Disconnected, Cancelled, IdleTimeout,
       StreamFails, ModelReasoning, ModelDone, ModelLength, ModelToolCall, At, Goto, Return
  <2>4. CASE pc = "start" /\ pc' = "return" /\ outcome' = "Completed"
    <3>1. Unsaved = <<>> /\ Unsaved' = <<>>
      BY <1>1, <2>4 DEF Carrying, Unsaved
    <3>2. outcome = "none"
      BY <1>1, <2>4 DEF Limits, Working
    <3> QED  BY <1>3, <2>1, <2>2, <3>1, <3>2
  <2>5. CASE /\ pc \in {"start", "open", "stream"} /\ outcome' = outcome
             /\ pc' \in {"open", "stream", "completed", "truncated", "toolcall"}
    <3>1. Unsaved' = Unsaved
      BY <2>2, <2>5 DEF Unsaved
    <3> QED  BY <1>3, <2>1, <2>2, <2>5, <3>1
  <2> QED  BY <1>4, <2>3, <2>4, <2>5
<1>10. CASE Truncated
  <2>1. Log' = Log /\ refused' = refused
    BY <1>6, <1>10 DEF Truncated, At, Persists, Completed, ToolCall, ToolResult, WriteFails,
                       KeepFragment
  <2>2. CASE TooManyTruncations
    BY <1>4, <1>10, <2>2 DEF Truncated, Return
  <2>3. CASE ~TooManyTruncations
    <3>1. /\ pc = "truncated" /\ pc' = "open" /\ outcome' = outcome /\ said' = said
          /\ carried' = carried \o acc /\ acc' = <<>>
      BY <1>10, <2>3 DEF Truncated, At, Goto
    <3>2. Unsaved' = Unsaved
      <4>1. (carried \o acc) \o <<>> = carried \o acc
        BY <1>1
      <4> QED  BY <3>1, <4>1 DEF Unsaved
    <3> QED  BY <1>3, <2>1, <3>1, <3>2
  <2> QED  BY <2>2, <2>3
<1>11. CASE Dispatched \/ ExecTool \/ NextTurn
  <2>1. Log' = Log /\ refused' = refused /\ said' = said
    BY <1>6, <1>11 DEF Dispatched, ExecTool, NextTurn, At, Persists, Completed, ToolCall,
       ToolResult, WriteFails, Quiet, storeVars, modelVars
  <2>2. CASE outcome' = outcome
    <3>1. \/ pc' \in {"exec", "result"}
          \/ pc' = "open" /\ acc' = <<>> /\ carried' = carried /\ carried = <<>>
      BY <1>1, <1>11, <2>2 DEF Dispatched, ExecTool, NextTurn, DropText, At, Goto, Return, Carrying,
                               Limits, Working
    <3>2. Unsaved = <<>>
      BY <1>11 DEF Dispatched, ExecTool, NextTurn, At, Unsaved
    <3>3. Unsaved' = <<>>
      BY <3>1 DEF Unsaved
    <3> QED  BY <1>3, <2>1, <2>2, <3>2, <3>3
  <2>3. CASE outcome' # outcome
    BY <1>4, <1>11, <2>3 DEF Dispatched, ExecTool, NextTurn, Return, Goto
  <2> QED  BY <2>2, <2>3
<1>12. CASE RunTimeout
  BY <1>4, <1>12 DEF RunTimeout
<1>13. CASE Finish \/ Expired \/ Send \/ Write \/ Cancel \/ ClientReads \/ ClientCloses
            \/ UNCHANGED vars
  <2>1. CASE WriteFails \/ Persists
    BY <1>5, <1>7, <2>1
  <2>2. CASE ~WriteFails /\ ~Persists
    <3>1. Log' = Log /\ refused' = refused
      BY <1>6, <2>2
    <3>2. UNCHANGED <<said, acc, carried, outcome>>
          /\ (pc' = pc \/ (pc \in {"return", "expired"} /\ pc' = "done"))
      BY <1>13 DEF Finish, Expired, Send, Write, Cancel, ClientReads, ClientCloses, At, Goto, Quiet,
                   vars, modelVars
    <3>3. Unsaved' = Unsaved
      BY <3>2 DEF Unsaved
    <3> QED  BY <1>3, <3>1, <3>2, <3>3
  <2> QED  BY <2>1, <2>2
<1> QED  BY <1>5, <1>7, <1>8, <1>9, <1>10, <1>11, <1>12, <1>13
         DEF Next, Proceeds, Streams, Over, Persists

-------------------------------------------------------------------------------
LEMMA InitIsGood ==
  ASSUME Init
  PROVE  IInv
<1>1. /\ OutCap \in Nat /\ MaxDeltas \in Nat /\ MaxContinuations \in Nat /\ MaxRounds \in Nat
      /\ MaxFailures \in Nat /\ LoopThreshold \in Nat \ {0}
  BY DriverAssumption
<1>2. sending \in Seq(Lifecycle \cup Inline)
  BY DEF Init, Lifecycle
<1>3. TypeOK
  <2>1. /\ said \in Nat /\ mused \in Nat /\ said + mused <= MaxDeltas
        /\ truncations \in 0..(MaxContinuations + 1) /\ rounds \in 0..(MaxRounds + 1)
        /\ refused \in 0..MaxFailures /\ outbound \in 0..OutCap
    BY <1>1 DEF Init
  <2>2. /\ acc \in Seq(Texts) /\ carried \in Seq(Texts) /\ prints \in Seq(Calls)
        /\ writing \in Seq(Entries) /\ entries \in Seq(Entries) /\ announced \in Seq(Lifecycle)
    BY DEF Init
  <2> QED  BY <1>2, <2>1, <2>2 DEF Init, TypeOK, Labels
<1>4. Log = <<>> /\ writing = <<>> /\ sending = <<"start">> /\ pc = "start" /\ announced = <<>>
  BY DEF Init, Log
<1>5. OneWrite /\ Limits /\ Carrying /\ Fragments /\ Results
  BY <1>1, <1>4 DEF Init, OneWrite, Limits, Working, Carrying, Fragments, Results
<1>6. Verdict
  BY <1>4 DEF Verdict, Working, Untold, Announced, Coming
<1>7. Reply
  <2>1. Unsaved = <<>> /\ said = 0
    BY <1>4 DEF Init, Unsaved
  <2>2. Says(<<>>, 0)
    BY DEF Says
  <2> QED  BY <1>4, <2>1, <2>2 DEF Reply, GoesOn
<1>8. Circles
  <2>1. \A T : Among(<<>>, T) = {}
    BY DEF Among
  <2>2. prints = <<>>
    BY DEF Init
  <2>3. Cardinality({}) = 0
    BY FS_EmptySet
  <2>4. \A c \in Calls : ResultsOf(Log, c) = {} /\ Made(c) = {} /\ Owed(c) = 0
    BY <1>4, <2>1, <2>2 DEF ResultsOf, Made, Owed
  <2> QED  BY <1>1, <2>3, <2>4 DEF Circles
<1> QED  BY <1>3, <1>5, <1>6, <1>7, <1>8 DEF IInv

LEMMA StepsAreGood ==
  ASSUME IInv, [Next]_vars
  PROVE  IInv'
BY TypesKept, OneWriteKept, LimitsKept, VerdictKept, ReplyKept, FragmentsKept, ResultsKept,
   CirclesKept DEF IInv

(* The entries in the store are a beginning of the log. *)
LEMMA StoreIsOfLog ==
  ASSUME IInv
  PROVE  /\ entries \in Seq(Entries) /\ Log \in Seq(Entries) /\ Len(entries) <= Len(Log)
         /\ \A i \in DOMAIN entries : i \in DOMAIN Log /\ Log[i] = entries[i]
<1>1. entries \in Seq(Entries) /\ writing \in Seq(Entries)
  BY DEF IInv, TypeOK
<1> QED  BY <1>1 DEF Log

LEMMA GoodIsSafe ==
  ASSUME IInv
  PROVE  DriverInv
<1>1. /\ TypeOK /\ OneWrite /\ Verdict /\ Reply /\ Fragments /\ Results /\ Circles
      /\ said \in Nat
  BY DEF IInv, TypeOK
<1>2. ReplyIsKept
  <2> SUFFICES ASSUME pc = "done", outcome = "Completed", refused = 0
               PROVE  Says(entries, said)
    BY DEF ReplyIsKept
  <2>1. Log = entries
    <3>1. writing = <<>> /\ entries \in Seq(Entries)
      BY <1>1 DEF OneWrite, TypeOK
    <3> QED  BY <3>1 DEF Log
  <2>2. Unsaved = <<>> /\ said - Len(Unsaved) = said
    BY <1>1 DEF Unsaved
  <2> QED  BY <1>1, <2>1, <2>2 DEF Reply, GoesOn
<1>3. NoFragmentStored
  <2> SUFFICES ASSUME NEW i \in DOMAIN entries, entries[i].role = "assistant", ~Dispatch(entries[i])
               PROVE  i = Len(entries) /\ (Announced("end") \/ lost)
    BY DEF NoFragmentStored
  <2>1. /\ i \in DOMAIN Log /\ Log[i] = entries[i] /\ Len(entries) <= Len(Log)
        /\ i <= Len(entries) /\ i \in Nat /\ Len(entries) \in Nat /\ Len(Log) \in Nat
    BY StoreIsOfLog
  <2>2. i = Len(Log) /\ (Announced("end") \/ lost)
    BY <1>1, <2>1 DEF Fragments
  <2> QED  BY <2>1, <2>2
<1>4. ResultsFollowDispatch
  <2> SUFFICES ASSUME refused = 0, NEW i \in DOMAIN entries, entries[i].role = "tool"
               PROVE  i > 1 /\ Dispatch(entries[i - 1]) /\ entries[i - 1].call = entries[i].call
    BY DEF ResultsFollowDispatch
  <2>1. i \in DOMAIN Log /\ Log[i] = entries[i]
    BY StoreIsOfLog
  <2>2. i > 1 /\ Dispatch(Log[i - 1]) /\ Log[i - 1].call = Log[i].call
    BY <1>1, <2>1 DEF Results
  <2>3. i - 1 \in DOMAIN entries
    BY <2>2, StoreIsOfLog
  <2> QED  BY <2>1, <2>2, <2>3, StoreIsOfLog
<1>5. VerdictMatches
  BY <1>1 DEF Verdict, VerdictMatches
<1>6. NoCallRepeats
  <2> SUFFICES ASSUME NEW c \in Calls
               PROVE  Cardinality({i \in DOMAIN entries :
                        entries[i].role = "tool" /\ entries[i].call = c}) < LoopThreshold
    BY DEF NoCallRepeats
  <2>1. {i \in DOMAIN entries : entries[i].role = "tool" /\ entries[i].call = c} =
          ResultsOf(entries, c)
    <3>1. \A i \in DOMAIN entries : entries[i] \in Entries
      BY StoreIsOfLog
    <3> QED  BY <3>1 DEF ResultsOf, Among, ResultEntries
  <2>2. Cardinality(ResultsOf(entries, c)) <= Cardinality(ResultsOf(Log, c))
    BY StoreIsOfLog, NoMore DEF ResultsOf
  <2>3. /\ Cardinality(ResultsOf(entries, c)) \in Nat /\ Cardinality(ResultsOf(Log, c)) \in Nat
        /\ LoopThreshold \in Nat
    BY StoreIsOfLog, AmongIsFinite, DriverAssumption DEF ResultsOf
  <2>4. Cardinality(ResultsOf(Log, c)) < LoopThreshold
    BY <1>1 DEF Circles
  <2>5. Cardinality(ResultsOf(entries, c)) < LoopThreshold
    BY <2>2, <2>3, <2>4
  <2> QED  BY <2>1, <2>5
<1> QED  BY <1>1, <1>2, <1>3, <1>4, <1>5, <1>6 DEF DriverInv

(* run.rs, agent.rs: in every state of every run, what is stored and what is
   announced are of one story.  A reply is stored whole, in order and once, or
   the run does not complete; nothing is stored after half a sentence; a
   result follows its dispatch; End is announced of a run that completed and
   Error of any other; and no call has LoopThreshold results. *)
THEOREM RunIsSafe == Spec => []DriverInv
<1>1. Init => IInv
  BY InitIsGood
<1>2. IInv /\ [Next]_vars => IInv'
  BY StepsAreGood
<1>3. IInv => DriverInv
  BY GoodIsSafe
<1> QED  BY <1>1, <1>2, <1>3, PTL DEF Spec
===============================================================================
