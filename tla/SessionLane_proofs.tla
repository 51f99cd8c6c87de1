-------------------------- MODULE SessionLane_proofs --------------------------
(***************************************************************************)
(* Theorems about SessionLane, for any set of turns, any queue and channel *)
(* capacity and any number of control commands and entries: its invariant, *)
(* that it implements SerialLane, and that the store holds the entries of  *)
(* one turn after those of another.                                        *)
(***************************************************************************)
EXTENDS SessionLane, SequenceTheorems, TLAPS

-------------------------------------------------------------------------------
(* Sequences as queues.                                                     *)

(* What an Append does to the elements of a sequence. *)
LEMMA AppendFacts ==
  ASSUME NEW S, NEW s \in Seq(S), NEW x \in S
  PROVE  /\ Append(s, x) \in Seq(S)
         /\ Len(Append(s, x)) = Len(s) + 1
         /\ \A i \in 1..Len(s) : Append(s, x)[i] = s[i]
         /\ Append(s, x)[Len(s) + 1] = x
         /\ Elements(Append(s, x)) = Elements(s) \cup {x}
<1>1. /\ Append(s, x) \in Seq(S)
      /\ Len(Append(s, x)) = Len(s) + 1
      /\ \A i \in 1..Len(s) : Append(s, x)[i] = s[i]
      /\ Append(s, x)[Len(s) + 1] = x
  OBVIOUS
<1>2. DOMAIN s = 1..Len(s) /\ DOMAIN Append(s, x) = 1..(Len(s) + 1) /\ Len(s) \in Nat
  BY <1>1
<1>3. Elements(Append(s, x)) \subseteq Elements(s) \cup {x}
  BY <1>1, <1>2 DEF Elements
<1>4. Elements(s) \subseteq Elements(Append(s, x))
  <2>1. SUFFICES ASSUME NEW i \in 1..Len(s)
                 PROVE  s[i] \in Elements(Append(s, x))
    BY <1>2 DEF Elements
  <2>2. i \in 1..(Len(s) + 1) /\ Append(s, x)[i] = s[i]
    BY <1>1, <1>2
  <2>3. QED
    BY <2>2, <1>2 DEF Elements
<1>5. x \in Elements(Append(s, x))
  BY <1>1, <1>2 DEF Elements
<1>6. QED
  BY <1>1, <1>3, <1>4, <1>5

(* What taking the head leaves. *)
LEMMA TailFacts ==
  ASSUME NEW S, NEW s \in Seq(S), s # <<>>
  PROVE  /\ Head(s) \in S /\ Tail(s) \in Seq(S)
         /\ Len(Tail(s)) = Len(s) - 1 /\ Len(s) > 0
         /\ Head(s) = s[1] /\ \A i \in 1..(Len(s) - 1) : Tail(s)[i] = s[i + 1]
         /\ Elements(s) = {Head(s)} \cup Elements(Tail(s))
<1>1. /\ Head(s) \in S /\ Tail(s) \in Seq(S)
      /\ Len(Tail(s)) = Len(s) - 1 /\ Len(s) > 0
      /\ Head(s) = s[1] /\ \A i \in 1..(Len(s) - 1) : Tail(s)[i] = s[i + 1]
  OBVIOUS
<1>2. DOMAIN s = 1..Len(s) /\ DOMAIN Tail(s) = 1..(Len(s) - 1) /\ Len(s) \in Nat
  BY <1>1
<1>3. Elements(s) \subseteq {Head(s)} \cup Elements(Tail(s))
  <2>1. SUFFICES ASSUME NEW i \in 1..Len(s), i # 1
                 PROVE  s[i] \in Elements(Tail(s))
    BY <1>1, <1>2 DEF Elements
  <2>2. i - 1 \in 1..(Len(s) - 1) /\ s[i] = Tail(s)[i - 1]
    BY <1>1, <1>2, <2>1
  <2>3. QED
    BY <2>2, <1>2 DEF Elements
<1>4. Elements(Tail(s)) \subseteq Elements(s)
  <2>1. SUFFICES ASSUME NEW i \in 1..(Len(s) - 1)
                 PROVE  Tail(s)[i] \in Elements(s)
    BY <1>2 DEF Elements
  <2>2. i + 1 \in 1..Len(s) /\ Tail(s)[i] = s[i + 1]
    BY <1>1, <1>2
  <2>3. QED
    BY <2>2, <1>2 DEF Elements
<1>5. Head(s) \in Elements(s)
  BY <1>1, <1>2 DEF Elements
<1>6. QED
  BY <1>1, <1>3, <1>4, <1>5

(* The empty sequence has no elements. *)
LEMMA EmptyFacts == Elements(<<>>) = {}
BY DEF Elements

(* The elements of a typed sequence have its type. *)
LEMMA ElementsTyped == ASSUME NEW S, NEW s \in Seq(S) PROVE Elements(s) \subseteq S
BY DEF Elements

(* An element occurs at most once in a sequence. *)
Once(s, x) == \A i, j \in 1..Len(s) : s[i] = x /\ s[j] = x => i = j

(* Appending an element that is new keeps every element single. *)
LEMMA OnceAppend ==
  ASSUME NEW S, NEW s \in Seq(S), NEW x \in S, NEW y, Once(s, y), x # y \/ y \notin Elements(s)
  PROVE  Once(Append(s, x), y)
<1>1. /\ Len(Append(s, x)) = Len(s) + 1 /\ Len(s) \in Nat
      /\ \A i \in 1..Len(s) : Append(s, x)[i] = s[i]
      /\ Append(s, x)[Len(s) + 1] = x
  OBVIOUS
<1>2. \A i \in 1..Len(s) : s[i] \in Elements(s)
  BY DEF Elements
<1>3. QED
  BY <1>1, <1>2 DEF Once

(* Taking the head keeps every element single, and takes out the head's. *)
LEMMA OnceTail ==
  ASSUME NEW S, NEW s \in Seq(S), s # <<>>, NEW y, Once(s, y)
  PROVE  /\ Once(Tail(s), y)
         /\ Head(s) = y => y \notin Elements(Tail(s))
<1>1. /\ Tail(s) \in Seq(S) /\ Len(s) \in Nat /\ Len(s) > 0 /\ Len(Tail(s)) = Len(s) - 1
      /\ Head(s) = s[1] /\ \A i \in 1..(Len(s) - 1) : Tail(s)[i] = s[i + 1]
  BY TailFacts
<1>2. Once(Tail(s), y)
  BY <1>1 DEF Once
<1>3. ASSUME Head(s) = y, NEW i \in 1..(Len(s) - 1), Tail(s)[i] = y PROVE FALSE
  <2>1. s[1] = y /\ s[i + 1] = y /\ 1 \in 1..Len(s) /\ i + 1 \in 1..Len(s)
    BY <1>1, <1>3
  <2>2. 1 = i + 1
    BY <2>1 DEF Once
  <2>3. QED
    BY <2>2
<1>4. DOMAIN Tail(s) = 1..(Len(s) - 1)
  BY <1>1
<1>5. QED
  BY <1>2, <1>3, <1>4 DEF Elements

-------------------------------------------------------------------------------
(* Types.                                                                   *)

(* What a Receives step does to a well-typed mailbox. *)
LEMMA ReceivesFacts ==
  ASSUME TypeOK, NEW name, Receives(name)
  PROVE  /\ Head(mailbox) \in Command /\ Head(mailbox).cmd = name
         /\ mailbox' \in Seq(Command) /\ Len(mailbox') <= MailboxCap
         /\ Elements(mailbox) = {Head(mailbox)} \cup Elements(mailbox')
<1>1. mailbox \in Seq(Command) /\ mailbox # <<>> /\ mailbox' = Tail(mailbox)
  BY DEF TypeOK, Receives
<1>2. QED
  BY <1>1, TailFacts, LaneAssumption DEF TypeOK, Receives

(* What a BeginRun step does to the writer's queue. *)
LEMMA BeginRunTyped ==
  ASSUME TypeOK, NEW t \in Turns, BeginRun(t)
  PROVE  /\ actor' = "begin" /\ starting' = t
         /\ writes' \in Seq(Entry) /\ transcript' \in Seq(Entry)
BY DEF TypeOK, BeginRun, Entry

(* A command that names a turn. *)
LEMMA CommandFacts ==
  ASSUME NEW c \in Command
  PROVE  /\ c.run \in MaybeTurn
         /\ c.cmd \in {"Submit", "Finished", "Resume"} => c.run \in Turns
BY DEF Command, MaybeTurn

(* A turn's submission and its report are commands. *)
LEMMA CmdTyped ==
  ASSUME NEW t \in Turns
  PROVE  Cmd("Submit", t) \in Command /\ Cmd("Finished", t) \in Command
BY DEF Cmd, Command

(* What a send to the mailbox, a push to the queue, a write and their inverses do. *)
LEMMA SendFacts ==
  ASSUME TypeOK, HasRoom, NEW c \in Command
  PROVE  /\ Append(mailbox, c) \in Seq(Command) /\ Len(Append(mailbox, c)) <= MailboxCap
         /\ Elements(Append(mailbox, c)) = Elements(mailbox) \cup {c}
<1>1. mailbox \in Seq(Command) /\ Len(mailbox) \in Nat /\ Len(mailbox) < MailboxCap
  BY DEF TypeOK, HasRoom
<1>2. QED
  BY <1>1, AppendFacts, LaneAssumption

(* What the actor leaves of the queue when the next turn starts. *)
LEMMA PopFacts ==
  ASSUME TypeOK, pending # <<>>
  PROVE  /\ Head(pending) \in Turns /\ Tail(pending) \in Seq(Turns) /\ Len(Tail(pending)) <= QueueCap
         /\ Elements(pending) = {Head(pending)} \cup Elements(Tail(pending))
<1>1. pending \in Seq(Turns) /\ Len(pending) \in Nat /\ Len(pending) <= QueueCap
  BY DEF TypeOK
<1>2. QED
  BY <1>1, TailFacts, LaneAssumption

(* What a turn that has to wait adds to the queue. *)
LEMMA PushFacts ==
  ASSUME TypeOK, ~QueueFull, NEW t \in Turns
  PROVE  /\ Append(pending, t) \in Seq(Turns) /\ Len(Append(pending, t)) <= QueueCap
         /\ Elements(Append(pending, t)) = Elements(pending) \cup {t}
<1>1. pending \in Seq(Turns) /\ Len(pending) \in Nat /\ Len(pending) < QueueCap
  BY LaneAssumption DEF TypeOK, QueueFull
<1>2. QED
  BY <1>1, AppendFacts, LaneAssumption

(* What the writer thread does to its queue and to the session's entries. *)
LEMMA WriteFacts ==
  ASSUME TypeOK
  PROVE  /\ \A e \in Entry : Append(writes, e) \in Seq(Entry)
         /\ writes # <<>> => /\ Tail(writes) \in Seq(Entry)
                             /\ Append(transcript, Head(writes)) \in Seq(Entry)
<1>1. writes \in Seq(Entry) /\ transcript \in Seq(Entry)
  BY DEF TypeOK
<1>2. QED
  BY <1>1, AppendFacts, TailFacts

(* Every control command is a command. *)
LEMMA ControlTyped ==
  ASSUME NEW c \in ControlCommands
  PROVE  c \in Command
<1> DEFINE known == {t \in Turns : reply[t] = "some"}
<1>1. CASE c \in {[cmd |-> "Abort", run |-> t, hard |-> h] : t \in known \cup {None}, h \in BOOLEAN}
  <2>1. PICK t \in known \cup {None}, h \in BOOLEAN : c = [cmd |-> "Abort", run |-> t, hard |-> h]
    BY <1>1
  <2>2. QED
    BY <2>1 DEF Command, MaybeTurn
<1>2. CASE c \in {Cmd("Resume", t) : t \in known}
  <2>1. PICK t \in known : c = Cmd("Resume", t)
    BY <1>2
  <2>2. QED
    BY <2>1 DEF Command, Cmd
<1>3. CASE c \in {Cmd(name, None) : name \in {"Compact", "HealthScan", "EvictIfIdle"}}
  <2>1. PICK name \in {"Compact", "HealthScan", "EvictIfIdle"} : c = Cmd(name, None)
    BY <1>3
  <2>2. QED
    BY <2>1 DEF Command, Cmd
<1>4. QED
  BY <1>1, <1>2, <1>3 DEF ControlCommands

(* The initial state is well-typed. *)
LEMMA InitTyped == Init => TypeOK
BY LaneAssumption DEF Init, TypeOK, MaybeTurn, Command, Entry

(* Every step keeps the types: one case per action. *)
LEMMA StepTyped == TypeOK /\ [Next]_vars => TypeOK'
<1> SUFFICES ASSUME TypeOK, [Next]_vars PROVE TypeOK'
  OBVIOUS
<1> USE LaneAssumption
<1>1. ASSUME NEW t \in Turns, SendSubmit(t) PROVE TypeOK'
  <2>1. mailbox' \in Seq(Command) /\ Len(mailbox') <= MailboxCap
    <3>1. CASE mailbox' = mailbox
      BY <3>1 DEF TypeOK
    <3>2. CASE HasRoom /\ mailbox' = Append(mailbox, Cmd("Submit", t))
      BY <3>2, CmdTyped, SendFacts
    <3>3. QED
      BY <1>1, <3>1, <3>2 DEF SendSubmit
  <2>2. reply' \in [Turns -> {"unsent", "waiting", "some", "none"}]
    BY <1>1 DEF TypeOK, SendSubmit
  <2>3. QED
    BY <1>1, <2>1, <2>2 DEF TypeOK, SendSubmit, queueVars, taskVars, storeVars
<1>2. ASSUME NEW c \in ControlCommands, SendControl(c) PROVE TypeOK'
  <2>1. c \in Command
    BY ControlTyped
  <2>2. mailbox' \in Seq(Command) /\ Len(mailbox') <= MailboxCap
    BY <1>2, <2>1, SendFacts DEF SendControl
  <2>3. QED
    BY <1>2, <2>2 DEF TypeOK, SendControl, queueVars, taskVars, storeVars
<1>3. CASE HandleSubmit
  <2> DEFINE t == Head(mailbox).run
  <2>1. t \in Turns /\ mailbox' \in Seq(Command) /\ Len(mailbox') <= MailboxCap
    BY <1>3, ReceivesFacts, CommandFacts DEF HandleSubmit
  <2> HIDE DEF t
  <2>2. /\ sinks' \subseteq Turns /\ runLogs' \subseteq Turns
        /\ reply' \in [Turns -> {"unsent", "waiting", "some", "none"}]
    BY <1>3, <2>1 DEF HandleSubmit, Admit, Reject, TypeOK, t
  <2>3. /\ active' \in MaybeTurn /\ pending' \in Seq(Turns) /\ Len(pending') <= QueueCap
    <3>1. \/ active' = t /\ pending' = pending
          \/ ~QueueFull /\ active' = active /\ pending' = Append(pending, t)
          \/ active' = active /\ pending' = pending
      BY <1>3 DEF HandleSubmit, Enqueue, t, queueVars
    <3>2. /\ active \in MaybeTurn /\ t \in MaybeTurn
          /\ pending \in Seq(Turns) /\ Len(pending) <= QueueCap
      BY <2>1 DEF TypeOK, MaybeTurn
    <3>3. ~QueueFull => Append(pending, t) \in Seq(Turns) /\ Len(Append(pending, t)) <= QueueCap
      BY <2>1, PushFacts
    <3>4. QED
      BY <3>1, <3>2, <3>3
  <2>4. /\ actor' \in {"recv", "begin", "compact", "gone"} /\ starting' \in MaybeTurn
        /\ writes' \in Seq(Entry) /\ transcript' \in Seq(Entry)
    BY <1>3, <2>1, BeginRunTyped DEF HandleSubmit, Enqueue, DoNotBegin, storeVars, TypeOK, t, MaybeTurn
  <2>5. QED
    BY <1>3, <2>1, <2>2, <2>3, <2>4 DEF HandleSubmit, TypeOK, taskVars
<1>4. CASE StartRun
  BY <1>4 DEF TypeOK, StartRun, queueVars, storeVars, MaybeTurn
<1>5. CASE HandleAbort
  <2>1. mailbox' \in Seq(Command) /\ Len(mailbox') <= MailboxCap
    BY <1>5, ReceivesFacts DEF HandleAbort
  <2>2. pending' \in Seq(Turns) /\ Len(pending') <= QueueCap /\ drained' \subseteq Turns
    <3>1. Elements(pending) \subseteq Turns /\ Len(<<>>) <= QueueCap /\ <<>> \in Seq(Turns)
      BY ElementsTyped DEF TypeOK
    <3>2. \/ pending' = pending /\ drained' = drained
          \/ pending' = <<>> /\ drained' = drained \cup Elements(pending)
      BY <1>5 DEF HandleAbort
    <3>3. pending \in Seq(Turns) /\ Len(pending) <= QueueCap /\ drained \subseteq Turns
      BY DEF TypeOK
    <3>4. drained \cup Elements(pending) \subseteq Turns
      BY <3>1, <3>3
    <3>5. QED
      BY <3>1, <3>2, <3>3, <3>4, Zenon
  <2>3. cancelled' \subseteq Turns
    BY <1>5 DEF HandleAbort, TypeOK, MaybeTurn
  <2>4. QED
    BY <1>5, <2>1, <2>2, <2>3 DEF HandleAbort, TypeOK, storeVars
<1>6. CASE HandleCompact
  BY <1>6, ReceivesFacts DEF TypeOK, HandleCompact, queueVars, taskVars, storeVars
<1>7. CASE CompactDone
  BY <1>7 DEF TypeOK, CompactDone, queueVars, taskVars, storeVars
<1>8. CASE HandleFinished
  <2> DEFINE t == Head(mailbox).run
  <2>1. t \in Turns /\ mailbox' \in Seq(Command) /\ Len(mailbox') <= MailboxCap
    BY <1>8, ReceivesFacts, CommandFacts DEF HandleFinished
  <2> HIDE DEF t
  <2>2. run' \in MaybeTurn /\ served' \subseteq Turns /\ sinks' \subseteq Turns /\ runLogs' \subseteq Turns
    BY <1>8, <2>1 DEF HandleFinished, ForgetOutputs, TypeOK, MaybeTurn, t
  <2>3. /\ active' \in MaybeTurn /\ pending' \in Seq(Turns) /\ Len(pending') <= QueueCap
    BY <1>8, PopFacts DEF HandleFinished, CompleteActive, TypeOK, queueVars, MaybeTurn
  <2>4. /\ actor' \in {"recv", "begin", "compact", "gone"} /\ starting' \in MaybeTurn
        /\ writes' \in Seq(Entry) /\ transcript' \in Seq(Entry)
    BY <1>8, BeginRunTyped, PopFacts DEF HandleFinished, CompleteActive, DoNotBegin, storeVars, TypeOK, MaybeTurn
  <2>5. QED
    BY <1>8, <2>1, <2>2, <2>3, <2>4 DEF HandleFinished, TypeOK, taskVars
<1>9. CASE HandleResume
  BY <1>9, ReceivesFacts DEF TypeOK, HandleResume, queueVars, taskVars, storeVars
<1>10. CASE HandleHealthScan
  BY <1>10, ReceivesFacts DEF TypeOK, HandleHealthScan, MaybeTurn, queueVars, storeVars
<1>11. CASE StayAlive
  BY <1>11, ReceivesFacts DEF TypeOK, StayAlive, queueVars, taskVars, storeVars
<1>12. CASE Evict
  <2>1. mailbox' \in Seq(Command) /\ Len(mailbox') <= MailboxCap
    BY <1>12 DEF Evict, DropBuffered
  <2>2. reply' \in [Turns -> {"unsent", "waiting", "some", "none"}]
    BY <1>12 DEF Evict, DropBuffered, TypeOK
  <2>3. QED
    BY <1>12, <2>1, <2>2 DEF TypeOK, Evict, queueVars, taskVars, storeVars
<1>13. CASE Writer
  BY <1>13, WriteFacts DEF TypeOK, Writer, WriterApply, WriterFail, queueVars, taskVars
<1>14. ASSUME NEW t \in Turns, Run(t) PROVE TypeOK'
  <2> USE DEF Run, RunPersist, RunPersisted, RunAnnounceEnd, RunReturn, RunTimeout, RunPanic, RunReport
  <2>1. mailbox' \in Seq(Command) /\ Len(mailbox') <= MailboxCap
    <3>1. CASE mailbox' = mailbox
      BY <3>1 DEF TypeOK
    <3>2. CASE HasRoom /\ mailbox' = Append(mailbox, Cmd("Finished", t))
      BY <3>2, CmdTyped, SendFacts
    <3>3. QED
      BY <1>14, <3>1, <3>2
  <2>2. task' \in [Turns -> {"none", "running", "persisting", "returned", "reported"}]
    BY <1>14 DEF TypeOK
  <2>3. persists' \in [Turns -> 0..MaxPersists]
    <3>1. \/ persists' = persists
          \/ persists[t] < MaxPersists /\ persists' = [persists EXCEPT ![t] = @ + 1]
      BY <1>14
    <3>2. persists \in [Turns -> 0..MaxPersists]
      BY DEF TypeOK
    <3>3. QED
      BY <3>1, <3>2
  <2>4. cancelled' \subseteq Turns /\ ended' \subseteq Turns /\ panicked' \subseteq Turns
    BY <1>14 DEF TypeOK
  <2>5. writes' \in Seq(Entry) /\ transcript' \in Seq(Entry)
    <3>1. /\ transcript' = transcript
          /\ writes' = writes \/ writes' = Append(writes, <<t, "assistant">>)
      BY <1>14 DEF storeVars
    <3>2. <<t, "assistant">> \in Entry
      BY DEF Entry
    <3>3. QED
      BY <3>1, <3>2, WriteFacts DEF TypeOK
  <2>6. runUnchanged
    BY <1>14
  <2>7. QED
    BY <2>1, <2>2, <2>3, <2>4, <2>5, <2>6 DEF runUnchanged, TypeOK, queueVars
<1>15. CASE UNCHANGED vars
  BY <1>15 DEF TypeOK, vars, queueVars, taskVars, storeVars
<1>16. QED
  BY <1>1, <1>2, <1>3, <1>4, <1>5, <1>6, <1>7, <1>8, <1>9, <1>10, <1>11, <1>12, <1>13, <1>14, <1>15
  DEF Next, Actor, Quiescent

(* Every variable keeps its type; the queue and the channel keep their bounds
   (RunQueue::submit, the bounded mpsc channel). *)
THEOREM Typing == Spec => []TypeOK
BY InitTyped, StepTyped, PTL DEF Spec

-------------------------------------------------------------------------------
(* The inductive invariant.  The properties of the runs are not inductive by  *)
(* themselves: that a Finished frees the lane of the right run rests on where *)
(* every turn is, from its Submit to its Finished.                            *)

Sent(name, t) == Cmd(name, t) \in Elements(mailbox)
OnLane == (Elements(pending) \cup {active}) \ {None}

(* An exited actor has neither a run nor a queue. *)
GoneIsIdle == /\ open <=> actor # "gone"
              /\ ~open => run = None /\ pending = <<>>

(* Only the run the actor knows of is in the lane, and a run whose Finished is
   on its way has left it. *)
RunHoldsLane ==
  /\ \A t \in Turns : InLane(t) => t = run
  /\ \A t \in Turns : Sent("Finished", t) => task[t] = "reported"

(* A turn runs once: it is in the channel once, then in the queue once, and has
   no task before it leaves the queue. *)
TurnsAreFresh ==
  /\ \A t \in Turns : Once(mailbox, Cmd("Submit", t)) /\ Once(pending, t)
  /\ \A t \in Turns : Sent("Submit", t) => reply[t] = "waiting"
  /\ \A t \in Turns : reply[t] # "some" => task[t] = "none"
  /\ \A t \in Elements(pending) \cup {starting} : t # None => task[t] = "none"
  /\ active \notin Elements(pending)
  /\ drained \cap OnLane = {}
  /\ served \cap runLogs = {}

LaneInv == /\ TypeOK
           /\ LaneAgreement
           /\ NoStrandedTurn
           /\ AcceptedIsTracked
           /\ OutputsFollowTurns
           /\ GoneIsIdle
           /\ RunHoldsLane
           /\ TurnsAreFresh

(* The inductive invariant holds when the actor starts. *)
LEMMA InitInv == Init => LaneInv
<1> SUFFICES ASSUME Init PROVE LaneInv
  OBVIOUS
<1>1. TypeOK
  BY InitTyped
<1>2. Elements(mailbox) = {} /\ Elements(pending) = {} /\ Len(mailbox) = 0 /\ Len(pending) = 0
  BY EmptyFacts DEF Init
<1>3. LaneAgreement /\ NoStrandedTurn /\ GoneIsIdle
  BY DEF Init, LaneAgreement, NoStrandedTurn, GoneIsIdle
<1>4. AcceptedIsTracked
  BY <1>2, LaneAssumption DEF Init, AcceptedIsTracked
<1>5. OutputsFollowTurns
  BY <1>2 DEF Init, OutputsFollowTurns
<1>6. RunHoldsLane
  BY <1>2 DEF Init, RunHoldsLane, InLane, Sent
<1>7. TurnsAreFresh
  BY <1>2, LaneAssumption DEF Init, TurnsAreFresh, Once, Sent, OnLane
<1>8. QED
  BY <1>1, <1>3, <1>4, <1>5, <1>6, <1>7 DEF LaneInv

(* Steps that leave the lane alone: the mailbox may lose or gain a command that
   is neither a Submit nor a Finished, and a task may move within the lane. *)
SameMail ==
  \A t \in Turns :
    /\ Sent("Submit", t)' <=> Sent("Submit", t)
    /\ Sent("Finished", t)' <=> Sent("Finished", t)
    /\ Once(mailbox, Cmd("Submit", t))'
SameTasks ==
  \A t \in Turns :
    /\ task'[t] = "none" <=> task[t] = "none"
    /\ task'[t] = "reported" <=> task[t] = "reported"
    /\ InLane(t)' <=> InLane(t)
SameLane == /\ UNCHANGED <<open, starting, queueVars, run, sinks, runLogs, reply, served, drained>>
            /\ actor' = "begin" <=> actor = "begin"
            /\ actor' = "gone" <=> actor = "gone"

(* A step that changes none of the lane's records keeps the invariant. *)
LEMMA FrameInv ==
  ASSUME LaneInv, TypeOK', SameMail, SameTasks, SameLane
  PROVE  LaneInv'
<1> USE DEF SameLane, queueVars
<1>1. LaneAgreement' /\ GoneIsIdle'
  BY DEF LaneInv, LaneAgreement, GoneIsIdle
<1>2. AcceptedIsTracked' /\ OutputsFollowTurns'
  BY DEF LaneInv, AcceptedIsTracked, OutputsFollowTurns, Elements
<1>3. NoStrandedTurn'
  BY DEF LaneInv, NoStrandedTurn, SameMail, SameTasks, Sent, InLane, TypeOK, MaybeTurn
<1>4. RunHoldsLane'
  BY DEF LaneInv, RunHoldsLane, SameMail, SameTasks, InLane, Sent
<1>5. TurnsAreFresh'
  <2>1. /\ Elements(pending)' = Elements(pending) /\ OnLane' = OnLane
        /\ \A t \in Turns : Once(pending, t) => Once(pending, t)'
    BY DEF Elements, OnLane, Once
  <2>2. TurnsAreFresh
    BY DEF LaneInv
  <2>3. \A t \in Turns : Once(mailbox, Cmd("Submit", t))' /\ Once(pending, t)'
    BY <2>1, <2>2 DEF TurnsAreFresh, SameMail
  <2>4. \A t \in Turns : Sent("Submit", t)' => reply'[t] = "waiting"
    BY <2>2 DEF TurnsAreFresh, SameMail
  <2>5. \A t \in Turns : reply'[t] # "some" => task'[t] = "none"
    BY <2>2 DEF TurnsAreFresh, SameTasks
  <2>6. Elements(pending) \cup {starting} \subseteq MaybeTurn
    BY ElementsTyped DEF LaneInv, TypeOK, MaybeTurn
  <2>7. \A t \in Elements(pending)' \cup {starting'} : t # None => task'[t] = "none"
    BY <2>1, <2>2, <2>6 DEF TurnsAreFresh, SameTasks, MaybeTurn
  <2>8. active' \notin Elements(pending)' /\ drained' \cap OnLane' = {} /\ served' \cap runLogs' = {}
    BY <2>1, <2>2 DEF TurnsAreFresh
  <2>9. QED
    BY <2>3, <2>4, <2>5, <2>7, <2>8 DEF TurnsAreFresh
<1>6. QED
  BY <1>1, <1>2, <1>3, <1>4, <1>5 DEF LaneInv

(* A step that leaves the mailbox alone keeps what was sent to it. *)
LEMMA SameMailIfUnchanged == ASSUME LaneInv, mailbox' = mailbox PROVE SameMail
BY DEF LaneInv, TurnsAreFresh, SameMail, Sent, Once, Elements

(* A step that leaves the run tasks alone keeps them. *)
LEMMA SameTasksIfUnchanged == ASSUME task' = task PROVE SameTasks
BY DEF SameTasks, InLane

(* Receiving a control command. *)
LEMMA SameMailIfControl ==
  ASSUME LaneInv, NEW name, name \notin {"Submit", "Finished"}, Receives(name)
  PROVE  SameMail
<1>1. /\ Head(mailbox).cmd = name /\ mailbox # <<>> /\ mailbox' = Tail(mailbox)
      /\ mailbox \in Seq(Command)
      /\ Elements(mailbox) = {Head(mailbox)} \cup Elements(mailbox')
  BY ReceivesFacts DEF LaneInv, Receives, TypeOK
<1>2. ASSUME NEW t \in Turns
      PROVE  Cmd("Submit", t) # Head(mailbox) /\ Cmd("Finished", t) # Head(mailbox)
  BY <1>1 DEF Cmd
<1>3. ASSUME NEW t \in Turns PROVE Once(mailbox', Cmd("Submit", t))
  BY <1>1, OnceTail DEF LaneInv, TurnsAreFresh
<1>4. QED
  BY <1>1, <1>2, <1>3 DEF SameMail, Sent, Once

(* Sending a control command. *)
LEMMA SameMailIfSent ==
  ASSUME LaneInv, NEW c \in ControlCommands, SendControl(c)
  PROVE  SameMail
<1>1. /\ mailbox' = Append(mailbox, c) /\ mailbox \in Seq(Command) /\ c \in Command
      /\ Elements(mailbox') = Elements(mailbox) \cup {c}
  BY ControlTyped, SendFacts DEF LaneInv, SendControl, TypeOK
<1>2. c.cmd # "Submit" /\ c.cmd # "Finished"
  BY DEF ControlCommands, Cmd
<1>3. ASSUME NEW t \in Turns
      PROVE  Cmd("Submit", t) # c /\ Cmd("Finished", t) # c
  BY <1>2 DEF Cmd
<1>4. ASSUME NEW t \in Turns PROVE Once(mailbox', Cmd("Submit", t))
  BY <1>1, <1>3, OnceAppend DEF LaneInv, TurnsAreFresh
<1>5. QED
  BY <1>1, <1>3, <1>4 DEF SameMail, Sent, Once

(* A command of a turn, as the actor finds it at the head of its mailbox. *)
LEMMA HeadIsCmd ==
  ASSUME TypeOK, NEW name \in {"Submit", "Finished"}, Receives(name)
  PROVE  Head(mailbox).run \in Turns /\ Head(mailbox) = Cmd(name, Head(mailbox).run)
<1>1. Head(mailbox) \in Command /\ Head(mailbox).cmd = name
  BY ReceivesFacts
<1>2. QED
  BY <1>1 DEF Command, Cmd

(* A submission is not a report. *)
LEMMA CmdsDiffer == \A t, u \in Turns : Cmd("Submit", t) # Cmd("Finished", u)
BY DEF Cmd

(* A turn's command names that turn. *)
LEMMA CmdInjective ==
  \A name, t, u : Cmd(name, t) = Cmd(name, u) => t = u
BY DEF Cmd

(* SessionHandle::submit. *)
LEMMA SendSubmitInv ==
  ASSUME LaneInv, TypeOK', NEW t \in Turns, SendSubmit(t)
  PROVE  LaneInv'
<1> USE DEF queueVars, taskVars
<1>1. reply[t] = "unsent" /\ reply \in [Turns -> {"unsent", "waiting", "some", "none"}]
  BY DEF LaneInv, TypeOK, SendSubmit
<1>2. /\ \A u \in Turns \ {t} : reply'[u] = reply[u]
      /\ reply'[t] \in {"waiting", "none"}
  BY <1>1 DEF SendSubmit
<1>3. /\ ~Sent("Submit", t)
      /\ \A u \in Turns : /\ Sent("Finished", u)' <=> Sent("Finished", u)
                          /\ Sent("Submit", u)' => Sent("Submit", u) \/ (u = t /\ reply'[t] = "waiting")
                          /\ Once(mailbox, Cmd("Submit", u))'
  <2>1. mailbox \in Seq(Command) /\ TurnsAreFresh
    BY DEF LaneInv, TypeOK
  <2>2. ~Sent("Submit", t)
    BY <1>1, <2>1 DEF TurnsAreFresh
  <2>3. CASE mailbox' = mailbox
    BY <2>1, <2>2, <2>3 DEF Sent, TurnsAreFresh, Once, Elements
  <2>4. CASE HasRoom /\ mailbox' = Append(mailbox, Cmd("Submit", t)) /\ reply'[t] = "waiting"
    <3>1. Elements(mailbox') = Elements(mailbox) \cup {Cmd("Submit", t)}
      BY <2>4, CmdTyped, SendFacts DEF LaneInv
    <3>2. ASSUME NEW u \in Turns PROVE Once(mailbox', Cmd("Submit", u))
      BY <2>1, <2>2, <2>4, OnceAppend, CmdTyped, CmdInjective DEF TurnsAreFresh, Sent
    <3>3. ASSUME NEW u \in Turns
          PROVE  /\ Sent("Finished", u)' <=> Sent("Finished", u)
                 /\ Sent("Submit", u)' => Sent("Submit", u) \/ u = t
      BY <3>1, CmdsDiffer, CmdInjective DEF Sent
    <3>4. QED
      BY <2>2, <2>4, <3>2, <3>3 DEF Once
  <2>5. QED
    BY <1>1, <2>3, <2>4 DEF SendSubmit
<1>4. LaneAgreement' /\ GoneIsIdle' /\ OutputsFollowTurns'
  BY DEF LaneInv, LaneAgreement, GoneIsIdle, OutputsFollowTurns, Elements, SendSubmit
<1>5. NoStrandedTurn'
  BY <1>3 DEF LaneInv, NoStrandedTurn, InLane, Sent, SendSubmit, TypeOK, MaybeTurn
<1>6. AcceptedIsTracked'
  BY <1>1, <1>2 DEF LaneInv, AcceptedIsTracked, SendSubmit, Elements
<1>7. RunHoldsLane'
  BY <1>3 DEF LaneInv, RunHoldsLane, InLane, SendSubmit
<1>8. TurnsAreFresh'
  <2>1. /\ TurnsAreFresh /\ UNCHANGED <<pending, active, starting, task, drained, served, runLogs>>
        /\ Elements(pending)' = Elements(pending) /\ OnLane' = OnLane
        /\ \A u \in Turns : Once(pending, u) => Once(pending, u)'
    BY DEF LaneInv, SendSubmit, Elements, OnLane, Once
  <2>2. \A u \in Turns : Once(mailbox, Cmd("Submit", u))' /\ Once(pending, u)'
    BY <1>3, <2>1 DEF TurnsAreFresh
  <2>3. \A u \in Turns : Sent("Submit", u)' => reply'[u] = "waiting"
    BY <1>2, <1>3, <2>1 DEF TurnsAreFresh
  <2>4. \A u \in Turns : reply'[u] # "some" => task'[u] = "none"
    BY <1>1, <1>2, <2>1 DEF TurnsAreFresh
  <2>5. QED
    BY <2>1, <2>2, <2>3, <2>4 DEF TurnsAreFresh
<1>9. QED
  BY <1>4, <1>5, <1>6, <1>7, <1>8 DEF LaneInv

(* start_run: the turn begin_run worked on becomes the run. *)
LEMMA StartRunInv ==
  ASSUME LaneInv, TypeOK', StartRun
  PROVE  LaneInv'
<1> DEFINE t == starting
<1>1. /\ actor = "begin" /\ actor' = "recv" /\ run = None /\ run' = t /\ starting' = None
      /\ t # None /\ active = t /\ t \in Turns
      /\ UNCHANGED <<open, mailbox, active, pending, runLogs, reply, served, drained>>
  BY DEF LaneInv, LaneAgreement, StartRun, TypeOK, MaybeTurn, queueVars
<1>2. /\ task' = [task EXCEPT ![t] = "running"] /\ sinks' = sinks \ {t}
      /\ task \in [Turns -> {"none", "running", "persisting", "returned", "reported"}]
  BY DEF LaneInv, StartRun, TypeOK
<1>3. task[t] = "none" /\ open /\ t \notin Elements(pending)
  BY <1>1 DEF LaneInv, TurnsAreFresh, GoneIsIdle
<1>4. task'[t] = "running" /\ \A u \in Turns \ {t} : task'[u] = task[u]
  BY <1>1, <1>2
<1>5. Elements(pending)' = Elements(pending) /\ Elements(mailbox)' = Elements(mailbox)
  BY <1>1 DEF Elements
<1> HIDE DEF t
<1>6. LaneAgreement' /\ GoneIsIdle'
  BY <1>1, <1>3 DEF LaneAgreement, GoneIsIdle, LaneInv
<1>7. NoStrandedTurn'
  BY <1>1, <1>4, <1>5 DEF LaneInv, NoStrandedTurn, InLane
<1>8. AcceptedIsTracked'
  BY <1>1, <1>5 DEF LaneInv, AcceptedIsTracked
<1>9. OutputsFollowTurns'
  <2>1. /\ sinks \ drained = (Elements(pending) \cup {t}) \ {None}
        /\ runLogs \ drained = Detached \cap ((Elements(pending) \cup {active}) \ {None})
    BY <1>3 DEF LaneInv, OutputsFollowTurns, t
  <2>2. None \notin Elements(pending)
    BY ElementsTyped, LaneAssumption DEF LaneInv, TypeOK
  <2>3. (sinks \ {t}) \ drained = (Elements(pending) \cup {None}) \ {None}
    BY <1>3, <2>1, <2>2
  <2>4. QED
    BY <1>1, <1>2, <1>5, <2>1, <2>3 DEF OutputsFollowTurns
<1>10. RunHoldsLane'
  BY <1>1, <1>3, <1>4, <1>5, LaneAssumption DEF LaneInv, RunHoldsLane, InLane, Sent
<1>11. TurnsAreFresh'
  <2>1. reply[t] = "some"
    BY <1>1 DEF LaneInv, AcceptedIsTracked
  <2>2. Elements(pending) \subseteq Turns
    BY ElementsTyped DEF LaneInv, TypeOK
  <2>3. QED
    BY <1>1, <1>3, <1>4, <1>5, <2>1, <2>2 DEF LaneInv, TurnsAreFresh, Sent, Once, OnLane
<1>12. QED
  BY <1>6, <1>7, <1>8, <1>9, <1>10, <1>11 DEF LaneInv

(* The run task reports: the actor still waits for it, so its channel is open. *)
LEMMA RunReportInv ==
  ASSUME LaneInv, TypeOK', NEW t \in Turns, RunReport(t)
  PROVE  LaneInv'
<1>1. /\ task[t] = "returned" /\ task' = [task EXCEPT ![t] = "reported"]
      /\ task \in [Turns -> {"none", "running", "persisting", "returned", "reported"}]
      /\ UNCHANGED <<open, actor, starting, active, pending, run, sinks, runLogs, reply, served, drained>>
  BY DEF LaneInv, TypeOK, RunReport, runUnchanged, queueVars
<1>2. t = run /\ open
  BY <1>1, LaneAssumption DEF LaneInv, RunHoldsLane, GoneIsIdle, InLane
<1>3. HasRoom /\ mailbox' = Append(mailbox, Cmd("Finished", t)) /\ mailbox \in Seq(Command)
  BY <1>2 DEF RunReport, LaneInv, TypeOK
<1>4. Elements(mailbox') = Elements(mailbox) \cup {Cmd("Finished", t)}
  BY <1>3, CmdTyped, SendFacts DEF LaneInv
<1>5. ASSUME NEW u \in Turns
      PROVE  /\ Once(mailbox', Cmd("Submit", u))
             /\ Sent("Submit", u)' <=> Sent("Submit", u)
             /\ Sent("Finished", u)' <=> Sent("Finished", u) \/ u = t
  BY <1>3, <1>4, OnceAppend, CmdTyped, CmdsDiffer, CmdInjective DEF LaneInv, TurnsAreFresh, Sent
<1>6. task'[t] = "reported" /\ \A u \in Turns \ {t} : task'[u] = task[u]
  BY <1>1
<1>7. Elements(pending)' = Elements(pending)
  BY <1>1 DEF Elements
<1>8. LaneAgreement' /\ GoneIsIdle' /\ AcceptedIsTracked' /\ OutputsFollowTurns'
  BY <1>1, <1>7 DEF LaneInv, LaneAgreement, GoneIsIdle, AcceptedIsTracked, OutputsFollowTurns
<1>9. NoStrandedTurn'
  BY <1>1, <1>2, <1>4 DEF LaneInv, NoStrandedTurn
<1>10. RunHoldsLane'
  BY <1>1, <1>5, <1>6 DEF LaneInv, RunHoldsLane, InLane
<1>11. TurnsAreFresh'
  <2>1. reply[t] = "some" /\ t \notin Elements(pending) /\ starting # t
    BY <1>1, LaneAssumption DEF LaneInv, TurnsAreFresh
  <2>2. Elements(pending) \subseteq Turns
    BY ElementsTyped DEF LaneInv, TypeOK
  <2>3. starting \in MaybeTurn /\ TurnsAreFresh
    BY DEF LaneInv, TypeOK
  <2>4. \A u \in Elements(pending)' \cup {starting'} : u # None => task'[u] = "none"
    BY <1>1, <1>6, <1>7, <2>1, <2>2, <2>3 DEF TurnsAreFresh, MaybeTurn
  <2>5. \A u \in Turns : /\ Once(mailbox, Cmd("Submit", u))' /\ Once(pending, u)'
                         /\ Sent("Submit", u)' => reply'[u] = "waiting"
                         /\ reply'[u] # "some" => task'[u] = "none"
    BY <1>1, <1>5, <1>6, <2>1, <2>3 DEF TurnsAreFresh, Once
  <2>6. QED
    BY <1>1, <1>7, <2>3, <2>4, <2>5 DEF TurnsAreFresh, OnLane
<1>12. QED
  BY <1>8, <1>9, <1>10, <1>11 DEF LaneInv

(* SessionCmd::Abort. *)
LEMMA HandleAbortInv ==
  ASSUME LaneInv, TypeOK', HandleAbort
  PROVE  LaneInv'
<1>1. /\ actor = "recv" /\ UNCHANGED <<open, actor, starting, active, run, sinks, runLogs, reply, task, served>>
      /\ \/ pending' = pending /\ drained' = drained
         \/ pending' = <<>> /\ drained' = drained \cup Elements(pending)
  BY DEF HandleAbort, Receives
<1>2. SameMail /\ SameTasks
  BY <1>1, SameMailIfControl, SameTasksIfUnchanged DEF HandleAbort
<1>3. CASE pending' = pending /\ drained' = drained
  BY <1>1, <1>2, <1>3, FrameInv DEF SameLane, queueVars
<1>4. CASE pending' = <<>> /\ drained' = drained \cup Elements(pending)
  <2>1. Elements(pending') = {} /\ Len(pending') = 0
    BY <1>4, EmptyFacts
  <2>2. Elements(pending) \subseteq Turns /\ starting = None /\ active = run /\ run \in MaybeTurn
    BY <1>1, ElementsTyped DEF LaneInv, TypeOK, LaneAgreement
  <2>3. LaneAgreement' /\ GoneIsIdle'
    BY <1>1, <1>4 DEF LaneInv, LaneAgreement, GoneIsIdle
  <2>4. NoStrandedTurn'
    BY <1>1, <1>2, <1>4, <2>2 DEF LaneInv, NoStrandedTurn, InLane, SameMail, Sent, MaybeTurn
  <2>5. AcceptedIsTracked'
    BY <1>1, <1>4, <2>1 DEF LaneInv, AcceptedIsTracked
  <2>6. OutputsFollowTurns'
    <3>1. open => /\ sinks \ drained = Elements(pending)
                  /\ runLogs \ drained = Detached \cap ((Elements(pending) \cup {active}) \ {None})
      BY <2>2, LaneAssumption DEF LaneInv, OutputsFollowTurns
    <3>2. active \notin Elements(pending)
      BY DEF LaneInv, TurnsAreFresh
    <3>3. open => /\ sinks \ (drained \cup Elements(pending)) = {}
                  /\ runLogs \ (drained \cup Elements(pending)) = Detached \cap ({active} \ {None})
      BY <3>1, <3>2
    <3>4. QED
      BY <1>1, <1>4, <2>1, <2>2, <3>3 DEF OutputsFollowTurns
  <2>7. RunHoldsLane'
    BY <1>1, <1>2 DEF LaneInv, RunHoldsLane, InLane, SameMail
  <2>8. TurnsAreFresh'
    <3>1. OnLane' = {active} \ {None} /\ (drained \cup Elements(pending)) \cap ({active} \ {None}) = {}
      BY <1>1, <2>1 DEF LaneInv, TurnsAreFresh, OnLane
    <3>2. \A t \in Turns : Once(mailbox, Cmd("Submit", t))' /\ Once(pending, t)'
      BY <1>2, <2>1 DEF SameMail, Once
    <3>3. \A t \in Turns : Sent("Submit", t)' => reply'[t] = "waiting"
      BY <1>1, <1>2 DEF LaneInv, TurnsAreFresh, SameMail
    <3>4. QED
      BY <1>1, <1>4, <2>1, <2>2, <3>1, <3>2, <3>3 DEF LaneInv, TurnsAreFresh
  <2>9. QED
    BY <2>3, <2>4, <2>5, <2>6, <2>7, <2>8 DEF LaneInv
<1>5. QED
  BY <1>1, <1>3, <1>4

(* The exit of an idle actor. *)
LEMMA EvictInv ==
  ASSUME LaneInv, TypeOK', Evict
  PROVE  LaneInv'
<1>1. /\ actor = "recv" /\ actor' = "gone" /\ ~open' /\ run = None /\ pending = <<>> /\ mailbox' = <<>>
      /\ sinks' = {} /\ runLogs' = {}
      /\ UNCHANGED <<starting, active, pending, run, task, served, drained>>
      /\ reply' = [t \in Turns |-> IF reply[t] = "waiting" THEN "none" ELSE reply[t]]
  BY DEF Evict, Busy, DropBuffered, queueVars, taskVars
<1>2. starting = None /\ active = None
  BY <1>1 DEF LaneInv, LaneAgreement
<1>3. Elements(mailbox') = {} /\ Len(mailbox') = 0 /\ Elements(pending)' = Elements(pending)
  BY <1>1, EmptyFacts
<1>4. LaneAgreement' /\ GoneIsIdle' /\ NoStrandedTurn' /\ OutputsFollowTurns'
  BY <1>1, <1>2 DEF LaneAgreement, GoneIsIdle, NoStrandedTurn, OutputsFollowTurns
<1>5. \A t \in Turns : (reply'[t] = "some") <=> (reply[t] = "some")
  BY <1>1
<1>6. AcceptedIsTracked'
  BY <1>1, <1>3, <1>5 DEF LaneInv, AcceptedIsTracked
<1>7. RunHoldsLane'
  BY <1>1, <1>3 DEF LaneInv, RunHoldsLane, InLane, Sent
<1>8. TurnsAreFresh'
  BY <1>1, <1>3, <1>5 DEF LaneInv, TurnsAreFresh, Once, Sent, OnLane
<1>9. QED
  BY <1>4, <1>6, <1>7, <1>8 DEF LaneInv

(* SessionCmd::Submit. *)
LEMMA HandleSubmitInv ==
  ASSUME LaneInv, TypeOK', HandleSubmit
  PROVE  LaneInv'
<1> DEFINE t == Head(mailbox).run
<1>1. /\ actor = "recv" /\ mailbox # <<>> /\ mailbox' = Tail(mailbox) /\ Receives("Submit")
      /\ UNCHANGED <<open, run, task, served, drained>>
      /\ mailbox \in Seq(Command) /\ pending \in Seq(Turns)
  BY DEF HandleSubmit, Receives, taskVars, LaneInv, TypeOK
<1>2. /\ t \in Turns /\ Head(mailbox) = Cmd("Submit", t)
      /\ Elements(mailbox) = {Cmd("Submit", t)} \cup Elements(mailbox')
  BY <1>1, HeadIsCmd, ReceivesFacts DEF LaneInv
<1>3. \/ /\ active = None /\ active' = t /\ pending' = pending
         /\ Admit(t) /\ actor' = "begin" /\ starting' = t
      \/ /\ active # None /\ ~QueueFull /\ active' = active /\ pending' = Append(pending, t)
         /\ Admit(t) /\ actor' = actor /\ starting' = starting
      \/ /\ active # None /\ active' = active /\ pending' = pending
         /\ Reject(t) /\ actor' = actor /\ starting' = starting
  BY DEF HandleSubmit, LaneFree, BeginRun, Enqueue, DoNotBegin, queueVars
<1> HIDE DEF t
<1>4. /\ reply[t] = "waiting" /\ task[t] = "none" /\ t # None
      /\ t # active /\ t \notin Elements(pending) \cup served \cup drained
  BY <1>2, LaneAssumption DEF LaneInv, TurnsAreFresh, AcceptedIsTracked, Sent
<1>5. starting = None /\ active = run /\ open /\ Elements(pending) \subseteq Turns
  BY <1>1, ElementsTyped DEF LaneInv, LaneAgreement, GoneIsIdle
<1>6. \A u \in Turns : /\ Once(mailbox, Cmd("Submit", u))'
                       /\ Sent("Submit", u)' <=> (Sent("Submit", u) /\ u # t)
                       /\ Sent("Finished", u)' <=> Sent("Finished", u)
  <2>1. ASSUME NEW u \in Turns PROVE Once(mailbox', Cmd("Submit", u)) /\ Once(mailbox, Cmd("Submit", u))
    BY <1>1, OnceTail DEF LaneInv, TurnsAreFresh
  <2>2. Cmd("Submit", t) \notin Elements(mailbox')
    BY <1>1, <1>2, <2>1, OnceTail
  <2>3. QED
    BY <1>2, <2>1, <2>2, CmdsDiffer, CmdInjective DEF Sent, Once
<1>7. /\ Elements(pending) \subseteq Elements(pending') /\ Elements(pending') \subseteq Elements(pending) \cup {t}
      /\ pending' # <<>> => active' # None
      /\ \A u \in Turns : Once(pending', u)
  <2>1. CASE pending' = pending
    <3>1. pending # <<>> => active # None
      BY DEF LaneInv, NoStrandedTurn
    <3>2. QED
      BY <1>3, <1>4, <2>1, <3>1 DEF LaneInv, TurnsAreFresh
  <2>2. CASE active # None /\ active' = active /\ pending' = Append(pending, t)
    BY <1>1, <1>2, <1>4, <2>2, AppendFacts, OnceAppend DEF LaneInv, TurnsAreFresh
  <2>3. QED
    BY <1>3, <2>1, <2>2
<1>8. /\ \A u \in Turns \ {t} : reply'[u] = reply[u]
      /\ reply'[t] = "some" <=> t = active' \/ t \in Elements(pending')
  <2>1. reply \in [Turns -> {"unsent", "waiting", "some", "none"}]
    BY DEF LaneInv, TypeOK
  <2>2. CASE active' = t /\ Admit(t)
    BY <1>2, <2>1, <2>2 DEF Admit
  <2>3. CASE pending' = Append(pending, t) /\ Admit(t)
    BY <1>1, <1>2, <2>1, <2>3, AppendFacts DEF Admit
  <2>4. CASE pending' = pending /\ active' = active /\ Reject(t)
    BY <1>2, <1>4, <2>1, <2>4 DEF Reject
  <2>5. QED
    BY <1>3, <2>2, <2>3, <2>4
<1>9. LaneAgreement' /\ GoneIsIdle'
  BY <1>1, <1>3, <1>4, <1>5 DEF LaneInv, LaneAgreement, GoneIsIdle
<1>10. NoStrandedTurn'
  BY <1>1, <1>3, <1>5, <1>6, <1>7 DEF LaneInv, NoStrandedTurn, InLane, Sent, TypeOK, MaybeTurn
<1>11. AcceptedIsTracked'
  BY <1>1, <1>3, <1>4, <1>7, <1>8, LaneAssumption DEF LaneInv, AcceptedIsTracked
<1>12. OutputsFollowTurns'
  <2>1. /\ sinks \ drained = Elements(pending)
        /\ runLogs \ drained = Detached \cap ((Elements(pending) \cup {active}) \ {None})
    BY <1>5, LaneAssumption DEF LaneInv, OutputsFollowTurns
  <2>2. CASE active = None /\ active' = t /\ pending' = pending /\ Admit(t) /\ starting' = t
    BY <1>1, <1>4, <1>5, <2>1, <2>2, LaneAssumption DEF OutputsFollowTurns, Admit
  <2>3. CASE active' = active /\ pending' = Append(pending, t) /\ Admit(t) /\ starting' = None
    <3>1. Elements(pending') = Elements(pending) \cup {t}
      BY <1>1, <1>2, <2>3, AppendFacts
    <3>2. QED
      BY <1>1, <1>4, <1>5, <2>1, <2>3, <3>1, LaneAssumption DEF OutputsFollowTurns, Admit
  <2>4. CASE active' = active /\ pending' = pending /\ Reject(t) /\ starting' = None
    BY <1>1, <1>5, <2>1, <2>4, LaneAssumption DEF OutputsFollowTurns, Reject
  <2>5. QED
    BY <1>3, <1>5, <2>2, <2>3, <2>4
<1>13. RunHoldsLane'
  BY <1>1, <1>6 DEF LaneInv, RunHoldsLane, InLane
<1>14. TurnsAreFresh'
  <2>1. TurnsAreFresh
    BY DEF LaneInv
  <2>2. \A u \in Turns : Sent("Submit", u)' => reply'[u] = "waiting"
    BY <1>6, <1>8, <2>1 DEF TurnsAreFresh
  <2>3. \A u \in Turns : reply'[u] # "some" => task'[u] = "none"
    BY <1>1, <1>4, <1>8, <2>1 DEF TurnsAreFresh
  <2>4. \A u \in Elements(pending)' \cup {starting'} : u # None => task'[u] = "none"
    BY <1>1, <1>3, <1>4, <1>5, <1>7, <2>1 DEF TurnsAreFresh
  <2>5. active' \notin Elements(pending)'
    <3>1. CASE active = None /\ active' = t /\ pending' = pending
      BY <1>4, <3>1
    <3>2. CASE active # None /\ active' = active
      BY <1>4, <1>7, <2>1, <3>2 DEF TurnsAreFresh
    <3>3. QED
      BY <1>3, <3>1, <3>2
  <2>6. OnLane' \subseteq OnLane \cup {t}
    BY <1>3, <1>7 DEF OnLane
  <2>7. runLogs' \subseteq runLogs \cup {t}
    BY <1>3 DEF Admit, Reject
  <2>8. drained' \cap OnLane' = {} /\ served' \cap runLogs' = {}
    BY <1>1, <1>4, <2>1, <2>6, <2>7 DEF TurnsAreFresh
  <2>9. QED
    BY <1>6, <1>7, <2>2, <2>3, <2>4, <2>5, <2>8 DEF TurnsAreFresh, Once
<1>15. QED
  BY <1>9, <1>10, <1>11, <1>12, <1>13, <1>14 DEF LaneInv

(* SessionCmd::Finished. *)
LEMMA HandleFinishedInv ==
  ASSUME LaneInv, TypeOK', HandleFinished
  PROVE  LaneInv'
<1> DEFINE t == Head(mailbox).run
<1>1. /\ actor = "recv" /\ mailbox # <<>> /\ mailbox' = Tail(mailbox) /\ Receives("Finished")
      /\ UNCHANGED <<open, reply, task, drained>>
      /\ mailbox \in Seq(Command) /\ pending \in Seq(Turns)
  BY DEF HandleFinished, Receives, taskVars, LaneInv, TypeOK
<1>2. /\ t \in Turns /\ Head(mailbox) = Cmd("Finished", t) /\ t # None
      /\ Elements(mailbox) = {Cmd("Finished", t)} \cup Elements(mailbox')
  BY <1>1, HeadIsCmd, ReceivesFacts, LaneAssumption DEF LaneInv
<1>3. \/ /\ t = run /\ run' = None /\ served' = served \cup {t}
         /\ sinks' = sinks \ {t} /\ runLogs' = runLogs \ {t}
         /\ \/ /\ pending = <<>> /\ active' = None /\ pending' = pending
               /\ actor' = actor /\ starting' = starting
            \/ /\ pending # <<>> /\ active' = Head(pending) /\ pending' = Tail(pending)
               /\ actor' = "begin" /\ starting' = Head(pending)
      \/ /\ t # run
         /\ UNCHANGED <<sinks, runLogs, served, run, active, pending, actor, starting>>
  BY DEF HandleFinished, ForgetOutputs, CompleteActive, BeginRun, DoNotBegin, queueVars
<1> HIDE DEF t
<1>4. starting = None /\ active = run /\ open /\ Elements(pending) \subseteq Turns
  BY <1>1, ElementsTyped DEF LaneInv, LaneAgreement, GoneIsIdle
<1>5. task[t] = "reported"
  BY <1>2 DEF LaneInv, RunHoldsLane, Sent
<1>6. \A u \in Turns : /\ Once(mailbox, Cmd("Submit", u))'
                       /\ Sent("Submit", u)' <=> Sent("Submit", u)
                       /\ Sent("Finished", u)' => Sent("Finished", u)
                       /\ Sent("Finished", u) => Sent("Finished", u)' \/ u = t
  <2>1. ASSUME NEW u \in Turns PROVE Once(mailbox', Cmd("Submit", u))
    BY <1>1, OnceTail DEF LaneInv, TurnsAreFresh
  <2>2. QED
    BY <1>2, <2>1, CmdsDiffer, CmdInjective DEF Sent, Once
<1>7. CASE t # run
  <2>1. UNCHANGED <<sinks, runLogs, served, run, active, pending, actor, starting>>
    BY <1>3, <1>7
  <2>2. Elements(pending)' = Elements(pending) /\ OnLane' = OnLane
    BY <2>1 DEF OnLane
  <2>3. LaneAgreement' /\ GoneIsIdle' /\ AcceptedIsTracked' /\ OutputsFollowTurns'
    BY <1>1, <2>1, <2>2 DEF LaneInv, LaneAgreement, GoneIsIdle, AcceptedIsTracked, OutputsFollowTurns
  <2>4. NoStrandedTurn'
    BY <1>1, <1>6, <1>7, <2>1 DEF LaneInv, NoStrandedTurn, InLane, Sent, TypeOK, MaybeTurn
  <2>5. RunHoldsLane'
    BY <1>1, <1>6, <2>1 DEF LaneInv, RunHoldsLane, InLane
  <2>6. TurnsAreFresh'
    BY <1>1, <1>6, <2>1, <2>2 DEF LaneInv, TurnsAreFresh, Once
  <2>7. QED
    BY <2>3, <2>4, <2>5, <2>6 DEF LaneInv
<1>8. CASE t = run
  <2> DEFINE next == IF pending = <<>> THEN None ELSE Head(pending)
  <2>1. /\ run' = None /\ served' = served \cup {t} /\ sinks' = sinks \ {t} /\ runLogs' = runLogs \ {t}
        /\ active' = next /\ starting' = next /\ actor' = IF next = None THEN actor ELSE "begin"
        /\ Elements(pending) \ {None} = (Elements(pending') \cup {next}) \ {None}
        /\ next # None => next \in Turns /\ next \notin Elements(pending')
        /\ next = None => pending' = <<>>
        /\ \A u \in Turns : Once(pending', u)
    <3>1. CASE pending = <<>>
      BY <1>3, <1>4, <1>8, <3>1, EmptyFacts DEF LaneInv, TurnsAreFresh
    <3>2. CASE pending # <<>>
      <4>1. /\ Head(pending) \in Turns /\ Head(pending) # None
            /\ Elements(pending) = {Head(pending)} \cup Elements(Tail(pending))
        BY <3>2, PopFacts, LaneAssumption DEF LaneInv
      <4>2. \A u \in Turns : Once(Tail(pending), u)
        BY <1>1, <3>2, OnceTail DEF LaneInv, TurnsAreFresh
      <4>3. Head(pending) \notin Elements(Tail(pending))
        BY <1>1, <3>2, <4>1, OnceTail DEF LaneInv, TurnsAreFresh
      <4>4. QED
        BY <1>3, <1>8, <3>2, <4>1, <4>2, <4>3
    <3>3. QED
      BY <3>1, <3>2
  <2> HIDE DEF next
  <2>2. Elements(pending) = (Elements(pending') \cup {next}) \ {None}
    BY <1>4, <2>1, LaneAssumption
  <2>3. t = active /\ t \notin Elements(pending)
    BY <1>4, <1>8 DEF LaneInv, TurnsAreFresh
  <2>4. LaneAgreement' /\ GoneIsIdle'
    BY <1>1, <1>4, <2>1 DEF LaneInv, LaneAgreement, GoneIsIdle
  <2>5. NoStrandedTurn'
    BY <2>1 DEF NoStrandedTurn
  <2>6. AcceptedIsTracked'
    BY <1>1, <1>2, <2>1, <2>2, <2>3, LaneAssumption DEF LaneInv, AcceptedIsTracked
  <2>7. OutputsFollowTurns'
    <3>1. /\ sinks \ drained = Elements(pending)
          /\ runLogs \ drained = Detached \cap (Elements(pending) \cup {t})
      BY <1>2, <1>4, <2>3, LaneAssumption DEF LaneInv, OutputsFollowTurns
    <3>2. /\ (sinks \ {t}) \ drained = Elements(pending)
          /\ (runLogs \ {t}) \ drained = Detached \cap Elements(pending)
      BY <2>3, <3>1
    <3>3. QED
      BY <1>1, <2>1, <2>2, <3>2 DEF OutputsFollowTurns
  <2>8. RunHoldsLane'
    BY <1>1, <1>5, <1>6, <1>8, <2>1 DEF LaneInv, RunHoldsLane, InLane
  <2>9. TurnsAreFresh'
    <3>1. TurnsAreFresh /\ OnLane = Elements(pending) \cup {t}
      BY <1>2, <1>4, <2>3, LaneAssumption DEF LaneInv, OnLane
    <3>2. OnLane' = Elements(pending)
      BY <2>1, <2>2 DEF OnLane
    <3>3. \A u \in Elements(pending)' \cup {starting'} : u # None => task'[u] = "none"
      BY <1>1, <2>1, <2>2, <3>1 DEF TurnsAreFresh
    <3>4. active' \notin Elements(pending)'
      <4>1. None \notin Elements(pending')
        BY ElementsTyped, LaneAssumption DEF TypeOK
      <4>2. QED
        BY <2>1, <4>1
    <3>5. drained' \cap OnLane' = {} /\ served' \cap runLogs' = {}
      BY <1>1, <2>1, <3>1, <3>2 DEF TurnsAreFresh
    <3>6. QED
      BY <1>1, <1>6, <2>1, <3>1, <3>3, <3>4, <3>5 DEF TurnsAreFresh, Once
  <2>10. QED
    BY <2>4, <2>5, <2>6, <2>7, <2>8, <2>9 DEF LaneInv
<1>9. QED
  BY <1>7, <1>8

-------------------------------------------------------------------------------
(* Every step.                                                              *)

LEMMA StepInv == LaneInv /\ [Next]_vars => LaneInv'
<1> SUFFICES ASSUME LaneInv, [Next]_vars PROVE LaneInv'
  OBVIOUS
<1>0. TypeOK'
  BY StepTyped DEF LaneInv
<1>1. ASSUME NEW t \in Turns, SendSubmit(t) PROVE LaneInv'
  BY <1>0, <1>1, SendSubmitInv
<1>2. ASSUME NEW c \in ControlCommands, SendControl(c) PROVE LaneInv'
  <2>1. SameMail
    BY <1>2, SameMailIfSent
  <2>2. SameTasks /\ SameLane
    BY <1>2, SameTasksIfUnchanged DEF SendControl, SameLane, taskVars, queueVars
  <2>3. QED
    BY <1>0, <2>1, <2>2, FrameInv
<1>3. CASE HandleSubmit
  BY <1>0, <1>3, HandleSubmitInv
<1>4. CASE StartRun
  BY <1>0, <1>4, StartRunInv
<1>5. CASE HandleAbort
  BY <1>0, <1>5, HandleAbortInv
<1>6. CASE HandleCompact \/ HandleResume \/ HandleHealthScan \/ StayAlive
  <2>1. SameMail
    BY <1>6, SameMailIfControl DEF HandleCompact, HandleResume, HandleHealthScan, StayAlive
  <2>2. SameTasks /\ SameLane
    BY <1>6, SameTasksIfUnchanged DEF HandleCompact, HandleResume, HandleHealthScan, StayAlive, Receives,
       SameLane, taskVars, queueVars
  <2>3. QED
    BY <1>0, <2>1, <2>2, FrameInv
<1>7. CASE CompactDone \/ Writer
  <2>1. SameMail /\ SameTasks /\ SameLane
    BY <1>7, SameMailIfUnchanged, SameTasksIfUnchanged DEF CompactDone, Writer, WriterApply, WriterFail,
       SameLane, taskVars, queueVars
  <2>2. QED
    BY <1>0, <2>1, FrameInv
<1>8. CASE HandleFinished
  BY <1>0, <1>8, HandleFinishedInv
<1>9. CASE Evict
  BY <1>0, <1>9, EvictInv
<1>10. ASSUME NEW t \in Turns, Run(t) PROVE LaneInv'
  <2>1. CASE RunReport(t)
    BY <1>0, <2>1, RunReportInv
  <2>2. CASE ~RunReport(t)
    <3>1. /\ runUnchanged /\ mailbox' = mailbox
          /\ \/ task' = task
             \/ InLane(t) /\ \E l \in {"running", "persisting", "returned"} : task' = [task EXCEPT ![t] = l]
      BY <1>10, <2>2 DEF Run, RunPersist, RunPersisted, RunAnnounceEnd, RunReturn, RunTimeout, RunPanic, InLane
    <3>2. task \in [Turns -> {"none", "running", "persisting", "returned", "reported"}]
      BY DEF LaneInv, TypeOK
    <3>3. SameTasks
      BY <3>1, <3>2 DEF SameTasks, InLane
    <3>4. SameMail /\ SameLane
      BY <3>1, SameMailIfUnchanged DEF runUnchanged, SameLane
    <3>5. QED
      BY <1>0, <3>3, <3>4, FrameInv
  <2>3. QED
    BY <2>1, <2>2
<1>11. CASE UNCHANGED vars
  <2>1. SameMail /\ SameTasks /\ SameLane
    BY <1>11, SameMailIfUnchanged, SameTasksIfUnchanged DEF vars, SameLane, taskVars, queueVars
  <2>2. QED
    BY <1>0, <2>1, FrameInv
<1>12. QED
  BY <1>1, <1>2, <1>3, <1>4, <1>5, <1>6, <1>7, <1>8, <1>9, <1>10, <1>11 DEF Next, Actor, Quiescent

(* The invariant holds in every reachable state. *)
LEMMA Invariance == Spec => []LaneInv
BY InitInv, StepInv, PTL DEF Spec

-------------------------------------------------------------------------------
(* What follows.                                                            *)

(* RunQueue.active and the actor's ActiveRun name the same turn whenever the
   actor is not inside begin_run. *)
THEOREM RecordsAgree == Spec => []LaneAgreement
<1>1. LaneInv => LaneAgreement
  BY DEF LaneInv
<1>2. QED
  BY <1>1, Invariance, PTL

(* A session runs one turn at a time: two run tasks never overlap, not even in
   the time between a task's end and the actor's handling of its Finished. *)
THEOREM OneRunAtATime == Spec => []AtMostOneRunning
<1>1. LaneInv => AtMostOneRunning
  BY DEF LaneInv, RunHoldsLane, AtMostOneRunning
<1>2. QED
  BY <1>1, Invariance, PTL

(* Turns wait only behind somebody whose Finished is still to come. *)
THEOREM NobodyIsStranded == Spec => []NoStrandedTurn
<1>1. LaneInv => NoStrandedTurn
  BY DEF LaneInv
<1>2. QED
  BY <1>1, Invariance, PTL

(* The answer Some(run_id) of SessionHandle::submit is given to exactly the
   turns that hold the lane, wait for it, have been served or were drained. *)
THEOREM AnswersAreTrue == Spec => []AcceptedIsTracked
<1>1. LaneInv => AcceptedIsTracked
  BY DEF LaneInv
<1>2. QED
  BY <1>1, Invariance, PTL

(* The maps sinks and run_logs hold the outputs of the turns that still need
   them and, drained turns apart, of nobody else. *)
THEOREM OutputsAreKept == Spec => []OutputsFollowTurns
<1>1. LaneInv => OutputsFollowTurns
  BY DEF LaneInv
<1>2. QED
  BY <1>1, Invariance, PTL

(* EvictIfIdle never takes a lane that owes somebody a turn. *)
THEOREM EvictionIsSafe == Spec => []EvictionLosesNothing
<1>1. LaneInv => EvictionLosesNothing
  <2> SUFFICES ASSUME LaneInv, ~open, NEW t \in Turns
               PROVE  (reply[t] = "some" => t \in served \cup drained) /\ ~InLane(t)
    BY DEF EvictionLosesNothing
  <2>1. run = None /\ active = None /\ Elements(pending) = {} /\ t # None
    BY EmptyFacts, LaneAssumption DEF LaneInv, GoneIsIdle, LaneAgreement
  <2>2. QED
    BY <2>1 DEF LaneInv, AcceptedIsTracked, RunHoldsLane
<1>2. QED
  BY <1>1, Invariance, PTL

(* A Resume never finds the run log of a turn whose Finished was handled. *)
THEOREM ResumeComesInTime == Spec => NoResumeAfterFinish
<1>1. LaneInv /\ [Next]_vars => [(attached' \ attached) \cap served = {}]_vars
  <2> SUFFICES ASSUME LaneInv, Next PROVE (attached' \ attached) \cap served = {}
    OBVIOUS
  <2>1. CASE HandleResume
    BY <2>1 DEF HandleResume, LaneInv, TurnsAreFresh
  <2>2. CASE ~HandleResume
    <3>1. attached' = attached
      BY <2>2 DEF Next, SendSubmit, SendControl, Actor, HandleSubmit, StartRun, HandleAbort, HandleCompact,
         CompactDone, HandleFinished, HandleHealthScan, StayAlive, Evict, Writer, WriterApply, WriterFail,
         Run, RunPersist, RunPersisted, RunAnnounceEnd, RunReturn, RunTimeout, RunPanic, RunReport,
         runUnchanged, Quiescent, vars
    <3>2. QED
      BY <3>1
  <2>3. QED
    BY <2>1, <2>2
<1>2. QED
  BY <1>1, Invariance, PTL DEF Spec, NoResumeAfterFinish

-------------------------------------------------------------------------------
(* Histories.                                                               *)

(* While begin_run waits, nobody else writes: the user's message is the last
   entry in the writer's queue until it leaves it. *)
MessageIsLast ==
  actor = "begin" /\ writes # <<>> => writes[Len(writes)] = <<starting, "user">>

(* No step takes the last user message from under a run that starts. *)
LEMMA StepMessageIsLast == LaneInv /\ MessageIsLast /\ [Next]_vars => MessageIsLast'
<1> SUFFICES ASSUME LaneInv, MessageIsLast, [Next]_vars, actor' = "begin", writes' # <<>>
             PROVE  writes'[Len(writes')] = <<starting', "user">>
  BY DEF MessageIsLast
<1>1. writes \in Seq(Entry)
  BY DEF LaneInv, TypeOK
<1>2. CASE HandleSubmit \/ HandleFinished
  <2>1. actor = "recv" /\ \E t \in Turns : BeginRun(t)
    <3>1. Head(mailbox).run \in Turns /\ (pending # <<>> => Head(pending) \in Turns)
      BY <1>2, HeadIsCmd, PopFacts DEF LaneInv, HandleSubmit, HandleFinished
    <3>2. actor = "recv"
      BY <1>2 DEF HandleSubmit, HandleFinished, Receives
    <3>3. QED
      BY <1>2, <3>1, <3>2 DEF HandleSubmit, HandleFinished, Enqueue, CompleteActive, DoNotBegin
  <2>2. PICK t \in Turns : starting' = t /\ writes' = Append(writes, <<t, "user">>)
    BY <2>1 DEF BeginRun
  <2>3. <<t, "user">> \in Entry
    BY DEF Entry
  <2>4. QED
    BY <1>1, <2>2, <2>3, AppendFacts
<1>3. CASE Writer
  <2>1. actor = "begin" /\ starting' = starting /\ writes # <<>> /\ writes' = Tail(writes)
    BY <1>3 DEF Writer, WriterApply, WriterFail
  <2>2. Len(writes') = Len(writes) - 1 /\ Len(writes) \in Nat /\ Len(writes') > 0
        /\ \A i \in 1..(Len(writes) - 1) : writes'[i] = writes[i + 1]
    BY <1>1, <2>1, TailFacts
  <2>3. writes'[Len(writes')] = writes[Len(writes)]
    BY <2>2
  <2>4. QED
    BY <2>1, <2>3 DEF MessageIsLast
<1>4. ASSUME NEW t \in Turns, Run(t) PROVE writes'[Len(writes')] = <<starting', "user">>
  <2>1. actor = "begin" /\ starting' = starting /\ ~InLane(t)
    BY <1>4, LaneAssumption DEF Run, RunPersist, RunPersisted, RunAnnounceEnd, RunReturn, RunTimeout, RunPanic,
       RunReport, runUnchanged, LaneInv, LaneAgreement, RunHoldsLane
  <2>2. FALSE
    BY <1>4, <2>1 DEF Run, RunPersist, RunPersisted, RunAnnounceEnd, RunReturn, RunTimeout, RunPanic,
       RunReport, InLane
  <2>3. QED
    BY <2>2
<1>5. CASE ~(HandleSubmit \/ HandleFinished \/ Writer \/ \E t \in Turns : Run(t))
  <2>1. actor = "begin" /\ UNCHANGED <<writes, starting>>
    BY <1>5 DEF Next, Actor, SendSubmit, SendControl, StartRun, HandleAbort, HandleCompact, CompactDone,
       HandleResume, HandleHealthScan, StayAlive, Evict, Receives, Quiescent, vars, storeVars
  <2>2. QED
    BY <2>1 DEF MessageIsLast
<1>6. QED
  BY <1>2, <1>3, <1>4, <1>5

(* begin_run loads the history when the store holds all that earlier turns of
   the session, and its own user, have written. *)
THEOREM RunsStartInformed == Spec => HistoryIsComplete
<1>1. Init => MessageIsLast
  BY DEF Init, MessageIsLast
<1>2. Spec => []MessageIsLast
  BY <1>1, StepMessageIsLast, Invariance, PTL DEF Spec
<1>3. LaneInv /\ MessageIsLast /\ [Next]_vars
        => [\A t \in Turns : task[t] = "none" /\ task'[t] # "none" => writes = <<>>]_vars
  <2> SUFFICES ASSUME LaneInv, MessageIsLast, Next, NEW t \in Turns, task[t] = "none", task'[t] # "none"
               PROVE  writes = <<>>
    OBVIOUS
  <2>1. CASE StartRun
    <3>1. <<starting, "user">> \notin Elements(writes) /\ actor = "begin" /\ writes \in Seq(Entry)
      BY <2>1 DEF StartRun, UserMessageStored, LaneInv, TypeOK
    <3>2. writes # <<>> => writes[Len(writes)] \in Elements(writes)
      BY <3>1 DEF Elements
    <3>3. QED
      BY <3>1, <3>2 DEF MessageIsLast
  <2>2. ASSUME NEW u \in Turns, Run(u) PROVE FALSE
    <3>1. InLane(u) /\ \E l \in {"running", "persisting", "returned", "reported"} :
                          task' = task \/ task' = [task EXCEPT ![u] = l]
      BY <2>2 DEF Run, RunPersist, RunPersisted, RunAnnounceEnd, RunReturn, RunTimeout, RunPanic, RunReport, InLane
    <3>2. task \in [Turns -> {"none", "running", "persisting", "returned", "reported"}]
      BY DEF LaneInv, TypeOK
    <3>3. QED
      BY <3>1, <3>2 DEF InLane
  <2>3. CASE ~StartRun /\ ~\E u \in Turns : Run(u)
    <3>1. task' = task
      BY <2>3 DEF Next, SendSubmit, SendControl, Actor, HandleSubmit, HandleAbort, HandleCompact,
         CompactDone, HandleFinished, HandleResume, HandleHealthScan, StayAlive, Evict, Writer, WriterApply,
         WriterFail, Quiescent, vars, taskVars
    <3>2. QED
      BY <3>1
  <2>4. QED
    BY <2>1, <2>2, <2>3
<1>4. QED
  BY <1>2, <1>3, Invariance, PTL DEF Spec, HistoryIsComplete

-------------------------------------------------------------------------------
(* What has been issued for the conversation: the store's entries, then the *)
(* writer's queue.                                                          *)

Issued == transcript \o writes

(* Asking for a write puts an entry at the end. *)
LEMMA IssueLast ==
  ASSUME TypeOK, NEW e \in Entry
  PROVE  transcript \o Append(writes, e) = Append(Issued, e)
<1>1. transcript \in Seq(Entry) /\ writes \in Seq(Entry) /\ <<e>> \in Seq(Entry)
  BY DEF TypeOK
<1>2. Append(writes, e) = writes \o <<e>>
  BY <1>1, AppendIsConcat
<1>3. Issued \in Seq(Entry) /\ Append(Issued, e) = Issued \o <<e>>
  BY <1>1, ConcatProperties, AppendIsConcat DEF Issued
<1>4. QED
  BY <1>1, <1>2, <1>3, ConcatAssociative DEF Issued

(* A write that succeeds moves an entry, and nothing else changes. *)
LEMMA ApplyKeepsIssued ==
  ASSUME TypeOK, writes # <<>>
  PROVE  Append(transcript, Head(writes)) \o Tail(writes) = Issued
<1> DEFINE e == Head(writes)
<1>1. /\ transcript \in Seq(Entry) /\ writes \in Seq(Entry) /\ e \in Entry
      /\ Tail(writes) \in Seq(Entry)
      /\ <<e>> \in Seq(Entry)
  BY HeadTailProperties DEF TypeOK
<1>2. <<e>> \o Tail(writes) = writes
  <2>1. /\ Len(writes) \in Nat /\ Len(writes) > 0 /\ Len(<<e>>) = 1 /\ <<e>>[1] = writes[1]
        /\ Len(Tail(writes)) = Len(writes) - 1
        /\ \A i \in 1..(Len(writes) - 1) : Tail(writes)[i] = writes[i + 1]
    BY <1>1
  <2>2. /\ <<e>> \o Tail(writes) \in Seq(Entry) /\ Len(<<e>> \o Tail(writes)) = Len(writes)
        /\ \A i \in 1..Len(writes) :
             (<<e>> \o Tail(writes))[i] = IF i <= 1 THEN <<e>>[i] ELSE Tail(writes)[i - 1]
    BY <1>1, <2>1, ConcatProperties
  <2>3. ASSUME NEW i \in 1..Len(writes) PROVE (<<e>> \o Tail(writes))[i] = writes[i]
    <3>1. CASE i = 1
      BY <2>1, <2>2, <3>1
    <3>2. CASE i # 1
      <4>1. i - 1 \in 1..(Len(writes) - 1) /\ ~(i <= 1) /\ (i - 1) + 1 = i
        BY <2>1, <3>2
      <4>2. QED
        BY <2>1, <2>2, <4>1
    <3>3. QED
      BY <3>1, <3>2
  <2>4. QED
    BY <1>1, <2>2, <2>3, SeqEqual
<1>3. Append(transcript, e) = transcript \o <<e>>
  BY <1>1, AppendIsConcat
<1>4. QED
  BY <1>1, <1>2, <1>3, ConcatAssociative DEF Issued

(* A write that fails takes out one entry. *)
LEMMA FailLosesOne ==
  ASSUME TypeOK, writes # <<>>
  PROVE  LET n == Len(transcript) + 1
         IN  /\ n \in DOMAIN Issued
             /\ transcript \o Tail(writes) =
                  SubSeq(Issued, 1, n - 1) \o SubSeq(Issued, n + 1, Len(Issued))
<1> DEFINE n == Len(transcript) + 1
<1>1. /\ transcript \in Seq(Entry) /\ writes \in Seq(Entry) /\ Tail(writes) \in Seq(Entry)
      /\ Len(transcript) \in Nat /\ Len(writes) \in Nat /\ Len(writes) > 0
  BY HeadTailProperties DEF TypeOK
<1>2. /\ Issued \in Seq(Entry) /\ Len(Issued) = Len(transcript) + Len(writes)
      /\ \A i \in 1..(Len(transcript) + Len(writes)) :
           Issued[i] = IF i <= Len(transcript) THEN transcript[i] ELSE writes[i - Len(transcript)]
  BY <1>1, ConcatProperties DEF Issued
<1>3. n \in DOMAIN Issued
  BY <1>1, <1>2
<1>4. SubSeq(Issued, 1, n - 1) = transcript
  <2>1. \A i \in 1..Len(transcript) : Issued[i] = transcript[i] /\ transcript[i] \in Entry
    BY <1>1, <1>2
  <2>2. /\ SubSeq(Issued, 1, Len(transcript)) \in Seq(Entry)
        /\ Len(SubSeq(Issued, 1, Len(transcript))) = Len(transcript)
        /\ \A i \in 1..Len(transcript) : SubSeq(Issued, 1, Len(transcript))[i] = Issued[i]
    <3>1. 1 \in Int /\ Len(transcript) \in Int /\ \A i \in 1..Len(transcript) : Issued[i] \in Entry
      BY <1>1, <2>1
    <3>2. QED
      BY <1>1, <3>1, SubSeqProperties
  <2>3. SubSeq(Issued, 1, Len(transcript)) = transcript
    BY <1>1, <2>1, <2>2, SeqEqual
  <2>4. n - 1 = Len(transcript)
    BY <1>1
  <2>5. QED
    BY <2>3, <2>4
<1>5. SubSeq(Issued, n + 1, Len(Issued)) = Tail(writes)
  <2> DEFINE m == Len(Issued)
             w == Len(transcript)
             b == SubSeq(Issued, n + 1, m)
  <2>1. /\ n + 1 \in Int /\ m \in Int /\ m = w + Len(writes) /\ w \in Nat /\ n = w + 1
        /\ \A i \in (n + 1)..m : Issued[i] \in Entry
    BY <1>1, <1>2
  <2>2. /\ b \in Seq(Entry) /\ Len(b) = IF n + 1 <= m THEN m - (n + 1) + 1 ELSE 0
        /\ \A i \in 1..(m - (n + 1) + 1) : b[i] = Issued[(n + 1) + i - 1]
    BY <2>1, SubSeqProperties
  <2>3. Len(b) = Len(writes) - 1
    <3>1. ASSUME NEW k \in Nat, k > 0
          PROVE  (IF w + 1 + 1 <= w + k THEN (w + k) - (w + 1 + 1) + 1 ELSE 0) = k - 1
      BY <2>1, <3>1
    <3>2. Len(writes) \in Nat /\ Len(writes) > 0
      BY <1>1
    <3>3. n + 1 = w + 1 + 1 /\ m = w + Len(writes)
      BY <2>1
    <3>4. QED
      BY <2>2, <3>1, <3>2, <3>3
  <2>4. /\ Len(Tail(writes)) = Len(writes) - 1
        /\ \A i \in 1..(Len(writes) - 1) : Tail(writes)[i] = writes[i + 1]
    BY <1>1
  <2>5. ASSUME NEW i \in 1..(Len(writes) - 1) PROVE b[i] = Tail(writes)[i]
    <3>1. i \in 1..(m - (n + 1) + 1) /\ (n + 1) + i - 1 = w + (i + 1)
      BY <1>1, <2>1
    <3>2. b[i] = Issued[w + (i + 1)]
      BY <2>2, <3>1
    <3>3. /\ w + (i + 1) \in 1..(w + Len(writes)) /\ ~(w + (i + 1) <= w)
          /\ (w + (i + 1)) - w = i + 1
      BY <1>1, <2>1
    <3>4. Issued[w + (i + 1)] = writes[i + 1]
      BY <1>2, <3>3
    <3>5. QED
      BY <2>4, <3>2, <3>4
  <2>6. QED
    BY <1>1, <2>2, <2>3, <2>4, <2>5, SeqEqual
<1>6. QED
  BY <1>3, <1>4, <1>5

-------------------------------------------------------------------------------
(* Every step of the actor, its run or the writer is a step of SerialLane, or *)
(* none of its business.                                                      *)

(* The turn that is being served, as SerialLane sees it. *)
Serving == IF starting # None THEN starting
           ELSE IF run # None /\ task[run] \in {"running", "persisting"} THEN run ELSE None

(* Nobody who talks to the lane sees anything change. *)
Unseen == pending' = pending /\ Serving' = Serving /\ Issued' = Issued

(* A lane that is between commands has a run in hand or none, and starts nobody. *)
LEMMA Received == ASSUME LaneInv, actor # "begin" PROVE starting = None /\ active = run
BY DEF LaneInv, LaneAgreement

(* An actor that starts a turn begins where nobody is served. *)
LEMMA OpensTurn ==
  ASSUME LaneInv, NEW t \in Turns, Serving = None, BeginRun(t)
  PROVE  Lane!Open(t)
<1>1. /\ starting' = t /\ writes' = Append(writes, <<t, "user">>) /\ transcript' = transcript
      /\ t # None
  BY LaneAssumption DEF BeginRun
<1>2. <<t, "user">> \in Entry /\ TypeOK
  BY DEF Entry, LaneInv
<1>3. Issued' = Append(Issued, <<t, "user">>)
  BY <1>1, <1>2, IssueLast DEF Issued
<1>4. Serving' = t
  BY <1>1 DEF Serving
<1>5. QED
  BY <1>3, <1>4 DEF Lane!Open, Serving, Issued

(* Submit. *)
LEMMA SubmitRefines == ASSUME LaneInv, HandleSubmit PROVE Lane!Next \/ Unseen
<1> DEFINE t == Head(mailbox).run
<1>1. t \in Turns /\ actor = "recv" /\ run' = run /\ task' = task
  BY HeadIsCmd DEF HandleSubmit, Receives, LaneInv, taskVars
<1>2. starting = None /\ active = run
  BY <1>1, Received
<1>3. CASE LaneFree /\ pending' = pending /\ BeginRun(t)
  <2>1. pending = <<>> /\ Serving = None
    BY <1>2, <1>3 DEF LaneFree, LaneInv, NoStrandedTurn, Serving
  <2>2. Lane!AcceptAndOpen(t)
    BY <1>1, <1>3, <2>1, OpensTurn DEF Lane!AcceptAndOpen
  <2>3. QED
    BY <1>1, <2>2 DEF Lane!Next
<1>4. CASE Enqueue(t)
  <2>1. /\ pending' = Append(pending, t) /\ starting' = starting /\ writes' = writes
        /\ transcript' = transcript
    BY <1>4 DEF Enqueue, DoNotBegin, storeVars
  <2>2. Lane!Accept(t)
    BY <1>1, <2>1 DEF Lane!Accept
  <2>3. QED
    BY <1>1, <2>2 DEF Lane!Next
<1>5. CASE UNCHANGED queueVars /\ DoNotBegin
  BY <1>1, <1>5 DEF queueVars, DoNotBegin, storeVars, Unseen, Serving, Issued
<1>6. QED
  BY <1>3, <1>4, <1>5 DEF HandleSubmit

(* Finished: the run it reports has left the lane before. *)
LEMMA FinishedRefines == ASSUME LaneInv, HandleFinished PROVE Lane!Next \/ Unseen
<1> DEFINE t == Head(mailbox).run
<1>1. /\ t \in Turns /\ t # None /\ actor = "recv" /\ task' = task
      /\ Head(mailbox) = Cmd("Finished", t)
      /\ Head(mailbox) \in Elements(mailbox)
  BY HeadIsCmd, ReceivesFacts, LaneAssumption DEF HandleFinished, Receives, LaneInv, taskVars
<1>2. starting = None /\ task[t] = "reported"
  BY <1>1, Received DEF LaneInv, RunHoldsLane, Sent
<1>3. CASE t = run /\ run' = None /\ CompleteActive
  <2>1. Serving = None
    BY <1>2, <1>3 DEF Serving
  <2>2. CASE pending = <<>>
    <3>1. pending' = pending /\ starting' = starting /\ writes' = writes /\ transcript' = transcript
      BY <1>3, <2>2 DEF CompleteActive, DoNotBegin, storeVars
    <3>2. Serving' = None
      BY <1>2, <1>3, <3>1 DEF Serving
    <3>3. QED
      BY <2>1, <3>1, <3>2 DEF Unseen, Issued
  <2>3. CASE pending # <<>>
    <3>1. pending' = Tail(pending) /\ BeginRun(Head(pending)) /\ Head(pending) \in Turns
      BY <1>3, <2>3, PopFacts DEF CompleteActive, LaneInv
    <3>2. Lane!OpenNext
      BY <2>1, <2>3, <3>1, OpensTurn DEF Lane!OpenNext
    <3>3. QED
      BY <3>2 DEF Lane!Next
  <2>4. QED
    BY <2>2, <2>3
<1>4. CASE UNCHANGED <<run, queueVars>> /\ DoNotBegin
  BY <1>1, <1>4 DEF queueVars, DoNotBegin, storeVars, Unseen, Serving, Issued
<1>5. QED
  BY <1>3, <1>4 DEF HandleFinished

(* The turn that was opened goes on as a task: nobody sees the hand-over. *)
LEMMA StartUnseen == ASSUME LaneInv, StartRun PROVE Unseen
<1>1. /\ starting # None /\ starting \in Turns /\ run' = starting /\ starting' = None
      /\ task' = [task EXCEPT ![starting] = "running"]
      /\ pending' = pending /\ writes' = writes /\ transcript' = transcript
  BY DEF StartRun, LaneInv, LaneAgreement, TypeOK, MaybeTurn, queueVars, storeVars
<1>2. task'[starting] = "running"
  BY <1>1 DEF LaneInv, TypeOK
<1>3. Serving = starting /\ Serving' = starting
  BY <1>1, <1>2 DEF Serving
<1>4. QED
  BY <1>1, <1>3 DEF Unseen, Issued

(* The other commands: a hard abort empties the line, nothing else is seen. *)
LEMMA ControlRefines ==
  ASSUME LaneInv, HandleAbort \/ HandleCompact \/ CompactDone \/ HandleResume \/ HandleHealthScan
                  \/ StayAlive \/ Evict
  PROVE  Lane!Next \/ Unseen
<1>1. /\ UNCHANGED <<starting, run, task, writes, transcript>>
      /\ pending' = pending \/ pending' = <<>>
  BY DEF HandleAbort, HandleCompact, CompactDone, HandleResume, HandleHealthScan, StayAlive, Evict,
     queueVars, taskVars, storeVars
<1>2. Serving' = Serving /\ Issued' = Issued
  BY <1>1 DEF Serving, Issued
<1>3. CASE pending' = pending
  BY <1>2, <1>3 DEF Unseen
<1>4. CASE pending' = <<>>
  <2>1. Lane!Drop
    BY <1>2, <1>4 DEF Lane!Drop, Serving, Issued
  <2>2. QED
    BY <2>1 DEF Lane!Next
<1>5. QED
  BY <1>1, <1>3, <1>4

(* The writer moves an entry, which nobody sees, or loses one. *)
LEMMA WriterRefines == ASSUME LaneInv, Writer PROVE Lane!Next \/ Unseen
<1>1. UNCHANGED <<pending, starting, run, task>> /\ writes # <<>> /\ writes' = Tail(writes)
  BY DEF Writer, WriterApply, WriterFail, queueVars, taskVars
<1>2. Serving' = Serving
  BY <1>1 DEF Serving
<1>3. CASE WriterApply
  <2>1. Issued' = Issued
    BY <1>1, <1>3, ApplyKeepsIssued DEF WriterApply, LaneInv, Issued
  <2>2. QED
    BY <1>1, <1>2, <2>1 DEF Unseen
<1>4. CASE WriterFail
  <2> DEFINE n == Len(transcript) + 1
  <2>1. /\ n \in DOMAIN Issued
        /\ Issued' = SubSeq(Issued, 1, n - 1) \o SubSeq(Issued, n + 1, Len(Issued))
    BY <1>1, <1>4, FailLosesOne DEF WriterFail, LaneInv, Issued
  <2>2. Lane!Lose(n)
    BY <1>1, <1>2, <2>1 DEF Lane!Lose, Serving, Issued
  <2>3. QED
    BY <2>1, <2>2 DEF Lane!Next, Issued
<1>5. QED
  BY <1>3, <1>4 DEF Writer

(* A run writes while it is the one being served; when it leaves the lane, serving ends. *)
LEMMA RunRefines == ASSUME LaneInv, NEW t \in Turns, Run(t) PROVE Lane!Next \/ Unseen
<1>1. UNCHANGED <<pending, starting, run>>
  BY DEF Run, RunPersist, RunPersisted, RunAnnounceEnd, RunReturn, RunTimeout, RunPanic, RunReport,
     runUnchanged, queueVars
<1>2. t = run /\ t # None /\ starting = None /\ InLane(t) /\ TypeOK
  <2>1. InLane(t) /\ TypeOK
    BY DEF Run, RunPersist, RunPersisted, RunAnnounceEnd, RunReturn, RunTimeout, RunPanic,
       RunReport, InLane, LaneInv
  <2>2. t = run /\ t # None
    BY <2>1, LaneAssumption DEF LaneInv, RunHoldsLane
  <2>3. QED
    BY <2>1, <2>2 DEF LaneInv, LaneAgreement
<1>3. CASE RunPersist(t)
  <2>1. /\ task[t] = "running" /\ task' = [task EXCEPT ![t] = "persisting"]
        /\ writes' = Append(writes, <<t, "assistant">>) /\ transcript' = transcript
    BY <1>3 DEF RunPersist
  <2>2. Serving = t /\ Serving' = t
    BY <1>1, <1>2, <2>1 DEF Serving, TypeOK
  <2>3. Issued' = Append(Issued, <<t, "assistant">>)
    <3>1. <<t, "assistant">> \in Entry
      BY DEF Entry
    <3>2. QED
      BY <1>2, <2>1, <3>1, IssueLast DEF Issued
  <2>4. Lane!Write
    BY <1>1, <1>2, <2>2, <2>3 DEF Lane!Write, Serving, Issued
  <2>5. QED
    BY <2>4 DEF Lane!Next
<1>4. CASE ~RunPersist(t)
  <2>1. writes' = writes /\ transcript' = transcript
    BY <1>4 DEF Run, RunPersisted, RunAnnounceEnd, RunReturn, RunTimeout, RunPanic, RunReport,
       storeVars
  <2>2. Issued' = Issued
    BY <2>1 DEF Issued
  <2>3. CASE RunReturn(t) \/ RunTimeout(t) \/ RunPanic(t)
    <3>1. task[t] \in {"running", "persisting"} /\ task' = [task EXCEPT ![t] = "returned"]
      BY <2>3 DEF RunReturn, RunTimeout, RunPanic
    <3>2. Serving = t /\ Serving' = None
      BY <1>1, <1>2, <3>1 DEF Serving, TypeOK
    <3>3. Lane!Close
      BY <1>1, <1>2, <2>2, <3>2 DEF Lane!Close, Serving, Issued
    <3>4. QED
      BY <3>3 DEF Lane!Next
  <2>4. CASE RunPersisted(t) \/ RunAnnounceEnd(t) \/ RunReport(t)
    <3>1. \/ task[t] \in {"running", "persisting"} /\ task'[t] = "running"
          \/ task[t] = "returned" /\ task'[t] = "reported"
          \/ task' = task
      BY <1>2, <2>4 DEF RunPersisted, RunAnnounceEnd, RunReport, TypeOK
    <3>2. Serving' = Serving
      BY <1>1, <1>2, <3>1 DEF Serving
    <3>3. QED
      BY <1>1, <2>2, <3>2 DEF Unseen
  <2>5. QED
    BY <1>4, <2>3, <2>4 DEF Run
<1>5. QED
  BY <1>3, <1>4

(* Each step of the lane is a step of SerialLane or leaves it where it is. *)
LEMMA StepRefines == LaneInv /\ [Next]_vars => [Lane!Next]_(Lane!vars)
<1>1. SUFFICES ASSUME LaneInv, [Next]_vars PROVE Lane!Next \/ Unseen
  BY DEF Unseen, Lane!vars, Serving, Issued
<1>2. CASE Actor
  BY <1>1, <1>2, SubmitRefines, FinishedRefines, StartUnseen, ControlRefines DEF Actor
<1>3. CASE Writer
  BY <1>1, <1>3, WriterRefines
<1>4. ASSUME NEW t \in Turns, Run(t) PROVE Lane!Next \/ Unseen
  BY <1>1, <1>4, RunRefines
<1>5. CASE \/ \E t \in Turns : SendSubmit(t)
           \/ \E c \in ControlCommands : SendControl(c)
           \/ Quiescent
           \/ UNCHANGED vars
  <2>1. UNCHANGED <<pending, starting, run, task, writes, transcript>>
    BY <1>5 DEF SendSubmit, SendControl, Quiescent, vars, queueVars, taskVars, storeVars
  <2>2. QED
    BY <2>1 DEF Unseen, Serving, Issued
<1>6. QED
  BY <1>1, <1>2, <1>3, <1>4, <1>5 DEF Next

(* agent-loop.md:9, of everybody who talks to a session: the accepted turns are served one at a
   time, in the order in which they were accepted, and what a turn writes lies between its begin
   and the begin of the next. *)
THEOREM LaneImplementsSerialLane == Spec => LaneIsSerial
<1>1. Init => Lane!Init
  <2>1. <<>> \o <<>> = <<>>
    BY ConcatEmptySeq, EmptySeq
  <2>2. QED
    BY <2>1 DEF Init, Lane!Init
<1>2. QED
  BY <1>1, StepRefines, Invariance, PTL DEF Spec, LaneIsSerial, Lane!Spec

-------------------------------------------------------------------------------
(* What was issued is in order: the entries of a turn are contiguous, those of *)
(* the turn that holds the lane come last, and nobody else has written who has *)
(* not been served.                                                            *)

Contiguous(s) == \A i, j, k \in 1..Len(s) : i < j /\ j < k /\ s[i][1] = s[k][1] => s[j][1] = s[i][1]
ComesLast(s, t) == \A i, j \in 1..Len(s) : i < j /\ s[i][1] = t => s[j][1] = t
WrittenBy(s, T) == \A i \in 1..Len(s) : s[i][1] \in T

(* A turn that is served leaves the lane for good: its task has reported. *)
IssuedInOrder ==
  /\ Contiguous(Issued) /\ ComesLast(Issued, active) /\ WrittenBy(Issued, served \cup {active})
  /\ \A t \in served : task[t] = "reported"

(* Appending an entry of a turn whose entries, if any, come last. *)
LEMMA AppendInOrder ==
  ASSUME NEW s \in Seq(Entry), NEW t \in Turns, NEW role \in {"user", "assistant"}, NEW T,
         Contiguous(s), ComesLast(s, t), WrittenBy(s, T), t \in T
  PROVE  LET r == Append(s, <<t, role>>)
         IN  Contiguous(r) /\ ComesLast(r, t) /\ WrittenBy(r, T)
<1> DEFINE r == Append(s, <<t, role>>)
<1>1. /\ Len(r) = Len(s) + 1 /\ Len(s) \in Nat /\ r[Len(s) + 1][1] = t
      /\ \A i \in 1..Len(s) : r[i] = s[i]
  <2>1. <<t, role>> \in Entry
    BY DEF Entry
  <2>2. QED
    BY <2>1, AppendFacts
<1> HIDE DEF r
<1>2. ComesLast(r, t)
  BY <1>1 DEF ComesLast
<1>3. WrittenBy(r, T)
  BY <1>1 DEF WrittenBy
<1>4. Contiguous(r)
  <2>1. SUFFICES ASSUME NEW i \in 1..(Len(s) + 1), NEW j \in 1..(Len(s) + 1),
                        NEW k \in 1..(Len(s) + 1), i < j, j < k, r[i][1] = r[k][1]
                 PROVE  r[j][1] = r[i][1]
    BY <1>1 DEF Contiguous
  <2>2. i \in 1..Len(s) /\ j \in 1..Len(s)
    BY <1>1, <2>1
  <2>3. CASE k = Len(s) + 1
    BY <1>1, <2>1, <2>2, <2>3 DEF ComesLast
  <2>4. CASE k # Len(s) + 1
    BY <1>1, <2>1, <2>2, <2>4 DEF Contiguous
  <2>5. QED
    BY <2>3, <2>4
<1>5. QED
  BY <1>2, <1>3, <1>4 DEF r

(* Taking an entry out keeps the others in order. *)
LEMMA LoseInOrder ==
  ASSUME NEW s, NEW r, NEW n, Len(s) \in Nat, Len(r) = Len(s) - 1, NEW t, NEW T,
         n \in 1..Len(s), \A i \in 1..(Len(s) - 1) : r[i] = IF i < n THEN s[i] ELSE s[i + 1],
         Contiguous(s), ComesLast(s, t), WrittenBy(s, T)
  PROVE  Contiguous(r) /\ ComesLast(r, t) /\ WrittenBy(r, T)
<1> DEFINE at(i) == IF i < n THEN i ELSE i + 1
<1>1. \A i \in 1..Len(r) : at(i) \in 1..Len(s) /\ r[i] = s[at(i)]
  <2>1. SUFFICES ASSUME NEW i \in 1..(Len(s) - 1) PROVE at(i) \in 1..Len(s) /\ r[i] = s[at(i)]
    OBVIOUS
  <2>2. CASE i < n
    BY <2>2
  <2>3. CASE ~(i < n)
    BY <2>3
  <2>4. QED
    BY <2>2, <2>3
<1>2. \A i, j \in 1..Len(r) : i < j => at(i) < at(j)
  OBVIOUS
<1> HIDE DEF at
<1>3. Contiguous(r)
  <2>1. SUFFICES ASSUME NEW i \in 1..Len(r), NEW j \in 1..Len(r), NEW k \in 1..Len(r),
                        i < j, j < k, r[i][1] = r[k][1]
                 PROVE  r[j][1] = r[i][1]
    BY DEF Contiguous
  <2>2. /\ at(i) \in 1..Len(s) /\ at(j) \in 1..Len(s) /\ at(k) \in 1..Len(s)
        /\ at(i) < at(j) /\ at(j) < at(k)
        /\ r[i] = s[at(i)] /\ r[j] = s[at(j)] /\ r[k] = s[at(k)]
    BY <1>1, <1>2, <2>1
  <2>3. s[at(j)][1] = s[at(i)][1]
    BY <2>1, <2>2 DEF Contiguous
  <2>4. QED
    BY <2>2, <2>3
<1>4. ComesLast(r, t)
  <2>1. SUFFICES ASSUME NEW i \in 1..Len(r), NEW j \in 1..Len(r), i < j, r[i][1] = t
                 PROVE  r[j][1] = t
    BY DEF ComesLast
  <2>2. /\ at(i) \in 1..Len(s) /\ at(j) \in 1..Len(s) /\ at(i) < at(j)
        /\ r[i] = s[at(i)] /\ r[j] = s[at(j)]
    BY <1>1, <1>2, <2>1
  <2>3. QED
    BY <2>1, <2>2 DEF ComesLast
<1>5. WrittenBy(r, T)
  BY <1>1 DEF WrittenBy
<1>6. QED
  BY <1>3, <1>4, <1>5

(* The places of what was issued, after a write that failed. *)
LEMMA FailShifts ==
  ASSUME TypeOK, writes # <<>>, writes' = Tail(writes), transcript' = transcript
  PROVE  /\ Len(Issued) \in Nat /\ Len(Issued') = Len(Issued) - 1
         /\ Len(transcript) + 1 \in 1..Len(Issued)
         /\ \A i \in 1..(Len(Issued) - 1) :
              Issued'[i] = IF i < Len(transcript) + 1 THEN Issued[i] ELSE Issued[i + 1]
<1> DEFINE w == Len(transcript)
           v == Len(writes)
<1>1. /\ transcript \in Seq(Entry) /\ writes \in Seq(Entry) /\ Tail(writes) \in Seq(Entry)
      /\ w \in Nat /\ v \in Nat /\ v > 0 /\ Len(Tail(writes)) = v - 1
      /\ \A i \in 1..(v - 1) : Tail(writes)[i] = writes[i + 1]
  BY HeadTailProperties DEF TypeOK
<1>2. /\ Len(Issued) = w + v
      /\ \A i \in 1..(w + v) : Issued[i] = IF i <= w THEN transcript[i] ELSE writes[i - w]
  BY <1>1, ConcatProperties DEF Issued
<1>3. /\ Len(Issued') = w + (v - 1)
      /\ \A i \in 1..(w + (v - 1)) :
           Issued'[i] = IF i <= w THEN transcript[i] ELSE Tail(writes)[i - w]
  BY <1>1, ConcatProperties DEF Issued
<1> HIDE DEF w, v
<1>4. ASSUME NEW i \in 1..(w + v - 1)
      PROVE  Issued'[i] = IF i < w + 1 THEN Issued[i] ELSE Issued[i + 1]
  <2>1. CASE i <= w
    BY <1>1, <1>2, <1>3, <2>1
  <2>2. CASE ~(i <= w)
    <3>1. /\ i - w \in 1..(v - 1) /\ i + 1 \in 1..(w + v) /\ ~(i + 1 <= w)
          /\ (i + 1) - w = (i - w) + 1 /\ ~(i < w + 1) /\ i \in 1..(w + (v - 1))
      BY <1>1, <2>2
    <3>2. Issued'[i] = Tail(writes)[i - w]
      BY <1>3, <2>2, <3>1
    <3>3. Issued[i + 1] = writes[(i + 1) - w]
      BY <1>2, <3>1
    <3>4. writes[(i + 1) - w] = Tail(writes)[i - w]
      BY <1>1, <3>1
    <3>5. QED
      BY <3>1, <3>2, <3>3, <3>4
  <2>3. QED
    BY <2>1, <2>2
<1>5. Len(Issued) \in Nat /\ Len(Issued') = Len(Issued) - 1 /\ w + 1 \in 1..Len(Issued)
  BY <1>1, <1>2, <1>3
<1>6. Len(Issued) - 1 = w + v - 1
  BY <1>1, <1>2
<1>7. \A i \in 1..(Len(Issued) - 1) : Issued'[i] = IF i < w + 1 THEN Issued[i] ELSE Issued[i + 1]
  BY <1>4, <1>6
<1>8. QED
  BY <1>5, <1>7 DEF w

(* A step that issues nothing, keeps the lane and serves nobody. *)
LEMMA SameIssued ==
  ASSUME IssuedInOrder, Issued' = Issued, active' = active, served' = served,
         \A t \in served : task'[t] = task[t]
  PROVE  IssuedInOrder'
BY DEF IssuedInOrder

(* A turn that nobody has served begins. *)
LEMMA BeginInOrder ==
  ASSUME LaneInv, IssuedInOrder, NEW t \in Turns, t \notin served \cup {active}, BeginRun(t),
         active' = t, active \in served' \cup {None}, served \subseteq served'
  PROVE  /\ Contiguous(Issued') /\ ComesLast(Issued', t) /\ WrittenBy(Issued', served' \cup {t})
<1>1. /\ transcript' = transcript /\ writes' = Append(writes, <<t, "user">>) /\ TypeOK
      /\ Issued \in Seq(Entry)
  BY ConcatProperties DEF BeginRun, LaneInv, TypeOK, Issued
<1>2. Issued' = Append(Issued, <<t, "user">>)
  <2>1. <<t, "user">> \in Entry
    BY DEF Entry
  <2>2. QED
    BY <1>1, <2>1, IssueLast DEF Issued
<1>3. Contiguous(Issued) /\ ComesLast(Issued, t) /\ WrittenBy(Issued, served' \cup {t})
  <2>1. \A i \in 1..Len(Issued) : Issued[i][1] \in served \cup {active} /\ Issued[i][1] \in Turns
    <3>1. \A i \in 1..Len(Issued) : Issued[i] \in Entry
      BY <1>1, ElementOfSeq
    <3>2. QED
      BY <3>1 DEF IssuedInOrder, WrittenBy, Entry
  <2>2. ComesLast(Issued, t)
    BY <2>1 DEF ComesLast
  <2>3. WrittenBy(Issued, served' \cup {t})
    BY <2>1, LaneAssumption DEF WrittenBy
  <2>4. QED
    BY <2>2, <2>3 DEF IssuedInOrder
<1>4. "user" \in {"user", "assistant"} /\ t \in served' \cup {t}
  OBVIOUS
<1>5. QED
  BY <1>1, <1>2, <1>3, <1>4, AppendInOrder

(* Submit: whoever starts at once has not been here before. *)
LEMMA SubmitInOrder == ASSUME LaneInv, IssuedInOrder, HandleSubmit PROVE IssuedInOrder'
<1> DEFINE t == Head(mailbox).run
<1>1. /\ t \in Turns /\ actor = "recv" /\ task' = task /\ served' = served /\ Sent("Submit", t)
  BY HeadIsCmd, ReceivesFacts DEF HandleSubmit, Receives, LaneInv, taskVars, Sent
<1>2. t \notin served \cup {active}
  BY <1>1 DEF LaneInv, TurnsAreFresh, AcceptedIsTracked
<1>3. CASE LaneFree /\ active' = t /\ BeginRun(t)
  <2>1. /\ Contiguous(Issued') /\ ComesLast(Issued', t) /\ WrittenBy(Issued', served' \cup {t})
    BY <1>1, <1>2, <1>3, BeginInOrder DEF LaneFree
  <2>2. QED
    BY <1>1, <1>3, <2>1 DEF IssuedInOrder
<1>4. CASE active' = active /\ DoNotBegin
  <2>1. Issued' = Issued
    BY <1>4 DEF DoNotBegin, storeVars, Issued
  <2>2. QED
    BY <1>1, <1>4, <2>1, SameIssued
<1>5. QED
  BY <1>3, <1>4 DEF HandleSubmit, Enqueue, queueVars

(* Finished: the oldest of the queue has not been served, nor is it the one that ends. *)
LEMMA FinishedInOrder == ASSUME LaneInv, IssuedInOrder, HandleFinished PROVE IssuedInOrder'
<1> DEFINE t == Head(mailbox).run
<1>1. /\ t \in Turns /\ actor = "recv" /\ task' = task /\ task[t] = "reported"
  BY HeadIsCmd, ReceivesFacts DEF HandleFinished, Receives, LaneInv, taskVars, Sent, RunHoldsLane
<1>2. active = run
  BY <1>1, Received
<1>3. CASE t = run /\ served' = served \cup {t} /\ CompleteActive
  <2>1. \A u \in served' : task'[u] = "reported"
    BY <1>1, <1>3 DEF IssuedInOrder
  <2>2. CASE pending = <<>>
    <3>1. active' = None /\ Issued' = Issued /\ Issued \in Seq(Entry)
      BY <1>3, <2>2, ConcatProperties DEF CompleteActive, DoNotBegin, storeVars, Issued, LaneInv,
         TypeOK
    <3>2. ComesLast(Issued, None)
      <4>1. \A i \in 1..Len(Issued) : Issued[i][1] \in Turns
        BY <3>1, ElementOfSeq DEF Entry
      <4>2. QED
        BY <4>1, LaneAssumption DEF ComesLast
    <3>3. WrittenBy(Issued, served' \cup {None})
      BY <1>2, <1>3 DEF IssuedInOrder, WrittenBy
    <3>4. QED
      BY <2>1, <3>1, <3>2, <3>3 DEF IssuedInOrder
  <2>3. CASE pending # <<>>
    <3>1. /\ active' = Head(pending) /\ BeginRun(Head(pending)) /\ Head(pending) \in Turns
          /\ Head(pending) \in Elements(pending)
      BY <1>3, <2>3, PopFacts DEF CompleteActive, LaneInv
    <3>2. Head(pending) \notin served \cup {active}
      BY <3>1, LaneAssumption DEF LaneInv, TurnsAreFresh, IssuedInOrder
    <3>3. /\ Contiguous(Issued') /\ ComesLast(Issued', active')
          /\ WrittenBy(Issued', served' \cup {active'})
      BY <1>2, <1>3, <3>1, <3>2, BeginInOrder
    <3>4. QED
      BY <2>1, <3>3 DEF IssuedInOrder
  <2>4. QED
    BY <2>2, <2>3
<1>4. CASE UNCHANGED <<served, queueVars>> /\ DoNotBegin
  <2>1. Issued' = Issued /\ active' = active /\ served' = served
    BY <1>4 DEF DoNotBegin, storeVars, Issued, queueVars
  <2>2. QED
    BY <1>1, <2>1, SameIssued
<1>5. QED
  BY <1>3, <1>4 DEF HandleFinished

(* The writer moves entries and loses some. *)
LEMMA WriterInOrder == ASSUME LaneInv, IssuedInOrder, Writer PROVE IssuedInOrder'
<1>1. UNCHANGED <<active, served, task>> /\ writes # <<>> /\ writes' = Tail(writes) /\ TypeOK
  BY DEF Writer, WriterApply, WriterFail, queueVars, taskVars, LaneInv
<1>2. CASE WriterApply
  <2>1. Issued' = Issued
    BY <1>1, <1>2, ApplyKeepsIssued DEF WriterApply, Issued
  <2>2. QED
    BY <1>1, <2>1, SameIssued
<1>3. CASE WriterFail
  <2>1. transcript' = transcript
    BY <1>3 DEF WriterFail
  <2>2. /\ Len(Issued) \in Nat /\ Len(Issued') = Len(Issued) - 1
        /\ Len(transcript) + 1 \in 1..Len(Issued)
        /\ \A i \in 1..(Len(Issued) - 1) :
             Issued'[i] = IF i < Len(transcript) + 1 THEN Issued[i] ELSE Issued[i + 1]
    BY <1>1, <2>1, FailShifts
  <2>3. Contiguous(Issued) /\ ComesLast(Issued, active) /\ WrittenBy(Issued, served \cup {active})
    BY DEF IssuedInOrder
  <2>4. /\ Contiguous(Issued') /\ ComesLast(Issued', active)
        /\ WrittenBy(Issued', served \cup {active})
    BY <2>2, <2>3, LoseInOrder
  <2>5. QED
    BY <1>1, <2>4 DEF IssuedInOrder
<1>4. QED
  BY <1>2, <1>3 DEF Writer

(* Only the turn that holds the lane writes. *)
LEMMA RunInOrder == ASSUME LaneInv, IssuedInOrder, NEW t \in Turns, Run(t) PROVE IssuedInOrder'
<1>1. active' = active /\ served' = served
  BY DEF Run, RunPersist, RunPersisted, RunAnnounceEnd, RunReturn, RunTimeout, RunPanic, RunReport,
     runUnchanged, queueVars
<1>2. InLane(t) /\ TypeOK
  BY DEF Run, RunPersist, RunPersisted, RunAnnounceEnd, RunReturn, RunTimeout, RunPanic, RunReport,
     InLane, LaneInv
<1>3. t = active /\ t \notin served
  <2>1. t = run /\ t # None
    BY <1>2, LaneAssumption DEF LaneInv, RunHoldsLane
  <2>2. active = t
    BY <2>1 DEF LaneInv, LaneAgreement
  <2>3. QED
    BY <1>2, <2>2 DEF IssuedInOrder, InLane
<1>4. \A u \in served : task'[u] = task[u]
  <2>1. \E l \in {"running", "persisting", "returned", "reported"} :
          task' = task \/ task' = [task EXCEPT ![t] = l]
    BY DEF Run, RunPersist, RunPersisted, RunAnnounceEnd, RunReturn, RunTimeout, RunPanic, RunReport
  <2>2. \A u \in served : u # t
    BY <1>3
  <2>3. served \subseteq Turns
    BY <1>2 DEF TypeOK
  <2>4. QED
    BY <1>2, <2>1, <2>2, <2>3 DEF TypeOK
<1>5. CASE RunPersist(t)
  <2>1. writes' = Append(writes, <<t, "assistant">>) /\ transcript' = transcript
    BY <1>5 DEF RunPersist
  <2>2. Issued' = Append(Issued, <<t, "assistant">>) /\ Issued \in Seq(Entry)
    <3>1. <<t, "assistant">> \in Entry
      BY DEF Entry
    <3>2. Issued' = Append(Issued, <<t, "assistant">>)
      BY <1>2, <2>1, <3>1, IssueLast DEF Issued
    <3>3. Issued \in Seq(Entry)
      BY <1>2, ConcatProperties DEF TypeOK, Issued
    <3>4. QED
      BY <3>2, <3>3
  <2>3. Contiguous(Issued) /\ ComesLast(Issued, t) /\ WrittenBy(Issued, served \cup {t})
    BY <1>3 DEF IssuedInOrder
  <2>4. "assistant" \in {"user", "assistant"} /\ t \in served \cup {t}
    OBVIOUS
  <2>5. Contiguous(Issued') /\ ComesLast(Issued', t) /\ WrittenBy(Issued', served \cup {t})
    BY <2>2, <2>3, <2>4, AppendInOrder
  <2>6. QED
    BY <1>1, <1>3, <1>4, <2>5 DEF IssuedInOrder
<1>6. CASE ~RunPersist(t)
  <2>1. writes' = writes /\ transcript' = transcript
    BY <1>6 DEF Run, RunPersisted, RunAnnounceEnd, RunReturn, RunTimeout, RunPanic, RunReport,
       storeVars
  <2>2. Issued' = Issued
    BY <2>1 DEF Issued
  <2>3. QED
    BY <1>1, <1>4, <2>2, SameIssued
<1>7. QED
  BY <1>5, <1>6

(* The turn that starts as a task has not been served. *)
LEMMA StartInOrder == ASSUME LaneInv, IssuedInOrder, StartRun PROVE IssuedInOrder'
<1>1. /\ active' = active /\ served' = served /\ writes' = writes /\ transcript' = transcript
      /\ task' = [task EXCEPT ![starting] = "running"] /\ starting # None
  BY DEF StartRun, LaneInv, LaneAgreement, queueVars, storeVars
<1>2. task[starting] = "none" /\ served \subseteq Turns
  BY <1>1 DEF LaneInv, TurnsAreFresh, TypeOK
<1>3. \A t \in served : task'[t] = task[t]
  <2>1. starting \notin served
    BY <1>2 DEF IssuedInOrder
  <2>2. QED
    BY <1>1, <1>2, <2>1 DEF LaneInv, TypeOK
<1>4. Issued' = Issued
  BY <1>1 DEF Issued
<1>5. QED
  BY <1>1, <1>3, <1>4, SameIssued

(* Every step keeps what was issued in order. *)
LEMMA StepInOrder == LaneInv /\ IssuedInOrder /\ [Next]_vars => IssuedInOrder'
<1>1. SUFFICES ASSUME LaneInv, IssuedInOrder, [Next]_vars PROVE IssuedInOrder'
  OBVIOUS
<1>2. CASE HandleSubmit \/ HandleFinished \/ StartRun \/ Writer
  BY <1>1, <1>2, SubmitInOrder, FinishedInOrder, StartInOrder, WriterInOrder
<1>3. ASSUME NEW t \in Turns, Run(t) PROVE IssuedInOrder'
  BY <1>1, <1>3, RunInOrder
<1>4. CASE ~(HandleSubmit \/ HandleFinished \/ StartRun \/ Writer \/ \E t \in Turns : Run(t))
  <2>1. UNCHANGED <<active, served, task, writes, transcript>>
    BY <1>1, <1>4 DEF Next, Actor, SendSubmit, SendControl, HandleAbort, HandleCompact,
       CompactDone, HandleResume, HandleHealthScan, StayAlive, Evict, Quiescent, vars, queueVars,
       taskVars, storeVars
  <2>2. Issued' = Issued
    BY <2>1 DEF Issued
  <2>3. QED
    BY <1>1, <2>1, <2>2, SameIssued
<1>5. QED
  BY <1>2, <1>3, <1>4

(* session.rs:515: the user's message is written when its turn gets the lane, not when it is
   queued, so that in the store the entries of two turns never mix, whichever writes fail. *)
THEOREM EntriesStayTogether == Spec => []TranscriptSerial
<1>1. Init => IssuedInOrder
  <2>1. SUFFICES ASSUME Init PROVE IssuedInOrder
    OBVIOUS
  <2>2. Issued = <<>> /\ served = {} /\ Len(<<>>) = 0
    BY <2>1, ConcatEmptySeq, EmptySeq DEF Init, Issued
  <2>3. QED
    BY <2>2 DEF IssuedInOrder, Contiguous, ComesLast, WrittenBy
<1>2. LaneInv /\ IssuedInOrder => TranscriptSerial
  <2>1. SUFFICES ASSUME LaneInv, IssuedInOrder PROVE TranscriptSerial
    OBVIOUS
  <2>2. /\ transcript \in Seq(Entry) /\ writes \in Seq(Entry) /\ Len(transcript) \in Nat
        /\ Len(writes) \in Nat
        /\ DOMAIN transcript = 1..Len(transcript)
    BY <2>1 DEF LaneInv, TypeOK
  <2>3. /\ Len(Issued) = Len(transcript) + Len(writes)
        /\ \A i \in 1..(Len(transcript) + Len(writes)) :
             Issued[i] = IF i <= Len(transcript) THEN transcript[i] ELSE writes[i - Len(transcript)]
    BY <2>2, ConcatProperties DEF Issued
  <2>4. \A i \in 1..Len(transcript) : i \in 1..Len(Issued) /\ Issued[i] = transcript[i]
    BY <2>2, <2>3
  <2>5. Contiguous(Issued)
    BY <2>1 DEF IssuedInOrder
  <2>6. QED
    BY <2>2, <2>4, <2>5 DEF TranscriptSerial, Contiguous
<1>3. QED
  BY <1>1, <1>2, StepInOrder, Invariance, PTL DEF Spec
===============================================================================
