------------------------------ MODULE SessionLane ------------------------------
(***************************************************************************)
(* One session actor (oc-server/src/session.rs, actor_loop) with its       *)
(* mailbox, its RunQueue (oc-core/src/queue.rs), the run task it spawns    *)
(* and the store's write queue.                                            *)
(*                                                                         *)
(* The actor handles one mailbox command at a time.  Two handlers await    *)
(* and so keep the mailbox shut meanwhile: begin_run, which waits for the  *)
(* store, and Compact, which waits for a model.  A turn is named by its    *)
(* run id.  The run task is abstract here: it writes entries, announces    *)
(* its end, may time out or panic, and reports Finished to the mailbox.    *)
(***************************************************************************)
EXTENDS Naturals, Sequences

CONSTANTS
  Turns,        \* the turns users submit, each at most once
  Detached,     \* those submitted through a Detached gateway (Web/HTTP)
  None,         \* absence of a turn; also the empty run id of an Abort
  QueueCap,     \* SessionConfig.queue_cap
  MailboxCap,   \* capacity of the command channel (64 in the code)
  MaxControls,  \* bound: control commands sent to the actor
  MaxPersists   \* bound: entries one run writes besides its user message

ASSUME LaneAssumption ==
  /\ None \notin Turns
  /\ Detached \subseteq Turns
  /\ QueueCap \in Nat
  /\ MailboxCap \in Nat \ {0}
  /\ MaxControls \in Nat
  /\ MaxPersists \in Nat

VARIABLES
  open,      \* the receiver of the command channel is open
  mailbox,   \* commands not received yet
  actor,     \* what the actor is doing: "recv", "begin", "compact" or "gone"
  starting,  \* the turn begin_run is working on
  active,    \* RunQueue.active
  pending,   \* RunQueue.pending
  run,       \* the actor's ActiveRun, or None
  sinks,     \* domain of the map sinks
  runLogs,   \* domain of the map run_logs
  reply,     \* what the submitter of a turn knows
  task,      \* the run task of a turn
  cancelled, \* turns whose cancellation token has fired
  ended,     \* turns that have announced a terminal Lifecycle event
  panicked,  \* turns whose run task panicked
  writes,    \* store commands queued for the writer thread
  transcript,\* the session's entries in the store
  persists,  \* number of entries a run has asked to write
  served,    \* turns whose Finished has been handled
  drained,   \* turns thrown away by a hard abort
  attached,  \* turns to which a Resume has attached a forwarder
  controls   \* control commands that may still be sent

queueVars == <<active, pending>>
storeVars == <<writes, transcript>>
taskVars  == <<task, cancelled, ended, panicked, persists>>
vars == <<open, mailbox, actor, starting, queueVars, run, sinks, runLogs, reply,
          taskVars, storeVars, served, drained, attached, controls>>

MaybeTurn == Turns \cup {None}
Elements(s) == {s[i] : i \in DOMAIN s}

Command ==
  [cmd : {"Submit", "Finished", "Resume"}, run : Turns, hard : {FALSE}]
  \cup [cmd : {"Abort"}, run : MaybeTurn, hard : BOOLEAN]
  \cup [cmd : {"Compact", "HealthScan", "EvictIfIdle"}, run : {None}, hard : {FALSE}]
Cmd(name, t) == [cmd |-> name, run |-> t, hard |-> FALSE]

Entry == Turns \X {"user", "assistant"}

Init ==
  /\ open = TRUE
  /\ mailbox = <<>>
  /\ actor = "recv"
  /\ starting = None
  /\ active = None
  /\ pending = <<>>
  /\ run = None
  /\ sinks = {}
  /\ runLogs = {}
  /\ reply = [t \in Turns |-> "unsent"]
  /\ task = [t \in Turns |-> "none"]
  /\ cancelled = {}
  /\ ended = {}
  /\ panicked = {}
  /\ writes = <<>>
  /\ transcript = <<>>
  /\ persists = [t \in Turns |-> 0]
  /\ served = {}
  /\ drained = {}
  /\ attached = {}
  /\ controls = MaxControls

-------------------------------------------------------------------------------
(* Senders.  A full channel suspends the sender: the step is not enabled.   *)

HasRoom == Len(mailbox) < MailboxCap

(* SessionHandle::submit; a closed channel answers None at once. *)
SendSubmit(t) ==
  /\ reply[t] = "unsent"
  /\ \/ /\ open /\ HasRoom
        /\ mailbox' = Append(mailbox, Cmd("Submit", t))
        /\ reply' = [reply EXCEPT ![t] = "waiting"]
     \/ /\ ~open
        /\ reply' = [reply EXCEPT ![t] = "none"]
        /\ UNCHANGED mailbox
  /\ UNCHANGED <<open, actor, starting, queueVars, run, sinks, runLogs, taskVars,
                 storeVars, served, drained, attached, controls>>

(* Abort and Resume name a run id that was handed out; Abort may name none.
   The probe EvictIfIdle is sent with try_send, the others wait for room:
   both reach the mailbox only when it has room. *)
ControlCommands ==
  LET known == {t \in Turns : reply[t] = "some"}
  IN  {[cmd |-> "Abort", run |-> t, hard |-> h] : t \in known \cup {None}, h \in BOOLEAN}
      \cup {Cmd("Resume", t) : t \in known}
      \cup {Cmd(name, None) : name \in {"Compact", "HealthScan", "EvictIfIdle"}}

SendControl(c) ==
  /\ c \in ControlCommands
  /\ controls > 0
  /\ open /\ HasRoom
  /\ mailbox' = Append(mailbox, c)
  /\ controls' = controls - 1
  /\ UNCHANGED <<open, actor, starting, queueVars, run, sinks, runLogs, reply,
                 taskVars, storeVars, served, drained, attached>>

-------------------------------------------------------------------------------
(* The actor.                                                               *)

Receives(name) == /\ actor = "recv"
                  /\ mailbox # <<>>
                  /\ Head(mailbox).cmd = name
                  /\ mailbox' = Tail(mailbox)

(* begin_run up to its first await: the user's message is sent to the store
   only now that the turn has the lane. *)
BeginRun(t) == /\ actor' = "begin"
               /\ starting' = t
               /\ writes' = Append(writes, <<t, "user">>)
               /\ UNCHANGED transcript

DoNotBegin == UNCHANGED <<actor, starting, storeVars>>

(* A slip, never taken by Next: the user's message is stored when the turn queues. *)
EnqueueStoringNow(t) == /\ pending' = Append(pending, t)
                        /\ writes' = Append(writes, <<t, "user">>)
                        /\ UNCHANGED <<active, actor, starting, transcript>>

(* RunQueue::submit, the Queued branch. *)
Enqueue(t) == /\ pending' = Append(pending, t)
              /\ UNCHANGED active
              /\ DoNotBegin

(* Two slips: the answer precedes the decision; the sink is left behind. *)
RejectAfterAnswering(t) == /\ reply' = [reply EXCEPT ![t] = "some"]
                           /\ UNCHANGED <<sinks, runLogs>>
RejectKeepingSink(t) == /\ reply' = [reply EXCEPT ![t] = "none"]
                        /\ sinks' = sinks \cup {t}
                        /\ UNCHANGED runLogs

(* The Rejected branch: what Submit put into the maps is taken out again and
   the submitter's reply channel is dropped. *)
Reject(t) == /\ reply' = [reply EXCEPT ![t] = "none"]
             /\ UNCHANGED <<sinks, runLogs>>

Admit(t) == /\ reply' = [reply EXCEPT ![t] = "some"]
            /\ sinks' = sinks \cup {t}
            /\ runLogs' = runLogs \cup ({t} \cap Detached)

(* Slips: a lane whose queue is empty is taken for free; off by one. *)
LaneFreeIfNobodyWaits == pending = <<>>
QueueFullTooLate == Len(pending) > QueueCap

LaneFree == active = None
QueueFull == Len(pending) >= QueueCap

(* SessionCmd::Submit: start, queue or reject; the answer is given only after
   that decision. *)
HandleSubmit ==
  /\ Receives("Submit")
  /\ LET t == Head(mailbox).run
     IN  \/ /\ LaneFree
            /\ active' = t
            /\ UNCHANGED pending
            /\ Admit(t)
            /\ BeginRun(t)
         \/ /\ ~LaneFree /\ ~QueueFull
            /\ Enqueue(t)
            /\ Admit(t)
         \/ /\ ~LaneFree /\ QueueFull
            /\ Reject(t)
            /\ UNCHANGED queueVars
            /\ DoNotBegin
  /\ UNCHANGED <<open, run, taskVars, served, drained, attached, controls>>

(* A slip: the history is loaded without waiting for the store. *)
UserMessageSent == TRUE
UserMessageStored == <<starting, "user">> \notin Elements(writes)

(* The rest of begin_run: the entry has been written (or the write failed,
   which is only logged), the history is loaded, the sink handed over and
   the run task spawned. *)
StartRun ==
  /\ actor = "begin"
  /\ UserMessageStored
  /\ sinks' = sinks \ {starting}
  /\ task' = [task EXCEPT ![starting] = "running"]
  /\ run' = starting
  /\ actor' = "recv"
  /\ starting' = None
  /\ UNCHANGED <<open, mailbox, queueVars, runLogs, reply, cancelled, ended,
                 panicked, persists, storeVars, served, drained, attached, controls>>

(* SessionCmd::Abort: a hard one empties the queue whatever run it names;
   the active run is cancelled if it is the one named or none is named. *)
HandleAbort ==
  /\ Receives("Abort")
  /\ LET c == Head(mailbox)
     IN  /\ IF c.hard
            THEN /\ pending' = <<>>
                 /\ drained' = drained \cup Elements(pending)
            ELSE UNCHANGED <<pending, drained>>
         /\ cancelled' = IF run # None /\ c.run \in {run, None}
                         THEN cancelled \cup {run} ELSE cancelled
  /\ UNCHANGED <<open, actor, starting, active, run, sinks, runLogs, reply, task,
                 ended, panicked, persists, storeVars, served, attached, controls>>

(* SessionCmd::Compact: the lane's mailbox stays shut until it is done. *)
HandleCompact ==
  /\ Receives("Compact")
  /\ actor' = "compact"
  /\ UNCHANGED <<open, starting, queueVars, run, sinks, runLogs, reply, taskVars,
                 storeVars, served, drained, attached, controls>>

CompactDone ==
  /\ actor = "compact"
  /\ actor' = "recv"
  /\ UNCHANGED <<open, mailbox, starting, queueVars, run, sinks, runLogs, reply,
                 taskVars, storeVars, served, drained, attached, controls>>

(* Slips: the queue is not looked at; the youngest turn is taken. *)
CompleteActiveAndRest == /\ active' = None
                         /\ UNCHANGED pending
                         /\ DoNotBegin
CompleteActiveLastIn ==
  IF pending = <<>>
  THEN active' = None /\ UNCHANGED pending /\ DoNotBegin
  ELSE /\ active' = pending[Len(pending)]
       /\ pending' = SubSeq(pending, 1, Len(pending) - 1)
       /\ BeginRun(pending[Len(pending)])

(* RunQueue::complete_active, and begin_run for the turn it returns. *)
CompleteActive ==
  IF pending = <<>>
  THEN active' = None /\ UNCHANGED pending /\ DoNotBegin
  ELSE /\ active' = Head(pending)
       /\ pending' = Tail(pending)
       /\ BeginRun(Head(pending))

(* A slip: the run log outlives its run. *)
ForgetSinkOnly(t) == sinks' = sinks \ {t} /\ UNCHANGED runLogs

ForgetOutputs(t) == sinks' = sinks \ {t} /\ runLogs' = runLogs \ {t}

(* SessionCmd::Finished: release the lane and start the oldest queued turn.
   A Finished of a run that is not the active one is ignored. *)
HandleFinished ==
  /\ Receives("Finished")
  /\ LET t == Head(mailbox).run
     IN  \/ /\ t = run
            /\ run' = None
            /\ served' = served \cup {t}
            /\ ForgetOutputs(t)
            /\ CompleteActive
         \/ /\ t # run
            /\ UNCHANGED <<sinks, runLogs, served, run, queueVars>>
            /\ DoNotBegin
  /\ UNCHANGED <<open, reply, taskVars, drained, attached, controls>>

(* SessionCmd::Resume: a hit is a turn that has a run log. *)
HandleResume ==
  /\ Receives("Resume")
  /\ attached' = attached \cup ({Head(mailbox).run} \cap runLogs)
  /\ UNCHANGED <<open, actor, starting, queueVars, run, sinks, runLogs, reply,
                 taskVars, storeVars, served, drained, controls>>

(* SessionCmd::HealthScan: how long the run has been silent is not modelled
   here, so the verdict may be either. *)
HandleHealthScan ==
  /\ Receives("HealthScan")
  /\ \/ UNCHANGED cancelled
     \/ run # None /\ cancelled' = cancelled \cup {run}
  /\ UNCHANGED <<open, actor, starting, queueVars, run, sinks, runLogs, reply, task,
                 ended, panicked, persists, storeVars, served, drained, attached,
                 controls>>

(* Slips: only the queue counts as work; buffered commands are left behind. *)
BusyIfQueued == pending # <<>>
LeaveBuffered == UNCHANGED <<mailbox, reply>>

Busy == run # None \/ pending # <<>>

(* The receiver is dropped with what it buffers, and so are the reply channels
   of the Submit commands among it: their submitters see None. *)
DropBuffered ==
  /\ mailbox' = <<>>
  /\ reply' = [t \in Turns |-> IF reply[t] = "waiting" THEN "none" ELSE reply[t]]

(* SessionCmd::EvictIfIdle: a lane with work, or with recent activity, stays.
   Otherwise the actor closes its receiver and exits, and its maps go with it.
   Time is abstract: an idle lane may have been active recently or not. *)
StayAlive ==
  /\ Receives("EvictIfIdle")
  /\ UNCHANGED <<open, actor, starting, queueVars, run, sinks, runLogs, reply, taskVars,
                 storeVars, served, drained, attached, controls>>

Evict ==
  /\ actor = "recv"
  /\ mailbox # <<>> /\ Head(mailbox).cmd = "EvictIfIdle"
  /\ ~Busy
  /\ open' = FALSE
  /\ actor' = "gone"
  /\ DropBuffered
  /\ sinks' = {} /\ runLogs' = {}
  /\ UNCHANGED <<starting, queueVars, run, taskVars, storeVars, served, drained,
                 attached, controls>>

Actor == \/ HandleSubmit \/ StartRun \/ HandleAbort \/ HandleCompact \/ CompactDone
         \/ HandleFinished \/ HandleResume \/ HandleHealthScan \/ StayAlive \/ Evict

-------------------------------------------------------------------------------
(* The writer thread: first in, first out; a failed write is only logged.   *)

WriterApply ==
  /\ writes # <<>>
  /\ transcript' = Append(transcript, Head(writes))
  /\ writes' = Tail(writes)
  /\ UNCHANGED <<open, mailbox, actor, starting, queueVars, run, sinks, runLogs, reply,
                 taskVars, served, drained, attached, controls>>

WriterFail ==
  /\ writes # <<>>
  /\ writes' = Tail(writes)
  /\ UNCHANGED <<open, mailbox, actor, starting, queueVars, run, sinks, runLogs, reply,
                 taskVars, transcript, served, drained, attached, controls>>

Writer == WriterApply \/ WriterFail

-------------------------------------------------------------------------------
(* The run task (run::drive inside start_run's catch_unwind).               *)

runUnchanged == UNCHANGED <<open, actor, starting, queueVars, run, sinks, runLogs,
                            reply, served, drained, attached, controls>>

(* persist: the run waits for the store's answer. *)
RunPersist(t) ==
  /\ task[t] = "running" /\ persists[t] < MaxPersists
  /\ writes' = Append(writes, <<t, "assistant">>)
  /\ persists' = [persists EXCEPT ![t] = @ + 1]
  /\ task' = [task EXCEPT ![t] = "persisting"]
  /\ UNCHANGED <<mailbox, cancelled, ended, panicked, transcript>>
  /\ runUnchanged

RunPersisted(t) ==
  /\ task[t] = "persisting"
  /\ <<t, "assistant">> \notin Elements(writes)
  /\ task' = [task EXCEPT ![t] = "running"]
  /\ UNCHANGED <<mailbox, cancelled, ended, panicked, persists, storeVars>>
  /\ runUnchanged

(* Lifecycle End or Error. *)
RunAnnounceEnd(t) ==
  /\ task[t] = "running" /\ t \notin ended
  /\ ended' = ended \cup {t}
  /\ UNCHANGED <<mailbox, task, cancelled, panicked, persists, storeVars>>
  /\ runUnchanged

RunReturn(t) ==
  /\ task[t] = "running" /\ t \in ended
  /\ task' = [task EXCEPT ![t] = "returned"]
  /\ UNCHANGED <<mailbox, cancelled, ended, panicked, persists, storeVars>>
  /\ runUnchanged

(* drive: run_timeout drops the driver wherever it waits, also while the
   store still holds an entry of the run in its queue. *)
RunTimeout(t) ==
  /\ task[t] \in {"running", "persisting"}
  /\ cancelled' = cancelled \cup {t}
  /\ ended' = ended \cup {t}
  /\ task' = [task EXCEPT ![t] = "returned"]
  /\ UNCHANGED <<mailbox, panicked, persists, storeVars>>
  /\ runUnchanged

(* A panic is caught; nothing is announced. *)
RunPanic(t) ==
  /\ task[t] = "running"
  /\ panicked' = panicked \cup {t}
  /\ task' = [task EXCEPT ![t] = "returned"]
  /\ UNCHANGED <<mailbox, cancelled, ended, persists, storeVars>>
  /\ runUnchanged

(* The task's last step: report to the actor's own mailbox. *)
RunReport(t) ==
  /\ task[t] = "returned"
  /\ \/ /\ open /\ HasRoom
        /\ mailbox' = Append(mailbox, Cmd("Finished", t))
     \/ /\ ~open
        /\ UNCHANGED mailbox
  /\ task' = [task EXCEPT ![t] = "reported"]
  /\ UNCHANGED <<cancelled, ended, panicked, persists, storeVars>>
  /\ runUnchanged

Run(t) == \/ RunPersist(t) \/ RunPersisted(t) \/ RunAnnounceEnd(t) \/ RunReturn(t)
          \/ RunTimeout(t) \/ RunPanic(t) \/ RunReport(t)

-------------------------------------------------------------------------------
(* Every task waits for another one: the actor for a command, the writer for
   an entry, and no run is under way.  Any other state without a successor is
   a deadlock; that no submitter is left waiting and no turn in the queue is
   the business of EverySubmissionAnswered and AcceptedIsServed. *)
Quiescent ==
  /\ actor \in {"recv", "gone"}
  /\ actor = "recv" => mailbox = <<>>
  /\ writes = <<>>
  /\ active = None
  /\ \A t \in Turns : reply[t] # "unsent" /\ task[t] \in {"none", "reported"}
  /\ UNCHANGED vars

Next == \/ \E t \in Turns : SendSubmit(t)
        \/ \E c \in ControlCommands : SendControl(c)
        \/ Actor
        \/ Writer
        \/ \E t \in Turns : Run(t)
        \/ Quiescent

Spec == Init /\ [][Next]_vars

(* The runtime keeps polling the actor, the writer thread keeps draining its
   queue, a run ends because its watchdogs end it, and a task waiting for room
   in the channel gets it.  Nothing obliges a user to send anything. *)
Fairness == /\ WF_vars(Actor)
            /\ WF_vars(Writer)
            /\ \A t \in Turns : /\ WF_vars(RunPersisted(t))
                                /\ WF_vars(RunAnnounceEnd(t))
                                /\ WF_vars(RunReturn(t))
                                /\ WF_vars(RunReport(t))

FairSpec == Spec /\ Fairness

-------------------------------------------------------------------------------
(* Properties.                                                              *)

(* Every variable has its type, and the queue never exceeds its capacity
   (RunQueue::submit), nor the channel its own. *)
TypeOK ==
  /\ open \in BOOLEAN
  /\ mailbox \in Seq(Command) /\ Len(mailbox) <= MailboxCap
  /\ actor \in {"recv", "begin", "compact", "gone"}
  /\ starting \in MaybeTurn /\ active \in MaybeTurn /\ run \in MaybeTurn
  /\ pending \in Seq(Turns) /\ Len(pending) <= QueueCap
  /\ reply \in [Turns -> {"unsent", "waiting", "some", "none"}]
  /\ task \in [Turns -> {"none", "running", "persisting", "returned", "reported"}]
  /\ persists \in [Turns -> 0..MaxPersists]
  /\ sinks \subseteq Turns /\ runLogs \subseteq Turns /\ attached \subseteq Turns
  /\ cancelled \subseteq Turns /\ ended \subseteq Turns /\ panicked \subseteq Turns
  /\ served \subseteq Turns /\ drained \subseteq Turns
  /\ writes \in Seq(Entry) /\ transcript \in Seq(Entry)
  /\ controls \in 0..MaxControls

(* The two records of who holds the lane, RunQueue.active and ActiveRun, agree
   whenever the actor is not in the middle of begin_run. *)
LaneAgreement ==
  IF actor = "begin"
  THEN run = None /\ starting # None /\ active = starting
  ELSE starting = None /\ active = run

(* agent-loop.md:9: one run at a time in a session, even while the Finished of
   the previous run is still on its way to the actor. *)
InLane(t) == task[t] \in {"running", "persisting", "returned"}
AtMostOneRunning == \A t, u \in Turns : InLane(t) /\ InLane(u) => t = u

(* A queued turn always waits behind somebody whose Finished will start it:
   the lane never rests with turns in its queue. *)
NoStrandedTurn ==
  /\ pending # <<>> => active # None
  /\ run # None => InLane(run) \/ Cmd("Finished", run) \in Elements(mailbox)

(* session.rs:314: an answer Some(run_id) means that the turn holds the lane,
   waits in the queue, has been served, or fell to a hard abort; a turn that
   was rejected or never answered is nowhere. *)
AcceptedIsTracked ==
  \A t \in Turns :
    (reply[t] = "some") <=> (t = active \/ t \in Elements(pending) \cup served \cup drained)

(* session.rs:260: the maps hold the sink of every waiting turn and the run log
   of every unfinished Detached turn, and nothing of a turn that was rejected
   or served. *)
OutputsFollowTurns ==
  open =>
    /\ sinks \ drained = (Elements(pending) \cup {starting}) \ {None}
    /\ runLogs \ drained = Detached \cap ((Elements(pending) \cup {active}) \ {None})

(* session.rs:461: eviction never takes a lane with accepted work. *)
EvictionLosesNothing ==
  ~open => \A t \in Turns : /\ reply[t] = "some" => t \in served \cup drained
                            /\ ~InLane(t)

(* session.rs:515: the entries of a turn are contiguous in the store, also when
   run_timeout drops a run whose last entry is still in the write queue. *)
TranscriptSerial ==
  \A i, j, k \in DOMAIN transcript :
    i < j /\ j < k /\ transcript[i][1] = transcript[k][1]
      => transcript[j][1] = transcript[i][1]

(* session.rs:393: a run starts from a history that holds everything earlier
   turns have written: nothing is left in the write queue when it loads it. *)
HistoryIsComplete ==
  [][\A t \in Turns : task[t] = "none" /\ task'[t] # "none" => writes = <<>>]_vars

(* A Resume never attaches to a run whose Finished has been handled: there is
   no log left that could end the forwarder. *)
NoResumeAfterFinish == [][(attached' \ attached) \cap served = {}]_vars

(* The lane as its users see it. *)
Lane == INSTANCE SerialLane WITH
          waiting <- pending,
          current <- IF starting # None THEN starting
                     ELSE IF run # None /\ task[run] \in {"running", "persisting"}
                          THEN run ELSE None,
          log <- transcript \o writes
LaneIsSerial == Lane!Spec

(* Every submitter is answered, also one whose command an eviction dropped. *)
EverySubmissionAnswered ==
  \A t \in Turns : reply[t] = "waiting" ~> reply[t] \in {"some", "none"}

(* Every accepted turn gets the lane and releases it, unless a hard abort
   throws it away. *)
AcceptedIsServed ==
  \A t \in Turns : reply[t] = "some" ~> t \in served \cup drained

(* The two together: nobody who submitted a turn waits for ever. *)
TurnsAreServed == EverySubmissionAnswered /\ AcceptedIsServed

(* Not kept by the code: a hard abort drains the queue (see README).  session.rs:151
   says of submit that whoever got Some(run_id) will not wait in vain for the
   turn's Lifecycle event.  (A run that panics announces nothing either and is
   not counted here.) *)
AcceptedReachesLifecycle ==
  \A t \in Turns : reply[t] = "some" ~> t \in ended \cup panicked
===============================================================================
