---------------------------- MODULE SessionRegistry ----------------------------
(***************************************************************************)
(* The session registry (oc-server/src/registry.rs): session ids mapped to *)
(* actor handles, actors spawned on demand by chat.send (dispatch.rs) and  *)
(* collected by the heartbeat's evict_idle, with the diagnostic slots of   *)
(* diag.rs.  The daemon runs on a multi-threaded runtime, so every step    *)
(* below interleaves with the steps of the other tasks; a map operation    *)
(* under a shard lock is one step.                                         *)
(*                                                                         *)
(* An actor is reduced to what registry and clients see of SessionLane:    *)
(* its channel, how many accepted turns it has, and whether its last       *)
(* activity is longer ago than idle_after.                                 *)
(***************************************************************************)
EXTENDS Naturals, Sequences

CONSTANTS
  Sessions,   \* session ids
  Main,       \* the session that is created at start and never evicted
  Clients,    \* chat.send requests; each names a session
  Target,     \* the session each request is for
  None,       \* no actor
  QueueCap,   \* SessionConfig.queue_cap: turns waiting besides the active one
  MaxProbes   \* bound: eviction probes sent by the heartbeat

ASSUME RegistryAssumption ==
  /\ Main \in Sessions
  /\ Target \in [Clients -> Sessions]
  /\ None \notin Nat
  /\ QueueCap \in Nat /\ MaxProbes \in Nat

VARIABLES
  spawned,  \* number of actors spawned; actors are numbered from 1
  owner,    \* the session an actor serves
  alive,    \* the actor's receiver is open
  box,      \* its channel: requests (clients) and numbered probes
  work,     \* its accepted, unfinished turns
  aged,     \* its last activity is at least idle_after ago
  entry,    \* the registry's map: session -> actor, or None
  slot,     \* sessions that have a diagnostic slot
  pc,       \* where a request stands
  handle,   \* the actor handle a request holds
  retried,  \* requests that are on their second try
  rejected, \* requests an actor rejected because its queue was full
  gc,       \* where the heartbeat's evict_idle stands
  todo,     \* candidates <<session, actor>> it has still to probe
  target,   \* the candidate it is working on
  probes    \* number of probes sent

actorVars  == <<spawned, owner, alive, box, work, aged>>
clientVars == <<pc, handle, retried, rejected>>
gcVars     == <<gc, todo, target, probes>>
vars == <<actorVars, entry, slot, clientVars, gcVars>>

Actors == 1..spawned
Probe(n) == [probe |-> n]
Request(c) == [client |-> c]
IsProbe(m) == "probe" \in DOMAIN m
Waiting(a) == {c \in Clients : Request(c) \in {box[a][i] : i \in DOMAIN box[a]}}

(* SessionRegistry::new spawns main. *)
Init == /\ spawned = 1
        /\ owner = <<Main>>
        /\ alive = <<TRUE>>
        /\ box = << <<>> >>
        /\ work = <<0>>
        /\ aged = <<FALSE>>
        /\ entry = [s \in Sessions |-> IF s = Main THEN 1 ELSE None]
        /\ slot = {Main}
        /\ pc = [c \in Clients |-> "get"]
        /\ handle = [c \in Clients |-> None]
        /\ retried = {}
        /\ rejected = {}
        /\ gc = "idle"
        /\ todo = {}
        /\ target = <<Main, None>>
        /\ probes = 0

-------------------------------------------------------------------------------
(* chat.send: get_or_spawn, submit, and one retry.                          *)

Goto(c, label) == pc' = [pc EXCEPT ![c] = label]
Live(s) == entry[s] # None /\ alive[entry[s]]

(* get_or_spawn, the lookup without the entry lock. *)
Get(c) ==
  /\ pc[c] = "get"
  /\ IF Live(Target[c])
     THEN /\ handle' = [handle EXCEPT ![c] = entry[Target[c]]]
          /\ Goto(c, "submit")
     ELSE /\ Goto(c, "entry")
          /\ UNCHANGED handle
  /\ UNCHANGED <<actorVars, entry, slot, retried, rejected, gcVars>>

(* A slip: no second look under the lock. *)
NoneToReuse(s) == FALSE

(* get_or_spawn, under the entry lock: another request may have been here. *)
Reusable(s) == Live(s)

GetEntry(c) ==
  /\ pc[c] = "entry"
  /\ LET s == Target[c]
     IN  IF Reusable(s)
         THEN /\ handle' = [handle EXCEPT ![c] = entry[s]]
              /\ UNCHANGED <<actorVars, entry, slot>>
         ELSE /\ spawned' = spawned + 1
              /\ owner' = Append(owner, s)
              /\ alive' = Append(alive, TRUE)
              /\ box' = Append(box, <<>>)
              /\ work' = Append(work, 0)
              /\ aged' = Append(aged, FALSE)
              /\ entry' = [entry EXCEPT ![s] = spawned + 1]
              /\ slot' = slot \cup {s}
              /\ handle' = [handle EXCEPT ![c] = spawned + 1]
  /\ Goto(c, "submit")
  /\ UNCHANGED <<retried, rejected, gcVars>>

(* SessionHandle::submit: a closed channel answers None at once. *)
Submit(c) ==
  /\ pc[c] = "submit"
  /\ IF alive[handle[c]]
     THEN /\ box' = [box EXCEPT ![handle[c]] = Append(@, Request(c))]
          /\ Goto(c, "wait")
     ELSE /\ Goto(c, "none")
          /\ UNCHANGED box
  /\ UNCHANGED <<spawned, owner, alive, work, aged, entry, slot, handle, retried,
                 rejected, gcVars>>

(* A slip: None is reported as a full queue at once. *)
NeverRetry(c) == FALSE

(* handle_chat_send: None with a closed handle means that the actor was
   evicted in between; get a fresh one, once. *)
MayRetry(c) == ~alive[handle[c]] /\ c \notin retried

GotNone(c) ==
  /\ pc[c] = "none"
  /\ IF MayRetry(c)
     THEN retried' = retried \cup {c} /\ Goto(c, "get")
     ELSE Goto(c, "busy") /\ UNCHANGED retried
  /\ UNCHANGED <<actorVars, entry, slot, handle, rejected, gcVars>>

Client(c) == Get(c) \/ GetEntry(c) \/ Submit(c) \/ GotNone(c)

-------------------------------------------------------------------------------
(* The actors.                                                              *)

(* A slip: off by one. *)
RoomForOneMore(a) == work[a] <= QueueCap + 1

(* RunQueue::submit: the lane is free or its queue is not full. *)
Takes(a) == work[a] <= QueueCap

ReceiveRequest(a) ==
  /\ alive[a] /\ box[a] # <<>> /\ ~IsProbe(Head(box[a]))
  /\ LET c == Head(box[a]).client
     IN  /\ box' = [box EXCEPT ![a] = Tail(@)]
         /\ aged' = [aged EXCEPT ![a] = FALSE]
         /\ IF Takes(a)
            THEN /\ work' = [work EXCEPT ![a] = @ + 1]
                 /\ Goto(c, "accepted")
                 /\ UNCHANGED rejected
            ELSE /\ rejected' = rejected \cup {c}
                 /\ Goto(c, "none")
                 /\ UNCHANGED work
  /\ UNCHANGED <<spawned, owner, alive, entry, slot, handle, retried, gcVars>>

FinishTurn(a) ==
  /\ alive[a] /\ work[a] > 0
  /\ work' = [work EXCEPT ![a] = @ - 1]
  /\ aged' = [aged EXCEPT ![a] = FALSE]
  /\ UNCHANGED <<spawned, owner, alive, box, entry, slot, clientVars, gcVars>>

(* idle_after (24 hours) is far longer than a request takes: whatever is old
   when a request is under way was old already when the request began, so the
   model lets actors come of age only between requests. *)
UnderWay(c) == pc[c] \in {"entry", "submit", "wait", "none"} \/ (pc[c] = "get" /\ c \in retried)

Age(a) ==
  /\ alive[a] /\ ~aged[a]
  /\ \A c \in Clients : ~UnderWay(c)
  /\ aged' = [aged EXCEPT ![a] = TRUE]
  /\ UNCHANGED <<spawned, owner, alive, box, work, entry, slot, clientVars, gcVars>>

(* A slip: only the time of the last activity counts. *)
BusyIfRecent(a) == ~aged[a]

Busy(a) == work[a] > 0 \/ ~aged[a]

(* A slip: the reply channels of buffered requests stay open. *)
LeaveWaiting(a) == UNCHANGED pc

(* The reply channels of buffered requests are dropped. *)
AnswerNone(a) == pc' = [c \in Clients |-> IF c \in Waiting(a) THEN "none" ELSE pc[c]]

(* EvictIfIdle: close the receiver, drop what it buffers, then answer.  An
   answer to a probe evict_idle no longer waits for goes nowhere. *)
Answers(m) == gc = "wait" /\ m.probe = probes

ReceiveProbe(a) ==
  /\ alive[a] /\ box[a] # <<>> /\ IsProbe(Head(box[a]))
  /\ LET m == Head(box[a])
     IN  IF Busy(a)
         THEN /\ box' = [box EXCEPT ![a] = Tail(@)]
              /\ gc' = IF Answers(m) THEN "next" ELSE gc
              /\ UNCHANGED <<alive, pc>>
         ELSE /\ alive' = [alive EXCEPT ![a] = FALSE]
              /\ box' = [box EXCEPT ![a] = <<>>]
              /\ AnswerNone(a)
              /\ gc' = IF Answers(m) THEN "remove"
                       ELSE IF gc = "wait" /\ target[2] = a THEN "next" ELSE gc
  /\ UNCHANGED <<spawned, owner, work, aged, entry, slot, handle, retried, rejected,
                 todo, target, probes>>

Actor(a) == ReceiveRequest(a) \/ FinishTurn(a) \/ ReceiveProbe(a)

-------------------------------------------------------------------------------
(* evict_idle, run by the heartbeat.                                        *)

(* A slip: main is probed like any other session. *)
Everybody == Sessions

Evictable == Sessions \ {Main}

(* A snapshot of the handles: the probe must not hold a lock. *)
Sweep ==
  /\ gc = "idle" /\ probes < MaxProbes
  /\ todo' = {<<s, entry[s]>> : s \in {s \in Evictable : entry[s] # None}}
  /\ gc' = "next"
  /\ UNCHANGED <<actorVars, entry, slot, clientVars, target, probes>>

(* evict_if_idle: a closed channel refuses the probe. *)
ProbeNext ==
  /\ gc = "next" /\ probes < MaxProbes
  /\ \E x \in todo :
       /\ todo' = todo \ {x}
       /\ target' = x
       /\ IF alive[x[2]]
          THEN /\ probes' = probes + 1
               /\ box' = [box EXCEPT ![x[2]] = Append(@, Probe(probes + 1))]
               /\ gc' = "wait"
          ELSE UNCHANGED <<probes, box, gc>>
  /\ UNCHANGED <<spawned, owner, alive, work, aged, entry, slot, clientVars>>

SweepDone ==
  /\ gc = "next" /\ (todo = {} \/ probes = MaxProbes)
  /\ gc' = "idle"
  /\ todo' = {}
  /\ UNCHANGED <<actorVars, entry, slot, clientVars, target, probes>>

(* A slip: the probe is awaited for as long as it takes. *)
ProbeNeverTimesOut == FALSE

(* EVICT_PROBE_TIMEOUT: an actor that does not answer is busy. *)
ProbeMayTimeOut == gc = "wait"

ProbeTimeout ==
  /\ ProbeMayTimeOut
  /\ gc' = "next"
  /\ UNCHANGED <<actorVars, entry, slot, clientVars, todo, target, probes>>

(* A slip: remove instead of remove_if. *)
RemoveAnything(s) == TRUE

(* remove_if, whose predicate is evaluated under the lock. *)
MayRemove(s) == entry[s] # None /\ ~alive[entry[s]]

RemoveEntry ==
  /\ gc = "remove"
  /\ IF MayRemove(target[1])
     THEN /\ entry' = [entry EXCEPT ![target[1]] = None]
          /\ gc' = "forget"
     ELSE /\ gc' = "next"
          /\ UNCHANGED entry
  /\ UNCHANGED <<actorVars, slot, clientVars, todo, target, probes>>

ForgetSlot ==
  /\ gc = "forget"
  /\ slot' = slot \ {target[1]}
  /\ gc' = "next"
  /\ UNCHANGED <<actorVars, entry, clientVars, todo, target, probes>>

Gc == Sweep \/ ProbeNext \/ SweepDone \/ ProbeTimeout \/ RemoveEntry \/ ForgetSlot

-------------------------------------------------------------------------------
(* Every task waits for another one: no request, actor or sweep has a step.
   Any other state without a successor is a deadlock; that no request is left
   waiting in such a state is RequestAnswered's business. *)
Quiescent == /\ \A c \in Clients : pc[c] \in {"wait", "accepted", "busy"}
             /\ \A a \in Actors : alive[a] => box[a] = <<>> /\ work[a] = 0
             /\ gc = "idle"
             /\ UNCHANGED vars

Next == \/ \E c \in Clients : Client(c)
        \/ \E a \in Actors : Actor(a) \/ Age(a)
        \/ Gc
        \/ Quiescent

Spec == Init /\ [][Next]_vars

(* evict_idle is polled and its timer fires; nothing is assumed of the actors,
   which may be shut in a Compact, nor of time. *)
GcFairness == WF_vars(ProbeNext \/ SweepDone \/ ProbeTimeout \/ RemoveEntry \/ ForgetSlot)

(* Requests are polled, and an actor handles what is in its channel while a
   request waits for it; a probe alone need not be answered. *)
RequestFairness ==
  \A c \in Clients :
    /\ WF_vars(Client(c))
    /\ WF_vars(\E a \in Actors : c \in Waiting(a) /\ (ReceiveRequest(a) \/ ReceiveProbe(a)))

FairSpec == Spec /\ GcFairness /\ RequestFairness

-------------------------------------------------------------------------------
(* Properties.                                                              *)

Labels == {"get", "entry", "submit", "wait", "none", "accepted", "busy"}

(* Every variable has its type. *)
TypeOK ==
  /\ spawned \in Nat \ {0}
  /\ owner \in [Actors -> Sessions]
  /\ alive \in [Actors -> BOOLEAN]
  /\ aged \in [Actors -> BOOLEAN]
  /\ work \in [Actors -> 0..(QueueCap + 1)]
  /\ DOMAIN box = Actors
  /\ entry \in [Sessions -> Actors \cup {None}]
  /\ slot \subseteq Sessions
  /\ pc \in [Clients -> Labels]
  /\ handle \in [Clients -> Actors \cup {None}]
  /\ retried \subseteq Clients /\ rejected \subseteq Clients
  /\ gc \in {"idle", "next", "wait", "remove", "forget"}
  /\ todo \subseteq Sessions \X Actors
  /\ target \in Sessions \X (Actors \cup {None})
  /\ probes \in 0..MaxProbes

(* registry.rs:81: a session has one actor at a time, whatever requests and
   evictions cross; two would write into the same transcript side by side. *)
OneLane == \A a, b \in Actors : alive[a] /\ alive[b] /\ owner[a] = owner[b] => a = b

(* registry.rs:132: an actor that takes commands can be found, so that aborts,
   health scans and later requests reach it. *)
LiveIsRegistered == \A a \in Actors : alive[a] => entry[owner[a]] = a

(* registry.rs:15: main is never evicted. *)
MainStays == Live(Main)

(* dispatch.rs:190: "the queue is full" is said only of a full queue, never
   because an eviction fell between taking a handle and using it. *)
NoSpuriousBusy == \A c \in Clients : pc[c] = "busy" => c \in rejected

(* session.rs:463: an evicted actor leaves no accepted turn behind. *)
NoWorkEvicted == \A a \in Actors : ~alive[a] => work[a] = 0

(* session.rs:201: a sweep comes to its end even if no actor ever answers. *)
SweepEnds == gc # "idle" ~> gc = "idle"

(* Every chat.send is answered. *)
RequestAnswered == \A c \in Clients : <>(pc[c] \in {"accepted", "busy"})

(* What the map, the actors and the requests must agree on. *)
RegistryInv ==
  TypeOK /\ OneLane /\ LiveIsRegistered /\ MainStays /\ NoSpuriousBusy /\ NoWorkEvicted

(* Neither a sweep nor a request waits for ever. *)
AllIsAnswered == SweepEnds /\ RequestAnswered

(* Not kept by the code: a request may respawn the actor between remove_if and forget (see
   README).  diag.rs:73 says that the slot dropped with an evicted actor is rebuilt when
   the session comes back to life. *)
LiveHasDiagSlot == \A a \in Actors : alive[a] => owner[a] \in slot
===============================================================================
