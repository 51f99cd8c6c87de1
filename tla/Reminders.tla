------------------------------- MODULE Reminders -------------------------------
(***************************************************************************)
(* Reminders (oc-server/src/proactive.rs): rows of the cron table, the     *)
(* heartbeat that fires what is due (scheduler.rs, lib.rs), the precise    *)
(* timers of one-shot jobs, and the two ways to make and remove a job: the *)
(* model's cron tool and the RPC, whose retries the idempotency cache      *)
(* answers (dispatch.rs, state.rs).                                        *)
(*                                                                         *)
(* A one-shot job has two paths to its ring, and the deletion of its row   *)
(* decides between them: it is deleted first and rung after.  A recurring  *)
(* job is rung first and rescheduled after, from the time its scan began,  *)
(* so that a crash repeats it rather than lose it.  Rows outlive a         *)
(* restart; timers, the cache and whatever was being fired do not.         *)
(***************************************************************************)
EXTENDS Naturals, FiniteSetsExt

CONSTANTS
  MaxJobs,      \* bound: jobs made; their ids are ordered as they are made
  Attempts,     \* cron.add requests, all with one idempotency key
  MaxTime,      \* bound: time
  Period,       \* distance of the minutes a recurring job matches
  Delays,       \* delays asked for
  MaxAhead,     \* bound: how far ahead a next time lies
  Horizon,      \* PRECISE_TIMER_HORIZON_SECS
  Ttl,          \* IDEM_TTL
  MaxMishaps    \* bound: failing store calls and restarts of the daemon

Jobs == 1..MaxJobs
Times == 0..(MaxTime + MaxAhead)
Never == MaxTime + MaxAhead + 1     \* next_at is NULL
Gone == MaxTime + MaxAhead + 2      \* no row

ASSUME RemindersAssumption ==
  /\ MaxJobs \in Nat /\ MaxTime \in Nat /\ MaxAhead \in Nat
  /\ Period \in 1..MaxAhead /\ Delays \subseteq 1..MaxAhead
  /\ Horizon \in Nat /\ Ttl \in Nat /\ MaxMishaps \in Nat

VARIABLES
  now,
  kind,      \* of a job: "unmade", "once", "every"
  born,      \* when a recurring job was made
  next,      \* next_at of its row, Never, or Gone
  rings,     \* Reminder events pushed for a job
  removed,   \* cron_rm found the row and the caller was told so
  timer,     \* its precise timer: "off", "arming", "asleep", "reading", "turn"
  alarm,     \* when the timer wakes
  beat,      \* the heartbeat: "idle", "list", "fire", "turn", "mark"
  scanTime,  \* now_secs of the scan
  due,       \* jobs of its snapshot still to fire
  pc,        \* a cron.add request: "unsent", "adding", "caching", "over"
  cache,     \* when the answer of the key was cached, else Never
  answered,  \* when this daemon last answered the key, else Never
  mishaps,   \* failing store calls and restarts left
  lost       \* jobs whose ring a crash or a repeated one stands for: see Crash

jobVars == <<kind, born, next, removed>>
timerVars == <<timer, alarm>>
beatVars == <<beat, scanTime, due>>
requestVars == <<pc, cache, answered>>
vars == <<now, jobVars, rings, timerVars, beatVars, requestVars, mishaps, lost>>

Init ==
  /\ now = 0
  /\ kind = [j \in Jobs |-> "unmade"] /\ born = [j \in Jobs |-> 0]
  /\ next = [j \in Jobs |-> Gone]
  /\ rings = [j \in Jobs |-> 0] /\ removed = [j \in Jobs |-> FALSE]
  /\ timer = [j \in Jobs |-> "off"] /\ alarm = [j \in Jobs |-> 0]
  /\ beat = "idle" /\ scanTime = 0 /\ due = {}
  /\ pc = [a \in Attempts |-> "unsent"] /\ cache = Never /\ answered = Never
  /\ mishaps = MaxMishaps
  /\ lost = {}

-------------------------------------------------------------------------------
(* Decisions.                                                               *)

Stored(j) == next[j] # Gone

(* A slip: the minute that has begun matches again. *)
NextFireInclusive(t) == CHOOSE m \in t..(t + Period) : m % Period = 0

(* next_fire: the first matching minute after t. *)
NextFire(t) == CHOOSE m \in (t + 1)..(t + Period) : m % Period = 0

(* A slip: the heartbeat leaves one-shot jobs to their timers. *)
IsDueRecurring(j, t) == kind[j] = "every" /\ next[j] <= t

(* eval_due: next_at is there and has come. *)
IsDue(j, t) == next[j] \in Times /\ next[j] <= t

(* A slip: a one-shot job is fired by whoever finds it due, and deleted. *)
ClaimsAnyway(j) == TRUE

(* cron_rm as a claim: a row was affected. *)
Claims(j) == Stored(j)

(* A slip: the next time is reserved before the turn and filled in after. *)
ReserveFirst(j) == next' = [next EXCEPT ![j] = IF kind[j] = "once" THEN Gone ELSE Never]

(* What is written before the turn: the row of a one-shot job goes. *)
Reserve(j) == next' = IF kind[j] = "once" THEN [next EXCEPT ![j] = Gone] ELSE next

(* A slip: the sweep keeps the entries that are over. *)
KeepsStale(at) == now - at >= Ttl

(* gc_tick_with and idem_get keep an entry that is younger than the TTL. *)
Fresh(at) == now - at < Ttl

Unmade == {j \in Jobs : kind[j] = "unmade"}
NewJob == Min(Unmade)

Row(j, k, at) ==
  /\ kind' = [kind EXCEPT ![j] = k]
  /\ next' = [next EXCEPT ![j] = at]
  /\ born' = [born EXCEPT ![j] = IF k = "every" THEN now ELSE 0]
  /\ UNCHANGED removed

Ring(j) == rings' = [rings EXCEPT ![j] = @ + 1]

Mishap == mishaps > 0 /\ mishaps' = mishaps - 1

-------------------------------------------------------------------------------
(* The model's cron tool.  One task takes its operations in turn; the tool
   may have given up on the answer, the operation is carried out all the same. *)

(* cron_add: an expression without a match is refused. *)
ToolAdd ==
  /\ Unmade # {}
  /\ Row(NewJob, "every", NextFire(now))
  /\ UNCHANGED <<now, rings, timerVars, beatVars, requestVars, mishaps, lost>>

(* cron_delay: the row first, then the timer, when the job is near enough. *)
ToolDelay ==
  /\ Unmade # {}
  /\ \E d \in Delays :
       /\ Row(NewJob, "once", now + d)
       /\ IF d <= Horizon
          THEN /\ timer' = [timer EXCEPT ![NewJob] = "arming"]
               /\ alarm' = [alarm EXCEPT ![NewJob] = d]
          ELSE UNCHANGED timerVars
  /\ UNCHANGED <<now, rings, beatVars, requestVars, mishaps, lost>>

(* spawn_precise_timer sleeps the delay from here on. *)
ArmTimer(j) ==
  /\ timer[j] = "arming"
  /\ timer' = [timer EXCEPT ![j] = "asleep"]
  /\ alarm' = [alarm EXCEPT ![j] = @ + now]
  /\ UNCHANGED <<now, jobVars, rings, beatVars, requestVars, mishaps, lost>>

(* cron_remove and cron.rm. *)
Remove(j) ==
  /\ Stored(j)
  /\ next' = [next EXCEPT ![j] = Gone]
  /\ removed' = [removed EXCEPT ![j] = TRUE]
  /\ UNCHANGED <<now, kind, born, rings, timerVars, beatVars, requestVars, mishaps, lost>>

-------------------------------------------------------------------------------
(* The precise timer of a one-shot job.                                     *)

TimerWakes(j) ==
  /\ timer[j] = "asleep" /\ alarm[j] <= now
  /\ \/ timer' = [timer EXCEPT ![j] = IF Stored(j) THEN "reading" ELSE "off"]
        /\ UNCHANGED mishaps
     \/ timer' = [timer EXCEPT ![j] = "off"] /\ Mishap      \* cron_list fails
  /\ alarm' = [alarm EXCEPT ![j] = 0]
  /\ UNCHANGED <<now, jobVars, rings, beatVars, requestVars, lost>>

(* fire_cron: the row it read may have been claimed since. *)
TimerClaims(j) ==
  /\ timer[j] = "reading"
  /\ \/ /\ Claims(j)
        /\ timer' = [timer EXCEPT ![j] = "turn"] /\ Reserve(j)
        /\ UNCHANGED mishaps
     \/ /\ ~Claims(j)
        /\ timer' = [timer EXCEPT ![j] = "off"]
        /\ UNCHANGED <<next, mishaps>>
     \/ timer' = [timer EXCEPT ![j] = "off"] /\ Mishap /\ UNCHANGED next
  /\ UNCHANGED <<now, kind, born, removed, rings, alarm, beatVars, requestVars, lost>>

(* The turn has ended, failed or timed out: the reminder is pushed anyway. *)
TimerRings(j) ==
  /\ timer[j] = "turn"
  /\ timer' = [timer EXCEPT ![j] = "off"]
  /\ Ring(j)
  /\ UNCHANGED <<now, jobVars, alarm, beatVars, requestVars, mishaps, lost>>

-------------------------------------------------------------------------------
(* The heartbeat: one tick at a time, the jobs of its snapshot in turn.     *)

(* gc_tick, then the time of the scan. *)
Tick ==
  /\ beat = "idle"
  /\ beat' = "list" /\ scanTime' = now
  /\ cache' = IF cache # Never /\ ~Fresh(cache) THEN Never ELSE cache
  /\ UNCHANGED <<now, jobVars, rings, timerVars, due, pc, answered, mishaps, lost>>

ScanLists ==
  /\ beat = "list"
  /\ \/ /\ due' = {j \in Jobs : IsDue(j, scanTime)}
        /\ beat' = "fire" /\ UNCHANGED <<scanTime, mishaps>>
     \/ Mishap /\ beat' = "idle" /\ scanTime' = 0 /\ UNCHANGED due
  /\ UNCHANGED <<now, jobVars, rings, timerVars, requestVars, lost>>

ScanEnds ==
  /\ beat = "fire" /\ due = {}
  /\ beat' = "idle" /\ scanTime' = 0
  /\ UNCHANGED <<now, jobVars, rings, timerVars, due, requestVars, mishaps, lost>>

(* A one-shot job is claimed; a recurring one is not looked at again. *)
ScanFires ==
  /\ beat = "fire" /\ due # {}
  /\ LET j == Min(due) IN
     \/ /\ kind[j] = "every" \/ Claims(j)
        /\ beat' = "turn" /\ Reserve(j)
        /\ UNCHANGED <<due, mishaps>>
     \/ /\ kind[j] = "once" /\ ~Claims(j)
        /\ due' = due \ {j} /\ UNCHANGED <<beat, next, mishaps>>
     \/ /\ kind[j] = "once" /\ Mishap
        /\ due' = due \ {j} /\ UNCHANGED <<beat, next>>
  /\ UNCHANGED <<now, kind, born, removed, rings, timerVars, scanTime, requestVars, lost>>

ScanRings ==
  /\ beat = "turn"
  /\ Ring(Min(due))
  /\ IF kind[Min(due)] = "once" THEN beat' = "fire" /\ due' = due \ {Min(due)}
                                ELSE beat' = "mark" /\ UNCHANGED due
  /\ UNCHANGED <<now, jobVars, timerVars, scanTime, requestVars, mishaps, lost>>

(* cron_mark_fired: a row that was removed meanwhile is not there to update.
   When the write fails, the row keeps its old time and is due again. *)
ScanMarks ==
  /\ beat = "mark"
  /\ LET j == Min(due) IN
     /\ due' = due \ {j}
     /\ \/ /\ next' = IF Stored(j) THEN [next EXCEPT ![j] = NextFire(scanTime)] ELSE next
           /\ UNCHANGED <<mishaps, lost>>
        \/ Mishap /\ lost' = lost \cup {j} /\ UNCHANGED next
  /\ beat' = "fire"
  /\ UNCHANGED <<now, kind, born, removed, rings, timerVars, scanTime, requestVars>>

-------------------------------------------------------------------------------
(* cron.add by RPC, sent again by a client that has no answer yet.          *)

(* The cache is asked before the handler runs. *)
LookUp(a) ==
  /\ pc[a] = "unsent"
  /\ IF cache # Never /\ Fresh(cache)
     THEN pc' = [pc EXCEPT ![a] = "over"] /\ UNCHANGED cache
     ELSE pc' = [pc EXCEPT ![a] = "adding"] /\ cache' = Never
  /\ UNCHANGED <<now, jobVars, rings, timerVars, beatVars, answered, mishaps, lost>>

AddRow(a) ==
  /\ pc[a] = "adding" /\ Unmade # {}
  /\ \/ /\ Row(NewJob, "every", NextFire(now))
        /\ pc' = [pc EXCEPT ![a] = "caching"] /\ UNCHANGED mishaps
     \/ /\ Mishap /\ pc' = [pc EXCEPT ![a] = "over"]
        /\ UNCHANGED jobVars
  /\ UNCHANGED <<now, rings, timerVars, beatVars, cache, answered, lost>>

(* Only an Ok is cached. *)
CacheOk(a) ==
  /\ pc[a] = "caching"
  /\ cache' = now /\ answered' = now
  /\ pc' = [pc EXCEPT ![a] = "over"]
  /\ UNCHANGED <<now, jobVars, rings, timerVars, beatVars, mishaps, lost>>

-------------------------------------------------------------------------------
Clock ==
  /\ now < MaxTime /\ now' = now + 1
  /\ UNCHANGED <<jobVars, rings, timerVars, beatVars, requestVars, mishaps, lost>>

(* Rows survive.  "lost" names the one-shot jobs that were claimed and not
   rung, and the recurring ones that were rung and not rescheduled. *)
Crash ==
  /\ Mishap
  /\ lost' = lost \cup {j \in Jobs : \/ timer[j] = "turn"
                                     \/ beat \in {"turn", "mark"} /\ j = Min(due)}
  /\ timer' = [j \in Jobs |-> "off"] /\ alarm' = [j \in Jobs |-> 0]
  /\ beat' = "idle" /\ scanTime' = 0 /\ due' = {}
  /\ pc' = [a \in Attempts |-> IF pc[a] = "unsent" THEN "unsent" ELSE "over"]
  /\ cache' = Never /\ answered' = Never
  /\ UNCHANGED <<now, jobVars, rings>>

Timer(j) == ArmTimer(j) \/ TimerWakes(j) \/ TimerClaims(j) \/ TimerRings(j)
Heartbeat == Tick \/ ScanLists \/ ScanFires \/ ScanRings \/ ScanMarks \/ ScanEnds
Request(a) == LookUp(a) \/ AddRow(a) \/ CacheOk(a)

Next == \/ ToolAdd \/ ToolDelay \/ Heartbeat \/ Clock \/ Crash
        \/ \E j \in Jobs : Timer(j) \/ Remove(j)
        \/ \E a \in Attempts : Request(a)

Spec == Init /\ [][Next]_vars

(* Time passes and the runtime polls the heartbeat; a turn has a timeout, so a
   tick ends, and so does what a timer has begun.  That a timer wakes is not
   relied on: the heartbeat stands in for it. *)
FairSpec == /\ Spec /\ WF_vars(Clock) /\ WF_vars(Heartbeat)
            /\ \A j \in Jobs : WF_vars(TimerRings(j))

-------------------------------------------------------------------------------
(* Properties.                                                              *)

TypeOK ==
  /\ now \in 0..MaxTime
  /\ kind \in [Jobs -> {"unmade", "once", "every"}] /\ born \in [Jobs -> 0..MaxTime]
  /\ next \in [Jobs -> Times \cup {Never, Gone}]
  /\ rings \in [Jobs -> Nat] /\ removed \in [Jobs -> BOOLEAN]
  /\ timer \in [Jobs -> {"off", "arming", "asleep", "reading", "turn"}]
  /\ alarm \in [Jobs -> Nat]
  /\ beat \in {"idle", "list", "fire", "turn", "mark"} /\ scanTime \in 0..MaxTime
  /\ due \subseteq Jobs
  /\ pc \in [Attempts -> {"unsent", "adding", "caching", "over"}]
  /\ cache \in Times \cup {Never} /\ answered \in Times \cup {Never}
  /\ mishaps \in 0..MaxMishaps /\ lost \subseteq Jobs

(* A one-shot reminder has one fate: the heartbeat and its timer do not both
   ring it, and one that the user was told is deleted does not ring at all. *)
OneFate ==
  \A j \in Jobs : kind[j] = "once" => rings[j] + (IF removed[j] THEN 1 ELSE 0) <= 1

(* A recurring job that is stored has a next time, whatever was interrupted. *)
EveryHasNext == \A j \in Jobs : kind[j] = "every" /\ Stored(j) => next[j] # Never

(* A recurring job rings once for a minute it matches: no more often than such
   minutes have come since it was made, unless its rescheduling was cut short. *)
RingsAreEarned ==
  \A j \in Jobs : kind[j] = "every" /\ j \notin lost =>
    rings[j] <= Cardinality({m \in (born[j] + 1)..now : m % Period = 0})

(* proactive.rs: a job has one fate, a recurring one a next time, and rings only when it is due. *)
RemindersInv == TypeOK /\ OneFate /\ EveryHasNext /\ RingsAreEarned

(* dispatch.rs:27: a retry that arrives within the TTL of the answer makes nothing.  One that
   arrives while the first attempt is still at work finds no answer (the cache is written after
   the handler, dispatch.rs:119) and makes a second job: of that nothing is stated. *)
RetriesCreateOnce ==
  [][\A a \in Attempts : pc[a] = "unsent" /\ pc'[a] = "adding" =>
       answered = Never \/ ~(now - answered < Ttl)]_vars

IsDueAt(j) == next[j] \in Times /\ next[j] <= now

(* A job that is due, whatever became of its timer, is rung, or rescheduled,
   or removed, unless the daemon died between its claim and its ring. *)
DueIsServed ==
  \A j \in Jobs : IsDueAt(j) ~> IF kind[j] = "every" THEN ~IsDueAt(j)
                                 ELSE rings[j] = 1 \/ removed[j] \/ j \in lost
===============================================================================
