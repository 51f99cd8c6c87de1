---------------------------- MODULE Reminders_proofs ----------------------------
(***************************************************************************)
(* Proofs about Reminders: RemindersInv and RetriesCreateOnce hold of any  *)
(* number of jobs, attempts, mishaps and of any period, delays and TTL.    *)
(***************************************************************************)
EXTENDS Reminders, FiniteSetTheorems, WellFoundedInduction, TLAPS

-------------------------------------------------------------------------------
(* The inductive invariant.                                                *)

(* The job the heartbeat is at. *)
At(j, where) == beat = where /\ due # {} /\ j = Min(due)

(* The snapshot is that of the tick under way, and a job is only rescheduled
   if it is a recurring one. *)
Scanning ==
  /\ beat \in {"idle", "list"} => due = {}
  /\ beat \in {"turn", "mark"} => due # {}
  /\ beat = "mark" => kind[Min(due)] = "every"
  /\ scanTime <= now

(* A job that is not made has nothing, and a recurring one no timer. *)
Kinds(j) ==
  /\ kind[j] = "unmade" => /\ next[j] = Gone /\ rings[j] = 0 /\ ~removed[j]
                           /\ timer[j] = "off" /\ j \notin due
  /\ kind[j] = "every" => timer[j] = "off"

(* What can become of a one-shot job: it is stored, or removed, or claimed by
   its timer or the heartbeat, or rung, and all that once. *)
Fate(j) ==
  kind[j] = "once" =>
    /\ rings[j] <= 1
    /\ Stored(j) => rings[j] = 0 /\ ~removed[j] /\ timer[j] # "turn" /\ ~At(j, "turn")
    /\ removed[j] => rings[j] = 0 /\ timer[j] # "turn" /\ ~At(j, "turn")
    /\ timer[j] = "turn" => rings[j] = 0 /\ ~At(j, "turn")
    /\ At(j, "turn") => rings[j] = 0

(* The minutes after b, up to t, that a recurring job matches. *)
Count(b, t) == Cardinality({m \in (b + 1)..t : m % Period = 0})

(* Each ring of a recurring job has a minute of its own: up to its next time
   there are as many as it has rung, and for what it is due now there is one
   more. *)
Earned(j) ==
  kind[j] = "every" /\ j \notin lost =>
    /\ rings[j] <= Count(born[j], now)
    /\ Stored(j) /\ ~At(j, "mark") =>
         next[j] > born[j] /\ next[j] % Period = 0 /\ rings[j] <= Count(born[j], next[j] - 1)
    /\ j \in due => born[j] < scanTime
    /\ j \in due /\ ~At(j, "mark") => rings[j] + 1 <= Count(born[j], scanTime)
    /\ At(j, "mark") => rings[j] <= Count(born[j], scanTime)

Job(j) == Kinds(j) /\ Fate(j) /\ Earned(j) /\ (kind[j] = "every" => next[j] # Never)

(* The answer is cached as long as it is fresh. *)
Caching ==
  /\ answered # Never => answered <= now /\ (cache = answered \/ ~Fresh(answered))
  /\ cache \in {answered, Never}

IInv == TypeOK /\ Scanning /\ (\A j \in Jobs : Job(j)) /\ Caching

-------------------------------------------------------------------------------
(* Times, and the minutes of a recurring job.                              *)

(* The least of some jobs is one of them. *)
LEMMA MinIsAJob ==
  ASSUME NEW S \in SUBSET Jobs, S # {}
  PROVE  Min(S) \in S
<1>1. MaxJobs \in Nat /\ S \subseteq Nat
  BY RemindersAssumption DEF Jobs
<1>2. PICK k \in S : \A j \in S : ~(<<j, k>> \in OpToRel(<, Nat))
  BY <1>1, NatLessThanWellFounded, WFMin
<1>3. \A j \in S : k <= j
  <2> TAKE j \in S
  <2>1. j \in Nat /\ k \in Nat
    BY <1>1
  <2>2. ~(j < k)
    BY <1>2, <2>1 DEF OpToRel
  <2> QED  BY <2>1, <2>2
<1> QED  BY <1>2, <1>3 DEF Min

(* next_fire finds a minute, because one in Period matches. *)
LEMMA NextFireIsNext ==
  ASSUME NEW t \in Nat
  PROVE  NextFire(t) \in (t + 1)..(t + Period) /\ NextFire(t) % Period = 0
<1>1. Period \in Nat \ {0}
  BY RemindersAssumption
<1>2. t % Period \in 0..(Period - 1)
  BY <1>1
<1>3. (t + (Period - (t % Period))) % Period = 0
  BY <1>1
<1>4. t + (Period - (t % Period)) \in (t + 1)..(t + Period)
  BY <1>1, <1>2
<1> QED  BY <1>3, <1>4 DEF NextFire

(* The values next_at has. *)
LEMMA TimesAreTimes ==
  /\ MaxTime \in Nat /\ Ttl \in Nat /\ Horizon \in Nat /\ MaxMishaps \in Nat
  /\ Times \subseteq Nat /\ Never \in Nat /\ Gone \in Nat
  /\ Never \notin Times /\ Gone \notin Times /\ Never # Gone
  /\ \A t \in 0..MaxTime : /\ t \in Times /\ t < Never
                           /\ NextFire(t) \in Times /\ NextFire(t) > t
                           /\ NextFire(t) % Period = 0
                           /\ \A d \in Delays : t + d \in Times /\ d \in Nat
<1>1. /\ MaxTime \in Nat /\ Ttl \in Nat /\ Horizon \in Nat /\ MaxMishaps \in Nat
      /\ MaxAhead \in Nat /\ Period \in Nat \ {0} /\ Period <= MaxAhead
      /\ \A d \in Delays : d \in Nat /\ d <= MaxAhead
  BY RemindersAssumption
<1>2. ASSUME NEW t \in 0..MaxTime
      PROVE  /\ t \in Times /\ t < Never /\ NextFire(t) \in Times /\ NextFire(t) > t
             /\ NextFire(t) % Period = 0
             /\ \A d \in Delays : t + d \in Times /\ d \in Nat
  <2>1. NextFire(t) \in (t + 1)..(t + Period) /\ NextFire(t) % Period = 0
    BY <1>1, NextFireIsNext
  <2> QED  BY <1>1, <2>1 DEF Times, Never
<1>3. /\ Times \subseteq Nat /\ Never \in Nat /\ Gone \in Nat
      /\ Never \notin Times /\ Gone \notin Times /\ Never # Gone
  BY <1>1 DEF Times, Never, Gone
<1> QED  BY <1>1, <1>2, <1>3

(* The count of matching minutes is a number that only grows. *)
LEMMA CountGrows ==
  ASSUME NEW b \in Nat, NEW t \in Nat, NEW u \in Nat, t <= u
  PROVE  Count(b, t) \in Nat /\ Count(b, u) \in Nat /\ Count(b, t) <= Count(b, u)
<1> DEFINE M(x) == {m \in (b + 1)..x : m % Period = 0}
<1>1. IsFiniteSet((b + 1)..u)
  BY FS_Interval
<1>2. M(u) \in SUBSET ((b + 1)..u) /\ M(t) \in SUBSET M(u)
  OBVIOUS
<1>3. IsFiniteSet(M(u))
  BY <1>1, <1>2, FS_Subset
<1>4. IsFiniteSet(M(t)) /\ Cardinality(M(t)) <= Cardinality(M(u))
  BY <1>2, <1>3, FS_Subset
<1>5. Cardinality(M(t)) \in Nat /\ Cardinality(M(u)) \in Nat
  BY <1>3, <1>4, FS_CardinalityType
<1> QED  BY <1>4, <1>5 DEF Count

(* A minute that matches counts once it is past. *)
LEMMA OneMore ==
  ASSUME NEW b \in Nat, NEW n \in Nat, NEW u \in Nat, b < n, n <= u, n % Period = 0
  PROVE  Count(b, n - 1) + 1 <= Count(b, u)
<1> DEFINE M(x) == {m \in (b + 1)..x : m % Period = 0}
<1>1. n - 1 \in Nat /\ n \in (b + 1)..n /\ n \notin (b + 1)..(n - 1)
  OBVIOUS
<1>2. IsFiniteSet((b + 1)..(n - 1)) /\ M(n - 1) \in SUBSET ((b + 1)..(n - 1))
  BY <1>1, FS_Interval
<1>3. IsFiniteSet(M(n - 1))
  BY <1>2, FS_Subset
<1>4. M(n) = M(n - 1) \cup {n} /\ n \notin M(n - 1)
  BY <1>1
<1>5. Cardinality(M(n)) = Cardinality(M(n - 1)) + 1
  <2> HIDE DEF M
  <2> QED  BY <1>3, <1>4, FS_AddElement
<1>6. Count(b, n) = Count(b, n - 1) + 1
  BY <1>5 DEF Count
<1>7. Count(b, n) <= Count(b, u)
  BY CountGrows
<1> QED  BY <1>6, <1>7, Zenon

LEMMA EarnedLater ==
  ASSUME NEW b \in Nat, NEW t \in Nat, NEW u \in Nat, t <= u,
         NEW r \in Nat, r <= Count(b, t)
  PROVE  r <= Count(b, u)
BY CountGrows

-------------------------------------------------------------------------------
(* The steps, as one job sees them.                                        *)

(* What is known of a job's variables. *)
LEMMA JobTypes ==
  ASSUME TypeOK, NEW j \in Jobs
  PROVE  /\ now \in Nat /\ scanTime \in Nat /\ born[j] \in Nat /\ rings[j] \in Nat
         /\ kind[j] \in {"unmade", "once", "every"} /\ removed[j] \in BOOLEAN
         /\ next[j] \in Times \cup {Never, Gone}
         /\ due \subseteq Jobs
BY TimesAreTimes DEF TypeOK

(* A step that leaves a job alone: the clock, the steps of others, a crash. *)
LEMMA Unmoved ==
  ASSUME TypeOK, NEW j \in Jobs, Job(j),
         now' \in Nat, now <= now',
         kind'[j] = kind[j], born'[j] = born[j], next'[j] = next[j],
         rings'[j] = rings[j], removed'[j] = removed[j],
         timer'[j] = "turn" => timer[j] = "turn", timer[j] = "off" => timer'[j] = "off",
         j \in lost => j \in lost',
         At(j, "turn")' => At(j, "turn"), At(j, "mark")' => At(j, "mark"),
         At(j, "mark") => At(j, "mark")' \/ j \in lost',
         j \in due' => j \in due /\ scanTime' = scanTime,
         At(j, "mark")' => j \in due'
  PROVE  Job(j)'
<1>1. /\ now \in Nat /\ scanTime \in Nat /\ born[j] \in Nat /\ rings[j] \in Nat
  BY JobTypes
<1>2. Kinds(j) /\ Fate(j) /\ Earned(j) /\ (kind[j] = "every" => next[j] # Never)
  BY DEF Job
<1>3. Kinds(j)'
  BY <1>2 DEF Kinds
<1>4. Stored(j)' = Stored(j)
  BY DEF Stored
<1>5. Fate(j)'
  BY <1>2, <1>4 DEF Fate
<1>6. Earned(j)'
  <2> SUFFICES ASSUME kind'[j] = "every", j \notin lost'
               PROVE  Earned(j)'
    BY DEF Earned
  <2>1. /\ rings[j] <= Count(born[j], now)
        /\ Stored(j) /\ ~At(j, "mark") =>
             next[j] > born[j] /\ next[j] % Period = 0 /\ rings[j] <= Count(born[j], next[j] - 1)
        /\ j \in due => born[j] < scanTime
        /\ j \in due /\ ~At(j, "mark") => rings[j] + 1 <= Count(born[j], scanTime)
        /\ At(j, "mark") => rings[j] <= Count(born[j], scanTime)
    BY <1>2 DEF Earned
  <2>2. At(j, "mark")' <=> At(j, "mark")
    OBVIOUS
  <2>3. rings[j] <= Count(born[j], now')
    BY <1>1, <2>1, EarnedLater
  <2>4. \A b, t : Count(b, t)' = Count(b, t)
    BY DEF Count
  <2>5. Count(born[j], now)' = Count(born[j], now')
    BY DEF Count
  <2>6. Count(born[j], next[j] - 1)' = Count(born[j], next[j] - 1)
    BY DEF Count
  <2>7. j \in due' => Count(born[j], scanTime)' = Count(born[j], scanTime)
    BY DEF Count
  <2> QED  BY <1>4, <2>1, <2>2, <2>3, <2>5, <2>6, <2>7 DEF Earned
<1> QED  BY <1>2, <1>3, <1>5, <1>6 DEF Job

(* The row of a new job: cron_add of the tool or by RPC. *)
LEMMA RecurringJobBegins ==
  ASSUME TypeOK, NEW j \in Jobs, Job(j), kind[j] = "unmade", Scanning,
         Row(j, "every", NextFire(now)), UNCHANGED <<now, rings, timerVars, beatVars, lost>>
  PROVE  Job(j)'
<1>1. /\ now \in Nat /\ now \in 0..MaxTime /\ rings[j] = 0 /\ timer[j] = "off" /\ j \notin due
      /\ kind \in [Jobs -> {"unmade", "once", "every"}] /\ born \in [Jobs -> 0..MaxTime]
      /\ next \in [Jobs -> Times \cup {Never, Gone}]
  BY JobTypes DEF TypeOK, Job, Kinds
<1>2. /\ kind'[j] = "every" /\ next'[j] = NextFire(now) /\ born'[j] = now
      /\ rings'[j] = 0 /\ timer'[j] = "off" /\ due' = due /\ beat' = beat /\ now' = now
  BY <1>1 DEF Row, timerVars, beatVars
<1>3. /\ NextFire(now) \in Times /\ NextFire(now) > now /\ NextFire(now) % Period = 0
      /\ Never \notin Times /\ Gone \notin Times /\ Times \subseteq Nat
  BY <1>1, TimesAreTimes
<1>4. ~At(j, "mark")'
  <2>1. At(j, "mark") => j \in due
    BY MinIsAJob, JobTypes DEF At
  <2> QED  BY <1>1, <1>2, <2>1 DEF At
<1>5. 0 <= Count(now, now) /\ 0 <= Count(now, NextFire(now) - 1)
  <2>0. NextFire(now) \in Nat /\ NextFire(now) > now
    BY <1>3
  <2>1. NextFire(now) - 1 \in Nat
    BY <1>1, <2>0
  <2>2. Count(now, NextFire(now) - 1) \in Nat
    BY <1>1, <2>1, CountGrows
  <2>3. Count(now, now) \in Nat
    BY <1>1, CountGrows
  <2> QED  BY <2>2, <2>3
<1>6. Earned(j)'
  <2>1. Count(born[j], now)' = Count(now, now)
    BY <1>2 DEF Count
  <2>2. Count(born[j], next[j] - 1)' = Count(now, NextFire(now) - 1)
    BY <1>2 DEF Count
  <2> QED  BY <1>1, <1>2, <1>3, <1>4, <1>5, <2>1, <2>2 DEF Earned
<1> QED  BY <1>1, <1>2, <1>3, <1>6 DEF Job, Kinds, Fate

(* cron_delay. *)
LEMMA OneShotBegins ==
  ASSUME TypeOK, NEW j \in Jobs, Job(j), kind[j] = "unmade", Scanning,
         NEW d \in Delays, Row(j, "once", now + d),
         UNCHANGED <<now, rings, beatVars, lost>>, timer'[j] # "turn"
  PROVE  Job(j)'
<1>1. /\ rings[j] = 0 /\ ~removed[j] /\ j \notin due
      /\ kind \in [Jobs -> {"unmade", "once", "every"}]
  BY DEF TypeOK, Job, Kinds
<1>2. kind'[j] = "once" /\ rings'[j] = 0 /\ ~removed'[j] /\ due' = due /\ beat' = beat
  BY <1>1 DEF Row, beatVars
<1>3. ~At(j, "turn")'
  <2>1. At(j, "turn") => j \in due
    BY MinIsAJob, JobTypes DEF At
  <2> QED  BY <1>1, <1>2, <2>1 DEF At
<1> QED  BY <1>1, <1>2, <1>3 DEF Job, Kinds, Fate, Earned

(* cron_remove: what is stored has not rung and is being rung by nobody. *)
LEMMA RemoveKeepsJob ==
  ASSUME TypeOK, NEW j \in Jobs, Job(j), Remove(j)
  PROVE  Job(j)'
<1>1. /\ Stored(j) /\ next'[j] = Gone /\ removed'[j] = TRUE /\ kind' = kind /\ born' = born
      /\ rings' = rings /\ timer' = timer /\ beat' = beat /\ due' = due /\ lost' = lost
      /\ scanTime' = scanTime /\ now' = now
  BY DEF Remove, timerVars, beatVars, TypeOK
<1>2. At(j, "turn")' = At(j, "turn") /\ At(j, "mark")' = At(j, "mark") /\ ~Stored(j)'
  BY <1>1 DEF At, Stored
<1>3. Kinds(j)' /\ Fate(j)'
  BY <1>1, <1>2 DEF Job, Kinds, Fate, Stored
<1>4. /\ Count(born[j], now)' = Count(born[j], now)
      /\ Count(born[j], scanTime)' = Count(born[j], scanTime)
  BY <1>1 DEF Count
<1>5. Earned(j)'
  BY <1>1, <1>2, <1>4 DEF Job, Earned
<1>6. Gone # Never
  BY TimesAreTimes
<1> QED  BY <1>1, <1>3, <1>5, <1>6 DEF Job

(* The timer's claim: the row goes, and its turn begins. *)
LEMMA ClaimKeepsJob ==
  ASSUME TypeOK, NEW j \in Jobs, Job(j), TimerClaims(j), Claims(j), timer'[j] = "turn"
  PROVE  Job(j)'
<1>1. timer[j] = "reading" /\ kind[j] = "once" /\ Stored(j)
  BY JobTypes DEF TimerClaims, Claims, Job, Kinds
<1>2. /\ next'[j] = Gone /\ removed' = removed /\ kind' = kind /\ rings' = rings
      /\ beat' = beat /\ due' = due
  BY <1>1 DEF TimerClaims, Reserve, Claims, beatVars, TypeOK
<1>3. At(j, "turn")' = At(j, "turn") /\ ~Stored(j)'
  BY <1>2 DEF At, Stored
<1> QED  BY <1>1, <1>2, <1>3 DEF Job, Kinds, Fate, Earned

(* The timer's ring. *)
LEMMA TimerRingKeepsJob ==
  ASSUME TypeOK, NEW j \in Jobs, Job(j), TimerRings(j)
  PROVE  Job(j)'
<1>1. timer[j] = "turn" /\ kind[j] = "once"
  BY JobTypes DEF TimerRings, Job, Kinds
<1>2. /\ ~Stored(j) /\ ~removed[j] /\ rings[j] = 0 /\ ~At(j, "turn")
  BY <1>1 DEF Job, Fate
<1>3. /\ rings'[j] = 1 /\ timer'[j] = "off" /\ next' = next /\ removed' = removed
      /\ kind' = kind /\ beat' = beat /\ due' = due
  BY <1>2 DEF TimerRings, Ring, jobVars, beatVars, TypeOK
<1>4. At(j, "turn")' = At(j, "turn") /\ Stored(j)' = Stored(j)
  BY <1>3 DEF At, Stored
<1> QED  BY <1>1, <1>2, <1>3, <1>4 DEF Job, Kinds, Fate, Earned

-------------------------------------------------------------------------------
(* The heartbeat.                                                          *)

(* The job the heartbeat is at is one of its snapshot. *)
LEMMA AtIsDue ==
  ASSUME TypeOK, NEW j \in Jobs, NEW where, At(j, where)
  PROVE  j \in due /\ due # {} /\ j = Min(due)
BY MinIsAJob, JobTypes DEF At

(* eval_due: a job that is due has had its minute. *)
LEMMA ListKeepsJob ==
  ASSUME TypeOK, Scanning, NEW j \in Jobs, Job(j), ScanLists
  PROVE  Job(j)'
<1>1. /\ now' = now /\ kind' = kind /\ born' = born /\ next' = next /\ removed' = removed
      /\ rings' = rings /\ timer' = timer /\ lost' = lost /\ beat = "list" /\ due = {}
  BY DEF ScanLists, jobVars, timerVars, Scanning
<1>2. ~At(j, "turn") /\ ~At(j, "mark")
  BY <1>1 DEF At
<1>3. beat' \in {"fire", "idle"}
  BY DEF ScanLists
<1>4. ~At(j, "turn")' /\ ~At(j, "mark")'
  BY <1>3 DEF At
<1>5. CASE j \notin due'
  <2>1. now \in Nat
    BY JobTypes
  <2> QED  BY <1>1, <1>2, <1>4, <1>5, <2>1, Unmoved
<1>6. CASE j \in due'
  <2>1. IsDue(j, scanTime) /\ scanTime' = scanTime
    BY <1>1, <1>6 DEF ScanLists
  <2>2. /\ next[j] \in Times /\ next[j] <= scanTime /\ next[j] \in Nat
        /\ now \in Nat /\ scanTime \in Nat /\ born[j] \in Nat /\ rings[j] \in Nat
    BY <2>1, JobTypes, TimesAreTimes DEF IsDue
  <2>3. Stored(j) /\ next[j] # Never
    BY <2>2, TimesAreTimes DEF Stored
  <2>4. Kinds(j)'
    BY <1>1, <2>3 DEF Job, Kinds, Stored
  <2>5. Stored(j)' = Stored(j)
    BY <1>1 DEF Stored
  <2>6. Fate(j)'
    BY <1>1, <1>2, <1>4, <2>5 DEF Job, Fate
  <2>7. ASSUME kind[j] = "every", j \notin lost
        PROVE  born[j] < scanTime /\ rings[j] + 1 <= Count(born[j], scanTime)
    <3>1. /\ next[j] > born[j] /\ next[j] % Period = 0
          /\ rings[j] <= Count(born[j], next[j] - 1)
      BY <1>2, <2>3, <2>7 DEF Job, Earned
    <3>2. Count(born[j], next[j] - 1) + 1 <= Count(born[j], scanTime)
      BY <2>2, <3>1, OneMore
    <3>3. next[j] - 1 \in Nat /\ next[j] - 1 <= scanTime
      <4>1. next[j] \in Nat /\ born[j] \in Nat /\ next[j] > born[j]
        BY <2>2, <3>1
      <4> QED  BY <2>2, <4>1
    <3>4. Count(born[j], next[j] - 1) \in Nat /\ Count(born[j], scanTime) \in Nat
      BY <2>2, <3>3, CountGrows
    <3> QED  BY <2>2, <3>1, <3>2, <3>4
  <2>8. /\ Count(born[j], now)' = Count(born[j], now)
        /\ Count(born[j], scanTime)' = Count(born[j], scanTime)
        /\ Count(born[j], next[j] - 1)' = Count(born[j], next[j] - 1)
    BY <1>1, <2>1 DEF Count
  <2>9. Earned(j)'
    BY <1>1, <1>2, <1>4, <2>1, <2>5, <2>7, <2>8 DEF Job, Earned
  <2> QED  BY <1>1, <2>3, <2>4, <2>6, <2>9 DEF Job
<1> QED  BY <1>5, <1>6

(* The heartbeat's claim of a one-shot job, or the begin of a recurring one's
   turn. *)
LEMMA FireKeepsJob ==
  ASSUME TypeOK, NEW j \in Jobs, Job(j), j = Min(due), due # {}, beat = "fire",
         kind[j] = "every" \/ Claims(j), Reserve(j), beat' = "turn",
         UNCHANGED <<now, kind, born, removed, rings, timerVars, due, scanTime, lost>>
  PROVE  Job(j)'
<1>1. /\ now' = now /\ kind' = kind /\ born' = born /\ removed' = removed
      /\ rings' = rings /\ timer' = timer /\ lost' = lost /\ due' = due /\ scanTime' = scanTime
  BY DEF timerVars
<1>2. ~At(j, "mark") /\ ~At(j, "mark")' /\ ~At(j, "turn") /\ j \in due
  BY MinIsAJob, JobTypes DEF At
<1>3. CASE kind[j] = "every"
  <2>1. next' = next
    BY <1>3 DEF Reserve
  <2>2. /\ Count(born[j], now)' = Count(born[j], now)
        /\ Count(born[j], scanTime)' = Count(born[j], scanTime)
        /\ Count(born[j], next[j] - 1)' = Count(born[j], next[j] - 1)
        /\ Stored(j)' = Stored(j)
    BY <1>1, <2>1 DEF Count, Stored
  <2>3. Earned(j)'
    BY <1>1, <1>2, <2>1, <2>2 DEF Job, Earned
  <2> QED  BY <1>1, <1>3, <2>1, <2>3 DEF Job, Kinds, Fate
<1>4. CASE kind[j] = "once"
  <2>1. Stored(j) /\ next'[j] = Gone
    BY <1>4 DEF Claims, Reserve, TypeOK
  <2>2. ~Stored(j)'
    BY <2>1 DEF Stored
  <2> QED  BY <1>1, <1>2, <1>4, <2>1, <2>2 DEF Job, Kinds, Fate, Earned
<1>5. kind[j] # "unmade"
  BY <1>2 DEF Job, Kinds
<1> QED  BY <1>3, <1>4, <1>5, JobTypes

(* The heartbeat's ring. *)
LEMMA ScanRingKeepsJob ==
  ASSUME TypeOK, Scanning, NEW j \in Jobs, Job(j), j = Min(due), ScanRings
  PROVE  Job(j)'
<1>1. /\ beat = "turn" /\ due # {} /\ now' = now /\ kind' = kind /\ born' = born
      /\ removed' = removed /\ timer' = timer /\ lost' = lost /\ next' = next
      /\ scanTime' = scanTime /\ rings'[j] = rings[j] + 1
  BY DEF ScanRings, Ring, jobVars, timerVars, Scanning, TypeOK
<1>2. ~At(j, "mark") /\ At(j, "turn") /\ j \in due /\ kind[j] # "unmade"
  BY <1>1, AtIsDue DEF At, Job, Kinds
<1>3. Stored(j)' = Stored(j)
  BY <1>1 DEF Stored
<1>4. CASE kind[j] = "every"
  <2>1. beat' = "mark" /\ due' = due
    BY <1>4 DEF ScanRings
  <2>2. At(j, "mark")'
    BY <1>1, <2>1 DEF At
  <2>3. ASSUME j \notin lost
        PROVE  /\ rings[j] + 1 <= Count(born[j], now) /\ born[j] < scanTime
               /\ rings[j] + 1 <= Count(born[j], scanTime)
    <3>1. rings[j] + 1 <= Count(born[j], scanTime) /\ born[j] < scanTime
      BY <1>2, <1>4, <2>3 DEF Job, Earned
    <3>2. scanTime <= now /\ scanTime \in Nat /\ now \in Nat /\ born[j] \in Nat
          /\ rings[j] + 1 \in Nat
      BY JobTypes DEF Scanning
    <3> QED  BY <3>1, <3>2, EarnedLater
  <2>4. /\ Count(born[j], now)' = Count(born[j], now)
        /\ Count(born[j], scanTime)' = Count(born[j], scanTime)
    BY <1>1 DEF Count
  <2>5. Earned(j)'
    BY <1>1, <2>1, <2>2, <2>3, <2>4 DEF Earned
  <2> QED  BY <1>1, <1>4, <2>1, <2>5 DEF Job, Kinds, Fate
<1>5. CASE kind[j] = "once"
  <2>1. beat' = "fire"
    BY <1>1, <1>5 DEF ScanRings
  <2>2. ~At(j, "turn")'
    BY <2>1 DEF At
  <2>3. ~Stored(j) /\ ~removed[j] /\ timer[j] # "turn" /\ rings[j] = 0
    BY <1>2, <1>5 DEF Job, Fate
  <2> QED  BY <1>1, <1>3, <1>5, <2>2, <2>3 DEF Job, Kinds, Fate, Earned
<1> QED  BY <1>2, <1>4, <1>5, JobTypes

(* cron_mark_fired: the next time lies after the scan, up to which every ring
   has its minute. *)
LEMMA MarkKeepsJob ==
  ASSUME TypeOK, Scanning, NEW j \in Jobs, Job(j), j = Min(due), ScanMarks
  PROVE  Job(j)'
<1>1. /\ beat = "mark" /\ due # {} /\ now' = now /\ kind' = kind /\ born' = born
      /\ removed' = removed /\ timer' = timer /\ rings' = rings /\ kind[j] = "every"
      /\ beat' = "fire" /\ due' = due \ {j}
  BY DEF ScanMarks, timerVars, Scanning
<1>2. At(j, "mark") /\ j \in due /\ ~At(j, "mark")' /\ j \notin due'
  BY <1>1, AtIsDue DEF At
<1>3. CASE next' = next /\ lost' = lost \cup {j}
  BY <1>1, <1>2, <1>3 DEF Job, Kinds, Fate, Earned
<1>4. CASE next' = (IF Stored(j) THEN [next EXCEPT ![j] = NextFire(scanTime)] ELSE next)
           /\ lost' = lost
  <2>1. /\ scanTime \in Nat /\ born[j] \in Nat /\ rings[j] \in Nat /\ scanTime \in 0..MaxTime
        /\ next \in [Jobs -> Times \cup {Never, Gone}]
    BY JobTypes DEF TypeOK
  <2>2. CASE ~Stored(j)
    <3>1. ~Stored(j)' /\ next' = next
      BY <1>4, <2>2 DEF Stored
    <3>2. Count(born[j], now)' = Count(born[j], now)
      BY <1>1 DEF Count
    <3> QED  BY <1>1, <1>2, <1>4, <3>1, <3>2 DEF Job, Kinds, Fate, Earned
  <2>3. CASE Stored(j)
    <3>1. /\ next'[j] = NextFire(scanTime) /\ NextFire(scanTime) % Period = 0
          /\ NextFire(scanTime) > scanTime /\ NextFire(scanTime) \in Nat
          /\ NextFire(scanTime) # Never
      BY <1>4, <2>1, <2>3, TimesAreTimes
    <3>2. ASSUME j \notin lost
          PROVE  /\ rings[j] <= Count(born[j], NextFire(scanTime) - 1)
                 /\ born[j] < NextFire(scanTime)
      <4>1. born[j] < scanTime /\ rings[j] <= Count(born[j], scanTime)
        BY <1>1, <1>2, <3>2 DEF Job, Earned
      <4>2. NextFire(scanTime) - 1 \in Nat /\ scanTime <= NextFire(scanTime) - 1
        BY <2>1, <3>1
      <4>3. rings[j] <= Count(born[j], NextFire(scanTime) - 1)
        BY <2>1, <4>1, <4>2, EarnedLater
      <4> QED  BY <2>1, <3>1, <4>1, <4>3
    <3>3. /\ Count(born[j], now)' = Count(born[j], now)
          /\ Count(born[j], next[j] - 1)' = Count(born[j], NextFire(scanTime) - 1)
      BY <1>1, <3>1 DEF Count
    <3>4. Earned(j)'
      BY <1>1, <1>2, <1>4, <3>1, <3>2, <3>3 DEF Job, Earned
    <3> QED  BY <1>1, <1>2, <3>1, <3>4 DEF Job, Kinds, Fate
  <2> QED  BY <2>2, <2>3
<1> QED  BY <1>3, <1>4 DEF ScanMarks

-------------------------------------------------------------------------------
(* The steps, as all jobs see them.                                        *)

(* A new job is one that was not made. *)
LEMMA NewJobIsUnmade ==
  ASSUME Unmade # {}
  PROVE  NewJob \in Jobs /\ kind[NewJob] = "unmade"
<1>1. Unmade \in SUBSET Jobs
  BY DEF Unmade
<1>2. NewJob \in Unmade
  BY <1>1, MinIsAJob DEF NewJob
<1> QED  BY <1>2 DEF Unmade

(* Those that have no part in a step stay as they are. *)
LEMMA JobsKept ==
  ASSUME IInv, [Next]_vars, NEW j \in Jobs
  PROVE  Job(j)'
<1>1. TypeOK /\ Scanning /\ Job(j)
  BY DEF IInv
<1>2. /\ now \in Nat /\ scanTime \in Nat /\ due \subseteq Jobs /\ MaxTime \in Nat
      /\ timer \in [Jobs -> {"off", "arming", "asleep", "reading", "turn"}]
      /\ kind \in [Jobs -> {"unmade", "once", "every"}] /\ born \in [Jobs -> 0..MaxTime]
      /\ next \in [Jobs -> Times \cup {Never, Gone}]
      /\ rings \in [Jobs -> Nat] /\ removed \in [Jobs -> BOOLEAN]
  BY <1>1, JobTypes, TimesAreTimes DEF TypeOK
<1>3. \A where : At(j, where) => j \in due /\ j = Min(due)
  BY <1>1, AtIsDue
(* The heartbeat and time are elsewhere. *)
<1>4. ASSUME UNCHANGED <<now, beatVars, lost>>,
             kind'[j] = kind[j], born'[j] = born[j], next'[j] = next[j],
             rings'[j] = rings[j], removed'[j] = removed[j],
             timer'[j] = "turn" => timer[j] = "turn", timer[j] = "off" => timer'[j] = "off"
      PROVE  Job(j)'
  <2>1. \A where : At(j, where)' <=> At(j, where)
    BY <1>4 DEF At, beatVars
  <2> QED  BY <1>1, <1>2, <1>3, <1>4, <2>1, Unmoved DEF beatVars
<1>5. CASE ToolAdd \/ \E a \in Attempts : AddRow(a)
  <2>1. CASE Row(NewJob, "every", NextFire(now)) /\ Unmade # {}
    <3>1. UNCHANGED <<now, rings, timerVars, beatVars, lost>>
      BY <1>5 DEF ToolAdd, AddRow
    <3>2. CASE j = NewJob
      BY <1>1, <2>1, <3>1, <3>2, NewJobIsUnmade, RecurringJobBegins
    <3>3. CASE j # NewJob
      BY <1>2, <1>4, <2>1, <3>1, <3>3 DEF Row, timerVars
    <3> QED  BY <3>2, <3>3
  <2>2. CASE UNCHANGED jobVars
    BY <1>4, <1>5, <2>2 DEF jobVars, timerVars, ToolAdd, AddRow
  <2> QED  BY <1>5, <2>1, <2>2 DEF ToolAdd, AddRow
<1>6. CASE ToolDelay
  <2>1. PICK d \in Delays :
          /\ Row(NewJob, "once", now + d)
          /\ IF d <= Horizon
             THEN /\ timer' = [timer EXCEPT ![NewJob] = "arming"]
                  /\ alarm' = [alarm EXCEPT ![NewJob] = d]
             ELSE UNCHANGED timerVars
    BY <1>6 DEF ToolDelay
  <2>2. Unmade # {} /\ UNCHANGED <<now, rings, beatVars, lost>>
    BY <1>6 DEF ToolDelay
  <2>3. CASE j = NewJob
    <3>1. timer[j] = "off"
      BY <1>1, <2>2, <2>3, NewJobIsUnmade DEF Job, Kinds
    <3>2. timer'[j] # "turn"
      BY <1>2, <2>1, <3>1 DEF timerVars
    <3> QED  BY <1>1, <2>1, <2>2, <2>3, <3>2, NewJobIsUnmade, OneShotBegins
  <2>4. CASE j # NewJob
    <3>1. timer'[j] = timer[j]
      BY <1>2, <2>1, <2>4 DEF timerVars
    <3> QED  BY <1>2, <1>4, <2>1, <2>2, <2>4, <3>1 DEF Row
  <2> QED  BY <2>3, <2>4
<1>7. ASSUME NEW i \in Jobs, Timer(i)
      PROVE  Job(j)'
  <2>1. CASE ArmTimer(i)
    BY <1>2, <1>4, <2>1 DEF ArmTimer, jobVars
  <2>2. CASE TimerWakes(i)
    <3>1. timer'[j] = "turn" => timer[j] = "turn"
      BY <1>2, <2>2 DEF TimerWakes
    <3>2. timer[j] = "off" => timer'[j] = "off"
      BY <1>2, <2>2 DEF TimerWakes
    <3> QED  BY <1>4, <2>2, <3>1, <3>2 DEF TimerWakes, jobVars
  <2>3. CASE TimerClaims(i)
    <3>1. CASE i # j
      <4>1. timer'[j] = timer[j] /\ next'[j] = next[j]
        BY <1>2, <2>3, <3>1 DEF TimerClaims, Reserve
      <4> QED  BY <1>4, <2>3, <4>1 DEF TimerClaims
    <3>2. CASE i = j /\ timer'[j] = "turn"
      <4>1. Claims(j)
        BY <1>2, <2>3, <3>2 DEF TimerClaims
      <4> QED  BY <1>1, <2>3, <3>2, <4>1, ClaimKeepsJob
    <3>3. CASE i = j /\ timer'[j] # "turn"
      <4>1. next' = next /\ timer[j] = "reading"
        BY <1>2, <2>3, <3>3 DEF TimerClaims
      <4> QED  BY <1>4, <2>3, <3>3, <4>1 DEF TimerClaims
    <3> QED  BY <3>1, <3>2, <3>3
  <2>4. CASE TimerRings(i)
    <3>1. CASE i = j
      BY <1>1, <2>4, <3>1, TimerRingKeepsJob
    <3>2. CASE i # j
      BY <1>2, <1>4, <2>4, <3>2 DEF TimerRings, Ring, jobVars
    <3> QED  BY <3>1, <3>2
  <2> QED  BY <1>7, <2>1, <2>2, <2>3, <2>4 DEF Timer
<1>8. ASSUME NEW i \in Jobs, Remove(i)
      PROVE  Job(j)'
  <2>1. CASE i = j
    BY <1>1, <1>8, <2>1, RemoveKeepsJob
  <2>2. CASE i # j
    BY <1>2, <1>4, <1>8, <2>2 DEF Remove, timerVars
  <2> QED  BY <2>1, <2>2
<1>9. CASE \E a \in Attempts : LookUp(a) \/ CacheOk(a)
  BY <1>4, <1>9 DEF LookUp, CacheOk, jobVars, timerVars
<1>10. CASE UNCHANGED vars
  BY <1>4, <1>10 DEF vars, jobVars, timerVars
<1>11. CASE Heartbeat
  <2>1. CASE Tick \/ ScanEnds
    <3>1. /\ now' = now /\ due = {} /\ due' = {} /\ UNCHANGED <<jobVars, rings, timer, lost>>
      BY <1>1, <2>1 DEF Tick, ScanEnds, Scanning, timerVars
    <3>2. \A where : ~At(j, where) /\ ~At(j, where)'
      BY <3>1 DEF At
    <3> QED  BY <1>1, <1>2, <3>1, <3>2, Unmoved DEF jobVars
  <2>2. CASE ScanLists
    BY <1>1, <2>2, ListKeepsJob
  <2>3. CASE ScanFires
    <3>1. /\ due # {} /\ beat = "fire" /\ now' = now /\ scanTime' = scanTime
          /\ UNCHANGED <<now, kind, born, removed, rings, timerVars, scanTime, lost>>
      BY <2>3 DEF ScanFires
    <3>2. ~At(j, "mark") /\ ~At(j, "turn")
      BY <3>1 DEF At
    <3>3. CASE beat' = "turn"
      <4>1. /\ kind[Min(due)] = "every" \/ Claims(Min(due))
            /\ Reserve(Min(due)) /\ due' = due
        BY <2>3, <3>1, <3>3 DEF ScanFires
      <4>2. CASE j = Min(due)
        BY <1>1, <3>1, <3>3, <4>1, <4>2, FireKeepsJob
      <4>3. CASE j # Min(due)
        <5>1. next'[j] = next[j]
          BY <1>2, <4>1, <4>3 DEF Reserve
        <5>2. ~At(j, "mark")' /\ ~At(j, "turn")'
          BY <4>1, <4>3 DEF At
        <5> QED  BY <1>1, <1>2, <3>1, <3>2, <4>1, <5>1, <5>2, Unmoved DEF timerVars
      <4> QED  BY <4>2, <4>3
    <3>4. CASE beat' # "turn"
      <4>1. next' = next /\ due' \subseteq due /\ beat' = "fire"
        BY <2>3, <3>1, <3>4 DEF ScanFires
      <4>2. ~At(j, "mark")' /\ ~At(j, "turn")'
        BY <4>1 DEF At
      <4> QED  BY <1>1, <1>2, <3>1, <3>2, <4>1, <4>2, Unmoved DEF timerVars
    <3> QED  BY <3>3, <3>4
  <2>4. CASE ScanRings
    <3>1. CASE j = Min(due)
      BY <1>1, <2>4, <3>1, ScanRingKeepsJob
    <3>2. CASE j # Min(due)
      <4>1. /\ due' \subseteq due /\ rings'[j] = rings[j]
            /\ UNCHANGED <<now, jobVars, timer, scanTime, lost>>
        BY <1>2, <2>4, <3>2 DEF ScanRings, Ring, timerVars
      <4>2. ~At(j, "mark") /\ ~At(j, "turn")
        BY <3>2 DEF At
      <4>3. ~At(j, "mark")' /\ ~At(j, "turn")'
        BY <2>4, <3>2 DEF ScanRings, At
      <4> QED  BY <1>1, <1>2, <4>1, <4>2, <4>3, Unmoved DEF jobVars
    <3> QED  BY <3>1, <3>2
  <2>5. CASE ScanMarks
    <3>1. CASE j = Min(due)
      BY <1>1, <2>5, <3>1, MarkKeepsJob
    <3>2. CASE j # Min(due)
      <4>1. /\ due' \subseteq due /\ next'[j] = next[j] /\ (j \in lost => j \in lost')
            /\ UNCHANGED <<now, kind, born, removed, rings, timer, scanTime>> /\ beat' = "fire"
        BY <1>2, <2>5, <3>2 DEF ScanMarks, timerVars
      <4>2. ~At(j, "mark") /\ ~At(j, "turn")
        BY <3>2 DEF At
      <4>3. ~At(j, "mark")' /\ ~At(j, "turn")'
        BY <4>1 DEF At
      <4> QED  BY <1>1, <1>2, <4>1, <4>2, <4>3, Unmoved
    <3> QED  BY <3>1, <3>2
  <2> QED  BY <1>11, <2>1, <2>2, <2>3, <2>4, <2>5 DEF Heartbeat
<1>12. CASE Clock
  <2>1. now' = now + 1 /\ UNCHANGED <<jobVars, rings, timer, beatVars, lost>>
    BY <1>12 DEF Clock, timerVars
  <2>2. \A where : At(j, where)' <=> At(j, where)
    BY <2>1 DEF At, beatVars
  <2>3. now' \in Nat /\ now <= now'
    BY <1>2, <2>1
  <2> QED  BY <1>1, <1>3, <2>1, <2>2, <2>3, Unmoved DEF jobVars, beatVars
<1>13. CASE Crash
  <2>1. /\ UNCHANGED <<now, jobVars, rings>> /\ due' = {} /\ timer'[j] = "off"
        /\ j \in lost => j \in lost' /\ (At(j, "mark") => j \in lost')
    BY <1>13 DEF Crash, At
  <2>2. ~At(j, "mark")' /\ ~At(j, "turn")'
    BY <2>1 DEF At
  <2>3. At(j, "mark") => j \in lost'
    BY <1>13 DEF Crash, At
  <2> QED  BY <1>1, <1>2, <2>1, <2>2, <2>3, Unmoved DEF jobVars
<1> QED  BY <1>5, <1>6, <1>7, <1>8, <1>9, <1>10, <1>11, <1>12, <1>13 DEF Next, Request

-------------------------------------------------------------------------------
(* What is not of one job.                                                  *)

(* A job keeps the kind it was made with. *)
LEMMA KindsStay ==
  ASSUME TypeOK, [Next]_vars, NEW j \in Jobs, kind[j] # "unmade"
  PROVE  kind'[j] = kind[j]
<1>1. kind \in [Jobs -> {"unmade", "once", "every"}]
  BY DEF TypeOK
<1>2. ASSUME Unmade # {}, NEW k, NEW at, Row(NewJob, k, at)
      PROVE  kind'[j] = kind[j]
  BY <1>1, <1>2, NewJobIsUnmade DEF Row
<1>3. CASE ToolAdd \/ ToolDelay
  BY <1>2, <1>3 DEF ToolAdd, ToolDelay
<1>4. CASE Heartbeat \/ Clock \/ Crash
  BY <1>4 DEF Heartbeat, Tick, ScanLists, ScanFires, ScanRings, ScanMarks, ScanEnds,
              Clock, Crash, jobVars
<1>5. ASSUME NEW i \in Jobs, Timer(i) \/ Remove(i)
      PROVE  kind'[j] = kind[j]
  BY <1>5 DEF Timer, ArmTimer, TimerWakes, TimerClaims, TimerRings, Remove, jobVars
<1>6. ASSUME NEW a \in Attempts, Request(a)
      PROVE  kind'[j] = kind[j]
  BY <1>2, <1>6 DEF Request, LookUp, AddRow, CacheOk, jobVars
<1>7. CASE UNCHANGED vars
  BY <1>7 DEF vars, jobVars
<1> QED  BY <1>3, <1>4, <1>5, <1>6, <1>7 DEF Next

(* The snapshot is taken and fired by one tick. *)
LEMMA ScanningKept ==
  ASSUME IInv, [Next]_vars
  PROVE  Scanning'
<1>1. TypeOK /\ Scanning /\ \A j \in Jobs : Job(j)
  BY DEF IInv
<1>2. /\ now \in Nat /\ scanTime \in Nat /\ due \in SUBSET Jobs
      /\ beat \in {"idle", "list", "fire", "turn", "mark"}
      /\ kind \in [Jobs -> {"unmade", "once", "every"}]
  BY <1>1, TimesAreTimes DEF TypeOK
<1>3. due # {} => Min(due) \in due /\ Min(due) \in Jobs
  BY <1>2, MinIsAJob
<1>4. ASSUME UNCHANGED beatVars, now' = now \/ now' = now + 1
      PROVE  Scanning'
  <2>1. beat = "mark" => kind'[Min(due)] = kind[Min(due)]
    BY <1>1, <1>3, KindsStay DEF Scanning
  <2>2. scanTime <= now'
    BY <1>1, <1>2, <1>4 DEF Scanning
  <2> QED  BY <1>1, <1>4, <2>1, <2>2 DEF Scanning, beatVars
<1>5. CASE Heartbeat
  <2>1. now' = now
    BY <1>5 DEF Heartbeat, Tick, ScanLists, ScanFires, ScanRings, ScanMarks, ScanEnds
  <2>2. CASE Tick
    BY <1>1, <1>2, <2>2 DEF Tick, Scanning
  <2>3. CASE ScanLists
    BY <1>1, <1>2, <2>3 DEF ScanLists, Scanning
  <2>4. CASE ScanFires
    <3>1. scanTime' = scanTime /\ due # {} /\ beat' \in {"fire", "turn"}
          /\ (beat' = "turn" => due' # {})
      BY <2>4 DEF ScanFires
    <3> QED  BY <1>1, <1>2, <2>1, <3>1 DEF Scanning
  <2>5. CASE ScanRings
    <3>1. /\ scanTime' = scanTime /\ due # {} /\ kind' = kind
          /\ beat' = "fire" \/ (beat' = "mark" /\ due' = due /\ kind[Min(due)] # "once")
      BY <1>1, <2>5 DEF ScanRings, Scanning, jobVars
    <3>2. kind[Min(due)] # "unmade"
      BY <1>1, <1>3, <3>1 DEF Job, Kinds
    <3>3. kind[Min(due)] \in {"unmade", "once", "every"}
      BY <1>2, <1>3, <3>1
    <3> QED  BY <1>1, <1>2, <2>1, <3>1, <3>2, <3>3 DEF Scanning
  <2>6. CASE ScanMarks
    BY <1>1, <1>2, <2>6 DEF ScanMarks, Scanning
  <2>7. CASE ScanEnds
    BY <1>1, <1>2, <2>7 DEF ScanEnds, Scanning
  <2> QED  BY <1>5, <2>2, <2>3, <2>4, <2>5, <2>6, <2>7 DEF Heartbeat
<1>6. CASE Crash
  BY <1>2, <1>6 DEF Crash, Scanning
<1>7. CASE ToolAdd \/ ToolDelay \/ Clock
  BY <1>4, <1>7 DEF ToolAdd, ToolDelay, Clock
<1>8. ASSUME NEW i \in Jobs, Timer(i) \/ Remove(i)
      PROVE  Scanning'
  BY <1>4, <1>8 DEF Timer, ArmTimer, TimerWakes, TimerClaims, TimerRings, Remove
<1>9. ASSUME NEW a \in Attempts, Request(a)
      PROVE  Scanning'
  BY <1>4, <1>9 DEF Request, LookUp, AddRow, CacheOk
<1>10. CASE UNCHANGED vars
  BY <1>4, <1>10 DEF vars
<1> QED  BY <1>5, <1>6, <1>7, <1>8, <1>9, <1>10 DEF Next

(* An answer is forgotten when it is no longer fresh, and so is one that a
   crash takes with the cache. *)
LEMMA CachingKept ==
  ASSUME IInv, [Next]_vars
  PROVE  Caching'
<1>1. TypeOK /\ Caching
  BY DEF IInv
<1>2. /\ now \in Nat /\ Never \in Nat /\ Ttl \in Nat /\ now < Never
      /\ cache \in Nat /\ answered \in Nat
  <2>1. now \in 0..MaxTime
    BY <1>1 DEF TypeOK
  <2> QED  BY <1>1, <2>1, TimesAreTimes DEF TypeOK
<1>3. ASSUME now' = now, cache' = cache, answered' = answered
      PROVE  Caching'
  BY <1>1, <1>3 DEF Caching, Fresh
<1>4. ASSUME now' = now, answered' = answered, cache' = Never,
             cache # Never => ~Fresh(cache)
      PROVE  Caching'
  BY <1>1, <1>4 DEF Caching, Fresh
<1>5. CASE ToolAdd \/ ToolDelay
  BY <1>3, <1>5 DEF ToolAdd, ToolDelay, requestVars
<1>6. CASE Heartbeat
  <2>1. CASE Tick
    BY <1>3, <1>4, <2>1 DEF Tick
  <2>2. CASE ScanLists \/ ScanFires \/ ScanRings \/ ScanMarks \/ ScanEnds
    BY <1>3, <2>2 DEF ScanLists, ScanFires, ScanRings, ScanMarks, ScanEnds, requestVars
  <2> QED  BY <1>6, <2>1, <2>2 DEF Heartbeat
<1>7. CASE Clock
  <2>1. now' = now + 1 /\ cache' = cache /\ answered' = answered
    BY <1>7 DEF Clock, requestVars
  <2>2. CASE answered # Never
    <3>1. answered <= now /\ (cache = answered \/ ~(now - answered < Ttl))
      BY <1>1, <2>2 DEF Caching, Fresh
    <3>2. answered <= now + 1 /\ (~(now - answered < Ttl) => ~(now + 1 - answered < Ttl))
      BY <1>2, <3>1
    <3>3. (answered <= now)' /\ (cache = answered \/ ~Fresh(answered))'
      <4>1. (answered <= now)'
        BY <2>1, <3>2
      <4>2. ~Fresh(answered) => ~Fresh(answered)'
        BY <1>2, <2>1, <3>2 DEF Fresh
      <4>3. cache # answered => ~Fresh(answered)
        BY <3>1 DEF Fresh
      <4> QED  BY <2>1, <4>1, <4>2, <4>3
    <3>4. (cache \in {answered, Never})'
      BY <1>1, <2>1 DEF Caching
    <3> QED  BY <3>3, <3>4 DEF Caching
  <2>3. CASE answered = Never
    BY <1>1, <2>1, <2>3 DEF Caching
  <2> QED  BY <2>2, <2>3
<1>8. CASE Crash
  BY <1>8 DEF Crash, Caching
<1>9. ASSUME NEW i \in Jobs, Timer(i) \/ Remove(i)
      PROVE  Caching'
  BY <1>3, <1>9 DEF Timer, ArmTimer, TimerWakes, TimerClaims, TimerRings, Remove, requestVars
<1>10. ASSUME NEW a \in Attempts, Request(a)
       PROVE  Caching'
  <2>1. CASE LookUp(a)
    BY <1>3, <1>4, <2>1 DEF LookUp
  <2>2. CASE AddRow(a)
    BY <1>3, <2>2 DEF AddRow
  <2>3. CASE CacheOk(a)
    <3>1. now' = now /\ cache' = now /\ answered' = now
      BY <2>3 DEF CacheOk
    <3> QED  BY <1>2, <3>1 DEF Caching
  <2> QED  BY <1>10, <2>1, <2>2, <2>3 DEF Request
<1>11. CASE UNCHANGED vars
  BY <1>3, <1>11 DEF vars, requestVars
<1> QED  BY <1>5, <1>6, <1>7, <1>8, <1>9, <1>10, <1>11 DEF Next

(* Types, from what a step writes. *)
LEMMA TypesKept ==
  ASSUME IInv, [Next]_vars
  PROVE  TypeOK'
<1>1. TypeOK /\ Scanning
  BY DEF IInv
<1>2. /\ now \in 0..MaxTime /\ MaxTime \in Nat /\ 0 \in 0..MaxTime
      /\ now \in Times /\ Never \in Nat
      /\ NextFire(now) \in Times /\ NextFire(scanTime) \in Times /\ scanTime \in 0..MaxTime
  BY <1>1, TimesAreTimes DEF TypeOK
<1>3. due # {} => Min(due) \in Jobs
  BY <1>1, MinIsAJob DEF TypeOK
<1>4. \A j \in Jobs : rings[j] + 1 \in Nat /\ alarm[j] + now \in Nat
  <2>1. rings \in [Jobs -> Nat] /\ alarm \in [Jobs -> Nat] /\ now \in Nat
    BY <1>1, <1>2 DEF TypeOK
  <2> QED  BY <2>1
<1>5. ASSUME mishaps' = mishaps \/ Mishap
      PROVE  mishaps' \in 0..MaxMishaps
  BY <1>1, <1>5, TimesAreTimes DEF TypeOK, Mishap
<1>6. ASSUME Unmade # {}, NEW k \in {"once", "every"}, NEW at \in Times, Row(NewJob, k, at)
      PROVE  /\ kind' \in [Jobs -> {"unmade", "once", "every"}] /\ born' \in [Jobs -> 0..MaxTime]
             /\ next' \in [Jobs -> Times \cup {Never, Gone}] /\ removed' \in [Jobs -> BOOLEAN]
  BY <1>1, <1>2, <1>6, NewJobIsUnmade DEF Row, TypeOK
<1>7. ASSUME NEW j \in Jobs, Reserve(j)
      PROVE  next' \in [Jobs -> Times \cup {Never, Gone}]
  BY <1>1, <1>7 DEF Reserve, TypeOK
<1>8. CASE ToolAdd
  BY <1>1, <1>2, <1>6, <1>8 DEF ToolAdd, TypeOK, timerVars, beatVars, requestVars
<1>9. CASE ToolDelay
  <2>1. PICK d \in Delays :
          /\ Row(NewJob, "once", now + d)
          /\ IF d <= Horizon
             THEN /\ timer' = [timer EXCEPT ![NewJob] = "arming"]
                  /\ alarm' = [alarm EXCEPT ![NewJob] = d]
             ELSE UNCHANGED timerVars
    BY <1>9 DEF ToolDelay
  <2>2. Unmade # {} /\ UNCHANGED <<now, rings, beatVars, requestVars, mishaps, lost>>
    BY <1>9 DEF ToolDelay
  <2>3. now + d \in Times /\ d \in Nat
    BY <1>2, RemindersAssumption DEF Times
  <2>4. /\ timer' \in [Jobs -> {"off", "arming", "asleep", "reading", "turn"}]
        /\ alarm' \in [Jobs -> Nat]
    BY <1>1, <2>1, <2>3 DEF TypeOK, timerVars
  <2>5. /\ kind' \in [Jobs -> {"unmade", "once", "every"}] /\ born' \in [Jobs -> 0..MaxTime]
        /\ next' \in [Jobs -> Times \cup {Never, Gone}] /\ removed' \in [Jobs -> BOOLEAN]
    BY <1>6, <2>1, <2>2, <2>3
  <2> QED  BY <1>1, <2>2, <2>4, <2>5 DEF TypeOK, beatVars, requestVars
<1>10. CASE Heartbeat
  <2>1. CASE Tick
    BY <1>1, <1>2, <2>1 DEF Tick, TypeOK, jobVars, timerVars
  <2>2. CASE ScanLists
    BY <1>1, <1>2, <1>5, <2>2 DEF ScanLists, TypeOK, jobVars, timerVars, requestVars
  <2>3. CASE ScanFires
    <3>1. /\ UNCHANGED <<now, kind, born, removed, rings, timerVars, scanTime, requestVars, lost>>
          /\ next' = next \/ (due # {} /\ Reserve(Min(due)))
          /\ due' \subseteq due /\ beat' \in {"fire", "turn"}
          /\ mishaps' = mishaps \/ Mishap
      BY <2>3 DEF ScanFires
    <3>2. next' \in [Jobs -> Times \cup {Never, Gone}]
      BY <1>1, <1>3, <1>7, <3>1 DEF TypeOK
    <3>3. mishaps' \in 0..MaxMishaps
      BY <1>5, <3>1
    <3> QED  BY <1>1, <3>1, <3>2, <3>3 DEF TypeOK, timerVars, requestVars
  <2>4. CASE ScanRings
    <3>1. rings' \in [Jobs -> Nat]
      BY <1>1, <1>3, <1>4, <2>4 DEF ScanRings, Ring, Scanning, TypeOK
    <3> QED  BY <1>1, <2>4, <3>1 DEF ScanRings, TypeOK, jobVars, timerVars, requestVars
  <2>5. CASE ScanMarks
    <3>1. /\ UNCHANGED <<now, kind, born, removed, rings, timerVars, scanTime, requestVars>>
          /\ next' = next \/ next' = [next EXCEPT ![Min(due)] = NextFire(scanTime)]
          /\ lost' = lost \/ lost' = lost \cup {Min(due)}
          /\ due' \subseteq due /\ beat' = "fire" /\ due # {}
          /\ mishaps' = mishaps \/ Mishap
      BY <1>1, <2>5 DEF ScanMarks, Scanning
    <3>2. next' \in [Jobs -> Times \cup {Never, Gone}] /\ lost' \subseteq Jobs
      BY <1>1, <1>2, <1>3, <3>1 DEF TypeOK
    <3>3. mishaps' \in 0..MaxMishaps
      BY <1>5, <3>1
    <3> QED  BY <1>1, <3>1, <3>2, <3>3 DEF TypeOK, timerVars, requestVars
  <2>6. CASE ScanEnds
    BY <1>1, <1>2, <2>6 DEF ScanEnds, TypeOK, jobVars, timerVars, requestVars
  <2> QED  BY <1>10, <2>1, <2>2, <2>3, <2>4, <2>5, <2>6 DEF Heartbeat
<1>11. CASE Clock
  <2>1. now' \in 0..MaxTime
    BY <1>2, <1>11 DEF Clock
  <2> QED  BY <1>1, <1>11, <2>1 DEF Clock, TypeOK, jobVars, timerVars, beatVars, requestVars
<1>12. CASE Crash
  <2>1. mishaps' \in 0..MaxMishaps
    BY <1>5, <1>12 DEF Crash
  <2>2. lost' \subseteq Jobs
    BY <1>1, <1>12 DEF Crash, TypeOK
  <2>3. /\ timer' \in [Jobs -> {"off", "arming", "asleep", "reading", "turn"}]
        /\ alarm' \in [Jobs -> Nat]
        /\ pc' \in [Attempts -> {"unsent", "adding", "caching", "over"}]
    BY <1>12 DEF Crash
  <2> QED  BY <1>1, <1>2, <1>12, <2>1, <2>2, <2>3 DEF Crash, TypeOK, jobVars
<1>13. ASSUME NEW i \in Jobs, Timer(i) \/ Remove(i)
       PROVE  TypeOK'
  <2>1. CASE ArmTimer(i)
    <3>1. alarm' \in [Jobs -> Nat]
      BY <1>1, <1>4, <2>1 DEF ArmTimer, TypeOK
    <3> QED  BY <1>1, <2>1, <3>1 DEF ArmTimer, TypeOK, jobVars, beatVars, requestVars
  <2>2. CASE TimerWakes(i)
    <3>1. mishaps' \in 0..MaxMishaps
      BY <1>5, <2>2 DEF TimerWakes
    <3> QED  BY <1>1, <2>2, <3>1 DEF TimerWakes, TypeOK, jobVars, beatVars, requestVars
  <2>3. CASE TimerClaims(i)
    <3>1. mishaps' \in 0..MaxMishaps
      BY <1>5, <2>3 DEF TimerClaims
    <3>2. next' \in [Jobs -> Times \cup {Never, Gone}]
      BY <1>1, <1>7, <2>3 DEF TimerClaims, TypeOK
    <3> QED  BY <1>1, <2>3, <3>1, <3>2 DEF TimerClaims, TypeOK, beatVars, requestVars
  <2>4. CASE TimerRings(i)
    <3>1. rings' \in [Jobs -> Nat]
      BY <1>1, <1>4, <2>4 DEF TimerRings, Ring, TypeOK
    <3> QED  BY <1>1, <2>4, <3>1 DEF TimerRings, TypeOK, jobVars, beatVars, requestVars
  <2>5. CASE Remove(i)
    BY <1>1, <2>5 DEF Remove, TypeOK, timerVars, beatVars, requestVars
  <2> QED  BY <1>13, <2>1, <2>2, <2>3, <2>4, <2>5 DEF Timer
<1>14. ASSUME NEW a \in Attempts, Request(a)
       PROVE  TypeOK'
  <2>1. CASE LookUp(a)
    BY <1>1, <2>1 DEF LookUp, TypeOK, jobVars, timerVars, beatVars
  <2>2. CASE AddRow(a)
    <3>1. mishaps' \in 0..MaxMishaps
      BY <1>5, <2>2 DEF AddRow
    <3>2. /\ kind' \in [Jobs -> {"unmade", "once", "every"}] /\ born' \in [Jobs -> 0..MaxTime]
          /\ next' \in [Jobs -> Times \cup {Never, Gone}] /\ removed' \in [Jobs -> BOOLEAN]
      BY <1>1, <1>2, <1>6, <2>2 DEF AddRow, TypeOK, jobVars
    <3> QED  BY <1>1, <2>2, <3>1, <3>2 DEF AddRow, TypeOK, timerVars, beatVars
  <2>3. CASE CacheOk(a)
    BY <1>1, <1>2, <2>3 DEF CacheOk, TypeOK, jobVars, timerVars, beatVars
  <2> QED  BY <1>14, <2>1, <2>2, <2>3 DEF Request
<1>15. CASE UNCHANGED vars
  BY <1>1, <1>15 DEF vars, TypeOK, jobVars, timerVars, beatVars, requestVars
<1> QED  BY <1>8, <1>9, <1>10, <1>11, <1>12, <1>13, <1>14, <1>15 DEF Next

-------------------------------------------------------------------------------
LEMMA InitIsGood ==
  ASSUME Init
  PROVE  IInv
<1>1. /\ MaxTime \in Nat /\ MaxMishaps \in Nat /\ 0 \in 0..MaxTime
      /\ 0 \in 0..MaxMishaps \/ MaxMishaps # 0
      /\ MaxMishaps \in 0..MaxMishaps
  BY TimesAreTimes
<1>2. TypeOK
  BY <1>1 DEF Init, TypeOK
<1>3. Scanning /\ Caching
  BY DEF Init, Scanning, Caching
<1>4. \A j \in Jobs : Job(j)
  BY DEF Init, Job, Kinds, Fate, Earned
<1> QED  BY <1>2, <1>3, <1>4 DEF IInv

LEMMA StepsAreGood ==
  ASSUME IInv, [Next]_vars
  PROVE  IInv'
<1>1. (\A j \in Jobs : Job(j))'
  BY JobsKept
<1> QED  BY <1>1, TypesKept, ScanningKept, CachingKept DEF IInv

(* What the invariant says of the four parts of RemindersInv. *)
LEMMA GoodIsSafe ==
  ASSUME IInv
  PROVE  RemindersInv
<1>1. TypeOK /\ \A j \in Jobs : Job(j)
  BY DEF IInv
<1>2. OneFate
  <2> SUFFICES ASSUME NEW j \in Jobs, kind[j] = "once"
               PROVE  rings[j] + (IF removed[j] THEN 1 ELSE 0) <= 1
    BY DEF OneFate
  <2>1. /\ rings[j] \in Nat /\ rings[j] <= 1
        /\ removed[j] => rings[j] = 0
    BY <1>1, JobTypes DEF Job, Fate
  <2> QED  BY <2>1
<1>3. EveryHasNext
  BY <1>1 DEF Job, EveryHasNext
<1>4. RingsAreEarned
  BY <1>1 DEF Job, Earned, Count, RingsAreEarned
<1> QED  BY <1>1, <1>2, <1>3, <1>4 DEF RemindersInv

(* proactive.rs, scheduler.rs: in every state, of any number of jobs, a
   one-shot job has one fate, a recurring one a next time, and it rings no more
   often than minutes it matches have come. *)
THEOREM RemindersAreSafe == Spec => []RemindersInv
<1>1. Init => IInv
  BY InitIsGood
<1>2. IInv /\ [Next]_vars => IInv'
  BY StepsAreGood
<1>3. IInv => RemindersInv
  BY GoodIsSafe
<1> QED  BY <1>1, <1>2, <1>3, PTL DEF Spec

(* A request that goes on to the handler has asked the cache in this step. *)
LEMMA HandlerIsReachedByLookUp ==
  ASSUME IInv, [Next]_vars, NEW a \in Attempts, pc[a] = "unsent", pc'[a] = "adding"
  PROVE  answered = Never \/ ~(now - answered < Ttl)
<1>1. pc \in [Attempts -> {"unsent", "adding", "caching", "over"}]
  BY DEF IInv, TypeOK
<1>2. pc' # pc
  OBVIOUS
<1>3. CASE \E b \in Attempts : Request(b)
  <2>1. PICK b \in Attempts : Request(b)
    BY <1>3
  <2>2. LookUp(a)
    BY <1>1, <2>1 DEF Request, LookUp, AddRow, CacheOk
  <2>3. ~(cache # Never /\ Fresh(cache))
    BY <1>1, <2>2 DEF LookUp
  <2> QED  BY <2>3 DEF IInv, Caching, Fresh
<1>4. CASE Crash
  BY <1>1, <1>4 DEF Crash
<1>5. CASE Heartbeat
  BY <1>2, <1>5 DEF Heartbeat, Tick, ScanLists, ScanFires, ScanRings, ScanMarks, ScanEnds,
                    requestVars
<1>6. CASE ToolAdd \/ ToolDelay \/ Clock \/ UNCHANGED vars
  BY <1>2, <1>6 DEF ToolAdd, ToolDelay, Clock, vars, requestVars
<1>7. CASE \E j \in Jobs : Timer(j) \/ Remove(j)
  BY <1>2, <1>7 DEF Timer, ArmTimer, TimerWakes, TimerClaims, TimerRings, Remove, requestVars
<1> QED  BY <1>3, <1>4, <1>5, <1>6, <1>7 DEF Next

(* dispatch.rs, state.rs: a request reaches the handler only when the key has
   no answer of this daemon that is younger than the TTL. *)
THEOREM RetriesAreSafe == Spec => RetriesCreateOnce
<1> DEFINE Once == \A a \in Attempts : pc[a] = "unsent" /\ pc'[a] = "adding" =>
                     answered = Never \/ ~(now - answered < Ttl)
<1>1. Init => IInv
  BY InitIsGood
<1>2. IInv /\ [Next]_vars => IInv'
  BY StepsAreGood
<1>3. IInv /\ [Next]_vars => [Once]_vars
  BY HandlerIsReachedByLookUp
<1> QED  BY <1>1, <1>2, <1>3, PTL DEF Spec, RetriesCreateOnce
===============================================================================
