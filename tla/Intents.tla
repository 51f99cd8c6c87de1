-------------------------------- MODULE Intents --------------------------------
(***************************************************************************)
(* Standing intents: reminders a user tied to a topic, raised when a       *)
(* message touches it (oc-server/src/session.rs, intent_scan; oc-core's    *)
(* intent_prefilter and allow_fire; oc-store's standing_intent rows).      *)
(*                                                                         *)
(* One conversation scans at a time.  A scan reads the rows, decides and   *)
(* records each reminder it raises; the record may fail, which is logged.  *)
(***************************************************************************)
EXTENDS Integers, FiniteSets, SequencesExt

CONSTANTS
  Reminders,   \* the intents, in the order they were created (a sequence)
  Cooldown,    \* the row's cooldown_secs
  Budget,      \* the row's budget
  Expiry,      \* Expiry[i]: seconds from creation to expiry_at; 0 for one without,
               \* less than 0 for one that expired before it was created
  PerTurn,     \* intent_defaults.max_per_turn
  LastTime     \* bound: the clock

All == ToSet(Reminders)
NotYet == -1

(* The store's rows, the clock, and for the properties what was raised when, and how
   many of its records were lost. *)
Start == [now |-> 0,
          rows |-> [i \in All |-> [fired |-> 0, last |-> NotYet]],
          raised |-> <<>>,
          lost |-> [i \in All |-> 0]]

Tick(st) == [st EXCEPT !.now = @ + 1]

(* Slips of allow_fire: the budget or the cooldown is off by one. *)
OneMoreAllowed(row, now, expiry) ==
  /\ ~(expiry > 0 /\ now > expiry)
  /\ row.fired <= Budget
  /\ row.last = NotYet \/ now - row.last >= Cooldown
CoolsTooSoon(row, now, expiry) ==
  /\ ~(expiry > 0 /\ now > expiry)
  /\ row.fired < Budget
  /\ row.last = NotYet \/ now - row.last >= Cooldown - 1

(* allow_fire: not past its time, budget left, and cooled down; 0 never expires. *)
AllowFire(row, now, expiry) ==
  /\ ~(expiry > 0 /\ now > expiry)
  /\ row.fired < Budget
  /\ row.last = NotYet \/ now - row.last >= Cooldown

(* A slip: an intent that expired before it was created counts as one that never does. *)
ClampedExpiry(i) == IF Expiry[i] < 0 THEN 0 ELSE Expiry[i]

(* intent_scan's own check comes before allow_fire. *)
ExpiryOf(i) == Expiry[i]
Raises(st, i) == ExpiryOf(i) >= 0 /\ AllowFire(st.rows[i], st.now, ExpiryOf(i))

(* intent_scan for a message that touches the topics "hits": the intents in the order of
   their creation, at most PerTurn of them; "failing" are those whose record fails. *)
Scan(st, hits, failing) ==
  FoldLeft(LAMBDA acc, i :
             IF i \notin hits \/ acc.out >= PerTurn \/ ~Raises(st, i) THEN acc
             ELSE [out |-> acc.out + 1,
                   st |-> [acc.st EXCEPT
                             !.raised = Append(@, <<i, st.now>>),
                             !.rows[i] = IF i \in failing THEN @
                                         ELSE [fired |-> @.fired + 1, last |-> st.now],
                             !.lost[i] = IF i \in failing THEN @ + 1 ELSE @]],
           [out |-> 0, st |-> st], Reminders).st

-------------------------------------------------------------------------------
(* oc-core/src/proactive.rs:3 anti-nagging: however often its topic comes up, an intent is
   raised no more often than its budget and the records that were lost allow, never
   again before it has cooled down since a raise that was recorded, never past its
   expiry, and one that expired at birth never. *)
NoNagging(st) ==
  \A i \in All :
    LET times == SelectSeq(st.raised, LAMBDA r : r[1] = i)
    IN  /\ Len(times) <= Budget + st.lost[i]
        /\ st.lost[i] = 0 => \A n \in 1..(Len(times) - 1) : times[n + 1][2] - times[n][2] >= Cooldown
        /\ \A n \in DOMAIN times : Expiry[i] >= 0 /\ (Expiry[i] > 0 => times[n][2] <= Expiry[i])

===============================================================================
