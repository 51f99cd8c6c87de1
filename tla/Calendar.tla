-------------------------------- MODULE Calendar --------------------------------
(***************************************************************************)
(* When a cron expression fires next (oc-core/src/proactive/cron.rs).      *)
(*                                                                         *)
(* An instant is a number of seconds.  What the wall clock of the          *)
(* expression's time zone shows in a minute is given by Wall, so that a    *)
(* zone whose clock jumps is one more function.                            *)
(***************************************************************************)
EXTENDS Integers, FiniteSets, SequencesExt

CONSTANTS
  Wall,        \* Wall[m]: the wall clock in minute m, a record of its five fields
  PerMinute,   \* seconds in a minute
  Horizon,     \* how many seconds next_fire looks ahead (366 days)
  Width        \* the values of an integer of the parser (2^8: u8)

-------------------------------------------------------------------------------
(* One part of a field, "lo-hi/step"; "*" is the whole range of the field and a
   single value stands for itself.                                          *)

(* A slip: the upper bound is left out. *)
BelowTop(v, hi) == v < hi
UpToTop(v, hi) == v <= hi

(* parse_part's loop: v starts at lo and grows by step while it is not past hi.
   The addition wraps at Width, as it does in a release build. *)
PartValues(part) ==
  LET v(k) == (part.lo + k * part.step) % Width
  IN  {v(k) : k \in {n \in 0..(Width - 1) : \A j \in 0..n : UpToTop(v(j), part.hi)}}

PartIsValid(part, min, max) ==
  part.step > 0 /\ min <= part.lo /\ part.hi <= max /\ part.lo <= part.hi

(* parse_field: one part that is not valid refuses the field (here the empty set,
   which no field yields). *)
FieldValues(parts, min, max) ==
  IF \A p \in ToSet(parts) : PartIsValid(p, min, max)
  THEN UNION {PartValues(p) : p \in ToSet(parts)} ELSE {}

-------------------------------------------------------------------------------
(* A schedule is the set of values of each field, and whether the two fields
   that name days are exactly "*".                                           *)

(* Slips: both day fields must agree; either will do. *)
DayAnd(s, w) == w.dom \in s.doms /\ w.dow \in s.dows
DayOr(s, w) == w.dom \in s.doms \/ w.dow \in s.dows

DayMatches(s, w) ==
  CASE s.domStar /\ s.dowStar -> TRUE
    [] s.domStar /\ ~s.dowStar -> w.dow \in s.dows
    [] ~s.domStar /\ s.dowStar -> w.dom \in s.doms
    [] OTHER -> w.dom \in s.doms \/ w.dow \in s.dows

Matches(s, w) == /\ w.minute \in s.minutes /\ w.hour \in s.hours /\ w.month \in s.months
                 /\ DayMatches(s, w)

Never == -1

(* A slip: the minute under way counts. *)
ThisMinute(after) == after \div PerMinute
NextMinute(after) == (after \div PerMinute) + 1

(* next_fire: from the next full minute on, minute by minute up to the horizon. *)
NextFire(s, after) ==
  LET seen == {m \in NextMinute(after)..((after + Horizon) \div PerMinute) :
                 m \in DOMAIN Wall /\ Matches(s, Wall[m])}
  IN  IF seen = {} THEN Never
      ELSE PerMinute * (CHOOSE m \in seen : \A n \in seen : m <= n)

-------------------------------------------------------------------------------
(* cron.rs:4-5: a part stands for every step-th value of its range.  Steps so large
   that the addition leaves the width of the parser's integers are left out. *)
PartsAreRanges(lo, hi, step) ==
  LET part == [lo |-> lo, hi |-> hi, step |-> step]
  IN  hi + step < Width =>
        PartValues(part) = {v \in lo..hi : \E k \in 0..hi : v = lo + k * step}

(* The instants at which a job rings that is asked for its next time whenever it has
   rung, starting at the second "from", until the last minute. *)
Ringing(s, from, last) ==
  LET step(rung, i) ==
        LET at == IF rung.next = Never THEN Never ELSE NextFire(s, rung.next)
        IN  [next |-> at, all |-> IF at = Never \/ at > last THEN rung.all ELSE Append(rung.all, at)]
  IN  FoldLeft(step, [next |-> from, all |-> <<>>], [i \in 1..Cardinality(DOMAIN Wall) |-> i]).all

(* The days crontab(5) means: if both fields name days either is enough, otherwise
   the one that does. *)
CrontabDay(s, w) ==
  /\ s.domStar => (s.dowStar \/ w.dow \in s.dows)
  /\ ~s.domStar => (w.dom \in s.doms \/ (~s.dowStar /\ w.dow \in s.dows))

(* A recurring job rings in every minute its expression names and in no other, once in
   each, whatever second it was created in and however often its next time is asked
   for: none is skipped, the minute it rang in does not ring again.  (This holds as
   long as two such minutes are never further apart than the horizon.) *)
RingsAsWritten(s, from, last) ==
  LET wanted == {m \in ((from \div PerMinute) + 1)..(last \div PerMinute) :
                   /\ Wall[m].minute \in s.minutes /\ Wall[m].hour \in s.hours
                   /\ Wall[m].month \in s.months /\ CrontabDay(s, Wall[m])}
      rung == Ringing(s, from, last)
  IN  /\ {rung[i] : i \in DOMAIN rung} = {PerMinute * m : m \in wanted}
      /\ Len(rung) = Cardinality(wanted)
===============================================================================
