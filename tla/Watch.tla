---------------------------------- MODULE Watch ----------------------------------
(***************************************************************************)
(* The watch over a run that gives no sign of life (oc-server: diag.rs,    *)
(* session.rs HealthScan and Compact; oc-core: queue.rs diagnose).         *)
(*                                                                         *)
(* One session: its actor, which handles one command at a time, the run it *)
(* has started, and the session's slot of the diagnostic registry, which   *)
(* both write.  The slot holds one activity: the run, or a compaction.     *)
(* Each operator maps the state before a step to the state after it.       *)
(***************************************************************************)
EXTENDS Integers

CONSTANTS
  WarnAfter, AbortAfter,   \* warn_secs, abort_min_secs
  None                     \* absence of a value

Fresh ==
  [now |-> 0,
   active |-> None,       \* the actor's active run: when it started
   cancelled |-> FALSE,   \* its cancel token
   compacting |-> FALSE,  \* the actor is inside compact_session
   slot |-> None,         \* DiagState.active: [started, last]
   moved |-> None,        \* for what is promised: when the run last did something,
   disturbed |-> FALSE,   \*   whether a compaction took the slot since it started,
   verdicts |-> {}]       \*   and the scans it went through: [quiet, age, clear, killed]

(* SessionDiag::run_start; last_delta_at is set by the first progress. *)
StartRun(s) ==
  [s EXCEPT !.active = s.now, !.moved = s.now, !.cancelled = FALSE, !.disturbed = FALSE,
            !.slot = [started |-> s.now, last |-> None]]

(* delta_seen and progress: a delta of any sort came, or a tool round began or ended.  They
   write into whatever the slot holds.  A slip: text alone is a sign of life. *)
TextAlone(s, kind) == IF s.slot = None \/ kind # "text" THEN s ELSE [s EXCEPT !.slot.last = s.now]
SignOfLife(s, kind) == IF s.slot = None THEN s ELSE [s EXCEPT !.slot.last = s.now]
Progress(s, kind) == [SignOfLife(s, kind) EXCEPT !.moved = s.now]

(* SessionCmd::Finished and run_done. *)
Finished(s) == [s EXCEPT !.active = None, !.moved = None, !.slot = None, !.cancelled = FALSE]

(* SessionCmd::Compact: compact_start takes the slot, whatever it holds ... *)
CompactStart(s) == [s EXCEPT !.compacting = TRUE, !.slot = [started |-> s.now, last |-> None],
                             !.disturbed = TRUE]
(* ... and compact_done clears it. *)
CompactDone(s) == [s EXCEPT !.compacting = FALSE, !.slot = None]

(* idle_secs, or the run's age where there is no sign of progress.  Slips: its age always; a slot
   without a sign of progress is not idle. *)
Age(s) == s.now - s.active
NotIdle(s) == IF s.slot = None \/ s.slot.last = None THEN 0 ELSE s.now - s.slot.last
Idle(s) == IF s.slot = None \/ s.slot.last = None THEN s.now - s.active ELSE s.now - s.slot.last

(* diagnose: slow is not stuck.  A slip: one threshold will do. *)
PastOne(idle) == idle >= AbortAfter \/ idle >= 3 * WarnAfter
IsStuck(idle) == idle >= WarnAfter /\ idle >= AbortAfter /\ idle >= 3 * WarnAfter

(* SessionCmd::HealthScan *)
HealthScan(s) ==
  IF s.active = None THEN s
  ELSE [s EXCEPT !.cancelled = @ \/ IsStuck(Idle(s)),
                 !.verdicts = @ \cup {[quiet |-> s.now - s.moved, age |-> s.now - s.active,
                                       clear |-> ~s.disturbed, killed |-> IsStuck(Idle(s))]}]

Tick(s) == [s EXCEPT !.now = @ + 1]

-------------------------------------------------------------------------------
(* session.rs:433 "判据是「多久没动静」，不是「跑了多久」：合法的长任务会连续调工具、流式吐参数，
   按总时长判会把正在干活的 run 掐掉": a scan cancels every run that has done nothing for as long
   as both thresholds ask, and no other one, however long it has run and whatever it is doing.
   A compaction on request takes the run's slot and leaves none (diag.rs:245, :261): from then on
   the silent run is still stopped, but so is one that works, once it is as old as that. *)
KillsTheSilent(s) ==
  LET long(n) == n >= AbortAfter /\ n >= 3 * WarnAfter
  IN  \A v \in s.verdicts : /\ long(v.quiet) => v.killed
                            /\ v.killed => long(IF v.clear THEN v.quiet ELSE v.age)
===============================================================================
