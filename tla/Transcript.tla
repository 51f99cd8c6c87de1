------------------------------- MODULE Transcript -------------------------------
(***************************************************************************)
(* The transcript of one session and those who write it: the session's     *)
(* run, /reset, and the compactions that replace old entries by a summary  *)
(* (oc-store/src/ops.rs; oc-server/src/session.rs and dispatch.rs).        *)
(*                                                                         *)
(* Entries are only appended.  reset_at says where the context begins; a   *)
(* reset moves it to the end, a compaction to the last entry it has        *)
(* summarised.  A compaction works on a snapshot: while the model writes   *)
(* the summary, runs append, and the user may reset.  Each transaction of  *)
(* the store is a step.                                                    *)
(*                                                                         *)
(* An entry is known by its position, which is its seq in the session.     *)
(***************************************************************************)
EXTENDS Naturals, Sequences, FiniteSetsExt

CONSTANTS
  Tasks,        \* compactions that may be under way at the same time
  KeepRecent,   \* entries a compaction leaves alone (6 in the code)
  MaxHistory,   \* max_history_entries: what load_transcript returns at most
  MaxEntries    \* bound: entries of the session

ASSUME TranscriptAssumption ==
  /\ KeepRecent \in Nat /\ MaxHistory \in Nat \ {0} /\ MaxEntries \in Nat

VARIABLES
  entries,  \* the session's entries
  resetAt,  \* session.reset_at
  flushed,  \* entries offered to the episodic memory
  run,      \* the session's run: "idle", "working" or "calling" a tool
  reset,    \* a /reset: "no", or "flushed" when it is about to move reset_at
  guard,    \* compact_in_flight
  task,     \* where each compaction stands
  older,    \* the entries each one summarises
  cleared   \* the last entry the user has reset away

taskVars == <<guard, task, older>>
vars == <<entries, resetAt, flushed, run, reset, taskVars, cleared>>

(* A call's answer names the call; a summary knows what it stands for,
   through the summaries it has taken in as well. *)
Row(kind, of) == [kind |-> kind, of |-> of]
Kind(s) == entries[s].kind
IsCall(s) == Kind(s) \in {"call", "silent call"}
Answers(s, c) == Kind(s) = "result" /\ entries[s].of = {c}
Covers(s) == IF Kind(s) = "summary" THEN {s} \cup entries[s].of ELSE {s}

Init == /\ entries = <<>> /\ resetAt = 0 /\ flushed = {} /\ cleared = 0
        /\ run = "idle" /\ reset = "no"
        /\ guard = FALSE
        /\ task = [t \in Tasks |-> "idle"]
        /\ older = [t \in Tasks |-> {}]

Last == Len(entries)

(* append_entry: the next seq is the largest one plus one. *)
Store(row) == Last < MaxEntries /\ entries' = Append(entries, row)

(* load_transcript: the newest MaxHistory entries after reset_at. *)
Loaded == {s \in (resetAt + 1)..Last : s + MaxHistory > Last}

-------------------------------------------------------------------------------
(* The run: what its driver persists, in the driver's order.  It may end at
   any point, and only then does the session start the next one. *)

StartRun ==
  /\ run = "idle"
  /\ Store(Row("user", {}))
  /\ run' = "working"
  /\ UNCHANGED <<resetAt, flushed, reset, taskVars, cleared>>

CallTool ==
  /\ run = "working"
  /\ \E kind \in {"call", "silent call"} : Store(Row(kind, {}))
  /\ run' = "calling"
  /\ UNCHANGED <<resetAt, flushed, reset, taskVars, cleared>>

ToolAnswers ==
  /\ run = "calling"
  /\ Store(Row("result", {Max({c \in 1..Last : IsCall(c)})}))
  /\ run' = "working"
  /\ UNCHANGED <<resetAt, flushed, reset, taskVars, cleared>>

(* The reply, if there is one, is stored and the run reported Completed: an
   automatic compaction is spawned, which runs beside the session's next turn. *)
CompleteRun ==
  /\ run = "working"
  /\ Store(Row("reply", {})) \/ UNCHANGED entries
  /\ run' = "idle"
  /\ \/ \E t \in Tasks : task[t] = "idle" /\ task' = [task EXCEPT ![t] = "spawned"]
     \/ UNCHANGED task
  /\ UNCHANGED <<resetAt, flushed, reset, guard, older, cleared>>

(* Failed, aborted, timed out or found going in circles. *)
EndRun ==
  /\ run \in {"working", "calling"}
  /\ run' = "idle"
  /\ UNCHANGED <<entries, resetAt, flushed, reset, taskVars, cleared>>

-------------------------------------------------------------------------------
(* /reset, handled by the connection's dispatcher and not by the session.   *)

FlushBeforeReset ==
  /\ reset = "no"
  /\ flushed' = flushed \cup Loaded
  /\ reset' = "flushed"
  /\ UNCHANGED <<entries, resetAt, run, taskVars, cleared>>

(* A slip: the context is taken to begin at reset_at, not after it. *)
NextSeq == Last + 1

(* reset_session: the largest seq there is. *)
LargestSeq == Last

ResetSession ==
  /\ reset = "flushed"
  /\ resetAt' = LargestSeq
  /\ cleared' = Last
  /\ reset' = "no"
  /\ UNCHANGED <<entries, flushed, run, taskVars>>

-------------------------------------------------------------------------------
(* Compaction: by /compact, or automatically after a run.                   *)

Becomes(t, phase) == task' = [task EXCEPT ![t] = phase]

(* A slip: the automatic compaction only looks at the watermark. *)
NobodyElse == TRUE

GuardIsFree == ~guard

(* /compact from an idle task; an automatic one may find the transcript below
   the watermark, which depends on how long the entries are. *)
TakeGuard(t) ==
  /\ task[t] \in {"idle", "spawned"}
  /\ GuardIsFree
  /\ guard' = TRUE
  /\ Becomes(t, "loading")
  /\ UNCHANGED <<entries, resetAt, flushed, run, reset, older, cleared>>

Skip(t) ==
  /\ task[t] = "spawned"
  /\ Becomes(t, "idle")
  /\ UNCHANGED <<entries, resetAt, flushed, run, reset, guard, older, cleared>>

(* compact_core: too short a history is left alone; otherwise what will be
   summarised is first offered to the memory. *)
TooShort(t) ==
  /\ task[t] = "loading"
  /\ Cardinality(Loaded) <= KeepRecent + 1
  /\ Becomes(t, "releasing")
  /\ UNCHANGED <<entries, resetAt, flushed, run, reset, guard, older, cleared>>

Older == {s \in Loaded : s + KeepRecent <= Last}

Load(t) ==
  /\ task[t] = "loading"
  /\ Cardinality(Loaded) > KeepRecent + 1
  /\ older' = [older EXCEPT ![t] = Older]
  /\ flushed' = flushed \cup Older
  /\ Becomes(t, "summarizing")
  /\ UNCHANGED <<entries, resetAt, run, reset, guard, cleared>>

(* The model fails, says nothing or takes too long; or the write fails. *)
Fail(t) ==
  /\ task[t] = "summarizing"
  /\ Becomes(t, "releasing")
  /\ UNCHANGED <<entries, resetAt, flushed, run, reset, guard, older, cleared>>

(* Slips: the boundary is taken when the summary is written, not when it was
   begun; reset_at may go back. *)
BoundaryNow(t) == Last - KeepRecent
MoveBack(upTo) == upTo

(* up_to_seq, from the snapshot. *)
Boundary(t) == Max(older[t])

(* MAX(COALESCE(reset_at, 0), up_to_seq). *)
MoveOn(upTo) == Max({resetAt, upTo})

(* compact_with_summary, in one transaction. *)
WriteSummary(t) ==
  /\ task[t] = "summarizing"
  /\ Store(Row("summary", UNION {Covers(s) : s \in older[t]}))
  /\ resetAt' = MoveOn(Boundary(t))
  /\ Becomes(t, "releasing")
  /\ UNCHANGED <<flushed, run, reset, guard, older, cleared>>

(* A slip: the early return for a short history forgets the guard. *)
KeepGuardUnlessOlder(t) == guard' = (older[t] = {})

DropGuard(t) == guard' = FALSE

Release(t) ==
  /\ task[t] = "releasing"
  /\ DropGuard(t)
  /\ Becomes(t, "idle")
  /\ older' = [older EXCEPT ![t] = {}]
  /\ UNCHANGED <<entries, resetAt, flushed, run, reset, cleared>>

Compaction(t) == TakeGuard(t) \/ Skip(t) \/ TooShort(t) \/ Load(t) \/ Fail(t)
                 \/ WriteSummary(t) \/ Release(t)

-------------------------------------------------------------------------------
(* load_history: what a run starting now is given of the entries.           *)

(* The token budget keeps the newest entries; how many depends on their
   length, one is always kept. *)
WithinBudget == {Loaded \ (1..s) : s \in resetAt..(Last - 1)} \cup {Loaded}

(* A slip: it is enough that the call is somewhere in the history. *)
OrphanIfCallGone(h, s) == Kind(s) = "result" /\ entries[s].of \cap h = {}

(* drop_orphan_tool_msgs: a result stays if its call is just before it. *)
Orphan(h, s) ==
  Kind(s) = "result" /\ ~(s - 1 \in h /\ IsCall(s - 1) /\ Answers(s, s - 1))
WithoutOrphans(h) == {s \in h : ~Orphan(h, s)}

(* A call stays a call if its result comes next; one that loses its call and
   says nothing goes. *)
NextIn(h, s) == {n \in h : n > s /\ \A m \in h : m > s => m >= n}
Answered(h, c) == IsCall(c) /\ \E n \in NextIn(h, c) : Answers(n, c)
Repaired(h) ==
  LET kept == WithoutOrphans(h)
  IN  {s \in kept : Kind(s) = "silent call" => Answered(kept, s)}
CallsIn(h) == {c \in WithoutOrphans(h) : Answered(WithoutOrphans(h), c)}

-------------------------------------------------------------------------------
Next == StartRun \/ CallTool \/ ToolAnswers \/ CompleteRun \/ EndRun
        \/ FlushBeforeReset \/ ResetSession
        \/ \E t \in Tasks : Compaction(t)

Spec == Init /\ [][Next]_vars

-------------------------------------------------------------------------------
(* Properties.                                                              *)

Kinds == {"user", "call", "silent call", "result", "reply", "summary"}
Positions == 1..MaxEntries
Phases == {"idle", "spawned", "loading", "summarizing", "releasing"}

(* Every variable has its type, and the context begins inside the session. *)
TypeOK ==
  /\ entries \in Seq([kind : Kinds, of : SUBSET Positions]) /\ Last <= MaxEntries
  /\ resetAt \in 0..Last /\ cleared \in 0..Last
  /\ flushed \subseteq 1..Last
  /\ run \in {"idle", "working", "calling"} /\ reset \in {"no", "flushed"}
  /\ guard \in BOOLEAN
  /\ task \in [Tasks -> Phases] /\ older \in [Tasks -> SUBSET (1..Last)]

InContext == (resetAt + 1)..Last

(* ops.rs:141: what the user has reset away is never in the context again,
   also when a compaction that began before the reset ends after it. *)
ResetStays == cleared <= resetAt

(* An entry leaves the context only by the user's reset or into a summary that
   is in the context itself, however writes, resets and compactions cross.
   (MaxHistory must not be exceeded.) *)
NothingVanishes ==
  \A s \in (cleared + 1)..resetAt :
    \E m \in InContext : Kind(m) = "summary" /\ s \in entries[m].of

(* compact_in_flight: nothing is in the context twice, in two summaries or in
   a summary and as itself. *)
NothingTwice ==
  \A s, r \in InContext : s # r => Covers(s) \cap Covers(r) = {}

(* drop_orphan_tool_msgs: whatever part of the transcript a run is given, every
   result in it directly follows its call and every call its result directly;
   providers refuse anything else. *)
PromptIsWellFormed ==
  \A h \in WithinBudget :
    /\ \A s \in Repaired(h) : Kind(s) = "result" =>
         \E c \in CallsIn(h) : c \in Repaired(h) /\ s \in NextIn(Repaired(h), c)
                               /\ Answers(s, c)
    /\ \A c \in CallsIn(h) : \E s \in NextIn(Repaired(h), c) : Answers(s, c)

(* session.rs:892: compact_in_flight is set exactly as long as one compaction is
   under way, whichever way each of them ends; a guard that stayed behind would
   refuse every later one. *)
UnderWay == {t \in Tasks : task[t] \in {"loading", "summarizing", "releasing"}}
GuardIsHeld == Cardinality(UnderWay) = (IF guard THEN 1 ELSE 0)

(* The context is what was said since the reset, in a form a provider takes. *)
TranscriptInv ==
  TypeOK /\ ResetStays /\ NothingVanishes /\ NothingTwice /\ GuardIsHeld

(* Not kept by the code by a summary under way (see README).
   dispatch.rs:229: after a reset the conversation before it enters no prompt
   any more, so that no summary in the context stands for a part of it. *)
ResetIsForgotten ==
  \A m \in InContext : \A s \in Covers(m) : s > cleared
===============================================================================
