---------------------------- MODULE Storage_proofs ----------------------------
(***************************************************************************)
(* Proofs about what is stored: Transcript; Store, the file it is in; and  *)
(* Memory, the rows of long-term memory and MEMORY.md.  The three modules  *)
(* have nothing in common; each part is about one.                         *)
(*                                                                         *)
(* What TranscriptInv says holds of any number of compactions, and         *)
(* PromptIsWellFormed of every transcript.  Only NothingVanishes needs     *)
(* that load_transcript cuts nothing off, that is, that the session has at *)
(* most MaxHistory entries.  StoreInv holds of every number of servers,    *)
(* callers, calls, steps and starts.  PreferencesAreKept and FactsAreKept  *)
(* hold of any number of sessions, facts, turns, consolidations and        *)
(* decisions of one consolidation.                                         *)
(***************************************************************************)
EXTENDS Transcript, Store, Memory,
        FiniteSetTheorems, SequenceTheorems, WellFoundedInduction, TLAPS

-------------------------------------------------------------------------------
(* The transcript: its inductive invariant.                                *)

RowRecords == [kind : Kinds, of : SUBSET Positions]

SummariesLookBack ==
  \A m \in 1..Last : Kind(m) = "summary" => entries[m].of \subseteq 1..(m - 1)

CallIsThere == run = "calling" => \E c \in 1..Last : IsCall(c)

OneCompaction ==
  /\ \A t, u \in UnderWay : t = u
  /\ guard <=> UnderWay # {}

(* What a compaction that waits for its summary knows of the session: its
   entries are summarised by nobody else, and there is none between them that
   it leaves out. *)
SnapshotOf(t) ==
  task[t] = "summarizing" =>
    /\ older[t] # {}
    /\ \A s \in older[t], r \in InContext : r \notin older[t] => Covers(s) \cap Covers(r) = {}
    /\ Last <= MaxHistory => \A s \in InContext, b \in older[t] : s <= b => s \in older[t]

IInv ==
  /\ TypeOK
  /\ SummariesLookBack /\ CallIsThere /\ OneCompaction
  /\ ResetStays /\ NothingTwice
  /\ \A t \in Tasks : SnapshotOf(t)
  /\ Last <= MaxHistory => NothingVanishes


-------------------------------------------------------------------------------
(* The operators the model is built from.                                  *)

(* The largest member of a set of numbers that are bounded is one of them and
   none is larger. *)
LEMMA MaxIsLargest ==
  ASSUME NEW n \in Nat, NEW S \in SUBSET (0..n), S # {}
  PROVE  Max(S) \in S /\ \A x \in S : x <= Max(S)
<1> DEFINE D == {k \in Nat : \E x \in S : x + k = n}
<1>1. D \subseteq Nat
  OBVIOUS
<1>2. D # {}
  <2>1. PICK x \in S : TRUE
    OBVIOUS
  <2>2. x \in 0..n
    BY <2>1
  <2>3. n - x \in Nat /\ x + (n - x) = n
    BY <2>2
  <2> QED  BY <2>1, <2>3
<1>3. PICK k \in D : \A j \in D : ~(<<j, k>> \in OpToRel(<, Nat))
  <2> HIDE DEF D
  <2> QED  BY <1>1, <1>2, NatLessThanWellFounded, WFMin
<1>4. PICK x \in S : x + k = n
  BY <1>3
<1>5. k \in Nat /\ x \in 0..n
  BY <1>1, <1>3, <1>4
<1>6. \A y \in S : x >= y
  <2> TAKE y \in S
  <2>1. y \in 0..n
    OBVIOUS
  <2>2. n - y \in D
    BY <2>1
  <2>3. ~(n - y < k)
    BY <1>3, <1>5, <2>1, <2>2 DEF OpToRel
  <2> QED  BY <1>4, <1>5, <2>1, <2>3
<1>7. /\ Max(S) \in S
      /\ \A y \in S : Max(S) >= y
  BY <1>4, <1>6 DEF Max
<1>8. \A y \in S : y \in Nat
  OBVIOUS
<1> QED  BY <1>7, <1>8

(* Whatever part of the transcript it is given, the repair leaves every result
   directly after its call and every call directly before its result. *)
LEMMA RepairPairs ==
  ASSUME NEW h \in SUBSET Nat
  PROVE  /\ \A s \in Repaired(h) : Kind(s) = "result" =>
              \E c \in CallsIn(h) : c \in Repaired(h) /\ s \in NextIn(Repaired(h), c)
                                    /\ Answers(s, c)
         /\ \A c \in CallsIn(h) : \E s \in NextIn(Repaired(h), c) : Answers(s, c)
<1> DEFINE kept == WithoutOrphans(h)
<1>1. kept \subseteq h /\ Repaired(h) \subseteq kept
  BY DEF Repaired, WithoutOrphans
<1>2. \A c, s : s \in NextIn(kept, c) /\ s \in Repaired(h) => s \in NextIn(Repaired(h), c)
  BY <1>1 DEF NextIn
<1>3. ASSUME NEW s \in Repaired(h), Kind(s) = "result"
      PROVE  \E c \in CallsIn(h) : c \in Repaired(h) /\ s \in NextIn(Repaired(h), c)
                                   /\ Answers(s, c)
  <2>1. s \in kept /\ s \in Nat
    BY <1>1
  <2>2. s - 1 \in h /\ IsCall(s - 1) /\ Answers(s, s - 1)
    BY <1>3, <2>1 DEF WithoutOrphans, Orphan
  <2>3. s - 1 \in Nat
    BY <2>2
  <2>4. s - 1 \in kept
    BY <2>2 DEF WithoutOrphans, Orphan, IsCall
  <2>5. s \in NextIn(kept, s - 1)
    <3>1. kept \in SUBSET Nat
      BY <1>1
    <3> HIDE DEF kept
    <3> QED  BY <2>1, <2>3, <3>1 DEF NextIn
  <2>6. Answered(kept, s - 1)
    BY <2>2, <2>5 DEF Answered
  <2>7. s - 1 \in CallsIn(h) /\ s - 1 \in Repaired(h)
    BY <2>4, <2>6 DEF CallsIn, Repaired
  <2> QED  BY <1>2, <2>2, <2>5, <2>7
<1>4. ASSUME NEW c \in CallsIn(h)
      PROVE  \E s \in NextIn(Repaired(h), c) : Answers(s, c)
  <2>1. PICK s \in NextIn(kept, c) : Answers(s, c)
    BY DEF CallsIn, Answered
  <2>2. s \in kept /\ Kind(s) = "result"
    BY <2>1 DEF NextIn, Answers
  <2>3. s \in Repaired(h)
    BY <2>2 DEF Repaired
  <2> QED  BY <1>2, <2>1, <2>3
<1> QED  BY <1>3, <1>4

(* What is loaded, and of it what is to be summarised, are positions. *)
LEMMA LoadedArePositions ==
  ASSUME TypeOK
  PROVE  /\ Last \in Nat /\ resetAt \in Nat /\ resetAt <= Last
         /\ Loaded \subseteq InContext /\ InContext \subseteq 1..Last
         /\ Older \subseteq Loaded
         /\ \A h \in WithinBudget : h \in SUBSET Nat
<1>1. /\ Last \in Nat /\ resetAt \in 0..Last
  BY DEF TypeOK, Last
<1>2. Loaded \subseteq InContext /\ InContext \subseteq 1..Last /\ Older \subseteq Loaded
  BY <1>1 DEF Loaded, InContext, Older
<1>3. \A h \in WithinBudget : h \subseteq Loaded
  BY DEF WithinBudget
<1>4. 1..Last \subseteq Nat
  BY <1>1
<1>5. \A h \in WithinBudget : h \in SUBSET Nat
  BY <1>2, <1>3, <1>4
<1>6. resetAt \in Nat /\ resetAt <= Last
  BY <1>1
<1> QED  BY <1>1, <1>2, <1>5, <1>6

(* drop_orphan_tool_msgs: every prompt is well-formed. *)
LEMMA PromptsAreWellFormed ==
  ASSUME TypeOK
  PROVE  PromptIsWellFormed
BY LoadedArePositions, RepairPairs DEF PromptIsWellFormed

-------------------------------------------------------------------------------
(* Appending.                                                              *)

Spans(s, row) == IF row.kind = "summary" THEN {s} \cup row.of ELSE {s}

(* append_entry: what was there stays as it was. *)
LEMMA Appends ==
  ASSUME TypeOK, NEW row \in RowRecords, Store(row)
  PROVE  /\ Last \in Nat /\ Last' = Last + 1 /\ Last' <= MaxEntries
         /\ entries' \in Seq(RowRecords)
         /\ \A s \in 1..Last : entries'[s] = entries[s]
         /\ entries'[Last + 1] = row
         /\ \A s \in 1..Last : Kind(s)' = Kind(s) /\ Covers(s)' = Covers(s)
         /\ \A n : n = Last + 1 => Kind(n)' = row.kind /\ Covers(n)' = Spans(n, row)
<1>1. entries \in Seq(RowRecords) /\ Last \in Nat /\ MaxEntries \in Nat
  BY TranscriptAssumption DEF TypeOK, Last, RowRecords
<1>2. entries' = Append(entries, row) /\ Last < MaxEntries
  BY DEF Store
<1>3. /\ entries' \in Seq(RowRecords)
      /\ Last' = Last + 1
      /\ \A s \in 1..Last : entries'[s] = entries[s]
      /\ entries'[Last + 1] = row
  BY <1>1, <1>2, AppendProperties DEF Last
<1>4. \A s \in 1..Last : Kind(s)' = Kind(s)
  BY <1>3 DEF Kind
<1>5. \A s \in 1..Last : Covers(s)' = Covers(s)
  BY <1>3, <1>4 DEF Covers
<1>6. \A n : n = Last + 1 => Kind(n)' = row.kind
  BY <1>3 DEF Kind
<1>7. \A n : n = Last + 1 => Covers(n)' = Spans(n, row)
  BY <1>3, <1>6 DEF Covers, Spans
<1>8. Last' <= MaxEntries
  BY <1>1, <1>2, <1>3
<1> QED  BY <1>1, <1>3, <1>4, <1>5, <1>6, <1>7, <1>8

(* An entry stands for itself and for earlier ones. *)
LEMMA CoversLookBack ==
  ASSUME TypeOK, SummariesLookBack, NEW s \in 1..Last
  PROVE  s \in Covers(s) /\ Covers(s) \subseteq 1..s
<1>1. Last \in Nat /\ s \in Nat
  BY DEF TypeOK, Last
<1>2. s \in Covers(s)
  BY DEF Covers
<1>3. Covers(s) \subseteq 1..s
  BY <1>1 DEF Covers, SummariesLookBack, Kind
<1> QED  BY <1>2, <1>3

(* What the context is about: the parts of IInv that see only the entries, the
   two boundaries and the compactions' snapshots. *)
Context ==
  /\ SummariesLookBack /\ ResetStays /\ NothingTwice
  /\ \A t \in Tasks : SnapshotOf(t)
  /\ Last <= MaxHistory => NothingVanishes

(* An entry of a run keeps out of everybody's way. *)
LEMMA AppendingKeepsContext ==
  ASSUME TypeOK, Context, NEW row \in RowRecords, row.kind # "summary", Store(row),
         UNCHANGED <<resetAt, cleared, older>>,
         \A t \in Tasks : task'[t] = "summarizing" => task[t] = "summarizing"
  PROVE  Context'
<1> USE DEF Context
<1>0. PICK n \in Nat : n = Last + 1
  BY DEF TypeOK, Last
<1>1. /\ Last \in Nat /\ resetAt \in 0..Last /\ Last' = n /\ n = Last + 1
      /\ \A t \in Tasks : older[t] \subseteq 1..Last
      /\ \A s \in 1..Last : entries'[s] = entries[s]
      /\ \A s \in 1..Last : Kind(s)' = Kind(s) /\ Covers(s)' = Covers(s)
      /\ Kind(n)' = row.kind /\ Covers(n)' = {n}
  BY <1>0, Appends DEF TypeOK, Spans
<1>2. InContext' = InContext \cup {n} /\ InContext \subseteq 1..Last
  BY <1>1 DEF InContext
<1>3. \A s \in 1..Last : Covers(s)' \cap Covers(n)' = {}
  <2> TAKE s \in 1..Last
  <2>1. Covers(s) \subseteq 1..s
    BY CoversLookBack
  <2> QED  BY <1>1, <2>1
<1>4. SummariesLookBack'
  <2> SUFFICES ASSUME NEW m \in 1..Last', Kind(m)' = "summary"
               PROVE  entries'[m].of \subseteq 1..(m - 1)
    BY DEF SummariesLookBack
  <2>1. m # n
    BY <1>1
  <2>2. m \in 1..Last
    BY <1>1, <2>1
  <2> QED  BY <1>1, <2>2 DEF SummariesLookBack
<1>5. NothingTwice'
  <2> SUFFICES ASSUME NEW s \in InContext', NEW r \in InContext', s # r
               PROVE  Covers(s)' \cap Covers(r)' = {}
    BY DEF NothingTwice
  <2>1. CASE s \in InContext /\ r \in InContext
    BY <1>1, <1>2, <2>1 DEF NothingTwice
  <2>2. CASE s \in InContext /\ r = n
    BY <1>2, <1>3, <2>2
  <2>3. CASE s = n /\ r \in InContext
    BY <1>2, <1>3, <2>3
  <2> QED  BY <1>2, <2>1, <2>2, <2>3
<1>6. ASSUME NEW t \in Tasks
      PROVE  SnapshotOf(t)'
  <2> SUFFICES ASSUME task'[t] = "summarizing"
               PROVE  SnapshotOf(t)'
    BY DEF SnapshotOf
  <2>1. /\ older[t] # {} /\ older'[t] = older[t] /\ older[t] \subseteq 1..Last
        /\ \A s \in older[t], r \in InContext : r \notin older[t] => Covers(s) \cap Covers(r) = {}
        /\ Last <= MaxHistory => \A s \in InContext, b \in older[t] : s <= b => s \in older[t]
    BY <1>1 DEF SnapshotOf
  <2>2. ASSUME NEW s \in older[t], NEW r \in InContext', r \notin older[t]
        PROVE  Covers(s)' \cap Covers(r)' = {}
    BY <1>1, <1>2, <1>3, <2>1, <2>2
  <2>3. ASSUME Last' <= MaxHistory, NEW s \in InContext', NEW b \in older[t], s <= b
        PROVE  s \in older[t]
    <3>1. Last <= MaxHistory
      BY <1>1, <2>3, TranscriptAssumption
    <3>2. s \in InContext
      BY <1>1, <1>2, <2>1, <2>3
    <3> QED  BY <2>1, <2>3, <3>1, <3>2
  <2> QED  BY <2>1, <2>2, <2>3 DEF SnapshotOf
<1>7. (Last <= MaxHistory => NothingVanishes)'
  <2> SUFFICES ASSUME Last' <= MaxHistory, NEW s \in (cleared + 1)..resetAt
               PROVE  \E m \in InContext' : Kind(m)' = "summary" /\ s \in entries'[m].of
    BY DEF NothingVanishes
  <2>1. NothingVanishes
    BY <1>1, TranscriptAssumption
  <2>2. PICK m \in InContext : Kind(m) = "summary" /\ s \in entries[m].of
    BY <2>1 DEF NothingVanishes
  <2> QED  BY <1>1, <1>2, <2>2
<1>8. ResetStays'
  BY DEF ResetStays
<1> QED  BY <1>4, <1>5, <1>6, <1>7, <1>8

(* A step that neither writes nor moves a boundary nor takes a snapshot. *)
LEMMA ContextUntouched ==
  ASSUME Context, UNCHANGED <<entries, resetAt, cleared, older>>,
         \A t \in Tasks : task'[t] = "summarizing" => task[t] = "summarizing"
  PROVE  Context'
<1>1. Last' = Last /\ InContext' = InContext
  BY DEF Last, InContext
<1>2. \A s : Kind(s)' = Kind(s) /\ Covers(s)' = Covers(s)
  BY DEF Kind, Covers
<1>3. SummariesLookBack' /\ ResetStays' /\ NothingTwice'
  BY <1>1, <1>2 DEF Context, SummariesLookBack, ResetStays, NothingTwice
<1>4. \A t \in Tasks : SnapshotOf(t)'
  BY <1>1, <1>2 DEF Context, SnapshotOf
<1>5. (Last <= MaxHistory => NothingVanishes)'
  BY <1>1, <1>2 DEF Context, NothingVanishes
<1> QED  BY <1>3, <1>4, <1>5 DEF Context

-------------------------------------------------------------------------------
(* Reset and compaction.                                                   *)

(* reset_session: nothing is in the context, and nothing has left it but by
   the reset. *)
LEMMA ResetKeepsContext ==
  ASSUME TypeOK, Context, ResetSession
  PROVE  Context'
<1>1. /\ Last \in Nat /\ Last' = Last /\ resetAt' = Last /\ cleared' = Last
      /\ entries' = entries /\ task' = task /\ older' = older
  BY DEF TypeOK, Last, ResetSession, LargestSeq, taskVars
<1>2. InContext' = {} /\ (cleared' + 1)..resetAt' = {}
  BY <1>1 DEF InContext
<1>3. SummariesLookBack'
  BY <1>1 DEF Context, SummariesLookBack, Kind
<1>4. ResetStays' /\ NothingTwice'
  BY <1>1, <1>2 DEF ResetStays, NothingTwice
<1>5. \A t \in Tasks : SnapshotOf(t)'
  BY <1>1, <1>2 DEF Context, SnapshotOf
<1>6. NothingVanishes'
  BY <1>2 DEF NothingVanishes
<1> QED  BY <1>3, <1>4, <1>5, <1>6 DEF Context

(* compact_core goes on only if there is something to summarise: of more than
   KeepRecent + 1 entries not all are among the last KeepRecent. *)
LEMMA SomethingIsOlder ==
  ASSUME TypeOK, Cardinality(Loaded) > KeepRecent + 1
  PROVE  Older # {}
<1> DEFINE recent == (Last + 1 - KeepRecent)..Last
<1>1. Last \in Nat /\ KeepRecent \in Nat
  BY TranscriptAssumption DEF TypeOK, Last
<1>2. Last + 1 - KeepRecent \in Int /\ Last \in Int
  BY <1>1
<1>3. /\ IsFiniteSet(recent)
      /\ Cardinality(recent) = IF Last + 1 - KeepRecent > Last THEN 0
                               ELSE Last - (Last + 1 - KeepRecent) + 1
  BY <1>2, FS_Interval
<1>4. Cardinality(recent) <= KeepRecent
  <2> HIDE DEF recent
  <2> QED  BY <1>1, <1>3
<1>5. SUFFICES ASSUME Older = {}
               PROVE  FALSE
  OBVIOUS
<1>6. Loaded \in SUBSET recent
  BY <1>1, <1>5, LoadedArePositions DEF Older, InContext
<1>7. Cardinality(Loaded) <= Cardinality(recent) /\ IsFiniteSet(Loaded)
  <2> HIDE DEF recent
  <2> QED  BY <1>3, <1>6, FS_Subset
<1>8. Cardinality(Loaded) \in Nat /\ Cardinality(recent) \in Nat
  <2> HIDE DEF recent
  <2> QED  BY <1>3, <1>7, FS_CardinalityType
<1> QED
  <2> HIDE DEF recent
  <2> QED  BY <1>1, <1>4, <1>7, <1>8

(* compact_core: the snapshot. *)
LEMMA LoadKeepsContext ==
  ASSUME TypeOK, Context, NEW t \in Tasks, Load(t)
  PROVE  Context'
<1>1. /\ entries' = entries /\ resetAt' = resetAt /\ cleared' = cleared
      /\ task' = [task EXCEPT ![t] = "summarizing"]
      /\ older' = [older EXCEPT ![t] = Older]
      /\ Older # {}
      /\ task \in [Tasks -> Phases] /\ older \in [Tasks -> SUBSET (1..Last)]
  BY SomethingIsOlder DEF Load, Becomes, TypeOK
<1>2. /\ Last' = Last /\ InContext' = InContext
      /\ \A s : Kind(s)' = Kind(s) /\ Covers(s)' = Covers(s)
  BY <1>1 DEF Last, InContext, Kind, Covers
<1>3. SummariesLookBack' /\ ResetStays' /\ NothingTwice'
  BY <1>1, <1>2 DEF Context, SummariesLookBack, ResetStays, NothingTwice
<1>4. ASSUME NEW u \in Tasks
      PROVE  SnapshotOf(u)'
  <2>1. CASE u # t
    BY <1>1, <1>2, <2>1 DEF Context, SnapshotOf
  <2>2. CASE u = t
    <3>1. Older \subseteq InContext
      BY LoadedArePositions
    <3>2. \A s \in Older, r \in InContext : r \notin Older => Covers(s) \cap Covers(r) = {}
      BY <3>1 DEF Context, NothingTwice
    <3>3. ASSUME Last <= MaxHistory, NEW s \in InContext, NEW b \in Older, s <= b
          PROVE  s \in Older
      <4>1. /\ Last \in Nat /\ KeepRecent \in Nat /\ MaxHistory \in Nat
            /\ resetAt \in Nat /\ b \in 1..Last /\ s \in 1..Last
        BY <3>1, LoadedArePositions, TranscriptAssumption
      <4>2. b + KeepRecent <= Last
        BY DEF Older
      <4>3. s \in Loaded
        BY <3>3, <4>1 DEF Loaded, InContext
      <4> QED  BY <3>3, <4>1, <4>2, <4>3 DEF Older
    <3>4. older'[t] = Older
      BY <1>1
    <3> QED  BY <1>1, <1>2, <2>2, <3>2, <3>3, <3>4 DEF SnapshotOf
  <2> QED  BY <2>1, <2>2
<1>5. (Last <= MaxHistory => NothingVanishes)'
  BY <1>1, <1>2 DEF Context, NothingVanishes
<1> QED  BY <1>3, <1>4, <1>5 DEF Context

(* Where the context begins after a compaction: at the last entry summarised,
   or further on if a reset came first. *)
LEMMA BoundaryMovesOn ==
  ASSUME TypeOK, NEW t \in Tasks, older[t] # {}
  PROVE  /\ Boundary(t) \in older[t] /\ \A s \in older[t] : s <= Boundary(t)
         /\ MoveOn(Boundary(t)) \in 0..Last
         /\ resetAt <= MoveOn(Boundary(t)) /\ Boundary(t) <= MoveOn(Boundary(t))
         /\ MoveOn(Boundary(t)) \in {resetAt, Boundary(t)}
<1>1. Last \in Nat /\ resetAt \in 0..Last /\ older[t] \subseteq 1..Last
  BY DEF TypeOK, Last
<1>2. older[t] \in SUBSET (0..Last)
  BY <1>1
<1>3. Boundary(t) \in older[t] /\ \A s \in older[t] : s <= Boundary(t)
  BY <1>1, <1>2, MaxIsLargest DEF Boundary
<1>4. Boundary(t) \in 0..Last
  BY <1>2, <1>3
<1>5. {resetAt, Boundary(t)} \in SUBSET (0..Last) /\ {resetAt, Boundary(t)} # {}
  BY <1>1, <1>4
<1>6. /\ MoveOn(Boundary(t)) \in {resetAt, Boundary(t)}
      /\ \A x \in {resetAt, Boundary(t)} : x <= MoveOn(Boundary(t))
  BY <1>1, <1>5, MaxIsLargest DEF MoveOn
<1> QED  BY <1>3, <1>5, <1>6

(* What compact_with_summary stores. *)
LEMMA SummaryIsARow ==
  ASSUME TypeOK, SummariesLookBack, NEW t \in Tasks, NEW row,
         row = Row("summary", UNION {Covers(s) : s \in older[t]})
  PROVE  /\ row \in RowRecords /\ row.kind = "summary" /\ row.of \subseteq 1..Last
         /\ \A s \in older[t] : Covers(s) \subseteq row.of
<1>1. Last \in Nat /\ Last <= MaxEntries /\ MaxEntries \in Nat /\ older[t] \subseteq 1..Last
  BY TranscriptAssumption DEF TypeOK, Last
<1>2. \A s \in older[t] : Covers(s) \subseteq 1..Last
  <2> TAKE s \in older[t]
  <2>1. s \in 1..Last
    BY <1>1
  <2>2. Covers(s) \subseteq 1..s
    BY <2>1, CoversLookBack
  <2> QED  BY <1>1, <2>1, <2>2
<1>3. row.kind = "summary" /\ row.of = UNION {Covers(s) : s \in older[t]}
  BY DEF Row
<1>4. row.of \subseteq 1..Last
  BY <1>2, <1>3
<1>5. row.of \in SUBSET Positions
  <2>1. 1..Last \subseteq 1..MaxEntries
    BY <1>1
  <2> QED  BY <1>4, <2>1 DEF Positions
<1>6. row \in RowRecords
  BY <1>3, <1>5 DEF Row, RowRecords, Kinds
<1>7. \A s \in older[t] : Covers(s) \subseteq row.of
  BY <1>3
<1> QED  BY <1>3, <1>4, <1>6, <1>7

(* compact_with_summary: what leaves the context is in the summary that comes,
   and what stays is in no part of it. *)
LEMMA WriteKeepsContext ==
  ASSUME TypeOK, Context, OneCompaction, NEW t \in Tasks, WriteSummary(t)
  PROVE  Context'
<1> DEFINE row == Row("summary", UNION {Covers(s) : s \in older[t]})
<1>0. PICK n \in Nat : n = Last + 1
  BY DEF TypeOK, Last
<1>1. /\ task[t] = "summarizing" /\ Store(row) /\ resetAt' = MoveOn(Boundary(t))
      /\ task' = [task EXCEPT ![t] = "releasing"] /\ older' = older /\ cleared' = cleared
  BY DEF WriteSummary, Becomes
<1>2. /\ row \in RowRecords /\ row.kind = "summary" /\ row.of \subseteq 1..Last
      /\ \A s \in older[t] : Covers(s) \subseteq row.of
  BY SummaryIsARow DEF Context
<1> HIDE DEF row
<1>3. /\ Last \in Nat /\ resetAt \in 0..Last /\ cleared \in 0..Last
      /\ Last' = n /\ n = Last + 1 /\ older[t] \subseteq 1..Last
      /\ task \in [Tasks -> Phases]
      /\ \A s \in 1..Last : entries'[s] = entries[s]
      /\ \A s \in 1..Last : Kind(s)' = Kind(s) /\ Covers(s)' = Covers(s)
      /\ entries'[n] = row /\ Kind(n)' = "summary" /\ Covers(n)' = {n} \cup row.of
  BY <1>0, <1>1, <1>2, Appends DEF TypeOK, Spans
<1>4. /\ older[t] # {}
      /\ \A s \in older[t], r \in InContext : r \notin older[t] => Covers(s) \cap Covers(r) = {}
      /\ Last <= MaxHistory => \A s \in InContext, b \in older[t] : s <= b => s \in older[t]
  BY <1>1 DEF Context, SnapshotOf
<1>5. /\ Boundary(t) \in older[t] /\ \A s \in older[t] : s <= Boundary(t)
      /\ resetAt' \in 0..Last /\ resetAt <= resetAt' /\ Boundary(t) <= resetAt'
      /\ resetAt' \in {resetAt, Boundary(t)}
  BY <1>1, <1>4, BoundaryMovesOn
<1>6. /\ resetAt \in Nat /\ Boundary(t) \in Nat /\ cleared \in Nat /\ Last \in Nat
      /\ resetAt' \in Nat /\ resetAt' <= Last
  <2>1. Boundary(t) \in 1..Last
    BY <1>3, <1>5
  <2>2. /\ resetAt \in 0..Last /\ resetAt' \in 0..Last /\ cleared \in 0..Last
        /\ Last \in Nat
    BY <1>3, <1>5
  <2> QED  BY <2>1, <2>2
<1>7. PICK k \in Nat : k = resetAt'
  BY <1>6
<1>8. /\ k \in Nat /\ resetAt <= k /\ Boundary(t) <= k /\ k <= Last
      /\ k \in {resetAt, Boundary(t)}
  BY <1>5, <1>6, <1>7
<1>9. InContext' = ((k + 1)..Last) \cup {n}
  BY <1>3, <1>6, <1>7, <1>8 DEF InContext
<1>10. (k + 1)..Last \subseteq InContext /\ InContext \subseteq 1..Last
  BY <1>6, <1>8 DEF InContext
<1>11. \A r \in (k + 1)..Last : r \notin older[t]
  <2> TAKE r \in (k + 1)..Last
  <2>2. r \in Nat /\ r > Boundary(t)
    BY <1>6, <1>8
  <2>3. r \in older[t] => r <= Boundary(t)
    BY <1>5
  <2> QED  BY <1>6, <1>8, <2>2, <2>3
<1>12. \A r \in (k + 1)..Last : Covers(r)' \cap Covers(n)' = {}
  <2> TAKE r \in (k + 1)..Last
  <2>1. r \in InContext /\ r \in 1..Last
    BY <1>10
  <2>2. Covers(r) \subseteq 1..r
    BY <2>1, CoversLookBack DEF Context
  <2>3. n \notin Covers(r)
    BY <1>3, <2>1, <2>2
  <2>4. \A s \in older[t] : Covers(s) \cap Covers(r) = {}
    BY <1>4, <1>11, <2>1
  <2>5. row.of = UNION {Covers(s) : s \in older[t]}
    BY DEF row, Row
  <2>6. row.of \cap Covers(r) = {}
    BY <2>4, <2>5
  <2> QED  BY <1>3, <2>1, <2>3, <2>6
<1>13. SummariesLookBack'
  <2> SUFFICES ASSUME NEW m \in 1..Last', Kind(m)' = "summary"
               PROVE  entries'[m].of \subseteq 1..(m - 1)
    BY DEF SummariesLookBack
  <2>1. CASE m = n
    BY <1>2, <1>3, <2>1
  <2>2. CASE m # n
    <3>1. m \in 1..Last
      BY <1>3, <2>2
    <3> QED  BY <1>3, <3>1 DEF Context, SummariesLookBack
  <2> QED  BY <2>1, <2>2
<1>14. NothingTwice'
  <2> SUFFICES ASSUME NEW s \in InContext', NEW r \in InContext', s # r
               PROVE  Covers(s)' \cap Covers(r)' = {}
    BY DEF NothingTwice
  <2>1. CASE s # n /\ r # n
    <3>1. s \in InContext /\ r \in InContext /\ s \in 1..Last /\ r \in 1..Last
      BY <1>9, <1>10, <2>1
    <3> QED  BY <1>3, <3>1 DEF Context, NothingTwice
  <2>2. CASE r = n
    BY <1>9, <1>12, <2>2
  <2>3. CASE s = n
    BY <1>9, <1>12, <2>3
  <2> QED  BY <2>1, <2>2, <2>3
<1>15. \A u \in Tasks : SnapshotOf(u)'
  <2> TAKE u \in Tasks
  <2>1. CASE u = t
    BY <1>1, <1>3, <2>1 DEF SnapshotOf
  <2>2. CASE u # t
    <3>1. task[u] # "summarizing"
      BY <1>1, <2>2 DEF OneCompaction, UnderWay
    <3> QED  BY <1>1, <1>3, <2>2, <3>1 DEF SnapshotOf
  <2> QED  BY <2>1, <2>2
<1>16. (Last <= MaxHistory => NothingVanishes)'
  <2> SUFFICES ASSUME Last' <= MaxHistory, NEW s \in (cleared + 1)..k
               PROVE  \E m \in InContext' : Kind(m)' = "summary" /\ s \in entries'[m].of
    BY <1>1, <1>7 DEF NothingVanishes
  <2>1. Last <= MaxHistory
    BY <1>3, TranscriptAssumption
  <2>2. s \in 1..Last
    BY <1>6, <1>8
  <2>3. CASE \E d \in older[t] : s \in Covers(d)
    BY <1>2, <1>3, <1>9, <2>3
  <2>4. CASE s <= resetAt
    <3>0. s \in (cleared + 1)..resetAt
      BY <1>6, <1>8, <2>4
    <3>1. PICK m \in InContext : Kind(m) = "summary" /\ s \in entries[m].of
      BY <2>1, <3>0 DEF Context, NothingVanishes
    <3>2. m \in 1..Last
      BY <1>10
    <3>3. CASE m > k
      <4>1. m \in (k + 1)..Last
        BY <1>6, <1>8, <3>2, <3>3
      <4> QED  BY <1>3, <1>9, <3>1, <3>2, <4>1
    <3>4. CASE m <= k
      <4>1. k = Boundary(t)
        BY <1>6, <1>8, <3>1, <3>2, <3>4 DEF InContext
      <4>2. m \in older[t]
        BY <1>4, <1>5, <2>1, <3>4, <4>1
      <4>3. s \in Covers(m)
        BY <3>1 DEF Covers
      <4> QED  BY <2>3, <4>2, <4>3
    <3> QED  BY <1>8, <3>2, <3>3, <3>4
  <2>5. CASE s > resetAt
    <3>1. k = Boundary(t) /\ s <= Boundary(t)
      BY <1>6, <1>8, <2>2, <2>5
    <3>2. s \in InContext
      BY <1>3, <2>2, <2>5 DEF InContext
    <3>3. s \in older[t]
      BY <1>4, <1>5, <2>1, <3>1, <3>2
    <3>4. s \in Covers(s)
      BY <2>2, CoversLookBack DEF Context
    <3> QED  BY <2>3, <3>3, <3>4
  <2> QED  BY <1>3, <2>2, <2>4, <2>5
<1>17. ResetStays'
  <2>1. cleared <= resetAt
    BY DEF Context, ResetStays
  <2> QED  BY <1>1, <1>6, <1>7, <1>8, <2>1 DEF ResetStays
<1> QED  BY <1>13, <1>14, <1>15, <1>16, <1>17 DEF Context

(* A compaction that ends forgets its snapshot. *)
LEMMA ReleaseKeepsContext ==
  ASSUME TypeOK, Context, NEW t \in Tasks, Release(t)
  PROVE  Context'
<1>1. /\ entries' = entries /\ resetAt' = resetAt /\ cleared' = cleared
      /\ task' = [task EXCEPT ![t] = "idle"] /\ older' = [older EXCEPT ![t] = {}]
      /\ task \in [Tasks -> Phases] /\ older \in [Tasks -> SUBSET (1..Last)]
  BY DEF Release, Becomes, TypeOK
<1>2. /\ Last' = Last /\ InContext' = InContext
      /\ \A s : Kind(s)' = Kind(s) /\ Covers(s)' = Covers(s)
  BY <1>1 DEF Last, InContext, Kind, Covers
<1>3. SummariesLookBack' /\ ResetStays' /\ NothingTwice'
  BY <1>1, <1>2 DEF Context, SummariesLookBack, ResetStays, NothingTwice
<1>4. \A u \in Tasks : SnapshotOf(u)'
  <2> TAKE u \in Tasks
  <2>1. CASE u = t
    BY <1>1, <2>1 DEF SnapshotOf
  <2>2. CASE u # t
    BY <1>1, <1>2, <2>2 DEF Context, SnapshotOf
  <2> QED  BY <2>1, <2>2
<1>5. (Last <= MaxHistory => NothingVanishes)'
  BY <1>1, <1>2 DEF Context, NothingVanishes
<1> QED  BY <1>3, <1>4, <1>5 DEF Context

-------------------------------------------------------------------------------
(* Types, the call that waits and the guard.                               *)

(* A tool's answer names the newest call there is. *)
LEMMA AnswerIsARow ==
  ASSUME TypeOK, CallIsThere, run = "calling"
  PROVE  Row("result", {Max({c \in 1..Last : IsCall(c)})}) \in RowRecords
<1> DEFINE C == {c \in 1..Last : IsCall(c)}
<1>1. Last \in Nat /\ Last <= MaxEntries /\ MaxEntries \in Nat
  BY TranscriptAssumption DEF TypeOK, Last
<1>2. C # {} /\ C \subseteq 1..Last /\ C \in SUBSET (0..Last)
  BY <1>1 DEF CallIsThere
<1>3. Max(C) \in C
  <2> HIDE DEF C
  <2> QED  BY <1>1, <1>2, MaxIsLargest
<1>4. Max(C) \in Positions
  BY <1>1, <1>2, <1>3 DEF Positions
<1> HIDE DEF C
<1>5. Row("result", {Max(C)}) \in RowRecords
  BY <1>4 DEF Row, RowRecords, Kinds
<1> QED  BY <1>5 DEF C

(* The run's steps that write, as one: the entry is no summary. *)
LEMMA RunWrites ==
  ASSUME TypeOK, CallIsThere,
         StartRun \/ CallTool \/ ToolAnswers \/ (CompleteRun /\ entries' # entries)
  PROVE  /\ \E row \in RowRecords : row.kind # "summary" /\ Store(row)
         /\ UNCHANGED <<resetAt, cleared, older, guard>>
         /\ \A t \in Tasks : task'[t] = "summarizing" => task[t] = "summarizing"
<1>1. Row("user", {}) \in RowRecords /\ Row("user", {}).kind # "summary"
  BY DEF Row, RowRecords, Kinds
<1>2. \A kind \in {"call", "silent call"} :
        Row(kind, {}) \in RowRecords /\ Row(kind, {}).kind # "summary"
  BY DEF Row, RowRecords, Kinds
<1>3. Row("reply", {}) \in RowRecords /\ Row("reply", {}).kind # "summary"
  BY DEF Row, RowRecords, Kinds
<1>4. \A c : Row("result", c).kind # "summary"
  BY DEF Row
<1>5. CASE StartRun
  BY <1>1, <1>5 DEF StartRun, taskVars
<1>6. CASE CallTool
  BY <1>2, <1>6 DEF CallTool, taskVars
<1>7. CASE ToolAnswers
  BY <1>4, <1>7, AnswerIsARow DEF ToolAnswers, taskVars
<1>8. CASE CompleteRun /\ entries' # entries
  <2>1. \A t \in Tasks : task'[t] = "summarizing" => task[t] = "summarizing"
    BY <1>8 DEF CompleteRun, TypeOK
  <2> QED  BY <1>3, <1>8, <2>1 DEF CompleteRun
<1> QED  BY <1>5, <1>6, <1>7, <1>8

(* Every step keeps the types. *)
LEMMA TypesKept ==
  ASSUME TypeOK, SummariesLookBack, CallIsThere, [Next]_vars,
         \A t \in Tasks : task[t] = "summarizing" => older[t] # {}
  PROVE  TypeOK'
<1>1. /\ entries \in Seq(RowRecords) /\ Last \in Nat /\ Last <= MaxEntries
      /\ resetAt \in 0..Last /\ cleared \in 0..Last /\ flushed \subseteq 1..Last
      /\ run \in {"idle", "working", "calling"} /\ reset \in {"no", "flushed"}
      /\ guard \in BOOLEAN
      /\ task \in [Tasks -> Phases] /\ older \in [Tasks -> SUBSET (1..Last)]
  BY DEF TypeOK, Last, RowRecords
<1>2. Loaded \subseteq 1..Last /\ Older \subseteq 1..Last
  BY LoadedArePositions
<1>3. ASSUME NEW row \in RowRecords, Store(row),
             resetAt' \in 0..Last, cleared' = cleared, flushed' = flushed,
             run' \in {"idle", "working", "calling"}, reset' = reset, guard' \in BOOLEAN,
             task' \in [Tasks -> Phases], older' = older
      PROVE  TypeOK'
  <2>1. entries' \in Seq(RowRecords) /\ Last' <= MaxEntries /\ Last' = Last + 1
    BY <1>3, Appends
  <2>2. 1..Last \subseteq 1..Last' /\ 0..Last \subseteq 0..Last'
    BY <1>1, <2>1
  <2>3. older' \in [Tasks -> SUBSET (1..Last')]
    BY <1>1, <1>3, <2>2
  <2> QED  BY <1>1, <1>3, <2>1, <2>2, <2>3 DEF TypeOK, RowRecords
<1>4. ASSUME entries' = entries,
             resetAt' \in 0..Last, cleared' \in 0..Last, flushed' \subseteq 1..Last,
             run' \in {"idle", "working", "calling"}, reset' \in {"no", "flushed"},
             guard' \in BOOLEAN, task' \in [Tasks -> Phases],
             older' \in [Tasks -> SUBSET (1..Last)]
      PROVE  TypeOK'
  <2>1. Last' = Last
    BY <1>4 DEF Last
  <2> QED  BY <1>1, <1>4, <2>1 DEF TypeOK, RowRecords
<1>5. CASE StartRun \/ CallTool \/ ToolAnswers \/ (CompleteRun /\ entries' # entries)
  <2>1. PICK row \in RowRecords : Store(row)
    BY <1>5, RunWrites
  <2>2. /\ run' \in {"idle", "working", "calling"} /\ reset' = reset /\ flushed' = flushed
        /\ resetAt' = resetAt /\ cleared' = cleared /\ guard' = guard /\ older' = older
    BY <1>5 DEF StartRun, CallTool, ToolAnswers, CompleteRun, taskVars
  <2>3. task' \in [Tasks -> Phases]
    BY <1>1, <1>5 DEF StartRun, CallTool, ToolAnswers, CompleteRun, taskVars, Phases
  <2> QED  BY <1>1, <1>3, <2>1, <2>2, <2>3
<1>6. CASE CompleteRun /\ entries' = entries
  <2>1. task' \in [Tasks -> Phases]
    BY <1>1, <1>6 DEF CompleteRun, Phases
  <2> QED  BY <1>1, <1>4, <1>6, <2>1 DEF CompleteRun
<1>7. CASE EndRun
  BY <1>1, <1>4, <1>7 DEF EndRun, taskVars
<1>8. CASE FlushBeforeReset
  BY <1>1, <1>2, <1>4, <1>8 DEF FlushBeforeReset, taskVars
<1>9. CASE ResetSession
  BY <1>1, <1>4, <1>9 DEF ResetSession, LargestSeq, taskVars
<1>10. ASSUME NEW t \in Tasks, Compaction(t)
       PROVE  TypeOK'
  <2>1. task' \in [Tasks -> Phases]
    BY <1>1, <1>10 DEF Compaction, TakeGuard, Skip, TooShort, Load, Fail, WriteSummary,
                       Release, Becomes, Phases
  <2>2. CASE TakeGuard(t) \/ Skip(t) \/ TooShort(t) \/ Fail(t) \/ Release(t)
    <3>1. /\ entries' = entries /\ resetAt' = resetAt /\ cleared' = cleared
          /\ flushed' = flushed /\ run' = run /\ reset' = reset
          /\ guard' \in BOOLEAN /\ older' \in [Tasks -> SUBSET (1..Last)]
      BY <1>1, <2>2 DEF TakeGuard, Skip, TooShort, Fail, Release, DropGuard
    <3> QED  BY <1>1, <1>4, <2>1, <3>1
  <2>3. CASE Load(t)
    <3>1. older' \in [Tasks -> SUBSET (1..Last)]
      BY <1>1, <1>2, <2>3 DEF Load
    <3> QED  BY <1>1, <1>2, <1>4, <2>1, <2>3, <3>1 DEF Load
  <2>4. CASE WriteSummary(t)
    <3>1. Row("summary", UNION {Covers(s) : s \in older[t]}) \in RowRecords
      BY SummaryIsARow
    <3>2. resetAt' \in 0..Last
      BY <2>4, BoundaryMovesOn DEF WriteSummary
    <3> QED  BY <1>1, <1>3, <2>1, <2>4, <3>1, <3>2 DEF WriteSummary
  <2> QED  BY <1>10, <2>2, <2>3, <2>4 DEF Compaction
<1>11. CASE UNCHANGED vars
  BY <1>1, <1>4, <1>11 DEF vars, taskVars
<1> QED  BY <1>5, <1>6, <1>7, <1>8, <1>9, <1>10, <1>11 DEF Next

(* A run that calls a tool has written the call. *)
LEMMA CallStays ==
  ASSUME TypeOK, SummariesLookBack, CallIsThere, [Next]_vars,
         \A t \in Tasks : task[t] = "summarizing" => older[t] # {}
  PROVE  CallIsThere'
<1>1. SUFFICES ASSUME run' = "calling"
               PROVE  \E c \in 1..Last' : IsCall(c)'
  BY DEF CallIsThere
<1>2. CASE CallTool
  <2>1. \A kind \in {"call", "silent call"} :
          Row(kind, {}) \in RowRecords /\ Row(kind, {}).kind = kind
    BY DEF Row, RowRecords, Kinds
  <2>2. PICK row \in RowRecords : Store(row) /\ row.kind \in {"call", "silent call"}
    BY <1>2, <2>1 DEF CallTool
  <2>3. Last \in Nat /\ Last' = Last + 1 /\ Store(row)
    BY <2>2, Appends
  <2>4. PICK n \in Nat : n = Last + 1
    BY <2>3
  <2>5. Kind(n)' = row.kind
    BY <2>3, <2>4, Appends
  <2>6. n \in 1..Last'
    BY <2>3, <2>4
  <2>7. IsCall(n)'
    BY <2>2, <2>5 DEF IsCall
  <2> QED  BY <2>6, <2>7
<1>3. CASE run = "calling" /\ ~CallTool
  <2>1. PICK c \in 1..Last : IsCall(c)
    BY <1>3 DEF CallIsThere
  <2>2. CASE entries' = entries
    BY <2>1, <2>2 DEF Last, IsCall, Kind
  <2>3. CASE entries' # entries
    <3>1. \E t \in Tasks : WriteSummary(t)
      BY <1>1, <1>3, <2>3 DEF Next, vars, taskVars, StartRun, ToolAnswers, CompleteRun,
           EndRun, FlushBeforeReset, ResetSession, Compaction, TakeGuard, Skip, TooShort,
           Load, Fail, Release
    <3>2. PICK row \in RowRecords : Store(row)
      BY <3>1, SummaryIsARow DEF WriteSummary
    <3>3. Last \in Nat /\ Last' = Last + 1 /\ Kind(c)' = Kind(c)
      BY <2>1, <3>2, Appends
    <3>4. c \in 1..Last'
      BY <3>3
    <3>5. IsCall(c)'
      BY <2>1, <3>3 DEF IsCall
    <3> QED  BY <3>4, <3>5
  <2> QED  BY <2>2, <2>3
<1>4. run = "calling" \/ CallTool
  BY <1>1 DEF Next, vars, taskVars, StartRun, CallTool, ToolAnswers, CompleteRun, EndRun,
       FlushBeforeReset, ResetSession, Compaction, TakeGuard, Skip, TooShort, Load, Fail,
       WriteSummary, Release
<1> QED  BY <1>2, <1>3, <1>4

(* compact_in_flight is taken by one compaction at a time and dropped by the
   one that took it. *)
LEMMA OneCompactionKept ==
  ASSUME TypeOK, OneCompaction, [Next]_vars
  PROVE  OneCompaction'
<1>1. task \in [Tasks -> Phases] /\ guard \in BOOLEAN
  BY DEF TypeOK
<1>2. ASSUME UnderWay' = UnderWay, guard' = guard
      PROVE  OneCompaction'
  BY <1>2 DEF OneCompaction
<1>3. CASE StartRun \/ CallTool \/ ToolAnswers \/ EndRun \/ FlushBeforeReset
           \/ ResetSession \/ UNCHANGED vars
  <2>1. task' = task /\ guard' = guard
    BY <1>3 DEF StartRun, CallTool, ToolAnswers, EndRun, FlushBeforeReset, ResetSession,
                vars, taskVars
  <2> QED  BY <1>2, <2>1 DEF UnderWay
<1>4. CASE CompleteRun
  <2>1. UnderWay' = UnderWay /\ guard' = guard
    BY <1>1, <1>4 DEF CompleteRun, UnderWay
  <2> QED  BY <1>2, <2>1
<1>5. ASSUME NEW t \in Tasks, Compaction(t)
      PROVE  OneCompaction'
  <2>1. CASE TakeGuard(t)
    <3>1. UnderWay = {} /\ guard' = TRUE
      BY <2>1 DEF TakeGuard, GuardIsFree, OneCompaction
    <3>2. UnderWay' = {t}
      BY <1>1, <2>1, <3>1 DEF TakeGuard, Becomes, UnderWay
    <3> QED  BY <3>1, <3>2 DEF OneCompaction
  <2>2. CASE Skip(t)
    <3>1. UnderWay' = UnderWay /\ guard' = guard
      BY <1>1, <2>2 DEF Skip, Becomes, UnderWay
    <3> QED  BY <1>2, <3>1
  <2>3. CASE TooShort(t) \/ Load(t) \/ Fail(t) \/ WriteSummary(t)
    <3>1. UnderWay' = UnderWay /\ guard' = guard
      BY <1>1, <2>3 DEF TooShort, Load, Fail, WriteSummary, Becomes, UnderWay
    <3> QED  BY <1>2, <3>1
  <2>4. CASE Release(t)
    <3>1. t \in UnderWay /\ guard' = FALSE
      BY <2>4 DEF Release, DropGuard, UnderWay
    <3>2. \A u \in UnderWay : u = t
      BY <3>1 DEF OneCompaction
    <3>3. UnderWay' = {}
      BY <1>1, <2>4, <3>2 DEF Release, Becomes, UnderWay
    <3> QED  BY <3>1, <3>3 DEF OneCompaction
  <2> QED  BY <1>5, <2>1, <2>2, <2>3, <2>4 DEF Compaction
<1> QED  BY <1>3, <1>4, <1>5 DEF Next

(* One compaction is under way or none: the guard counts them. *)
LEMMA GuardCounts ==
  ASSUME OneCompaction, guard \in BOOLEAN
  PROVE  GuardIsHeld
<1>1. CASE guard
  <2>1. PICK t : t \in UnderWay
    BY <1>1 DEF OneCompaction
  <2>2. UnderWay = {t}
    BY <2>1 DEF OneCompaction
  <2>3. Cardinality({t}) = 1
    BY FS_Singleton
  <2> QED  BY <1>1, <2>2, <2>3 DEF GuardIsHeld
<1>2. CASE ~guard
  <2>1. UnderWay = {}
    BY <1>2 DEF OneCompaction
  <2> QED  BY <1>2, <2>1, FS_EmptySet DEF GuardIsHeld
<1> QED  BY <1>1, <1>2

-------------------------------------------------------------------------------
(* The theorems.                                                           *)

LEMMA IInvIsContext ==
  IInv <=> TypeOK /\ CallIsThere /\ OneCompaction /\ Context
BY DEF IInv, Context

(* The invariant holds of a new session. *)
LEMMA InitIsGood == Init => IInv
<1> SUFFICES ASSUME Init
             PROVE  IInv
  OBVIOUS
<1>1. << >> \in Seq(RowRecords) /\ Len(<< >>) = 0
  OBVIOUS
<1>2. Last = 0 /\ entries \in Seq(RowRecords)
  BY <1>1 DEF Init, Last
<1>3. TypeOK
  <2>1. 0 \in 0..Last /\ 0 <= MaxEntries
    BY <1>2, TranscriptAssumption
  <2>2. task \in [Tasks -> Phases] /\ older \in [Tasks -> SUBSET (1..Last)]
    BY DEF Init, Phases
  <2> QED  BY <1>2, <2>1, <2>2 DEF Init, TypeOK, RowRecords
<1>4. InContext = {} /\ (cleared + 1)..resetAt = {} /\ 1..Last = {}
  BY <1>2 DEF Init, InContext
<1>5. UnderWay = {} /\ guard = FALSE
  BY DEF Init, UnderWay
<1>6. OneCompaction
  BY <1>5 DEF OneCompaction
<1>7. SummariesLookBack /\ CallIsThere /\ NothingTwice /\ NothingVanishes /\ ResetStays
  BY <1>4 DEF Init, SummariesLookBack, CallIsThere, NothingTwice, NothingVanishes, ResetStays
<1>8. \A t \in Tasks : SnapshotOf(t)
  BY DEF Init, SnapshotOf
<1> QED  BY <1>3, <1>6, <1>7, <1>8 DEF IInv

(* And every step keeps it. *)
LEMMA StepsAreGood == IInv /\ [Next]_vars => IInv'
<1> SUFFICES ASSUME TypeOK, CallIsThere, OneCompaction, Context, [Next]_vars
             PROVE  IInv'
  BY IInvIsContext
<1>1. SummariesLookBack /\ \A t \in Tasks : task[t] = "summarizing" => older[t] # {}
  BY DEF Context, SnapshotOf
<1>2. TypeOK'
  BY <1>1, TypesKept
<1>3. CallIsThere'
  BY <1>1, CallStays
<1>4. OneCompaction'
  BY OneCompactionKept
<1>5. task \in [Tasks -> Phases]
  BY DEF TypeOK
<1>6. Context'
  <2>1. CASE StartRun \/ CallTool \/ ToolAnswers \/ (CompleteRun /\ entries' # entries)
    <3>1. PICK row \in RowRecords : row.kind # "summary" /\ Store(row)
      BY <2>1, RunWrites
    <3>2. /\ UNCHANGED <<resetAt, cleared, older>>
          /\ \A t \in Tasks : task'[t] = "summarizing" => task[t] = "summarizing"
      BY <2>1, RunWrites
    <3> QED  BY <3>1, <3>2, AppendingKeepsContext
  <2>2. CASE CompleteRun /\ entries' = entries
    <3>1. \A t \in Tasks : task'[t] = "summarizing" => task[t] = "summarizing"
      BY <1>5, <2>2 DEF CompleteRun
    <3> QED  BY <2>2, <3>1, ContextUntouched DEF CompleteRun
  <2>3. CASE EndRun \/ FlushBeforeReset \/ UNCHANGED vars
    BY <2>3, ContextUntouched DEF EndRun, FlushBeforeReset, vars, taskVars
  <2>4. CASE ResetSession
    BY <2>4, ResetKeepsContext
  <2>5. ASSUME NEW t \in Tasks, Compaction(t)
        PROVE  Context'
    <3>1. CASE TakeGuard(t) \/ Skip(t) \/ TooShort(t) \/ Fail(t)
      <4>1. /\ UNCHANGED <<entries, resetAt, cleared, older>>
            /\ \A u \in Tasks : task'[u] = "summarizing" => task[u] = "summarizing"
        BY <1>5, <3>1 DEF TakeGuard, Skip, TooShort, Fail, Becomes
      <4> QED  BY <4>1, ContextUntouched
    <3>2. CASE Load(t)
      BY <3>2, LoadKeepsContext
    <3>3. CASE WriteSummary(t)
      BY <3>3, WriteKeepsContext
    <3>4. CASE Release(t)
      BY <3>4, ReleaseKeepsContext
    <3> QED  BY <2>5, <3>1, <3>2, <3>3, <3>4 DEF Compaction
  <2> QED  BY <2>1, <2>2, <2>3, <2>4, <2>5 DEF Next
<1> QED  BY <1>2, <1>3, <1>4, <1>6 DEF IInv, Context

(* ops.rs, session.rs: for any number of compactions, resets and runs, whatever
   leaves the context is in one summary there, nothing is in it twice, what was
   reset away stays away and the guard is held exactly by the compaction under
   way.  load_transcript returns at most MaxHistory entries, hence the bound. *)
THEOREM TranscriptIsSafe == Spec => [](Last <= MaxHistory => TranscriptInv)
<1>1. IInv => (Last <= MaxHistory => TranscriptInv)
  <2>1. TypeOK => guard \in BOOLEAN
    BY DEF TypeOK
  <2> QED  BY <2>1, GuardCounts DEF IInv, TranscriptInv
<1> QED  BY <1>1, InitIsGood, StepsAreGood, PTL DEF Spec

(* The same without a bound, but for NothingVanishes: what load_transcript cuts
   off, a compaction leaves behind without having summarised it. *)
THEOREM ContextIsSafe ==
  Spec => [](TypeOK /\ ResetStays /\ NothingTwice /\ GuardIsHeld)
<1>1. IInv => TypeOK /\ ResetStays /\ NothingTwice /\ GuardIsHeld
  <2>1. TypeOK => guard \in BOOLEAN
    BY DEF TypeOK
  <2> QED  BY <2>1, GuardCounts DEF IInv
<1> QED  BY <1>1, InitIsGood, StepsAreGood, PTL DEF Spec

(* drop_orphan_tool_msgs: what a run is given of the transcript is always a
   conversation a provider takes, whatever the budget cuts off. *)
THEOREM PromptIsSafe == Spec => []PromptIsWellFormed
<1>1. IInv => PromptIsWellFormed
  BY PromptsAreWellFormed DEF IInv
<1> QED  BY <1>1, InitIsGood, StepsAreGood, PTL DEF Spec

-------------------------------------------------------------------------------
(* The file and its processes: the inductive invariant.                    *)

ProcessPhases == {"down", "opening", "migrating", "up", "passed", "objected"}
Stages == {"ended", "checked", "queued", "reading", "ok", "failed", "dead"}
Versions == 0..(Target + 1)
Files == [version : Versions, steps : SUBSET (1..Target), today : BOOLEAN,
          rows : SUBSET (Callers \X (1..MaxCalls))]
CallRecords == [kind : Commands \cup {"read", None}, row : 0..MaxCalls, stage : Stages]

Types ==
  /\ disk \in Files
  /\ lock \in Servers \cup {None} /\ tx \in Processes \cup {None}
  /\ phase \in [Processes -> ProcessPhases] /\ seen \in [Processes -> 0..Target]
  /\ starts \in [Processes -> Nat]
  /\ alive \in BOOLEAN /\ thread \in {"idle", "busy", "unwinding", "dead"}
  /\ queue \in Seq(Callers)
  /\ calls \in [Callers -> CallRecords] /\ made \in [Callers -> 0..MaxCalls]
  /\ idle \in 0..MaxIdle
  /\ acked \subseteq Callers \X (1..MaxCalls)

(* Whoever serves or opens the file holds the lock. *)
LockIsHeld == \A s \in Servers : phase[s] # "down" => lock = s

(* A process that migrates has read or committed every version it has seen,
   and the transaction belongs to one that has a step to do. *)
Migrating ==
  /\ \A p \in Processes :
       /\ phase[p] = "migrating" => disk.version <= Target /\ seen[p] <= disk.version
       /\ phase[p] \in {"up", "passed"} => disk.version = Target
  /\ tx # None => phase[tx] = "migrating" /\ seen[tx] < Target

StepsAreWhole == disk.version <= Target => disk.steps = 1..disk.version
StepsOfLater == disk.version = Target + 1 => disk.steps = 1..Target

(* The doctor's verdict, which nobody takes back. *)
Passed == phase[Doctor] = "passed" => disk.today

Pending == {"checked", "queued", "reading", "failed", "dead"}

(* A call waits in the queue at most once, and only while it is "queued"; the
   thread that is busy is busy with the head. *)
QueueIsOfQueued ==
  /\ \A i \in 1..Len(queue) : calls[queue[i]].stage = "queued"
  /\ \A i, j \in 1..Len(queue) : queue[i] = queue[j] => i = j
  /\ thread = "busy" => queue # <<>>

(* A call is numbered by how many its caller has made, and the row of one that
   has not been executed is not in the file. *)
RowsAreOfCalls ==
  \A c \in Callers :
    /\ calls[c].stage # "ended" => calls[c].row = made[c] /\ made[c] > 0
    /\ calls[c].stage \in Pending => RowOf(c) \notin disk.rows
    /\ \A n \in 1..MaxCalls : <<c, n>> \in disk.rows => n <= made[c]

(* What holds of the file and of those who open it. *)
Opening == LockIsHeld /\ Migrating /\ StepsAreWhole /\ StepsOfLater /\ Passed

(* What holds of the rows and of those who write them. *)
Serving == QueueIsOfQueued /\ RowsAreOfCalls /\ acked \subseteq disk.rows

StoreIInv == Types /\ Opening /\ Serving

-------------------------------------------------------------------------------
(* Types.                                                                  *)

LEMMA FileOpens ==
  ASSUME Types, Migrating, NEW p \in Processes, ReadVersion(p) \/ Begin(p) \/ Commit(p) \/ Die(p)
  PROVE  Types'
<1>1. /\ disk \in Files /\ disk.version \in Versions /\ disk.steps \subseteq 1..Target
      /\ lock \in Servers \cup {None} /\ tx \in Processes \cup {None}
      /\ phase \in [Processes -> ProcessPhases] /\ seen \in [Processes -> 0..Target]
      /\ starts \in [Processes -> Nat] /\ Target \in Nat \ {0}
  BY StoreAssumption DEF Types, Files
<1>2. Unlock(p) => lock' \in Servers \cup {None}
  BY <1>1 DEF Unlock
<1>3. GiveUp(p) => /\ lock' \in Servers \cup {None} /\ tx' \in Processes \cup {None}
                   /\ phase' \in [Processes -> ProcessPhases]
  BY <1>1, <1>2 DEF GiveUp, ProcessPhases
<1>4. CASE ReadVersion(p)
  <2>1. /\ lock' \in Servers \cup {None} /\ tx' \in Processes \cup {None}
        /\ phase' \in [Processes -> ProcessPhases]
    BY <1>1, <1>3, <1>4 DEF ReadVersion, ProcessPhases
  <2>2. seen' \in [Processes -> 0..Target]
    BY <1>1, <1>4 DEF ReadVersion, Versions
  <2> QED BY <1>1, <1>4, <2>1, <2>2 DEF ReadVersion, Types, server
<1>5. CASE Begin(p)
  <2>1. /\ lock' \in Servers \cup {None} /\ tx' \in Processes \cup {None}
        /\ phase' \in [Processes -> ProcessPhases] /\ disk' = disk
    BY <1>1, <1>3, <1>5 DEF Begin, BeginStep
  <2> QED BY <1>1, <1>5, <2>1 DEF Begin, Types, server
<1>6. CASE Commit(p)
  <2> DEFINE next == seen[p] + 1
  <2>1. CASE Applies(next)
    <3>1. next \in 1..Target
      BY <1>1, <1>6, StoreAssumption DEF Commit, Migrating
    <3>2. /\ disk' = [disk EXCEPT !.version = next, !.steps = @ \cup {next}]
          /\ seen' = [seen EXCEPT ![p] = next]
          /\ tx' = None /\ UNCHANGED <<lock, phase, starts, server>>
      BY <1>6, <2>1 DEF Commit, Applies
    <3> HIDE DEF next
    <3>3. disk' \in Files
      <4>1. next \in Versions /\ disk.steps \cup {next} \in SUBSET (1..Target)
        BY <1>1, <3>1 DEF Versions
      <4> QED BY <1>1, <3>2, <4>1 DEF Files
    <3>4. seen' \in [Processes -> 0..Target]
      BY <1>1, <3>1, <3>2
    <3> QED BY <1>1, <3>2, <3>3, <3>4 DEF Types, server
  <2>2. CASE ~Applies(next)
    <3>1. GiveUp(p) /\ UNCHANGED <<disk, seen, starts, server>>
      BY <1>6, <2>2 DEF Commit, Applies
    <3> QED BY <1>1, <1>3, <3>1 DEF Types, server
  <2> QED BY <2>1, <2>2
<1>7. CASE Die(p)
  <2>1. UNCHANGED <<disk, seen, starts>> /\ GiveUp(p)
    BY <1>7 DEF Die
  <2>2. /\ alive' \in BOOLEAN /\ thread' \in {"idle", "busy", "unwinding", "dead"}
        /\ queue' \in Seq(Callers) /\ calls' \in [Callers -> CallRecords]
        /\ made' \in [Callers -> 0..MaxCalls] /\ idle' \in 0..MaxIdle
        /\ acked' \subseteq Callers \X (1..MaxCalls)
    <3>1. CASE phase[p] = "up"
      <4>1. NoCall \in CallRecords
        BY StoreAssumption DEF NoCall, CallRecords, Stages
      <4>2. /\ alive' = FALSE /\ thread' = "dead" /\ queue' = <<>> /\ idle' = 0
            /\ calls' = [c \in Callers |-> NoCall] /\ UNCHANGED <<made, acked>>
        BY <1>7, <3>1 DEF Die
      <4>3. calls' \in [Callers -> CallRecords] /\ queue' \in Seq(Callers)
        BY <4>1, <4>2
      <4>4. idle' \in 0..MaxIdle
        BY <4>2, StoreAssumption
      <4> QED BY <4>2, <4>3, <4>4 DEF Types
    <3>2. CASE phase[p] # "up"
      BY <1>7, <3>2 DEF Die, Types, server
    <3> QED BY <3>1, <3>2
  <2> QED BY <1>1, <1>3, <2>1, <2>2 DEF Types
<1> QED BY <1>4, <1>5, <1>6, <1>7

LEMMA ProcessStarts ==
  ASSUME Types,
         StartDoctor \/ Report \/ \E s \in Servers : Acquire(s) \/ Ready(s)
  PROVE  Types'
<1>1. /\ lock \in Servers \cup {None} /\ phase \in [Processes -> ProcessPhases]
      /\ starts \in [Processes -> Nat] /\ Doctor \in Processes /\ Servers \subseteq Processes
      /\ MaxIdle \in Nat
  BY StoreAssumption DEF Types, Processes
<1>2. CASE StartDoctor
  BY <1>1, <1>2 DEF StartDoctor, Types, ProcessPhases, server
<1>3. CASE Report
  <2>1. phase' \in [Processes -> ProcessPhases]
    BY <1>1, <1>3 DEF Report, ProcessPhases
  <2> QED BY <1>3, <2>1 DEF Report, Types, server
<1>4. ASSUME NEW s \in Servers, Acquire(s)
      PROVE  Types'
  <2>1. phase' \in [Processes -> ProcessPhases] /\ lock' \in Servers \cup {None}
    BY <1>1, <1>4 DEF Acquire, ProcessPhases
  <2>2. starts' \in [Processes -> Nat]
    BY <1>1, <1>4 DEF Acquire
  <2> QED BY <1>4, <2>1, <2>2 DEF Acquire, Types, server
<1>5. ASSUME NEW s \in Servers, Ready(s)
      PROVE  Types'
  <2>1. phase' \in [Processes -> ProcessPhases]
    BY <1>1, <1>5 DEF Ready, ProcessPhases
  <2>2. idle' \in 0..MaxIdle /\ queue' \in Seq(Callers)
    BY <1>1, <1>5 DEF Ready
  <2> QED BY <1>5, <2>1, <2>2 DEF Ready, Types
<1> QED BY <1>2, <1>3, <1>4, <1>5

(* What a step of the server leaves alone. *)
LEMMA ServerTypes ==
  ASSUME Types, inServer,
         disk' \in Files, calls' \in [Callers -> CallRecords],
         made' \in [Callers -> 0..MaxCalls], queue' \in Seq(Callers),
         alive' \in BOOLEAN, thread' \in {"idle", "busy", "unwinding", "dead"},
         idle' \in 0..MaxIdle, acked' \subseteq Callers \X (1..MaxCalls)
  PROVE  Types'
BY DEF Types, inServer

LEMMA StageTypes ==
  ASSUME Types, NEW c \in Callers, NEW st \in Stages, Stage(c, st)
  PROVE  calls' \in [Callers -> CallRecords]
<1>1. calls[c] \in CallRecords
  BY DEF Types
<1>2. [calls[c] EXCEPT !.stage = st] \in CallRecords
  BY <1>1 DEF CallRecords
<1> QED BY <1>2 DEF Stage, Types

LEMMA QueueTypes ==
  ASSUME Types, QueueIsOfQueued, thread = "busy"
  PROVE  Head(queue) \in Callers /\ Tail(queue) \in Seq(Callers)
BY DEF Types, QueueIsOfQueued

(* The row of a call that waits for the writer is one of its caller's. *)
LEMMA RowsTypes ==
  ASSUME Types, RowsAreOfCalls, NEW c \in Callers, calls[c].stage = "queued"
  PROVE  Rows(c) \subseteq Callers \X (1..MaxCalls)
<1>1. calls[c].row = made[c] /\ made[c] > 0 /\ made[c] \in 0..MaxCalls
  BY DEF Types, RowsAreOfCalls
<1>2. calls[c].row \in 1..MaxCalls
  BY <1>1, StoreAssumption
<1> QED BY <1>2 DEF Rows, RowOf

LEMMA CallerSteps ==
  ASSUME Types, NEW c \in Callers,
         \/ Enqueue(c) \/ Read(c) \/ FinishRead(c) \/ ReadPanics(c)
         \/ \E k \in Commands : Call(c, k)
  PROVE  Types'
<1>1. /\ disk \in Files /\ calls \in [Callers -> CallRecords] /\ queue \in Seq(Callers)
      /\ made \in [Callers -> 0..MaxCalls] /\ alive \in BOOLEAN /\ idle \in 0..MaxIdle
      /\ thread \in {"idle", "busy", "unwinding", "dead"}
      /\ acked \subseteq Callers \X (1..MaxCalls)
      /\ MaxCalls \in Nat /\ MaxIdle \in Nat
  BY StoreAssumption DEF Types
<1>2. CASE Enqueue(c)
  <2>1. queue' \in Seq(Callers)
    <3>1. CASE UNCHANGED queue
      BY <1>1, <3>1
    <3>2. CASE queue' = Append(queue, c)
      BY <1>1, <3>2
    <3> QED BY <1>2, <3>1, <3>2 DEF Enqueue
  <2>2. PICK st \in {"dead", "queued"} : Stage(c, st)
    BY <1>2 DEF Enqueue
  <2>3. calls' \in [Callers -> CallRecords]
    BY <2>2, StageTypes DEF Stages
  <2> QED BY <1>1, <1>2, <2>1, <2>3, ServerTypes DEF Enqueue
<1>3. CASE FinishRead(c)
  <2>1. idle' \in 0..MaxIdle
    BY <1>1, <1>3 DEF FinishRead, PutIdle
  <2>2. PICK st \in {"ok", "failed"} : Stage(c, st)
    BY <1>3 DEF FinishRead
  <2>3. calls' \in [Callers -> CallRecords]
    BY <2>2, StageTypes DEF Stages
  <2> QED BY <1>1, <1>3, <2>1, <2>3, ServerTypes DEF FinishRead
<1>4. CASE ReadPanics(c)
  <2>1. calls' \in [Callers -> CallRecords]
    BY <1>4, StageTypes DEF Stages, ReadPanics
  <2> QED BY <1>1, <1>4, <2>1, ServerTypes DEF ReadPanics
<1>5. MayCall(c) => /\ made[c] + 1 \in 0..MaxCalls
                    /\ [made EXCEPT ![c] = @ + 1] \in [Callers -> 0..MaxCalls]
  BY <1>1 DEF MayCall
<1>6. CASE Read(c)
  <2>1. idle' \in 0..MaxIdle
    BY <1>1, <1>6 DEF Read, TakeIdle
  <2>2. [kind |-> "read", row |-> made[c] + 1, stage |-> "reading"] \in CallRecords
    BY <1>5, <1>6 DEF Read, CallRecords, Stages
  <2>3. calls' \in [Callers -> CallRecords]
    BY <1>1, <1>6, <2>2 DEF Read
  <2>4. made' \in [Callers -> 0..MaxCalls]
    BY <1>5, <1>6 DEF Read
  <2> QED BY <1>1, <1>6, <2>1, <2>3, <2>4, ServerTypes DEF Read
<1>7. ASSUME NEW k \in Commands, Call(c, k)
      PROVE  Types'
  <2>1. FirstStage \in Stages
    BY DEF FirstStage, Stages
  <2>2. [kind |-> k, row |-> made[c] + 1, stage |-> FirstStage] \in CallRecords
    BY <1>5, <1>7, <2>1 DEF Call, CallRecords
  <2>3. calls' \in [Callers -> CallRecords]
    BY <1>1, <1>7, <2>2 DEF Call
  <2>4. made' \in [Callers -> 0..MaxCalls]
    BY <1>5, <1>7 DEF Call
  <2> QED BY <1>1, <1>7, <2>3, <2>4, ServerTypes DEF Call
<1> QED BY <1>2, <1>3, <1>4, <1>6, <1>7

LEMMA WriterSteps ==
  ASSUME Types, QueueIsOfQueued, RowsAreOfCalls,
         Receive \/ Execute \/ ExecuteFails \/ Panic \/ DropChannel
  PROVE  Types'
<1>1. /\ disk \in Files /\ calls \in [Callers -> CallRecords] /\ queue \in Seq(Callers)
      /\ made \in [Callers -> 0..MaxCalls] /\ alive \in BOOLEAN /\ idle \in 0..MaxIdle
      /\ thread \in {"idle", "busy", "unwinding", "dead"}
      /\ acked \subseteq Callers \X (1..MaxCalls)
  BY DEF Types
<1>2. thread = "busy" => /\ Head(queue) \in Callers /\ Tail(queue) \in Seq(Callers)
                         /\ calls[Head(queue)].stage = "queued"
  BY <1>1, QueueTypes DEF QueueIsOfQueued
<1>3. CASE Receive
  BY <1>1, <1>3, ServerTypes DEF Receive
<1>4. CASE Execute
  <2> DEFINE c == Head(queue)
  <2>1. /\ thread = "busy" /\ Write(c) /\ Stage(c, "ok") /\ acked' = acked \cup Rows(c)
        /\ Done /\ UNCHANGED <<alive, made, idle>> /\ inServer
    BY <1>4 DEF Execute
  <2>2. c \in Callers /\ Rows(c) \subseteq Callers \X (1..MaxCalls)
    BY <1>2, <2>1, RowsTypes
  <2>3. calls' \in [Callers -> CallRecords]
    BY <2>1, <2>2, StageTypes DEF Stages
  <2>4. disk' \in Files
    BY <1>1, <2>1, <2>2 DEF Write, Files
  <2>5. /\ queue' \in Seq(Callers) /\ acked' \subseteq Callers \X (1..MaxCalls)
        /\ thread' = "idle"
    BY <1>1, <1>2, <2>1, <2>2 DEF Done
  <2> QED BY <1>1, <2>1, <2>3, <2>4, <2>5, ServerTypes
<1>5. CASE ExecuteFails
  <2>1. calls' \in [Callers -> CallRecords]
    BY <1>2, <1>5, StageTypes DEF Stages, ExecuteFails
  <2> QED BY <1>1, <1>2, <1>5, <2>1, ServerTypes DEF ExecuteFails, Done
<1>6. CASE Panic
  <2>1. calls' \in [Callers -> CallRecords]
    BY <1>2, <1>6, StageTypes DEF Stages, Panic
  <2> QED BY <1>1, <1>2, <1>6, <2>1, ServerTypes DEF Panic
<1>7. CASE DropChannel
  <2>1. \A c \in Callers : [calls[c] EXCEPT !.stage = "dead"] \in CallRecords
    BY <1>1 DEF CallRecords, Stages
  <2>2. calls' \in [Callers -> CallRecords]
    BY <1>1, <1>7, <2>1 DEF DropChannel, DropReplies
  <2>3. queue' \in Seq(Callers)
    BY <1>7 DEF DropChannel
  <2> QED BY <1>1, <1>7, <2>2, <2>3, ServerTypes DEF DropChannel
<1> QED BY <1>3, <1>4, <1>5, <1>6, <1>7

-------------------------------------------------------------------------------
(* Opening the file.                                                       *)

(* What the writer and its callers do is nothing to those who open the file. *)
LEMMA OpeningUnmoved ==
  ASSUME Opening, inServer,
         disk'.version = disk.version, disk'.steps = disk.steps, disk'.today = disk.today
  PROVE  Opening'
BY DEF Opening, inServer, LockIsHeld, Migrating, StepsAreWhole, StepsOfLater, Passed

(* A process that gives up, or dies, takes its lock and its transaction along. *)
LEMMA GivingUp ==
  ASSUME Types, Opening, NEW p \in Processes, GiveUp(p), UNCHANGED <<disk, seen>>,
         tx # None => tx # p \/ tx' = None
  PROVE  Opening'
<1>1. /\ phase \in [Processes -> ProcessPhases] /\ phase' = [phase EXCEPT ![p] = "down"]
      /\ lock' = IF lock = p THEN None ELSE lock
      /\ tx' = IF tx = p THEN None ELSE tx
      /\ tx \in Processes \cup {None} /\ None \notin Processes
      /\ Servers \subseteq Processes /\ Doctor \in Processes
  BY StoreAssumption DEF GiveUp, Unlock, Types, Processes
<1>2. LockIsHeld'
  BY <1>1 DEF Opening, LockIsHeld
<1>3. Migrating'
  <2>1. ASSUME NEW q \in Processes
        PROVE  /\ phase'[q] = "migrating" => disk'.version <= Target /\ seen'[q] <= disk'.version
               /\ phase'[q] \in {"up", "passed"} => disk'.version = Target
    BY <1>1, <2>1 DEF Opening, Migrating
  <2>2. tx' # None => phase'[tx'] = "migrating" /\ seen'[tx'] < Target
    BY <1>1 DEF Opening, Migrating
  <2> QED BY <2>1, <2>2 DEF Migrating
<1>4. StepsAreWhole' /\ StepsOfLater' /\ Passed'
  BY <1>1 DEF Opening, StepsAreWhole, StepsOfLater, Passed
<1> QED BY <1>2, <1>3, <1>4 DEF Opening

LEMMA OpeningSteps ==
  ASSUME Types, Opening, NEW p \in Processes, ReadVersion(p) \/ Begin(p) \/ Commit(p) \/ Die(p)
  PROVE  Opening'
<1>1. /\ phase \in [Processes -> ProcessPhases] /\ seen \in [Processes -> 0..Target]
      /\ tx \in Processes \cup {None} /\ None \notin Processes
      /\ Servers \subseteq Processes /\ Doctor \in Processes
      /\ disk \in Files /\ disk.version \in Versions /\ Target \in Nat \ {0}
  BY StoreAssumption DEF Types, Processes, Files
<1>2. CASE ReadVersion(p)
  <2>1. CASE disk.version > Target
    BY <1>2, <2>1, GivingUp DEF ReadVersion, GiveUp
  <2>2. CASE ~(disk.version > Target)
    <3>1. /\ phase[p] = "opening" /\ phase' = [phase EXCEPT ![p] = "migrating"]
          /\ seen' = [seen EXCEPT ![p] = disk.version] /\ UNCHANGED <<lock, tx, disk>>
          /\ disk.version <= Target
      BY <1>1, <1>2, <2>2 DEF ReadVersion, Versions
    <3>2. LockIsHeld' /\ StepsAreWhole' /\ StepsOfLater' /\ Passed'
      BY <1>1, <3>1 DEF Opening, LockIsHeld, StepsAreWhole, StepsOfLater, Passed
    <3>3. ASSUME NEW q \in Processes
          PROVE  /\ phase'[q] = "migrating" => disk'.version <= Target /\ seen'[q] <= disk'.version
                 /\ phase'[q] \in {"up", "passed"} => disk'.version = Target
      BY <1>1, <3>1, <3>3 DEF Opening, Migrating, Versions
    <3>4. tx' # None => phase'[tx'] = "migrating" /\ seen'[tx'] < Target
      BY <1>1, <3>1 DEF Opening, Migrating
    <3> QED BY <3>2, <3>3, <3>4 DEF Opening, Migrating
  <2> QED BY <2>1, <2>2
<1>3. CASE Begin(p)
  <2>1. CASE tx = None
    BY <1>1, <1>3, <2>1 DEF Begin, BeginStep, Opening, LockIsHeld, Migrating, StepsAreWhole,
                            StepsOfLater, Passed
  <2>2. CASE tx # None
    BY <1>3, <2>2, GivingUp DEF Begin
  <2> QED BY <2>1, <2>2
<1>4. CASE Commit(p)
  <2> DEFINE next == seen[p] + 1
  <2>1. /\ tx = p /\ phase[p] = "migrating" /\ seen[p] < Target
        /\ seen[p] <= disk.version /\ disk.version <= Target
        /\ disk.steps = 1..disk.version /\ seen[p] \in Nat /\ disk.version \in Nat
    BY <1>1, <1>4 DEF Commit, Opening, Migrating, StepsAreWhole, Versions
  <2>2. CASE Applies(next)
    <3>1. next = disk.version + 1
      BY <2>1, <2>2 DEF Applies
    <3>2. /\ disk' = [disk EXCEPT !.version = next, !.steps = @ \cup {next}]
          /\ seen' = [seen EXCEPT ![p] = next]
          /\ tx' = None /\ UNCHANGED <<lock, phase>>
      BY <1>4, <2>2 DEF Commit, Applies
    <3>3. next <= Target /\ next \in Nat /\ next = seen[p] + 1
      BY <1>1, <2>1
    <3> HIDE DEF next
    <3>4. disk'.version = next /\ disk'.steps = disk.steps \cup {next} /\ disk'.today = disk.today
      BY <1>1, <3>2 DEF Files
    <3>5. disk'.steps = 1..next
      BY <2>1, <3>1, <3>4
    <3>6. LockIsHeld' /\ StepsAreWhole' /\ StepsOfLater' /\ Passed'
      BY <1>1, <3>2, <3>3, <3>4, <3>5 DEF Opening, LockIsHeld, StepsAreWhole, StepsOfLater, Passed
    <3>7. ASSUME NEW q \in Processes
          PROVE  /\ phase'[q] = "migrating" => disk'.version <= Target /\ seen'[q] <= disk'.version
                 /\ phase'[q] \in {"up", "passed"} => disk'.version = Target
      <4>1. seen'[q] = IF q = p THEN next ELSE seen[q]
        BY <1>1, <3>2
      <4> QED BY <1>1, <2>1, <3>1, <3>2, <3>3, <3>4, <4>1 DEF Opening, Migrating
    <3> QED BY <3>2, <3>6, <3>7 DEF Opening, Migrating
  <2>3. CASE ~Applies(next)
    <3>1. GiveUp(p) /\ UNCHANGED <<disk, seen>>
      BY <1>4, <2>3 DEF Commit, Applies
    <3> QED BY <1>1, <3>1, <2>1, GivingUp DEF GiveUp
  <2> QED BY <2>2, <2>3
<1>5. CASE Die(p)
  BY <1>5, GivingUp DEF Die, GiveUp
<1> QED BY <1>2, <1>3, <1>4, <1>5

LEMMA OpeningStarts ==
  ASSUME Types, Opening,
         StartDoctor \/ Report \/ \E s \in Servers : Acquire(s) \/ Ready(s)
  PROVE  Opening'
<1>1. /\ phase \in [Processes -> ProcessPhases] /\ seen \in [Processes -> 0..Target]
      /\ tx \in Processes \cup {None} /\ None \notin Processes
      /\ Servers \subseteq Processes /\ Doctor \in Processes /\ Doctor \notin Servers
      /\ disk.version \in Versions /\ Target \in Nat \ {0}
  BY StoreAssumption DEF Types, Processes, Files
<1>2. CASE StartDoctor
  BY <1>1, <1>2 DEF StartDoctor, Opening, LockIsHeld, Migrating, StepsAreWhole, StepsOfLater, Passed
<1>3. CASE Report
  <2>1. /\ phase[Doctor] = "migrating" /\ seen[Doctor] = Target /\ UNCHANGED <<disk, lock, tx,
                                                                               seen>>
        /\ phase' = [phase EXCEPT ![Doctor] = IF disk.today THEN "passed" ELSE "objected"]
    BY <1>3 DEF Report, CheckShape
  <2>2. disk.version = Target /\ tx # Doctor
    BY <1>1, <2>1 DEF Opening, Migrating, Versions
  <2>3. LockIsHeld' /\ StepsAreWhole' /\ StepsOfLater' /\ Passed'
    BY <1>1, <2>1 DEF Opening, LockIsHeld, StepsAreWhole, StepsOfLater, Passed
  <2>4. Migrating'
    BY <1>1, <2>1, <2>2 DEF Opening, Migrating
  <2> QED BY <2>3, <2>4 DEF Opening
<1>4. ASSUME NEW s \in Servers, Acquire(s)
      PROVE  Opening'
  <2>1. CASE lock = None
    <3>1. /\ lock' = s /\ phase' = [phase EXCEPT ![s] = "opening"] /\ phase[s] = "down"
          /\ UNCHANGED <<disk, tx, seen>>
      BY <1>4, <2>1 DEF Acquire, LockIsFree
    <3>2. LockIsHeld'
      BY <1>1, <2>1, <3>1 DEF Opening, LockIsHeld
    <3>3. Migrating'
      BY <1>1, <3>1 DEF Opening, Migrating
    <3>4. StepsAreWhole' /\ StepsOfLater' /\ Passed'
      BY <1>1, <3>1, <1>4 DEF Opening, StepsAreWhole, StepsOfLater, Passed
    <3> QED BY <3>2, <3>3, <3>4 DEF Opening
  <2>2. CASE lock # None
    <3>1. UNCHANGED <<lock, phase, disk, tx, seen>>
      BY <1>4, <2>2 DEF Acquire, LockIsFree
    <3> QED BY <3>1 DEF Opening, LockIsHeld, Migrating, StepsAreWhole, StepsOfLater, Passed
  <2> QED BY <2>1, <2>2
<1>5. ASSUME NEW s \in Servers, Ready(s)
      PROVE  Opening'
  <2>1. /\ phase[s] = "migrating" /\ seen[s] = Target /\ UNCHANGED <<disk, lock, tx, seen>>
        /\ phase' = [phase EXCEPT ![s] = "up"] /\ s \in Processes
    BY <1>1, <1>5 DEF Ready
  <2>2. disk.version = Target /\ tx # s
    BY <1>1, <2>1 DEF Opening, Migrating, Versions
  <2>3. LockIsHeld' /\ StepsAreWhole' /\ StepsOfLater' /\ Passed'
    BY <1>1, <1>5, <2>1 DEF Opening, LockIsHeld, StepsAreWhole, StepsOfLater, Passed
  <2>4. Migrating'
    BY <1>1, <2>1, <2>2 DEF Opening, Migrating
  <2> QED BY <2>3, <2>4 DEF Opening
<1> QED BY <1>2, <1>3, <1>4, <1>5

-------------------------------------------------------------------------------
(* Writes and reads.                                                       *)

(* Opening the file touches no row and no call. *)
LEMMA ServingUnmoved ==
  ASSUME Serving, UNCHANGED server, disk'.rows = disk.rows
  PROVE  Serving'
BY DEF Serving, server, QueueIsOfQueued, RowsAreOfCalls, RowOf

LEMMA ServingBegins ==
  ASSUME Types, Serving, NEW s \in Servers, Ready(s)
  PROVE  Serving'
<1>1. UNCHANGED <<calls, made, acked, disk>> /\ queue' = <<>> /\ thread' = "idle"
  BY DEF Ready
<1> QED BY <1>1 DEF Serving, QueueIsOfQueued, RowsAreOfCalls, RowOf

LEMMA ServingEnds ==
  ASSUME Types, Serving, NEW p \in Processes, Die(p)
  PROVE  Serving'
<1>1. CASE phase[p] = "up"
  <2>1. /\ UNCHANGED <<made, acked, disk>> /\ queue' = <<>> /\ thread' = "dead"
        /\ calls' = [c \in Callers |-> NoCall]
    BY <1>1 DEF Die
  <2>2. \A c \in Callers : calls'[c].stage = "ended"
    BY <2>1 DEF NoCall
  <2>3. RowsAreOfCalls'
    BY <2>1, <2>2 DEF Serving, RowsAreOfCalls, Pending
  <2> QED BY <2>1, <2>3 DEF Serving, QueueIsOfQueued
<1>2. CASE phase[p] # "up"
  BY <1>2, ServingUnmoved DEF Die
<1> QED BY <1>1, <1>2

(* A caller whose call is not in the queue may change it as it likes. *)
LEMMA QueueStays ==
  ASSUME Types, QueueIsOfQueued, NEW c \in Callers, calls[c].stage # "queued",
         \A d \in Callers \ {c} : calls'[d] = calls[d], UNCHANGED <<queue, thread>>
  PROVE  QueueIsOfQueued'
<1>1. \A i \in 1..Len(queue) : queue[i] \in Callers /\ queue[i] # c
  BY DEF Types, QueueIsOfQueued
<1> QED BY <1>1 DEF QueueIsOfQueued

(* What the rows and the numbers of the other callers owe to nobody. *)
LEMMA RowsStay ==
  ASSUME Types, RowsAreOfCalls, NEW c \in Callers,
         \A d \in Callers \ {c} : calls'[d] = calls[d] /\ made'[d] = made[d],
         \A d \in Callers \ {c}, n \in Nat : <<d, n>> \in disk'.rows => <<d, n>> \in disk.rows,
         calls'[c].stage # "ended" => calls'[c].row = made'[c] /\ made'[c] > 0,
         calls'[c].stage \in Pending => <<c, calls'[c].row>> \notin disk'.rows,
         \A n \in 1..MaxCalls : <<c, n>> \in disk'.rows => n <= made'[c]
  PROVE  RowsAreOfCalls'
<1>1. ASSUME NEW d \in Callers
      PROVE  /\ calls'[d].stage # "ended" => calls'[d].row = made'[d] /\ made'[d] > 0
             /\ calls'[d].stage \in Pending => <<d, calls'[d].row>> \notin disk'.rows
             /\ \A n \in 1..MaxCalls : <<d, n>> \in disk'.rows => n <= made'[d]
  <2>1. CASE d = c
    BY <2>1
  <2>2. CASE d # c
    <3>0. calls[d].row \in 0..MaxCalls /\ 0..MaxCalls \subseteq Nat
      BY StoreAssumption DEF Types, CallRecords
    <3>1. /\ calls'[d] = calls[d] /\ made'[d] = made[d]
          /\ \A n \in Nat : <<d, n>> \in disk'.rows => <<d, n>> \in disk.rows
      BY <2>2
    <3>2. /\ calls[d].stage # "ended" => calls[d].row = made[d] /\ made[d] > 0
          /\ calls[d].stage \in Pending => <<d, calls[d].row>> \notin disk.rows
          /\ \A n \in 1..MaxCalls : <<d, n>> \in disk.rows => n <= made[d]
      BY DEF RowsAreOfCalls, RowOf
    <3> QED BY <3>0, <3>1, <3>2, StoreAssumption
  <2> QED BY <2>1, <2>2
<1> QED BY <1>1 DEF RowsAreOfCalls, RowOf

(* A new call has a new number. *)
LEMMA CallsBegin ==
  ASSUME Types, Serving, NEW c \in Callers,
         Read(c) \/ \E k \in Commands : Call(c, k)
  PROVE  Serving'
<1>1. /\ UNCHANGED <<disk, thread, queue, acked>> /\ made' = [made EXCEPT ![c] = @ + 1]
      /\ MayCall(c)
      /\ \E rec \in [kind : Commands \cup {"read"}, row : {made[c] + 1},
                    stage : Stages \ {"queued"}] :
           calls' = [calls EXCEPT ![c] = rec]
  <2>1. CASE Read(c)
    BY <2>1 DEF Read, Stages
  <2>2. ASSUME NEW k \in Commands, Call(c, k)
        PROVE  <1>1!:
    <3>1. FirstStage \in Stages \ {"queued"}
      BY DEF FirstStage, Stages
    <3>2. [kind |-> k, row |-> made[c] + 1, stage |-> FirstStage]
            \in [kind : Commands \cup {"read"}, row : {made[c] + 1}, stage : Stages \ {"queued"}]
      BY <3>1
    <3> QED BY <2>2, <3>2 DEF Call
  <2> QED BY <2>1, <2>2
<1>2. /\ calls'[c].row = made[c] + 1 /\ made'[c] = made[c] + 1 /\ made[c] \in Nat
      /\ \A d \in Callers \ {c} : calls'[d] = calls[d] /\ made'[d] = made[d]
  BY <1>1, StoreAssumption DEF Types
<1>3. calls[c].stage # "queued"
  BY <1>1 DEF MayCall
<1>4. QueueIsOfQueued'
  BY <1>1, <1>2, <1>3, QueueStays DEF Serving
<1>5. <<c, made[c] + 1>> \notin disk.rows
  <2>1. \A n \in 1..MaxCalls : <<c, n>> \in disk.rows => n <= made[c]
    BY DEF Serving, RowsAreOfCalls
  <2>2. disk.rows \subseteq Callers \X (1..MaxCalls)
    BY DEF Types, Files
  <2> QED BY <1>2, <2>1, <2>2
<1>6. RowsAreOfCalls'
  <2>1. \A n \in 1..MaxCalls : <<c, n>> \in disk'.rows => n <= made'[c]
    BY <1>1, <1>2 DEF Serving, RowsAreOfCalls
  <2> QED BY <1>1, <1>2, <1>5, <2>1, RowsStay DEF Serving
<1> QED BY <1>1, <1>4, <1>6 DEF Serving

(* A call moves from stage to stage; only from "ok" on its row may be there. *)
LEMMA StageMoves ==
  ASSUME Types, RowsAreOfCalls, NEW c \in Callers, NEW st \in Stages, Stage(c, st),
         calls[c].stage \in Pending, UNCHANGED <<disk, made>>
  PROVE  RowsAreOfCalls' /\ calls'[c].stage = st /\ \A d \in Callers \ {c} : calls'[d] = calls[d]
<1>1. /\ calls'[c].stage = st /\ calls'[c].row = calls[c].row
      /\ \A d \in Callers \ {c} : calls'[d] = calls[d]
  BY DEF Stage, Types, CallRecords
<1>2. /\ calls[c].row = made[c] /\ made[c] > 0 /\ <<c, calls[c].row>> \notin disk.rows
      /\ \A n \in 1..MaxCalls : <<c, n>> \in disk.rows => n <= made[c]
  BY DEF RowsAreOfCalls, RowOf, Pending
<1>3. RowsAreOfCalls'
  BY <1>1, <1>2, RowsStay
<1> QED BY <1>1, <1>3

LEMMA ReadsEnd ==
  ASSUME Types, Serving, NEW c \in Callers, FinishRead(c) \/ ReadPanics(c)
  PROVE  Serving'
<1>1. PICK st \in {"ok", "failed"} : Stage(c, st)
  BY DEF FinishRead, ReadPanics
<1>2. calls[c].stage = "reading" /\ UNCHANGED <<disk, thread, queue, made, acked>>
  BY DEF FinishRead, ReadPanics
<1>3. RowsAreOfCalls' /\ \A d \in Callers \ {c} : calls'[d] = calls[d]
  BY <1>1, <1>2, StageMoves DEF Serving, Stages, Pending
<1>4. QueueIsOfQueued'
  BY <1>2, <1>3, QueueStays DEF Serving
<1> QED BY <1>2, <1>3, <1>4 DEF Serving

LEMMA Enqueues ==
  ASSUME Types, Serving, NEW c \in Callers, Enqueue(c)
  PROVE  Serving'
<1>1. calls[c].stage = "checked" /\ UNCHANGED <<disk, thread, made, acked>>
  BY DEF Enqueue
<1>2. CASE thread = "dead"
  <2>1. Stage(c, "dead") /\ UNCHANGED queue
    BY <1>2 DEF Enqueue
  <2>2. RowsAreOfCalls' /\ \A d \in Callers \ {c} : calls'[d] = calls[d]
    BY <1>1, <2>1, StageMoves DEF Serving, Stages, Pending
  <2>3. QueueIsOfQueued'
    BY <1>1, <2>1, <2>2, QueueStays DEF Serving
  <2> QED BY <1>1, <2>2, <2>3 DEF Serving
<1>3. CASE thread # "dead"
  <2>1. Stage(c, "queued") /\ queue' = Append(queue, c)
    BY <1>3 DEF Enqueue
  <2>2. /\ RowsAreOfCalls' /\ \A d \in Callers \ {c} : calls'[d] = calls[d]
        /\ calls'[c].stage = "queued"
    BY <1>1, <2>1, StageMoves DEF Serving, Stages, Pending
  <2>3. queue \in Seq(Callers) /\ Len(queue) \in Nat
    BY DEF Types
  <2>4. \A i \in 1..Len(queue) : queue[i] \in Callers /\ queue[i] # c
    BY <1>1, <2>3 DEF Serving, QueueIsOfQueued
  <2>5. /\ Len(queue') = Len(queue) + 1 /\ queue'[Len(queue) + 1] = c
        /\ \A i \in 1..Len(queue) : queue'[i] = queue[i]
    BY <2>1, <2>3
  <2>6. ASSUME NEW i \in 1..Len(queue')
        PROVE  calls'[queue'[i]].stage = "queued"
    BY <2>2, <2>3, <2>4, <2>5, <2>6 DEF Serving, QueueIsOfQueued
  <2>7. ASSUME NEW i \in 1..Len(queue'), NEW j \in 1..Len(queue'), queue'[i] = queue'[j]
        PROVE  i = j
    BY <2>3, <2>4, <2>5, <2>7 DEF Serving, QueueIsOfQueued
  <2>8. queue' # <<>>
    BY <2>1, <2>3
  <2> QED BY <1>1, <2>2, <2>6, <2>7, <2>8 DEF Serving, QueueIsOfQueued
<1> QED BY <1>2, <1>3

(* The thread is done with the head of its queue, whatever came of it. *)
LEMMA HeadLeaves ==
  ASSUME Types, QueueIsOfQueued, thread = "busy",
         \A d \in Callers \ {Head(queue)} : calls'[d] = calls[d],
         queue' = Tail(queue), thread' # "busy"
  PROVE  QueueIsOfQueued'
<1>1. /\ queue \in Seq(Callers) /\ Len(queue) \in Nat \ {0} /\ Head(queue) = queue[1]
      /\ Len(queue') = Len(queue) - 1 /\ \A i \in 1..Len(queue') : queue'[i] = queue[i + 1]
  BY DEF Types, QueueIsOfQueued
<1>2. ASSUME NEW i \in 1..Len(queue')
      PROVE  /\ queue'[i] = queue[i + 1] /\ i + 1 \in 1..Len(queue) /\ queue[i + 1] \in Callers
             /\ queue[i + 1] # Head(queue)
  BY <1>1 DEF QueueIsOfQueued
<1>3. ASSUME NEW i \in 1..Len(queue')
      PROVE  calls'[queue'[i]].stage = "queued"
  BY <1>2 DEF QueueIsOfQueued
<1>4. ASSUME NEW i \in 1..Len(queue'), NEW j \in 1..Len(queue'), queue'[i] = queue'[j]
      PROVE  i = j
  BY <1>1, <1>2, <1>4 DEF QueueIsOfQueued
<1> QED BY <1>3, <1>4 DEF QueueIsOfQueued

LEMMA WriterWorks ==
  ASSUME Types, Serving, Receive \/ Execute \/ ExecuteFails \/ Panic \/ DropChannel
  PROVE  Serving'
<1>1. thread = "busy" => /\ Head(queue) \in Callers /\ calls[Head(queue)].stage = "queued"
                         /\ Rows(Head(queue)) \subseteq {<<Head(queue), calls[Head(queue)].row>>}
  BY QueueTypes DEF Serving, QueueIsOfQueued, Types, Rows, RowOf
<1>2. CASE Receive
  BY <1>2 DEF Receive, Serving, QueueIsOfQueued, RowsAreOfCalls, RowOf
<1>3. CASE Execute
  <2> DEFINE c == Head(queue)
  <2>1. /\ thread = "busy" /\ disk' = [disk EXCEPT !.rows = @ \cup Rows(c)]
        /\ Stage(c, "ok") /\ acked' = acked \cup Rows(c)
        /\ queue' = Tail(queue) /\ thread' = "idle" /\ UNCHANGED made
    BY <1>3 DEF Execute, Write, Done
  <2>2. /\ c \in Callers /\ calls[c].stage = "queued" /\ Rows(c) \subseteq {<<c, calls[c].row>>}
        /\ disk'.rows = disk.rows \cup Rows(c)
    BY <1>1, <2>1 DEF Types, Files
  <2>3. /\ calls'[c].stage = "ok" /\ calls'[c].row = calls[c].row
        /\ \A d \in Callers \ {c} : calls'[d] = calls[d]
    BY <2>1, <2>2 DEF Stage, Types, CallRecords
  <2>4. QueueIsOfQueued'
    BY <2>1, <2>3, HeadLeaves DEF Serving
  <2> HIDE DEF c
  <2>5. /\ calls[c].row = made[c] /\ made[c] > 0 /\ made[c] \in 0..MaxCalls
        /\ \A n \in 1..MaxCalls : <<c, n>> \in disk.rows => n <= made[c]
    BY <2>2 DEF Serving, RowsAreOfCalls, Types
  <2>6. \A d \in Callers \ {c}, n \in Nat : <<d, n>> \in disk'.rows => <<d, n>> \in disk.rows
    BY <2>2
  <2>7. \A n \in 1..MaxCalls : <<c, n>> \in disk'.rows => n <= made'[c]
    BY <2>1, <2>2, <2>5
  <2>8. /\ calls'[c].stage # "ended" => calls'[c].row = made'[c] /\ made'[c] > 0
        /\ calls'[c].stage \in Pending => <<c, calls'[c].row>> \notin disk'.rows
        /\ \A d \in Callers \ {c} : made'[d] = made[d]
    BY <2>1, <2>3, <2>5 DEF Pending
  <2>9. RowsAreOfCalls'
    BY <2>2, <2>3, <2>6, <2>7, <2>8, RowsStay DEF Serving
  <2> QED BY <2>1, <2>2, <2>4, <2>9 DEF Serving
<1>4. CASE ExecuteFails
  <2>1. /\ thread = "busy" /\ Stage(Head(queue), "failed") /\ queue' = Tail(queue)
        /\ thread' = "idle" /\ UNCHANGED <<disk, made, acked>>
    BY <1>4 DEF ExecuteFails, Done
  <2>2. RowsAreOfCalls' /\ \A d \in Callers \ {Head(queue)} : calls'[d] = calls[d]
    BY <1>1, <2>1, StageMoves DEF Serving, Stages, Pending
  <2> QED BY <2>1, <2>2, HeadLeaves DEF Serving
<1>5. CASE Panic
  <2>1. /\ thread = "busy" /\ Stage(Head(queue), "dead") /\ queue' = Tail(queue)
        /\ thread' = "unwinding" /\ UNCHANGED <<disk, made, acked>>
    BY <1>5 DEF Panic
  <2>2. RowsAreOfCalls' /\ \A d \in Callers \ {Head(queue)} : calls'[d] = calls[d]
    BY <1>1, <2>1, StageMoves DEF Serving, Stages, Pending
  <2> QED BY <2>1, <2>2, HeadLeaves DEF Serving
<1>6. CASE DropChannel
  <2>1. /\ queue' = <<>> /\ thread' = "dead" /\ UNCHANGED <<disk, made, acked>>
        /\ calls' = [c \in Callers |-> IF calls[c].stage = "queued"
                                       THEN [calls[c] EXCEPT !.stage = "dead"] ELSE calls[c]]
    BY <1>6 DEF DropChannel, DropReplies
  <2>2. ASSUME NEW c \in Callers
        PROVE  /\ calls'[c].row = calls[c].row
               /\ calls'[c].stage \in Pending => calls[c].stage \in Pending
               /\ calls'[c].stage # "ended" => calls[c].stage # "ended"
    BY <2>1 DEF Types, CallRecords, Pending
  <2>3. RowsAreOfCalls'
    BY <2>1, <2>2 DEF Serving, RowsAreOfCalls, RowOf
  <2> QED BY <2>1, <2>3 DEF Serving, QueueIsOfQueued
<1> QED BY <1>2, <1>3, <1>4, <1>5, <1>6

-------------------------------------------------------------------------------
(* The theorem.                                                            *)

LEMMA StoreBegins == StoreInit => StoreIInv
<1> SUFFICES ASSUME StoreInit PROVE StoreIInv
  OBVIOUS
<1>1. PICK v \in 0..(Target + 1), today \in BOOLEAN :
        /\ v = 0 => today
        /\ disk = [version |-> v, steps |-> 1..(IF v > Target THEN Target ELSE v),
                   today |-> today, rows |-> {}]
  BY DEF StoreInit
<1>2. /\ disk.version = v /\ disk.today = today /\ disk.rows = {}
      /\ disk.steps = 1..(IF v > Target THEN Target ELSE v)
      /\ disk.steps \subseteq 1..Target /\ v \in 0..(Target + 1) /\ Target \in Nat \ {0}
  BY <1>1, StoreAssumption
<1>3. /\ lock = None /\ tx = None /\ queue = <<>> /\ acked = {} /\ idle = 0
      /\ phase = [p \in Processes |-> "down"] /\ seen = [p \in Processes |-> 0]
      /\ starts = [p \in Processes |-> MaxStarts] /\ alive = FALSE /\ thread = "dead"
      /\ calls = [c \in Callers |-> NoCall] /\ made = [c \in Callers |-> 0]
  BY DEF StoreInit
<1>4. Types
  <2>1. disk \in Files
    BY <1>1, <1>2 DEF Files, Versions
  <2>2. NoCall \in CallRecords
    BY StoreAssumption DEF NoCall, CallRecords, Stages
  <2>3. calls \in [Callers -> CallRecords]
    BY <1>3, <2>2
  <2>4. /\ seen \in [Processes -> 0..Target] /\ phase \in [Processes -> ProcessPhases]
        /\ starts \in [Processes -> Nat] /\ made \in [Callers -> 0..MaxCalls]
        /\ idle \in 0..MaxIdle
    BY <1>3, StoreAssumption DEF ProcessPhases
  <2>5. queue \in Seq(Callers)
    BY <1>3
  <2>6. acked \subseteq Callers \X (1..MaxCalls)
    BY <1>3
  <2>7. /\ lock \in Servers \cup {None} /\ tx \in Processes \cup {None}
        /\ alive \in BOOLEAN /\ thread \in {"idle", "busy", "unwinding", "dead"}
    BY <1>3
  <2> QED BY <2>1, <2>3, <2>4, <2>5, <2>6, <2>7 DEF Types
<1>5. Opening
  <2>1. LockIsHeld /\ Migrating /\ Passed
    BY <1>3 DEF LockIsHeld, Migrating, Passed, Processes
  <2>2. StepsAreWhole /\ StepsOfLater
    BY <1>2 DEF StepsAreWhole, StepsOfLater
  <2> QED BY <2>1, <2>2 DEF Opening
<1>6. Serving
  <2>1. \A c \in Callers : calls[c].stage = "ended"
    BY <1>3 DEF NoCall
  <2>2. RowsAreOfCalls
    BY <1>2, <2>1 DEF RowsAreOfCalls, Pending
  <2> QED BY <1>3, <2>2 DEF Serving, QueueIsOfQueued
<1> QED BY <1>4, <1>5, <1>6 DEF StoreIInv

LEMMA StoreStepsAreGood == StoreIInv /\ [StoreNext]_storeVars => StoreIInv'
<1> SUFFICES ASSUME Types, Opening, Serving, [StoreNext]_storeVars
             PROVE  Types' /\ Opening' /\ Serving'
  BY DEF StoreIInv
<1>0. Migrating /\ QueueIsOfQueued /\ RowsAreOfCalls
  BY DEF Opening, Serving
<1>1. CASE StartDoctor \/ Report \/ \E s \in Servers : Acquire(s) \/ Ready(s)
  <2>1. CASE \E s \in Servers : Ready(s)
    BY <2>1, ProcessStarts, OpeningStarts, ServingBegins
  <2>2. CASE StartDoctor \/ Report \/ \E s \in Servers : Acquire(s)
    <3>1. UNCHANGED <<disk, server>>
      BY <2>2 DEF StartDoctor, Report, Acquire
    <3> QED BY <1>1, <3>1, ProcessStarts, OpeningStarts, ServingUnmoved
  <2> QED BY <1>1, <2>1, <2>2
<1>2. ASSUME NEW p \in Processes, ReadVersion(p) \/ Begin(p) \/ Commit(p) \/ Die(p)
      PROVE  Types' /\ Opening' /\ Serving'
  <2>1. Types' /\ Opening'
    BY <1>0, <1>2, FileOpens, OpeningSteps
  <2>2. CASE Die(p)
    BY <2>1, <2>2, ServingEnds
  <2>3. CASE ReadVersion(p) \/ Begin(p) \/ Commit(p)
    <3>1. UNCHANGED server
      BY <2>3 DEF ReadVersion, Begin, Commit
    <3>2. disk'.rows = disk.rows
      BY <2>3 DEF ReadVersion, Begin, BeginStep, Commit, Types, Files
    <3> QED BY <2>1, <3>1, <3>2, ServingUnmoved
  <2> QED BY <1>2, <2>2, <2>3
<1>3. ASSUME NEW c \in Callers,
             \/ Enqueue(c) \/ Read(c) \/ FinishRead(c) \/ ReadPanics(c)
             \/ \E k \in Commands : Call(c, k)
      PROVE  Types' /\ Opening' /\ Serving'
  <2>1. Types'
    BY <1>3, CallerSteps
  <2>2. UNCHANGED disk /\ inServer
    BY <1>3 DEF Enqueue, Read, FinishRead, ReadPanics, Call
  <2>3. Serving'
    BY <1>3, Enqueues, CallsBegin, ReadsEnd
  <2> QED BY <2>1, <2>2, <2>3, OpeningUnmoved
<1>4. CASE Receive \/ Execute \/ ExecuteFails \/ Panic \/ DropChannel
  <2>1. Types' /\ Serving'
    BY <1>0, <1>4, WriterSteps, WriterWorks
  <2>2. inServer /\ (UNCHANGED disk \/ \E c \in {Head(queue)} : Write(c))
    BY <1>4 DEF Receive, Execute, ExecuteFails, Panic, DropChannel
  <2>3. disk'.version = disk.version /\ disk'.steps = disk.steps /\ disk'.today = disk.today
    BY <2>2 DEF Write, Types, Files
  <2> QED BY <2>1, <2>2, <2>3, OpeningUnmoved
<1>5. CASE UNCHANGED storeVars
  <2>1. Types'
    BY <1>5 DEF storeVars, server, Types
  <2>2. Opening' /\ Serving'
    BY <1>5, OpeningUnmoved, ServingUnmoved DEF storeVars, inServer, server
  <2> QED BY <2>1, <2>2
<1> QED BY <1>1, <1>2, <1>3, <1>4, <1>5 DEF StoreNext

LEMMA StoreFollows == StoreIInv => StoreInv
<1> SUFFICES ASSUME StoreIInv PROVE StoreInv
  OBVIOUS
<1>0. Types /\ Opening /\ Serving
  BY DEF StoreIInv
<1>1. /\ disk.version \in 0..(Target + 1) /\ disk.steps \subseteq 1..Target
      /\ disk.today \in BOOLEAN
  BY <1>0 DEF Types, Files, Versions
<1>2. StoreTypeOK
  <2>1. idle \in Nat
    BY <1>0, StoreAssumption DEF Types
  <2> QED BY <1>0, <1>1, <2>1 DEF Types, StoreTypeOK
<1>3. SchemaIsWhole
  BY <1>0 DEF SchemaIsWhole, Opening, StepsAreWhole, Migrating, Up, Processes
<1>4. OneServer
  <2> DEFINE S == {s \in Servers : phase[s] # "down"}
  <2>1. S \subseteq {lock}
    BY <1>0 DEF Opening, LockIsHeld
  <2>2. S = {} \/ S = {lock}
    BY <2>1
  <2> HIDE DEF S
  <2>3. Cardinality(S) <= 1
    <3>1. CASE S = {}
      <4>1. Cardinality(S) = 0
        BY <3>1, FS_EmptySet
      <4> QED BY <4>1
    <3>2. CASE S = {lock}
      <4>1. Cardinality(S) = 1
        BY <3>2, FS_Singleton
      <4> QED BY <4>1
    <3> QED BY <2>2, <3>1, <3>2
  <2> USE DEF S
  <2> QED BY <2>3 DEF OneServer
<1>5. AnswersHold
  BY <1>0 DEF Serving, RowsAreOfCalls, AnswersHold, Pending
<1>6. DoctorIsRight
  BY <1>0 DEF Opening, Passed, Migrating, DoctorIsRight, Processes
<1>7. idle <= MaxIdle
  BY <1>0, StoreAssumption DEF Types
<1> QED BY <1>2, <1>3, <1>4, <1>5, <1>6, <1>7 DEF StoreInv

(* oc-store, oc-cli lock.rs, doctor.rs: whoever dies, panics or collides, with
   any number of servers, callers and steps of the schema, two servers are never
   inside the file, its version names the steps it has, a caller's Ok is a row in
   the file and its error is none, and the doctor passes no file that lacks a
   table. *)
THEOREM StoreIsSafe == StoreSpec => []StoreInv
<1>1. StoreSpec => []StoreIInv
  BY StoreBegins, StoreStepsAreGood, PTL DEF StoreSpec
<1> QED BY <1>1, StoreFollows, PTL

-------------------------------------------------------------------------------
(* Long-term memory: its inductive invariant.                              *)

(* What a lane writes in the place of another row is a preference, and the row
   it will delete is not the one it wrote. *)
LanePlan(l) ==
  /\ pc[l] = "idle" => victim[l] = NoFact
  /\ pc[l] # "idle" => fact[l] \in Facts
  /\ victim[l] # NoFact => fact[l] \in Prefs
  /\ pc[l] = "delete" => victim[l] \notin {NoFact, fact[l]}

(* A row says at least what it was made from. *)
SaysItself == \A f \in Facts : Exists(f) => f \in text[f]

(* A row that was shown to the model says no more than it did then, if it is
   there at all. *)
AsShown(f, says) == f \in says /\ (Exists(f) => text[f] \subseteq says)

Gathered ==
  dream \in {"curated", "decide"} =>
    \A i \in DOMAIN passed : AsShown(passed[i].id, passed[i].says)

Listed == dream = "decide" => \A t \in curated : AsShown(t.id, t.says)

(* Nor does a row that a decision concerns, unless an earlier decision has merged
   others into it; what it says then is among the merged texts. *)
AsDecided(f, says) ==
  /\ f \in says
  /\ Exists(f) => text[f] \subseteq says \/ (f \in goals /\ text[f] \subseteq merged)

Decided ==
  /\ dream # "act" => items = <<>>
  /\ \A i \in DOMAIN items :
       /\ AsDecided(items[i].source, items[i].says)
       /\ items[i].target # NoFact => AsDecided(items[i].target, items[i].says)

(* A person only adds to the file; a second read sees all of it or nothing. *)
FileGrows == dream = "write" => saved \subseteq file /\ reread \in {saved, {}}

MemoryIInv ==
  /\ MemoryTypeOK /\ SaysItself
  /\ \A l \in Lanes : LanePlan(l)
  /\ Gathered /\ Listed /\ Decided /\ FileGrows

-------------------------------------------------------------------------------
(* Rows in order.                                                          *)

(* Nth gives each place of a set once: how many places come before one tells it
   from the others, and so counts them all. *)
LEMMA NthIsOnto ==
  ASSUME NEW n \in Nat, NEW D \in SUBSET (1..n)
  PROVE  /\ Cardinality(D) \in Nat
         /\ \A k \in 1..Cardinality(D) : Nth(D, k) \in D
         /\ \A j, k \in 1..Cardinality(D) : Nth(D, j) = Nth(D, k) => j = k
         /\ \A i \in D : \E k \in 1..Cardinality(D) : Nth(D, k) = i
<1> DEFINE Before(i) == {j \in D : j < i}
           c == Cardinality(D)
           rank(i) == Cardinality(Before(i))
           f == [i \in D |-> rank(i) + 1]
<1>1. IsFiniteSet(1..n) /\ D \subseteq 1..n /\ D \subseteq Nat
  <2>1. IsFiniteSet(1..n)
    <3>1. 1 \in Int /\ n \in Int
      OBVIOUS
    <3> QED  BY <3>1, FS_Interval
  <2>2. D \subseteq 1..n /\ 1..n \subseteq Nat
    OBVIOUS
  <2> QED  BY <2>1, <2>2
<1>2. IsFiniteSet(D) /\ c \in Nat
  BY <1>1, FS_Subset, FS_CardinalityType
<1>3. \A i \in D : IsFiniteSet(Before(i)) /\ rank(i) \in Nat
  <2> TAKE i \in D
  <2>1. Before(i) \in SUBSET D
    OBVIOUS
  <2>2. IsFiniteSet(Before(i))
    BY <1>2, <2>1, FS_Subset
  <2> QED  BY <2>2, FS_CardinalityType
<1>4. \A i \in D : rank(i) + 1 \in 1..c
  <2> TAKE i \in D
  <2>1. Cardinality(D \ {i}) = c - 1 /\ IsFiniteSet(D \ {i})
    BY <1>2, FS_RemoveElement
  <2>2. Before(i) \in SUBSET (D \ {i})
    BY <1>1
  <2>3. rank(i) <= c - 1
    BY <2>1, <2>2, FS_Subset
  <2>4. rank(i) \in Nat
    BY <1>3
  <2> HIDE DEF rank, c
  <2> QED  BY <1>2, <2>3, <2>4
<1>5. ASSUME NEW i \in D, NEW j \in D, i < j PROVE rank(i) < rank(j)
  <2>1. i \notin Before(i) /\ IsFiniteSet(Before(i)) /\ IsFiniteSet(Before(j))
    BY <1>1, <1>3
  <2>2. Cardinality(Before(i) \cup {i}) = rank(i) + 1
    BY <2>1, FS_AddElement
  <2>3. Before(i) \cup {i} \in SUBSET Before(j)
    <3> SUFFICES ASSUME NEW x \in Before(i) PROVE x < j
      BY <1>5
    <3> QED  BY <1>1, <1>5
  <2>4. rank(i) + 1 <= rank(j)
    BY <2>1, <2>2, <2>3, FS_Subset
  <2>5. rank(i) \in Nat /\ rank(j) \in Nat
    BY <1>3
  <2> HIDE DEF rank
  <2> QED  BY <2>4, <2>5
<1>6. \A i, j \in D : rank(i) = rank(j) => i = j
  <2> SUFFICES ASSUME NEW i \in D, NEW j \in D, rank(i) = rank(j) PROVE i = j
    OBVIOUS
  <2>1. ~(i < j) /\ ~(j < i)
    <3>1. rank(i) \in Nat
      BY <1>3
    <3>2. ~(rank(i) < rank(i))
      <4> HIDE DEF rank
      <4> QED  BY <3>1
    <3> HIDE DEF rank
    <3> QED  BY <1>5, <3>2
  <2> QED  BY <1>1, <2>1
<1>7. f \in Injection(D, 1..c)
  <2>1. f \in [D -> 1..c]
    BY <1>4
  <2>2. \A i, j \in D : f[i] = f[j] => i = j
    <3> SUFFICES ASSUME NEW i \in D, NEW j \in D, f[i] = f[j] PROVE i = j
      OBVIOUS
    <3>1. rank(i) + 1 = rank(j) + 1 /\ rank(i) \in Nat /\ rank(j) \in Nat
      BY <1>3
    <3>2. rank(i) = rank(j)
      <4> HIDE DEF rank
      <4> QED  BY <3>1
    <3> QED  BY <1>6, <3>2
  <2> HIDE DEF f
  <2> QED  BY <2>1, <2>2 DEF Injection, IsInjective
<1>8. f \in Surjection(D, 1..c)
  <2>1. IsFiniteSet(1..c) /\ Cardinality(1..c) = c
    BY <1>2, FS_Interval
  <2> HIDE DEF f
  <2> QED  BY <1>7, <2>1, FS_Injection
<1>9. ASSUME NEW k \in 1..c PROVE Nth(D, k) \in D /\ rank(Nth(D, k)) = k - 1
  <2>1. PICK i \in D : f[i] = k
    BY <1>8, <1>9 DEF Surjection
  <2>2. rank(i) + 1 = k /\ rank(i) \in Nat /\ k \in Nat
    BY <1>2, <1>3, <2>1
  <2>3. rank(i) = k - 1
    <3> HIDE DEF rank
    <3> QED  BY <2>2
  <2>4. Nth(D, k) = CHOOSE x \in D : rank(x) = k - 1
    BY DEF Nth
  <2> QED  BY <2>3, <2>4
<1>10. \A j, k \in 1..c : Nth(D, j) = Nth(D, k) => j = k
  <2> SUFFICES ASSUME NEW j \in 1..c, NEW k \in 1..c, Nth(D, j) = Nth(D, k) PROVE j = k
    OBVIOUS
  <2>1. j - 1 = k - 1
    BY <1>9
  <2> QED  BY <1>2, <2>1
<1>11. ASSUME NEW i \in D PROVE \E k \in 1..c : Nth(D, k) = i
  <2>1. PICK k \in 1..c : k = rank(i) + 1
    BY <1>4
  <2>2. rank(i) \in Nat
    BY <1>3
  <2>3. k - 1 = rank(i)
    <3> HIDE DEF rank
    <3> QED  BY <2>1, <2>2
  <2>4. rank(Nth(D, k)) = rank(i) /\ Nth(D, k) \in D
    BY <1>9, <2>3
  <2> QED  BY <1>6, <2>4
<1> QED  BY <1>2, <1>9, <1>10, <1>11

(* RowsOf takes the rows of S and no others, each once. *)
LEMMA RowsOfIsRight ==
  ASSUME NEW S, rows \in Seq(Facts), \A i, j \in DOMAIN rows : rows[i] = rows[j] => i = j
  PROVE  /\ RowsOf(S) \in Seq(Facts)
         /\ \A i, j \in DOMAIN RowsOf(S) : RowsOf(S)[i] = RowsOf(S)[j] => i = j
         /\ \A f : (\E i \in DOMAIN RowsOf(S) : RowsOf(S)[i] = f) <=> Exists(f) /\ f \in S
<1> DEFINE D == {i \in DOMAIN rows : rows[i] \in S}
<1>1. DOMAIN rows = 1..Len(rows) /\ Len(rows) \in Nat /\ D \in SUBSET (1..Len(rows))
  OBVIOUS
<1>2. PICK c \in Nat : c = Cardinality(D)
  BY <1>1, NthIsOnto
<1>3. /\ \A k \in 1..c : Nth(D, k) \in D
      /\ \A j, k \in 1..c : Nth(D, j) = Nth(D, k) => j = k
      /\ \A i \in D : \E k \in 1..c : Nth(D, k) = i
  BY <1>1, <1>2, NthIsOnto
<1>4. RowsOf(S) = [k \in 1..c |-> rows[Nth(D, k)]]
  BY <1>2 DEF RowsOf
<1>5. \A k \in 1..c : Nth(D, k) \in DOMAIN rows /\ rows[Nth(D, k)] \in S
  BY <1>3
<1> HIDE DEF D
<1>6. RowsOf(S) \in Seq(Facts)
  BY <1>1, <1>4, <1>5
<1>7. DOMAIN RowsOf(S) = 1..c /\ \A k \in 1..c : RowsOf(S)[k] = rows[Nth(D, k)]
  BY <1>4
<1>8. \A i, j \in DOMAIN RowsOf(S) : RowsOf(S)[i] = RowsOf(S)[j] => i = j
  BY <1>3, <1>5, <1>7
<1>9. ASSUME NEW f PROVE (\E i \in DOMAIN RowsOf(S) : RowsOf(S)[i] = f) <=> Exists(f) /\ f \in S
  <2>1. Exists(f) <=> \E i \in DOMAIN rows : rows[i] = f
    BY <1>1 DEF Exists, Range
  <2>2. ASSUME NEW i \in DOMAIN rows, rows[i] = f, f \in S
        PROVE  \E k \in DOMAIN RowsOf(S) : RowsOf(S)[k] = f
    <3>1. i \in D
      BY <2>2 DEF D
    <3> QED  BY <1>3, <1>7, <2>2, <3>1
  <2> QED  BY <1>5, <1>7, <2>1, <2>2
<1> QED  BY <1>6, <1>8, <1>9

LEMMA MemoryTypes ==
  ASSUME MemoryTypeOK
  PROVE  /\ rows \in Seq(Facts) /\ \A i, j \in DOMAIN rows : rows[i] = rows[j] => i = j
         /\ tier \in [Facts -> {"episodic", "curated"}] /\ text \in [Facts -> SUBSET Facts]
         /\ keyed \in [Facts -> BOOLEAN]
         /\ pc \in [Lanes -> {"idle", "write", "delete"}]
         /\ fact \in [Lanes -> Facts \cup {NoFact}] /\ victim \in [Lanes -> Facts \cup {NoFact}]
         /\ passed \in Seq(Snapshot) /\ curated \subseteq Snapshot /\ items \in Seq(Decision)
         /\ turns \in Nat /\ dreams \in Nat /\ mishaps \in Nat
         /\ NoFact \notin Facts /\ Prefs \subseteq Facts /\ Flushable \subseteq Facts
         /\ MaxDecisions \in Nat /\ MaxTurns \in Nat /\ MaxDreams \in Nat /\ MaxMishaps \in Nat
         /\ \A f : Exists(f) => f \in Facts
         /\ \A f : Exists(f) <=> f \in Range(rows)
<1>1. /\ NoFact \notin Facts /\ Prefs \subseteq Facts /\ Flushable \subseteq Facts
      /\ MaxDecisions \in Nat /\ MaxTurns \in Nat /\ MaxDreams \in Nat /\ MaxMishaps \in Nat
  BY MemoryAssumption DEF MemoryAssumption, Facts
<1>2. rows \in Seq(Facts) /\ DOMAIN rows = 1..Len(rows)
  BY DEF MemoryTypeOK
<1>3. \A f : (Exists(f) => f \in Facts) /\ (Exists(f) <=> f \in Range(rows))
  BY <1>2 DEF Exists, Range
<1>4. turns \in Nat /\ dreams \in Nat /\ mishaps \in Nat
  BY <1>1 DEF MemoryTypeOK
<1> QED  BY <1>1, <1>2, <1>3, <1>4 DEF MemoryTypeOK

(* Writing a row and deleting one: who is there afterwards, and what it says. *)
LEMMA UpsertFacts ==
  ASSUME MemoryTypeOK, NEW f \in Facts, NEW as \in {"episodic", "curated"}, NEW key \in BOOLEAN,
         Upsert(f, as, key)
  PROVE  /\ rows' \in Seq(Facts) /\ \A i, j \in DOMAIN rows' : rows'[i] = rows'[j] => i = j
         /\ tier' \in [Facts -> {"episodic", "curated"}] /\ text' \in [Facts -> SUBSET Facts]
         /\ keyed' \in [Facts -> BOOLEAN]
         /\ \A g : Exists(g)' <=> Exists(g) \/ g = f
         /\ \A g \in Facts : Exists(g) => tier'[g] = tier[g]
         /\ ~Exists(f) => tier'[f] = as
         /\ text'[f] = {f} /\ \A g \in Facts \ {f} : text'[g] = text[g]
<1>1. /\ rows \in Seq(Facts) /\ \A i, j \in DOMAIN rows : rows[i] = rows[j] => i = j
      /\ tier \in [Facts -> {"episodic", "curated"}] /\ text \in [Facts -> SUBSET Facts]
      /\ keyed \in [Facts -> BOOLEAN]
  BY MemoryTypes
<1>2. /\ text' = [text EXCEPT ![f] = {f}] /\ keyed' = [keyed EXCEPT ![f] = key]
      /\ rows' = IF Exists(f) THEN rows ELSE Append(rows, f)
      /\ tier' = IF Exists(f) THEN tier ELSE [tier EXCEPT ![f] = as]
  BY DEF Upsert
<1>3. /\ text' \in [Facts -> SUBSET Facts] /\ keyed' \in [Facts -> BOOLEAN]
      /\ text'[f] = {f} /\ \A g \in Facts \ {f} : text'[g] = text[g]
  BY <1>1, <1>2
<1>4. /\ tier' \in [Facts -> {"episodic", "curated"}]
      /\ \A g \in Facts : Exists(g) => tier'[g] = tier[g]
      /\ ~Exists(f) => tier'[f] = as
  BY <1>1, <1>2
<1>5. /\ rows' \in Seq(Facts) /\ \A i, j \in DOMAIN rows' : rows'[i] = rows'[j] => i = j
      /\ \A g : Exists(g)' <=> Exists(g) \/ g = f
  <2>1. CASE Exists(f)
    BY <1>1, <1>2, <2>1 DEF Exists
  <2>2. CASE ~Exists(f)
    <3>1. \A i \in 1..Len(rows) : rows[i] # f
      BY <2>2 DEF Exists, Range
    <3>2. /\ rows' = Append(rows, f) /\ Len(rows') = Len(rows) + 1 /\ Len(rows) \in Nat
          /\ \A i \in 1..Len(rows) : rows'[i] = rows[i]
          /\ rows'[Len(rows) + 1] = f /\ rows' \in Seq(Facts)
      BY <1>1, <1>2, <2>2
    <3>3. DOMAIN rows' = 1..(Len(rows) + 1) /\ DOMAIN rows = 1..Len(rows)
      BY <1>1, <3>2
    <3>4. \A i \in 1..(Len(rows) + 1) : i \in 1..Len(rows) \/ i = Len(rows) + 1
      BY <3>2
    <3>5. \A i, j \in DOMAIN rows' : rows'[i] = rows'[j] => i = j
      BY <1>1, <3>1, <3>2, <3>3, <3>4
    <3>6. Len(rows) + 1 \in 1..(Len(rows) + 1) /\ 1..Len(rows) \subseteq 1..(Len(rows) + 1)
      BY <3>2
    <3>7. ASSUME NEW g PROVE Exists(g)' <=> Exists(g) \/ g = f
      BY <3>2, <3>4, <3>6 DEF Exists, Range
    <3> QED  BY <3>2, <3>5, <3>7
  <2> QED  BY <2>1, <2>2
<1> QED  BY <1>3, <1>4, <1>5

LEMMA ClearedFacts ==
  ASSUME MemoryTypeOK, NEW f \in Facts, Cleared(f)
  PROVE  /\ rows' \in Seq(Facts) /\ \A i, j \in DOMAIN rows' : rows'[i] = rows'[j] => i = j
         /\ tier' \in [Facts -> {"episodic", "curated"}] /\ keyed' \in [Facts -> BOOLEAN]
         /\ \A g : Exists(g)' <=> Exists(g) /\ g # f
         /\ \A g \in Facts \ {f} : tier'[g] = tier[g]
<1>1. /\ rows \in Seq(Facts) /\ \A i, j \in DOMAIN rows : rows[i] = rows[j] => i = j
      /\ tier \in [Facts -> {"episodic", "curated"}] /\ keyed \in [Facts -> BOOLEAN]
      /\ \A g : Exists(g) => g \in Facts
  BY MemoryTypes
<1>2. /\ rows' = RowsOf(Facts \ {f}) /\ keyed' = [keyed EXCEPT ![f] = FALSE]
      /\ tier' = [tier EXCEPT ![f] = "episodic"]
  BY DEF Cleared
<1>3. /\ rows' \in Seq(Facts) /\ \A i, j \in DOMAIN rows' : rows'[i] = rows'[j] => i = j
      /\ \A g : (\E i \in DOMAIN rows' : rows'[i] = g) <=> Exists(g) /\ g \in Facts \ {f}
  <2> DEFINE S == Facts \ {f}
  <2>1. rows' = RowsOf(S)
    BY <1>2
  <2> HIDE DEF S
  <2>2. /\ RowsOf(S) \in Seq(Facts)
        /\ \A i, j \in DOMAIN RowsOf(S) : RowsOf(S)[i] = RowsOf(S)[j] => i = j
        /\ \A g : (\E i \in DOMAIN RowsOf(S) : RowsOf(S)[i] = g) <=> Exists(g) /\ g \in S
    BY <1>1, RowsOfIsRight
  <2>3. \A g : g \in S <=> g \in Facts \ {f}
    BY DEF S
  <2> QED  BY <2>1, <2>2, <2>3
<1>4. ASSUME NEW g PROVE Exists(g)' <=> Exists(g) /\ g # f
  <2>1. Exists(g)' <=> \E i \in DOMAIN rows' : rows'[i] = g
    BY <1>3 DEF Exists, Range
  <2> QED  BY <1>1, <1>3, <2>1
<1> QED  BY <1>1, <1>2, <1>3, <1>4

-------------------------------------------------------------------------------
(* What a turn and a flush leave of a consolidation's plans.               *)

(* A row is unchanged, or says what it was made from: then what was shown to the
   model, and what it decided of it, is still true. *)
LEMMA PlansStay ==
  ASSUME MemoryTypeOK, SaysItself, Gathered, Listed, Decided,
         \A g \in Facts : Exists(g)' => text'[g] = {g} \/ (Exists(g) /\ text'[g] = text[g]),
         UNCHANGED <<dream, passed, curated, items, merged, goals>>
  PROVE  SaysItself' /\ Gathered' /\ Listed' /\ Decided'
<1>1. /\ passed \in Seq(Snapshot) /\ curated \subseteq Snapshot /\ items \in Seq(Decision)
  BY MemoryTypes
<1>2. SaysItself'
  BY DEF SaysItself
<1>3. ASSUME NEW f \in Facts, NEW S \in SUBSET Facts
      PROVE  (AsShown(f, S) => AsShown(f, S)') /\ (AsDecided(f, S) => AsDecided(f, S)')
  BY <1>3 DEF AsShown, AsDecided
<1>4. /\ \A i \in DOMAIN passed : passed[i].id \in Facts /\ passed[i].says \in SUBSET Facts
      /\ \A t \in curated : t.id \in Facts /\ t.says \in SUBSET Facts
      /\ \A i \in DOMAIN items : items[i].source \in Facts /\ items[i].says \in SUBSET Facts
                                 /\ items[i].target \in Facts \cup {NoFact}
  <2>1. \A i \in DOMAIN passed : passed[i] \in Snapshot
    BY <1>1
  <2>2. \A i \in DOMAIN items : items[i] \in Decision
    BY <1>1
  <2> QED  BY <1>1, <2>1, <2>2 DEF Snapshot, Decision
<1>5. passed' = passed /\ curated' = curated /\ items' = items /\ dream' = dream
  OBVIOUS
<1>6. Gathered'
  BY <1>3, <1>4, <1>5 DEF Gathered
<1>7. Listed'
  BY <1>3, <1>4, <1>5 DEF Listed
<1>8. Decided'
  <2>1. dream' # "act" => items' = <<>>
    BY <1>5 DEF Decided
  <2>2. ASSUME NEW i \in DOMAIN items'
        PROVE  /\ AsDecided(items[i].source, items[i].says)'
               /\ items'[i].target # NoFact => AsDecided(items[i].target, items[i].says)'
    <3>1. /\ items'[i] = items[i] /\ i \in DOMAIN items
          /\ AsDecided(items[i].source, items[i].says)
          /\ items[i].target # NoFact => AsDecided(items[i].target, items[i].says)
      BY <1>5, <2>2 DEF Decided
    <3>2. PICK it \in Decision : it = items[i]
      BY <1>1, <3>1
    <3>3. /\ it.source \in Facts /\ it.says \in SUBSET Facts
          /\ it.target # NoFact => it.target \in Facts
      BY <3>2 DEF Decision
    <3>4. /\ AsDecided(it.source, it.says)'
          /\ it.target # NoFact => AsDecided(it.target, it.says)'
      BY <1>3, <3>1, <3>2, <3>3
    <3> QED  BY <3>1, <3>2, <3>4 DEF AsDecided, Exists
  <2> QED  BY <2>1, <2>2 DEF Decided
<1> QED  BY <1>2, <1>6, <1>7, <1>8

-------------------------------------------------------------------------------
(* The steps of a turn, of a flush and of an editor.                       *)

(* What they leave alone. *)
LEMMA TurnsLeaveFile ==
  ASSUME FileGrows, UNCHANGED <<dream, reread, saved>>, file \subseteq file'
  PROVE  FileGrows'
BY DEF FileGrows

LEMMA NothingElse ==
  ASSUME UNCHANGED dreamVars
  PROVE  UNCHANGED <<dream, passed, curated, items, merged, goals, before, body, reread,
                     saved, dreams>>
BY DEF dreamVars, planVars, bodyVars

(* The rows of a topic are rows. *)
LEMMA TopicIsARow == MemoryTypeOK /\ SameTopic # <<>> => Head(SameTopic) \in Facts
<1> SUFFICES ASSUME MemoryTypeOK, SameTopic # <<>> PROVE Head(SameTopic) \in Facts
  OBVIOUS
<1> DEFINE S == {f \in Facts : keyed[f] /\ tier[f] = "curated"}
<1>1. SameTopic = RowsOf(S)
  BY DEF SameTopic
<1> HIDE DEF S
<1>2. SameTopic \in Seq(Facts)
  BY <1>1, MemoryTypes, RowsOfIsRight
<1> QED  BY <1>2

LEMMA RemembersIsGood ==
  ASSUME MemoryIInv, NEW l \in Lanes, NEW f \in Facts, Remembers(l, f)
  PROVE  MemoryIInv'
<1>1. /\ MemoryTypeOK /\ SaysItself /\ Gathered /\ Listed /\ Decided /\ FileGrows
      /\ \A m \in Lanes : LanePlan(m)
  BY DEF MemoryIInv
<1>2. /\ pc[l] = "idle" /\ turns > 0 /\ turns' = turns - 1 /\ f \in Facts
      /\ UNCHANGED <<rowVars, dreamVars, fileVars, edits>>
  BY DEF Remembers
<1>3. /\ \/ UNCHANGED <<pc, fact, victim>> /\ UNCHANGED mishaps
         \/ /\ pc' = [pc EXCEPT ![l] = "write"] /\ fact' = [fact EXCEPT ![l] = f]
            /\ \/ UNCHANGED victim
               \/ /\ f \in Prefs /\ SameTopic # <<>>
                  /\ victim' = [victim EXCEPT ![l] = Head(SameTopic)]
            /\ \/ UNCHANGED mishaps
               \/ mishaps > 0 /\ mishaps' = mishaps - 1
  BY DEF Remembers, Plan, Fine, Mishap
<1>4. SameTopic # <<>> => Head(SameTopic) \in Facts
  BY <1>1, TopicIsARow
<1>5. /\ turns' \in 0..MaxTurns /\ mishaps' \in 0..MaxMishaps
  BY <1>1, <1>2, <1>3, MemoryTypes DEF MemoryTypeOK
<1>6. /\ pc' \in [Lanes -> {"idle", "write", "delete"}]
      /\ fact' \in [Lanes -> Facts \cup {NoFact}] /\ victim' \in [Lanes -> Facts \cup {NoFact}]
  <2>1. /\ pc \in [Lanes -> {"idle", "write", "delete"}]
        /\ fact \in [Lanes -> Facts \cup {NoFact}] /\ victim \in [Lanes -> Facts \cup {NoFact}]
    BY <1>1, MemoryTypes
  <2>2. pc' = pc \/ pc' = [pc EXCEPT ![l] = "write"]
    BY <1>3
  <2>3. fact' = fact \/ fact' = [fact EXCEPT ![l] = f]
    BY <1>3
  <2>4. \/ victim' = victim
        \/ Head(SameTopic) \in Facts /\ victim' = [victim EXCEPT ![l] = Head(SameTopic)]
    BY <1>3, <1>4
  <2>5. pc' \in [Lanes -> {"idle", "write", "delete"}]
    BY <2>1, <2>2
  <2>6. fact' \in [Lanes -> Facts \cup {NoFact}]
    BY <2>1, <2>3
  <2>7. victim' \in [Lanes -> Facts \cup {NoFact}]
    BY <2>1, <2>4
  <2> QED  BY <2>5, <2>6, <2>7
<1>7. /\ UNCHANGED <<dream, passed, curated, items, merged, goals, before, body, reread,
                     saved, dreams>>
      /\ UNCHANGED <<rows, tier, text, keyed, file, readable>>
  BY <1>2, NothingElse DEF rowVars, fileVars
<1>8. MemoryTypeOK'
  BY <1>1, <1>2, <1>5, <1>6, <1>7 DEF MemoryTypeOK
<1>9. SaysItself' /\ Gathered' /\ Listed' /\ Decided'
  <2>1. \A g : Exists(g)' <=> Exists(g)
    BY <1>7 DEF Exists
  <2> QED  BY <1>1, <1>7, <2>1, PlansStay
<1>10. ASSUME NEW m \in Lanes PROVE LanePlan(m)'
  <2>1. CASE pc'[m] = pc[m] /\ fact'[m] = fact[m] /\ victim'[m] = victim[m]
    BY <1>1, <2>1 DEF LanePlan
  <2>2. CASE m = l /\ pc'[l] = "write" /\ fact'[l] = f
             /\ (victim'[l] = victim[l] \/ f \in Prefs)
    BY <1>1, <1>2, <2>2 DEF LanePlan
  <2> QED  BY <1>1, <1>3, <2>1, <2>2, MemoryTypes
<1>11. FileGrows'
  BY <1>1, <1>7, TurnsLeaveFile
<1> QED  BY <1>8, <1>9, <1>10, <1>11 DEF MemoryIInv

LEMMA WritesFactIsGood ==
  ASSUME MemoryIInv, NEW l \in Lanes, WritesFact(l)
  PROVE  MemoryIInv'
<1>1. /\ MemoryTypeOK /\ SaysItself /\ Gathered /\ Listed /\ Decided /\ FileGrows
      /\ \A m \in Lanes : LanePlan(m)
  BY DEF MemoryIInv
<1>2. /\ pc[l] = "write" /\ UNCHANGED <<dreamVars, fileVars, edits, turns>>
  BY DEF WritesFact
<1>3. /\ UNCHANGED <<dream, passed, curated, items, merged, goals, before, body, reread,
                     saved, dreams>>
      /\ UNCHANGED <<file, readable, edits, turns>>
  BY <1>2, NothingElse DEF fileVars
<1>4. PICK f \in Facts : f = fact[l]
  BY <1>1, <1>2 DEF LanePlan
<1>5. FileGrows'
  BY <1>1, <1>3, TurnsLeaveFile
<1>6. ASSUME TurnOver(l) \/ (/\ victim[l] \notin {NoFact, fact[l]}
                              /\ pc' = [pc EXCEPT ![l] = "delete"] /\ UNCHANGED <<fact, victim>>)
      PROVE  /\ pc' \in [Lanes -> {"idle", "write", "delete"}]
             /\ fact' \in [Lanes -> Facts \cup {NoFact}]
             /\ victim' \in [Lanes -> Facts \cup {NoFact}]
             /\ \A m \in Lanes : LanePlan(m)'
  <2>1. CASE TurnOver(l)
    <3>1. /\ pc' \in [Lanes -> {"idle", "write", "delete"}] /\ pc'[l] = "idle"
          /\ fact' \in [Lanes -> Facts \cup {NoFact}]
          /\ victim' \in [Lanes -> Facts \cup {NoFact}] /\ victim'[l] = NoFact
          /\ \A m \in Lanes \ {l} : /\ pc'[m] = pc[m] /\ fact'[m] = fact[m]
                                    /\ victim'[m] = victim[m]
      BY <1>1, <2>1, MemoryTypes DEF TurnOver
    <3> QED  BY <1>1, <3>1 DEF LanePlan
  <2>2. CASE /\ victim[l] \notin {NoFact, fact[l]}
             /\ pc' = [pc EXCEPT ![l] = "delete"] /\ UNCHANGED <<fact, victim>>
    <3>1. /\ pc' \in [Lanes -> {"idle", "write", "delete"}] /\ pc'[l] = "delete"
          /\ \A m \in Lanes \ {l} : pc'[m] = pc[m]
      BY <1>1, <2>2, MemoryTypes
    <3>2. \A m \in Lanes : LanePlan(m)'
      BY <1>1, <1>4, <2>2, <3>1 DEF LanePlan
    <3> QED  BY <1>1, <2>2, <3>1, <3>2, MemoryTypes
  <2> QED  BY <1>6, <2>1, <2>2
<1>7. CASE /\ Upsert(fact[l], "curated", fact[l] \in Prefs)
           /\ IF SkipsDelete(l) THEN TurnOver(l)
              ELSE pc' = [pc EXCEPT ![l] = "delete"] /\ UNCHANGED <<fact, victim>>
           /\ Fine
  <2>1. PICK key \in BOOLEAN : Upsert(f, "curated", key)
    <3>1. (fact[l] \in Prefs) \in BOOLEAN
      OBVIOUS
    <3> QED  BY <1>4, <1>7, <3>1, Zenon
  <2>2. /\ rows' \in Seq(Facts) /\ \A i, j \in DOMAIN rows' : rows'[i] = rows'[j] => i = j
        /\ tier' \in [Facts -> {"episodic", "curated"}] /\ text' \in [Facts -> SUBSET Facts]
        /\ keyed' \in [Facts -> BOOLEAN]
        /\ \A g : Exists(g)' <=> Exists(g) \/ g = f
        /\ text'[f] = {f} /\ \A g \in Facts \ {f} : text'[g] = text[g]
    <3>1. "curated" \in {"episodic", "curated"}
      OBVIOUS
    <3> QED  BY <1>1, <2>1, <3>1, UpsertFacts
  <2>3. SaysItself' /\ Gathered' /\ Listed' /\ Decided'
    <3>1. \A g \in Facts : Exists(g)' => text'[g] = {g} \/ (Exists(g) /\ text'[g] = text[g])
      BY <2>2
    <3> QED  BY <1>1, <1>3, <3>1, PlansStay
  <2>4. /\ pc' \in [Lanes -> {"idle", "write", "delete"}]
        /\ fact' \in [Lanes -> Facts \cup {NoFact}] /\ victim' \in [Lanes -> Facts \cup {NoFact}]
        /\ \A m \in Lanes : LanePlan(m)'
    BY <1>6, <1>7 DEF SkipsDelete
  <2>5. MemoryTypeOK'
    BY <1>1, <1>3, <1>7, <2>2, <2>4 DEF MemoryTypeOK, Fine
  <2> QED  BY <1>5, <2>3, <2>4, <2>5 DEF MemoryIInv
<1>8. CASE Mishap /\ TurnOver(l) /\ UNCHANGED rowVars
  <2>1. UNCHANGED <<rows, tier, text, keyed>> /\ \A g : Exists(g)' <=> Exists(g)
    BY <1>8 DEF rowVars, Exists
  <2>2. SaysItself' /\ Gathered' /\ Listed' /\ Decided'
    BY <1>1, <1>3, <2>1, PlansStay
  <2>3. mishaps' \in 0..MaxMishaps
    BY <1>1, <1>8, MemoryTypes DEF MemoryTypeOK, Mishap
  <2>4. /\ pc' \in [Lanes -> {"idle", "write", "delete"}]
        /\ fact' \in [Lanes -> Facts \cup {NoFact}] /\ victim' \in [Lanes -> Facts \cup {NoFact}]
        /\ \A m \in Lanes : LanePlan(m)'
    BY <1>6, <1>8
  <2>5. MemoryTypeOK'
    BY <1>1, <1>3, <2>1, <2>3, <2>4 DEF MemoryTypeOK
  <2> QED  BY <1>5, <2>2, <2>4, <2>5 DEF MemoryIInv
<1> QED  BY <1>7, <1>8 DEF WritesFact

LEMMA DeletesVictimIsGood ==
  ASSUME MemoryIInv, NEW l \in Lanes, DeletesVictim(l)
  PROVE  MemoryIInv'
<1>1. /\ MemoryTypeOK /\ SaysItself /\ Gathered /\ Listed /\ Decided /\ FileGrows
      /\ \A m \in Lanes : LanePlan(m)
  BY DEF MemoryIInv
<1>2. /\ pc[l] = "delete" /\ TurnOver(l)
      /\ UNCHANGED <<dreamVars, fileVars, edits, turns>>
  BY DEF DeletesVictim
<1>3. /\ UNCHANGED <<dream, passed, curated, items, merged, goals, before, body, reread,
                     saved, dreams>>
      /\ UNCHANGED <<file, readable, edits, turns>>
  BY <1>2, NothingElse DEF fileVars
<1>4. PICK v \in Facts : v = victim[l]
  BY <1>1, <1>2, MemoryTypes DEF LanePlan
<1>5. FileGrows'
  BY <1>1, <1>3, TurnsLeaveFile
<1>6. /\ pc' \in [Lanes -> {"idle", "write", "delete"}] /\ pc'[l] = "idle"
      /\ fact' \in [Lanes -> Facts \cup {NoFact}]
      /\ victim' \in [Lanes -> Facts \cup {NoFact}] /\ victim'[l] = NoFact
      /\ \A m \in Lanes \ {l} : /\ pc'[m] = pc[m] /\ fact'[m] = fact[m]
                                /\ victim'[m] = victim[m]
  BY <1>1, <1>2, MemoryTypes DEF TurnOver
<1>7. \A m \in Lanes : LanePlan(m)'
  BY <1>1, <1>6 DEF LanePlan
<1>8. CASE Delete(v) /\ Fine
  <2>1. /\ rows' \in Seq(Facts) /\ \A i, j \in DOMAIN rows' : rows'[i] = rows'[j] => i = j
        /\ tier' \in [Facts -> {"episodic", "curated"}] /\ keyed' \in [Facts -> BOOLEAN]
        /\ \A g : Exists(g)' <=> Exists(g) /\ g # v
    BY <1>1, <1>8, ClearedFacts DEF Delete
  <2>2. /\ text' \in [Facts -> SUBSET Facts] /\ \A g \in Facts \ {v} : text'[g] = text[g]
    BY <1>1, <1>8, MemoryTypes DEF Delete
  <2>3. SaysItself' /\ Gathered' /\ Listed' /\ Decided'
    <3>1. \A g \in Facts : Exists(g)' => text'[g] = {g} \/ (Exists(g) /\ text'[g] = text[g])
      BY <2>1, <2>2
    <3> QED  BY <1>1, <1>3, <3>1, PlansStay
  <2>4. MemoryTypeOK'
    BY <1>1, <1>3, <1>6, <1>8, <2>1, <2>2 DEF MemoryTypeOK, Fine
  <2> QED  BY <1>5, <1>7, <2>3, <2>4 DEF MemoryIInv
<1>9. CASE Mishap /\ UNCHANGED rowVars
  <2>1. UNCHANGED <<rows, tier, text, keyed>> /\ \A g : Exists(g)' <=> Exists(g)
    BY <1>9 DEF rowVars, Exists
  <2>2. SaysItself' /\ Gathered' /\ Listed' /\ Decided'
    BY <1>1, <1>3, <2>1, PlansStay
  <2>3. mishaps' \in 0..MaxMishaps
    BY <1>1, <1>9, MemoryTypes DEF MemoryTypeOK, Mishap
  <2>4. MemoryTypeOK'
    BY <1>1, <1>3, <1>6, <2>1, <2>3 DEF MemoryTypeOK
  <2> QED  BY <1>5, <1>7, <2>2, <2>4 DEF MemoryIInv
<1> QED  BY <1>4, <1>8, <1>9 DEF DeletesVictim

LEMMA FlushIsGood ==
  ASSUME MemoryIInv, NEW f \in Facts, Flush(f)
  PROVE  MemoryIInv'
<1>1. /\ MemoryTypeOK /\ SaysItself /\ Gathered /\ Listed /\ Decided /\ FileGrows
      /\ \A l \in Lanes : LanePlan(l)
  BY DEF MemoryIInv
<1>2. Upsert(f, "episodic", FALSE)
      /\ UNCHANGED <<laneVars, dreamVars, fileVars, edits, turns, mishaps>>
  BY DEF Flush
<1>3. /\ UNCHANGED <<dream, passed, curated, items, merged, goals, before, body, reread,
                     saved, dreams>>
      /\ UNCHANGED <<file, readable, edits, turns, mishaps, pc, fact, victim>>
  BY <1>2, NothingElse DEF fileVars, laneVars
<1>4. /\ rows' \in Seq(Facts) /\ \A i, j \in DOMAIN rows' : rows'[i] = rows'[j] => i = j
      /\ tier' \in [Facts -> {"episodic", "curated"}] /\ text' \in [Facts -> SUBSET Facts]
      /\ keyed' \in [Facts -> BOOLEAN]
      /\ \A g : Exists(g)' <=> Exists(g) \/ g = f
      /\ text'[f] = {f} /\ \A g \in Facts \ {f} : text'[g] = text[g]
  <2>1. "episodic" \in {"episodic", "curated"} /\ FALSE \in BOOLEAN
    OBVIOUS
  <2> QED  BY <1>1, <1>2, <2>1, UpsertFacts
<1>5. SaysItself' /\ Gathered' /\ Listed' /\ Decided'
  <2>1. \A g \in Facts : Exists(g)' => text'[g] = {g} \/ (Exists(g) /\ text'[g] = text[g])
    BY <1>4
  <2> QED  BY <1>1, <1>3, <2>1, PlansStay
<1>6. MemoryTypeOK'
  BY <1>1, <1>3, <1>4 DEF MemoryTypeOK
<1>7. FileGrows' /\ \A l \in Lanes : LanePlan(l)'
  BY <1>1, <1>3, TurnsLeaveFile DEF LanePlan
<1> QED  BY <1>5, <1>6, <1>7 DEF MemoryIInv

LEMMA EditIsGood ==
  ASSUME MemoryIInv, NEW u \in Edits, Edit(u)
  PROVE  MemoryIInv'
<1>1. /\ MemoryTypeOK /\ SaysItself /\ Gathered /\ Listed /\ Decided /\ FileGrows
      /\ \A l \in Lanes : LanePlan(l)
  BY DEF MemoryIInv
<1>2. /\ u \in edits /\ edits' = edits \ {u} /\ file' = file \cup {u} /\ readable' \in BOOLEAN
      /\ UNCHANGED <<rowVars, laneVars, dreamVars, turns, mishaps>>
  BY DEF Edit
<1>3. /\ UNCHANGED <<dream, passed, curated, items, merged, goals, before, body, reread,
                     saved, dreams>>
      /\ UNCHANGED <<rows, tier, text, keyed, pc, fact, victim, turns, mishaps>>
  BY <1>2, NothingElse DEF rowVars, laneVars
<1>4. MemoryTypeOK'
  BY <1>1, <1>2, <1>3 DEF MemoryTypeOK, Lines
<1>5. SaysItself' /\ Gathered' /\ Listed' /\ Decided'
  <2>1. \A g : Exists(g)' <=> Exists(g)
    BY <1>3 DEF Exists
  <2> QED  BY <1>1, <1>3, <2>1, PlansStay
<1>6. FileGrows' /\ \A l \in Lanes : LanePlan(l)'
  BY <1>1, <1>2, <1>3, TurnsLeaveFile DEF LanePlan
<1> QED  BY <1>4, <1>5, <1>6 DEF MemoryIInv

-------------------------------------------------------------------------------
(* The steps of a consolidation that leave the rows as they are.           *)

LEMMA TableStays ==
  ASSUME MemoryIInv, UNCHANGED <<rowVars, laneVars>>
  PROVE  /\ SaysItself' /\ \A l \in Lanes : LanePlan(l)'
         /\ UNCHANGED <<rows, tier, text, keyed, pc, fact, victim>>
         /\ \A g : Exists(g)' <=> Exists(g)
<1>1. UNCHANGED <<rows, tier, text, keyed, pc, fact, victim>>
  BY DEF rowVars, laneVars
<1> QED  BY <1>1 DEF MemoryIInv, SaysItself, LanePlan, Exists

LEMMA DreamBeginsIsGood ==
  ASSUME MemoryIInv, DreamBegins
  PROVE  MemoryIInv'
<1>1. /\ MemoryTypeOK /\ SaysItself /\ Decided
  BY DEF MemoryIInv
<1>2. /\ dream = "idle" /\ dreams > 0 /\ dreams' = dreams - 1 /\ dream' = "curated"
      /\ passed' = [i \in DOMAIN Candidates |-> Shown(Candidates[i])]
      /\ UNCHANGED <<rowVars, laneVars>>
      /\ UNCHANGED <<curated, items, merged, goals, before, body, reread, saved, file,
                     readable, edits, turns, mishaps>>
  BY DEF DreamBegins, bodyVars, fileVars
<1>3. /\ SaysItself' /\ \A l \in Lanes : LanePlan(l)'
      /\ UNCHANGED <<rows, tier, text, keyed, pc, fact, victim>>
      /\ \A g : Exists(g)' <=> Exists(g)
  BY <1>2, TableStays
<1> DEFINE S == {f \in Facts : Passes(f)}
<1>4. /\ Candidates \in Seq(Facts)
      /\ \A f : (\E i \in DOMAIN Candidates : Candidates[i] = f) <=> Exists(f) /\ f \in S
  <2>1. Candidates = RowsOf(S)
    BY DEF Candidates
  <2> HIDE DEF S
  <2> QED  BY <1>1, <2>1, MemoryTypes, RowsOfIsRight
<1>5. \A i \in DOMAIN Candidates : /\ Exists(Candidates[i]) /\ Candidates[i] \in Facts
                                   /\ text[Candidates[i]] \in SUBSET Facts
  BY <1>1, <1>4, MemoryTypes
<1>6. /\ DOMAIN passed' = DOMAIN Candidates
      /\ \A i \in DOMAIN Candidates : /\ passed'[i].id = Candidates[i]
                                      /\ passed'[i].says = text[Candidates[i]]
                                      /\ passed'[i] \in Snapshot
  BY <1>2, <1>5 DEF Shown, Snapshot
<1>7. passed' \in Seq(Snapshot)
  <2>1. PICK n \in Nat : DOMAIN Candidates = 1..n
    BY <1>4
  <2>2. passed' \in [1..n -> Snapshot]
    BY <1>2, <1>6, <2>1
  <2> QED  BY <2>2
<1>8. MemoryTypeOK'
  <2>1. dreams' \in 0..MaxDreams
    BY <1>1, <1>2, MemoryTypes DEF MemoryTypeOK
  <2> QED  BY <1>1, <1>2, <1>3, <1>7, <2>1 DEF MemoryTypeOK
<1>9. Gathered'
  <2>1. \A i \in DOMAIN passed' : AsShown(passed[i].id, passed[i].says)'
    BY <1>1, <1>3, <1>5, <1>6 DEF AsShown, SaysItself, Exists
  <2> QED  BY <2>1 DEF Gathered
<1>10. Listed' /\ Decided' /\ FileGrows'
  <2>1. items' = <<>> /\ dream' = "curated"
    BY <1>1, <1>2 DEF Decided
  <2> QED  BY <2>1 DEF Listed, Decided, FileGrows
<1> QED  BY <1>3, <1>8, <1>9, <1>10 DEF MemoryIInv

LEMMA DreamListsCuratedIsGood ==
  ASSUME MemoryIInv, DreamListsCurated
  PROVE  MemoryIInv'
<1>1. /\ MemoryTypeOK /\ SaysItself /\ Decided /\ Gathered
  BY DEF MemoryIInv
<1>2. /\ dream = "curated" /\ dream' = "decide"
      /\ UNCHANGED <<rowVars, laneVars>>
      /\ UNCHANGED <<passed, items, merged, goals, before, body, reread, saved, dreams, file,
                     readable, edits, turns>>
      /\ curated' \in {{Shown(f) : f \in {g \in Range(rows) : tier[g] = "curated"}}, {}}
      /\ (mishaps > 0 /\ mishaps' = mishaps - 1) \/ mishaps' = mishaps
  BY DEF DreamListsCurated, bodyVars, fileVars, Fine, Mishap
<1>3. /\ SaysItself' /\ \A l \in Lanes : LanePlan(l)'
      /\ UNCHANGED <<rows, tier, text, keyed, pc, fact, victim>>
      /\ \A g : Exists(g)' <=> Exists(g)
  BY <1>2, TableStays
<1>4. \A t \in curated' : \E g \in Facts : /\ t = Shown(g) /\ t.id = g /\ t.says = text[g]
                                           /\ Exists(g)
  <2> SUFFICES ASSUME NEW t \in curated'
               PROVE  \E g \in Facts : /\ t = Shown(g) /\ t.id = g /\ t.says = text[g]
                                       /\ Exists(g)
    OBVIOUS
  <2>1. PICK g \in Range(rows) : t = Shown(g)
    BY <1>2
  <2>2. Exists(g) /\ g \in Facts
    BY <1>1, <2>1, MemoryTypes
  <2> QED  BY <2>1, <2>2 DEF Shown
<1>5. curated' \subseteq Snapshot
  BY <1>1, <1>4, MemoryTypes DEF Snapshot, Shown
<1>6. MemoryTypeOK'
  <2>1. mishaps' \in 0..MaxMishaps
    BY <1>1, <1>2, MemoryTypes DEF MemoryTypeOK
  <2> QED  BY <1>1, <1>2, <1>3, <1>5, <2>1 DEF MemoryTypeOK
<1>7. Gathered' /\ Decided' /\ FileGrows'
  <2>1. items' = <<>> /\ passed' = passed
    BY <1>1, <1>2 DEF Decided
  <2>2. Decided' /\ FileGrows'
    BY <1>2, <2>1 DEF Decided, FileGrows
  <2>3. Gathered'
    BY <1>1, <1>2, <1>3, <2>1 DEF Gathered, AsShown, Exists
  <2> QED  BY <2>2, <2>3
<1>8. Listed'
  BY <1>1, <1>3, <1>4 DEF SaysItself, AsShown, Listed
<1> QED  BY <1>3, <1>6, <1>7, <1>8 DEF MemoryIInv

LEMMA DreamDecidesIsGood ==
  ASSUME MemoryIInv, DreamDecides
  PROVE  MemoryIInv'
<1>1. /\ MemoryTypeOK /\ SaysItself /\ Decided /\ Gathered /\ Listed
  BY DEF MemoryIInv
<1>2. /\ dream = "decide" /\ dream' = "act"
      /\ UNCHANGED <<rowVars, laneVars>>
      /\ UNCHANGED <<passed, curated, merged, goals, before, body, reread, saved, dreams,
                     file, readable, edits, turns>>
      /\ (mishaps > 0 /\ mishaps' = mishaps - 1) \/ mishaps' = mishaps
  BY DEF DreamDecides, bodyVars, fileVars, Fine, Mishap
<1>3. /\ SaysItself' /\ \A l \in Lanes : LanePlan(l)'
      /\ UNCHANGED <<rows, tier, text, keyed, pc, fact, victim>>
      /\ \A g : Exists(g)' <=> Exists(g)
  BY <1>2, TableStays
<1> DEFINE Made(it) == \E c \in Range(passed) :
                          it = Create(c) \/ \E t \in curated : it = MergeInto(c, t)
<1>4. \E n \in Nat : DOMAIN items' = 1..n /\ items' = [i \in 1..n |-> items'[i]]
                     /\ \A i \in 1..n : Made(items'[i])
  <2>1. CASE items' = [i \in DOMAIN passed |-> Create(passed[i])]
    <3>1. DOMAIN passed = 1..Len(passed) /\ Len(passed) \in Nat
      BY <1>1, MemoryTypes
    <3>2. \A i \in DOMAIN passed : passed[i] \in Range(passed)
      BY DEF Range
    <3> QED  BY <2>1, <3>1, <3>2
  <2>2. CASE \E choice \in Replies :
               items' = [i \in DOMAIN choice |->
                           IF choice[i][2] = NoFact THEN Create(choice[i][1])
                           ELSE MergeInto(choice[i][1], choice[i][2])]
    <3>1. PICK choice \in Replies :
               items' = [i \in DOMAIN choice |->
                           IF choice[i][2] = NoFact THEN Create(choice[i][1])
                           ELSE MergeInto(choice[i][1], choice[i][2])]
      BY <2>2
    <3>2. PICK n \in 0..MaxDecisions :
             choice \in [1..n -> Range(passed) \X (curated \cup {NoFact})]
      BY DEF Replies
    <3>3. n \in Nat
      BY <1>1, <3>2, MemoryTypes
    <3>4. ASSUME NEW i \in 1..n PROVE Made(items'[i])
      <4>1. choice[i][1] \in Range(passed) /\ choice[i][2] \in curated \cup {NoFact}
        BY <3>2
      <4> QED  BY <3>1, <3>2, <4>1
    <3> QED  BY <3>1, <3>2, <3>3, <3>4
  <2> QED  BY <2>1, <2>2 DEF DreamDecides
<1>5. /\ \A c \in Range(passed) : /\ c.id \in Facts /\ c.says \in SUBSET Facts
                                  /\ AsShown(c.id, c.says)
      /\ \A t \in curated : /\ t.id \in Facts /\ t.says \in SUBSET Facts
                            /\ AsShown(t.id, t.says)
  <2>1. ASSUME NEW c \in Range(passed)
        PROVE  c.id \in Facts /\ c.says \in SUBSET Facts /\ AsShown(c.id, c.says)
    <3>1. PICK i \in DOMAIN passed : c = passed[i]
      BY DEF Range
    <3>2. passed[i] \in Snapshot
      BY <1>1, MemoryTypes
    <3> QED  BY <1>1, <1>2, <3>1, <3>2 DEF Gathered, Snapshot
  <2>2. \A t \in curated : t \in Snapshot
    BY <1>1, MemoryTypes
  <2> QED  BY <1>1, <1>2, <2>1, <2>2 DEF Listed, Snapshot
<1>6. ASSUME NEW it, Made(it)
      PROVE  /\ it \in Decision /\ AsDecided(it.source, it.says)
             /\ it.target # NoFact => AsDecided(it.target, it.says)
  <2>1. PICK c \in Range(passed) : it = Create(c) \/ \E t \in curated : it = MergeInto(c, t)
    BY <1>6
  <2>2. CASE it = Create(c)
    BY <1>5, <2>2 DEF Create, Decision, AsShown, AsDecided
  <2>3. CASE \E t \in curated : it = MergeInto(c, t)
    <3>1. PICK t \in curated : it = MergeInto(c, t)
      BY <2>3
    <3>2. /\ it.source = c.id /\ it.target = t.id /\ it.says = c.says \cup t.says
          /\ it \in Decision
      BY <1>5, <3>1 DEF MergeInto, Decision
    <3> QED  BY <1>5, <3>2 DEF AsShown, AsDecided
  <2> QED  BY <2>1, <2>2, <2>3
<1> HIDE DEF Made
<1>7. PICK n \in Nat : DOMAIN items' = 1..n /\ items' = [i \in 1..n |-> items'[i]]
                       /\ \A i \in 1..n : Made(items'[i])
  BY <1>4
<1>8. items' \in Seq(Decision)
  <2>1. items' \in [1..n -> Decision]
    BY <1>6, <1>7
  <2> QED  BY <2>1
<1>9. MemoryTypeOK'
  <2>1. mishaps' \in 0..MaxMishaps
    BY <1>1, <1>2, MemoryTypes DEF MemoryTypeOK
  <2> QED  BY <1>1, <1>2, <1>3, <1>8, <2>1 DEF MemoryTypeOK
<1>10. Gathered' /\ Listed' /\ FileGrows'
  BY <1>2 DEF Gathered, Listed, FileGrows
<1>11. Decided'
  <2>1. \A i \in DOMAIN items' :
          /\ AsDecided(items'[i].source, items'[i].says)
          /\ items'[i].target # NoFact => AsDecided(items'[i].target, items'[i].says)
    BY <1>6, <1>7
  <2> QED  BY <1>2, <1>3, <2>1 DEF Decided, AsDecided, Exists
<1> QED  BY <1>3, <1>9, <1>10, <1>11 DEF MemoryIInv

(* A consolidation that has no decision left, at the file. *)
LEMMA DreamAtFileIsGood ==
  ASSUME MemoryIInv, DreamActed \/ DreamReads \/ DreamComposes \/ DreamRereads \/ DreamWrites
  PROVE  MemoryIInv'
<1>1. MemoryTypeOK /\ Decided /\ FileGrows
  BY DEF MemoryIInv
<1>2. UNCHANGED <<rowVars, laneVars>> /\ UNCHANGED <<dreams, edits, turns>>
  BY DEF DreamActed, DreamReads, DreamComposes, DreamRereads, DreamWrites
<1>3. /\ SaysItself' /\ \A l \in Lanes : LanePlan(l)'
      /\ UNCHANGED <<rows, tier, text, keyed, pc, fact, victim>>
  BY <1>2, TableStays
<1>4. items = <<>>
  BY <1>1
  DEF Decided, DreamActed, DreamReads, DreamComposes, DreamRereads, DreamWrites
<1>5. /\ items' = <<>> /\ dream' \in {"idle", "read", "compose", "reread", "write"}
      /\ UNCHANGED <<passed, curated, merged, goals>>
           \/ (passed' = <<>> /\ curated' = {} /\ merged' = {} /\ goals' = {})
  BY <1>4 DEF DreamActed, DreamReads, DreamComposes, DreamRereads, DreamWrites, DreamEnds, planVars
<1>6. Gathered' /\ Listed' /\ Decided'
  BY <1>5 DEF Gathered, Listed, Decided
<1>7. /\ {before', body', reread', saved', file'} \subseteq SUBSET Lines /\ readable' \in BOOLEAN
      /\ (mishaps > 0 /\ mishaps' = mishaps - 1) \/ mishaps' = mishaps
  <2>1. /\ merged \subseteq Lines /\ before \subseteq Lines /\ body \subseteq Lines
        /\ reread \subseteq Lines /\ saved \subseteq Lines /\ file \subseteq Lines
        /\ readable \in BOOLEAN /\ ReadFile \subseteq Lines
    BY <1>1 DEF MemoryTypeOK, Lines, ReadFile
  <2>2. CASE DreamActed
    BY <2>1, <2>2 DEF DreamActed, DreamEnds, fileVars, bodyVars
  <2>3. CASE DreamReads
    BY <2>1, <2>3 DEF DreamReads, fileVars
  <2>4. CASE DreamComposes
    BY <2>1, <2>4 DEF DreamComposes, DreamEnds, fileVars, Fine, Mishap
  <2>5. CASE DreamRereads
    BY <2>1, <2>5 DEF DreamRereads, fileVars
  <2>6. CASE DreamWrites
    <3>1. /\ file' \in {body, file \cup body, file} /\ readable' \in BOOLEAN
          /\ (mishaps > 0 /\ mishaps' = mishaps - 1) \/ mishaps' = mishaps
      BY <2>1, <2>6 DEF DreamWrites, fileVars, Fine, Mishap, Overwrite
    <3> QED  BY <2>1, <2>6, <3>1 DEF DreamWrites, DreamEnds
  <2> QED  BY <2>2, <2>3, <2>4, <2>5, <2>6
<1>8. MemoryTypeOK'
  <2>1. mishaps' \in 0..MaxMishaps
    BY <1>1, <1>7, MemoryTypes DEF MemoryTypeOK
  <2>2. passed' \in Seq(Snapshot) /\ items' \in Seq(Decision)
    <3>1. passed' \in {passed, <<>>}
      BY <1>5
    <3>2. <<>> \in Seq(Snapshot) /\ <<>> \in Seq(Decision)
      OBVIOUS
    <3>3. passed \in Seq(Snapshot)
      BY <1>1 DEF MemoryTypeOK
    <3> QED  BY <1>5, <3>1, <3>2, <3>3
  <2> QED  BY <1>1, <1>2, <1>3, <1>5, <1>7, <2>1, <2>2 DEF MemoryTypeOK
<1>9. FileGrows'
  BY DEF FileGrows, DreamActed, DreamReads, DreamComposes, DreamRereads, DreamWrites, DreamEnds,
         ReadFile, fileVars
<1> QED  BY <1>3, <1>6, <1>8, <1>9 DEF MemoryIInv

-------------------------------------------------------------------------------
(* Carrying out a decision.                                                *)

(* The decisions that are left, when the rows are as they were but for the
   target, which says what has been merged. *)
LEMMA DecisionsStay ==
  ASSUME MemoryTypeOK, Decided, dream = "act", dream' = "act", items # <<>>, items' = Tail(items),
         merged \subseteq merged', goals \subseteq goals',
         \A g \in Facts : Exists(g)' =>
           (Exists(g) /\ text'[g] = text[g]) \/ (g \in goals' /\ text'[g] \subseteq merged')
  PROVE  Decided' /\ items' \in Seq(Decision)
<1>1. items \in Seq(Decision) /\ NoFact \notin Facts
  BY MemoryTypes
<1>2. /\ items' \in Seq(Decision) /\ Len(items) \in Nat /\ Len(items) >= 1
      /\ DOMAIN items = 1..Len(items) /\ DOMAIN items' = 1..(Len(items) - 1)
      /\ \A i \in 1..(Len(items) - 1) : items'[i] = items[i + 1]
  BY <1>1
<1>3. \A i \in DOMAIN items' : i + 1 \in DOMAIN items
  BY <1>2
<1>4. \A i \in DOMAIN items : items[i] \in Decision
  BY <1>1
<1>5. ASSUME NEW f \in Facts, NEW S, AsDecided(f, S) PROVE AsDecided(f, S)'
  BY <1>5 DEF AsDecided
<1>6. ASSUME NEW i \in DOMAIN items'
      PROVE  /\ AsDecided(items[i].source, items[i].says)'
             /\ items'[i].target # NoFact => AsDecided(items[i].target, items[i].says)'
  <2>1. PICK it \in Decision : it = items[i + 1]
    BY <1>3, <1>4
  <2>2. /\ items'[i] = it /\ it.source \in Facts /\ it.target \in Facts \cup {NoFact}
        /\ i + 1 \in DOMAIN items
    BY <1>2, <1>3, <2>1 DEF Decision
  <2>3. /\ AsDecided(it.source, it.says)
        /\ it.target # NoFact => AsDecided(it.target, it.says)
    BY <2>1, <2>2 DEF Decided
  <2>4. /\ AsDecided(it.source, it.says)'
        /\ it.target # NoFact => AsDecided(it.target, it.says)'
    BY <1>5, <2>2, <2>3
  <2> QED  BY <2>2, <2>4 DEF AsDecided, Exists
<1> QED  BY <1>2, <1>6 DEF Decided

(* The rows after a decision about s, target t, text S. *)
LEMMA MergeFacts ==
  ASSUME MemoryTypeOK, NEW s \in Facts, NEW t \in Facts, NEW S \in SUBSET Facts,
         Exists(t), Merge(s, t, S)
  PROVE  /\ rows' \in Seq(Facts) /\ \A i, j \in DOMAIN rows' : rows'[i] = rows'[j] => i = j
         /\ tier' \in [Facts -> {"episodic", "curated"}] /\ text' \in [Facts -> SUBSET Facts]
         /\ keyed' \in [Facts -> BOOLEAN]
         /\ \A g : Exists(g)' <=> Exists(g) /\ (g # s \/ g = t)
         /\ text'[t] = S /\ \A g \in Facts \ {s, t} : text'[g] = text[g]
<1>1. CASE s # t
  <2>1. Cleared(s) /\ text' = [text EXCEPT ![t] = S, ![s] = {}]
    BY <1>1 DEF Merge
  <2>2. /\ text' \in [Facts -> SUBSET Facts]
        /\ text'[t] = S /\ \A g \in Facts \ {s, t} : text'[g] = text[g]
    BY <1>1, <2>1, MemoryTypes
  <2> QED  BY <1>1, <2>1, <2>2, ClearedFacts
<1>2. CASE s = t
  <2>1. text' = [text EXCEPT ![t] = S] /\ UNCHANGED <<rows, tier, keyed>>
    BY <1>2 DEF Merge
  <2>2. \A g : Exists(g)' <=> Exists(g)
    BY <2>1 DEF Exists
  <2> QED  BY <1>2, <2>1, <2>2, MemoryTypes
<1> QED  BY <1>1, <1>2

(* What is known is what the rows say. *)
LEMMA KnownIsSaid ==
  ASSUME MemoryTypeOK
  PROVE  \A x : x \in Known <=> \E f \in Facts : Exists(f) /\ x \in text[f]
<1>1. \A f : (Exists(f) => f \in Facts) /\ (Exists(f) <=> f \in Range(rows))
  BY MemoryTypes
<1> QED  BY <1>1 DEF Known

LEMMA DreamActsIsGood ==
  ASSUME MemoryIInv, DreamActs
  PROVE  /\ MemoryIInv'
         /\ Known \subseteq Known' \cup (IF DecidedTwice THEN merged' ELSE {})
<1>1. /\ MemoryTypeOK /\ SaysItself /\ Decided /\ \A l \in Lanes : LanePlan(l)
  BY DEF MemoryIInv
<1>2. /\ dream = "act" /\ dream' = "act" /\ items # <<>> /\ items' = Tail(items)
      /\ UNCHANGED <<pc, fact, victim, passed, curated, before, body, reread, saved, dreams,
                     file, readable, edits, turns>>
  BY DEF DreamActs, laneVars, bodyVars, fileVars
<1>3. items[1] \in Decision /\ Head(items) = items[1] /\ 1 \in DOMAIN items /\ items' # items
  <2>1. items \in Seq(Decision)
    BY <1>1, MemoryTypes
  <2>2. Len(Tail(items)) # Len(items)
    BY <1>2, <2>1
  <2> QED  BY <1>2, <2>1, <2>2
<1>4. PICK s \in Facts, t \in Facts \cup {NoFact}, S \in SUBSET Facts :
        /\ s = items[1].source /\ t = items[1].target /\ S = items[1].says
  BY <1>3 DEF Decision
<1>5. AsDecided(s, S) /\ (t # NoFact => AsDecided(t, S))
  BY <1>1, <1>3, <1>4 DEF Decided
<1>6. Gathered' /\ Listed' /\ FileGrows' /\ \A l \in Lanes : LanePlan(l)'
  BY <1>1, <1>2 DEF Gathered, Listed, FileGrows, LanePlan
<1>7. ASSUME UNCHANGED <<rows, text>>, tier' \in [Facts -> {"episodic", "curated"}],
             keyed' = keyed, merged \subseteq merged', merged' \subseteq Facts,
             goals' = goals, mishaps' \in 0..MaxMishaps
      PROVE  MemoryIInv' /\ Known \subseteq Known'
  <2>1. \A g : Exists(g)' <=> Exists(g)
    BY <1>7 DEF Exists
  <2>2. Decided' /\ items' \in Seq(Decision)
    BY <1>1, <1>2, <1>7, <2>1, DecisionsStay
  <2>3. MemoryTypeOK'
    BY <1>1, <1>2, <1>7, <2>2 DEF MemoryTypeOK
  <2>4. SaysItself' /\ Known' = Known
    BY <1>1, <1>7, <2>1 DEF SaysItself, Known
  <2> QED  BY <1>6, <2>2, <2>3, <2>4 DEF MemoryIInv
<1>8. CASE Mishap /\ UNCHANGED <<rowVars, merged, goals>>
  <2>1. mishaps' \in 0..MaxMishaps
    BY <1>1, <1>8, MemoryTypes DEF Mishap, MemoryTypeOK
  <2> QED  BY <1>1, <1>7, <1>8, <2>1 DEF MemoryTypeOK, rowVars
<1>9. CASE /\ IF t = NoFact THEN Promote(s) ELSE Merge(s, t, S)
           /\ merged' = merged \cup S
           /\ goals' = goals \cup ({t} \cap Range(rows)) /\ Fine
  <2>1. /\ merged' \subseteq Facts /\ merged \subseteq merged' /\ mishaps' \in 0..MaxMishaps
        /\ tier \in [Facts -> {"episodic", "curated"}] /\ goals \subseteq Facts
    BY <1>1, <1>9 DEF Fine, MemoryTypeOK
  <2>2. CASE t = NoFact
    <3>1. /\ tier' = IF Exists(s) THEN [tier EXCEPT ![s] = "curated"] ELSE tier
          /\ UNCHANGED <<rows, text, keyed>>
      BY <1>9, <2>2 DEF Promote
    <3>2. tier' \in [Facts -> {"episodic", "curated"}]
      BY <2>1, <3>1
    <3>3. goals' = goals
      BY <1>1, <1>9, <2>2, MemoryTypes
    <3> QED  BY <1>7, <2>1, <3>1, <3>2, <3>3
  <2>3. CASE t # NoFact /\ ~Exists(t)
    <3>1. UNCHANGED <<rows, tier, text, keyed>>
      BY <1>9, <2>3 DEF Merge, rowVars
    <3>2. goals' = goals
      BY <1>1, <1>9, <2>3, MemoryTypes
    <3> QED  BY <1>7, <2>1, <3>1, <3>2
  <2>4. CASE t # NoFact /\ Exists(t)
    <3>1. t \in Facts /\ Merge(s, t, S)
      BY <1>9, <2>4
    <3>2. /\ rows' \in Seq(Facts) /\ \A i, j \in DOMAIN rows' : rows'[i] = rows'[j] => i = j
          /\ tier' \in [Facts -> {"episodic", "curated"}] /\ text' \in [Facts -> SUBSET Facts]
          /\ keyed' \in [Facts -> BOOLEAN]
          /\ \A g : Exists(g)' <=> Exists(g) /\ (g # s \/ g = t)
          /\ text'[t] = S /\ \A g \in Facts \ {s, t} : text'[g] = text[g]
      BY <1>1, <2>4, <3>1, MergeFacts
    <3>3. goals' = goals \cup {t}
      BY <1>1, <1>9, <2>4, MemoryTypes
    <3>4. \A g \in Facts : Exists(g)' =>
            (Exists(g) /\ text'[g] = text[g]) \/ (g \in goals' /\ text'[g] \subseteq merged')
      BY <1>9, <3>2, <3>3
    <3>5. Decided' /\ items' \in Seq(Decision)
      BY <1>1, <1>2, <2>1, <3>3, <3>4, DecisionsStay
    <3>6. MemoryTypeOK'
      BY <1>1, <1>2, <2>1, <3>1, <3>2, <3>3, <3>5 DEF MemoryTypeOK
    <3>7. SaysItself'
      BY <1>1, <1>5, <2>4, <3>2 DEF SaysItself, AsDecided
    <3>8. ASSUME NEW x \in Known, x \notin Known' PROVE DecidedTwice /\ x \in merged'
      <4>1. PICK f \in Facts : Exists(f) /\ x \in text[f]
        BY <1>1, KnownIsSaid
      <4>2. \A g \in Facts : Exists(g)' => x \notin text'[g]
        BY <3>6, <3>8, KnownIsSaid DEF Known, Exists
      <4>3. f \in {s, t} /\ x \notin S
        BY <2>4, <3>1, <3>2, <4>1, <4>2
      <4>4. f \in goals /\ text[f] \subseteq merged
        BY <1>5, <2>4, <4>1, <4>3 DEF AsDecided
      <4> QED  BY <1>2, <1>3, <1>4, <2>1, <4>1, <4>3, <4>4 DEF DecidedTwice
    <3> QED  BY <1>6, <3>5, <3>6, <3>7, <3>8 DEF MemoryIInv
  <2> QED  BY <2>2, <2>3, <2>4
<1> QED  BY <1>3, <1>4, <1>8, <1>9 DEF DreamActs

-------------------------------------------------------------------------------
(* The theorems.                                                           *)

LEMMA MemoryStart == MemoryInit => MemoryIInv
<1> SUFFICES ASSUME MemoryInit PROVE MemoryIInv
  OBVIOUS
<1>1. /\ rows = <<>> /\ passed = <<>> /\ items = <<>>
      /\ \A f : ~Exists(f)
  BY DEF MemoryInit, Exists, Range
<1>2. /\ MaxTurns \in Nat /\ MaxDreams \in Nat /\ MaxMishaps \in Nat
  BY MemoryAssumption DEF MemoryAssumption
<1>3. /\ turns \in 0..MaxTurns /\ dreams \in 0..MaxDreams /\ mishaps \in 0..MaxMishaps
  BY <1>2 DEF MemoryInit
<1>4. <<>> \in Seq(Facts) /\ <<>> \in Seq(Snapshot) /\ <<>> \in Seq(Decision)
  OBVIOUS
<1>5. MemoryTypeOK
  <2>1. /\ tier \in [Facts -> {"episodic", "curated"}] /\ text \in [Facts -> SUBSET Facts]
        /\ keyed \in [Facts -> BOOLEAN]
        /\ pc \in [Lanes -> {"idle", "write", "delete"}]
        /\ fact \in [Lanes -> Facts \cup {NoFact}] /\ victim \in [Lanes -> Facts \cup {NoFact}]
    BY DEF MemoryInit
  <2>2. rows \in Seq(Facts) /\ \A i, j \in DOMAIN rows : rows[i] = rows[j] => i = j
    BY <1>1, <1>4
  <2>3. passed \in Seq(Snapshot) /\ items \in Seq(Decision) /\ curated \subseteq Snapshot
    BY <1>1, <1>4 DEF MemoryInit
  <2>4. /\ {before, body, reread, saved, file} \subseteq SUBSET Lines /\ merged \subseteq Facts
        /\ goals \subseteq Facts /\ readable \in BOOLEAN /\ edits \subseteq Edits
    BY DEF MemoryInit
  <2>5. dream \in {"idle", "curated", "decide", "act", "read", "compose", "reread", "write"}
    BY DEF MemoryInit
  <2> QED  BY <1>3, <2>1, <2>2, <2>3, <2>4, <2>5 DEF MemoryTypeOK
<1>6. SaysItself /\ \A l \in Lanes : LanePlan(l)
  BY <1>1 DEF MemoryInit, SaysItself, LanePlan
<1>7. Gathered /\ Listed /\ Decided /\ FileGrows
  BY <1>1 DEF MemoryInit, Gathered, Listed, Decided, FileGrows
<1> QED  BY <1>5, <1>6, <1>7 DEF MemoryIInv

LEMMA MemoryStutters == MemoryIInv /\ UNCHANGED memoryVars => MemoryIInv'
<1> SUFFICES ASSUME MemoryIInv, UNCHANGED memoryVars PROVE MemoryIInv'
  OBVIOUS
<1>1. /\ UNCHANGED <<rowVars, laneVars>> /\ UNCHANGED <<rowVars, laneVars, dreamVars, fileVars>>
      /\ UNCHANGED <<edits, turns, mishaps>>
  BY DEF memoryVars
<1>2. /\ UNCHANGED <<rows, tier, text, keyed, pc, fact, victim, dream, passed, curated, items,
                     merged, goals, before, body, reread, saved, dreams, file, readable>>
      /\ UNCHANGED <<edits, turns, mishaps>>
  BY <1>1, NothingElse DEF rowVars, laneVars, fileVars
<1>3. SaysItself' /\ \A l \in Lanes : LanePlan(l)'
  BY <1>1, TableStays
<1>4. MemoryTypeOK' /\ FileGrows'
  BY <1>2 DEF MemoryIInv, MemoryTypeOK, FileGrows
<1>5. Gathered' /\ Listed' /\ Decided'
  BY <1>2 DEF MemoryIInv, Gathered, Listed, Decided, AsShown, AsDecided, Exists
<1> QED  BY <1>3, <1>4, <1>5 DEF MemoryIInv

LEMMA MemoryStepsAreGood ==
  ASSUME MemoryIInv, [MemoryNext]_memoryVars
  PROVE  MemoryIInv'
<1>1. CASE UNCHANGED memoryVars
  BY <1>1, MemoryStutters
<1>2. CASE \E l \in Lanes : \/ \E f \in Facts : Remembers(l, f)
                            \/ WritesFact(l) \/ DeletesVictim(l)
  BY <1>2, RemembersIsGood, WritesFactIsGood, DeletesVictimIsGood
<1>3. CASE \E f \in Facts : Flush(f)
  BY <1>3, FlushIsGood
<1>4. CASE Dreaming
  BY <1>4, DreamBeginsIsGood, DreamListsCuratedIsGood, DreamDecidesIsGood, DreamActsIsGood,
     DreamAtFileIsGood DEF Dreaming
<1>5. CASE \E u \in Edits : Edit(u)
  BY <1>5, EditIsGood
<1> QED  BY <1>1, <1>2, <1>3, <1>4, <1>5 DEF MemoryNext

LEMMA MemoryIsInductive == MemorySpec => []MemoryIInv
<1>1. MemoryInit => MemoryIInv
  BY MemoryStart
<1>2. MemoryIInv /\ [MemoryNext]_memoryVars => MemoryIInv'
  BY MemoryStepsAreGood
<1> QED  BY <1>1, <1>2, PTL DEF MemorySpec

(* A row that is told or flushed: nothing that was known is lost, unless the row
   said more than its own fact. *)
LEMMA UpsertKeepsKnown ==
  ASSUME MemoryTypeOK, NEW f \in Facts, NEW as \in {"episodic", "curated"}, NEW key \in BOOLEAN,
         Upsert(f, as, key)
  PROVE  Known \subseteq Known' \/ Retold(f)
<1>1. /\ \A g : Exists(g)' <=> Exists(g) \/ g = f
      /\ text'[f] = {f} /\ \A g \in Facts \ {f} : text'[g] = text[g]
  BY UpsertFacts
<1>2. ASSUME ~Retold(f), NEW x \in Known PROVE x \in Known'
  <2>1. PICK g \in Facts : Exists(g) /\ x \in text[g]
    BY <1>2, KnownIsSaid
  <2>2. Exists(g)' /\ x \in text'[g]
    BY <1>1, <1>2, <2>1 DEF Retold
  <2> QED  BY <2>2 DEF Known, Exists
<1> QED  BY <1>2

(* The step of TopicStays. *)
TopicStep ==
  Known \cap Prefs # {} =>
    \/ (Known \cap Prefs)' # {}
    \/ \E l \in Lanes : Overtaken(l)
    \/ \E f \in Facts : Retold(f)
    \/ DecidedTwice

LEMMA ReplacingKeepsTopic ==
  ASSUME MemoryIInv, NEW l \in Lanes, DeletesVictim(l)
  PROVE  TopicStep
<1>1. MemoryTypeOK /\ SaysItself /\ LanePlan(l)
  BY DEF MemoryIInv
<1>2. pc[l] = "delete" /\ TurnOver(l)
  BY DEF DeletesVictim
<1>3. pc'[l] = "idle"
  BY <1>1, <1>2, MemoryTypes DEF TurnOver
<1>4. PICK f \in Prefs, v \in Facts : f = fact[l] /\ v = victim[l] /\ v # f /\ f \in Facts
  BY <1>1, <1>2, MemoryTypes DEF LanePlan
<1>5. CASE ~Exists(f)
  BY <1>2, <1>3, <1>4, <1>5 DEF TopicStep, Overtaken, Exists
<1>6. CASE Exists(f) /\ Delete(v)
  <2>1. \A g : Exists(g)' <=> Exists(g) /\ g # v
    BY <1>1, <1>6, ClearedFacts DEF Delete
  <2>2. Exists(f)' /\ text'[f] = text[f] /\ f \in text[f]
    BY <1>1, <1>4, <1>6, <2>1, MemoryTypes DEF Delete, SaysItself
  <2>3. f \in Known'
    BY <2>2 DEF Known, Exists
  <2> QED  BY <1>4, <2>3 DEF TopicStep
<1>7. CASE UNCHANGED rowVars
  BY <1>7 DEF TopicStep, Known, rowVars
<1> QED  BY <1>4, <1>5, <1>6, <1>7 DEF DeletesVictim

LEMMA TopicSteps ==
  ASSUME MemoryIInv, [MemoryNext]_memoryVars
  PROVE  TopicStep
<1>1. MemoryTypeOK
  BY DEF MemoryIInv
<1>2. CASE UNCHANGED rowVars
  BY <1>2 DEF TopicStep, Known, rowVars
<1>3. CASE \E f \in Facts, as \in {"episodic", "curated"}, key \in BOOLEAN : Upsert(f, as, key)
  BY <1>1, <1>3, UpsertKeepsKnown DEF TopicStep
<1>4. ASSUME NEW l \in Lanes, WritesFact(l) PROVE TopicStep
  <2>1. fact[l] \in Facts
    BY <1>4 DEF MemoryIInv, LanePlan, WritesFact
  <2>2. (fact[l] \in Prefs) \in BOOLEAN /\ "curated" \in {"episodic", "curated"}
    OBVIOUS
  <2>3. Upsert(fact[l], "curated", fact[l] \in Prefs) \/ UNCHANGED rowVars
    BY <1>4 DEF WritesFact
  <2>4. (\E f \in Facts, as \in {"episodic", "curated"}, key \in BOOLEAN : Upsert(f, as, key))
          \/ UNCHANGED rowVars
    BY <2>1, <2>2, <2>3, Zenon
  <2> QED  BY <1>2, <1>3, <2>4
<1>5. ASSUME NEW f \in Facts, Flush(f) PROVE TopicStep
  <2>1. /\ Upsert(f, "episodic", FALSE)
        /\ "episodic" \in {"episodic", "curated"} /\ FALSE \in BOOLEAN
    BY <1>5 DEF Flush
  <2> QED  BY <1>3, <2>1, Zenon
<1>6. CASE DreamActs
  BY <1>6, DreamActsIsGood DEF TopicStep
<1>7. CASE Dreaming /\ ~DreamActs
  BY <1>2, <1>7
  DEF Dreaming, DreamBegins, DreamListsCurated, DreamDecides, DreamActed, DreamReads,
      DreamComposes, DreamRereads, DreamWrites
<1>8. ASSUME NEW l \in Lanes, NEW f \in Facts, Remembers(l, f) PROVE TopicStep
  BY <1>2, <1>8 DEF Remembers
<1>9. ASSUME NEW u \in Edits, Edit(u) PROVE TopicStep
  BY <1>2, <1>9 DEF Edit
<1>10. UNCHANGED memoryVars => UNCHANGED rowVars
  BY DEF memoryVars
<1> QED
  BY <1>2, <1>4, <1>5, <1>6, <1>7, <1>8, <1>9, <1>10, ReplacingKeepsTopic DEF MemoryNext

(* A known preference topic stays known (session.rs, persist_explicit_memory),
   however many sessions, facts, turns and consolidations there are, but for the
   three ways that TopicStays names. *)
THEOREM PreferencesStay == MemorySpec => PreferencesAreKept
<1>1. MemorySpec => []MemoryIInv
  BY MemoryIsInductive
<1>2. MemoryIInv => MemoryTypeOK
  BY DEF MemoryIInv
<1>3. MemoryIInv /\ [MemoryNext]_memoryVars => [TopicStep]_memoryVars
  BY TopicSteps
<1>4. MemorySpec => []MemoryTypeOK
  BY <1>1, <1>2, PTL
<1>5. MemorySpec => [][TopicStep]_memoryVars
  BY <1>1, <1>3, PTL DEF MemorySpec
<1> QED  BY <1>4, <1>5 DEF PreferencesAreKept, TopicStays, TopicStep

(* What a person saved between the two reads of MEMORY.md is in the file that a
   consolidation leaves (rewrite_memory_md), unless both reads came to nothing. *)
THEOREM EditsStay == MemorySpec => EditsAreKept
<1> DEFINE KeepsEdits == dream = "write" /\ dream' = "idle" /\ ~(before = {} /\ reread = {}) =>
                           saved \ before \subseteq file'
<1>1. ASSUME MemoryIInv, [MemoryNext]_memoryVars PROVE KeepsEdits
  <2> SUFFICES ASSUME dream = "write", dream' = "idle", ~(before = {} /\ reread = {})
               PROVE  saved \ before \subseteq file'
    OBVIOUS
  <2>1. UNCHANGED dreamVars \/ UNCHANGED memoryVars => dream' = dream
    BY DEF dreamVars, memoryVars
  <2>2. Dreaming
    BY <1>1, <2>1 DEF MemoryNext, Remembers, WritesFact, DeletesVictim, Flush, Edit
  <2>3. DreamWrites
    BY <2>2
    DEF Dreaming, DreamBegins, DreamListsCurated, DreamDecides, DreamActs, DreamActed,
        DreamReads, DreamComposes, DreamRereads
  <2>4. saved \subseteq file /\ reread \in {saved, {}}
    BY <1>1 DEF MemoryIInv, FileGrows
  <2>5. file' \in {IF before = reread THEN body ELSE file \cup body, file}
    BY <2>3 DEF DreamWrites, Overwrite, fileVars
  <2> QED  BY <2>4, <2>5
<1>2. MemoryIInv /\ [MemoryNext]_memoryVars => [KeepsEdits]_memoryVars
  BY <1>1
<1> QED  BY <1>2, MemoryIsInductive, PTL DEF MemorySpec, EditsAreKept

(* A consolidation (dreaming.rs) loses nothing that was known when it carried a
   decision out, whichever list of decisions the model returns: what a second
   decision about a row overwrites is still among the texts that MEMORY.md is
   rewritten from.  Nor does it lose what a person wrote meanwhile: see EditsStay. *)
THEOREM FactsStay == MemorySpec => FactsAreKept
<1> DEFINE KeepsFacts == dream = "act" /\ items' # items =>
                           Known \subseteq Known' \cup (IF DecidedTwice THEN merged' ELSE {})
<1>1. ASSUME MemoryIInv, [MemoryNext]_memoryVars PROVE KeepsFacts
  <2> SUFFICES ASSUME dream = "act", items' # items
               PROVE  Known \subseteq Known' \cup (IF DecidedTwice THEN merged' ELSE {})
    OBVIOUS
  <2>1. ~(UNCHANGED dreamVars)
    BY DEF dreamVars, planVars
  <2>2. Dreaming
    BY <1>1, <2>1
    DEF MemoryNext, memoryVars, Remembers, WritesFact, DeletesVictim, Flush, Edit
  <2>3. DreamActs
    BY <2>2 DEF Dreaming, DreamBegins, DreamListsCurated, DreamDecides, DreamActed,
                DreamReads, DreamComposes, DreamRereads, DreamWrites, DreamEnds, planVars
  <2> QED  BY <1>1, <2>3, DreamActsIsGood
<1>2. MemoryIInv /\ [MemoryNext]_memoryVars => [KeepsFacts]_memoryVars
  BY <1>1
<1>3. MemorySpec => [][KeepsFacts]_memoryVars
  BY <1>2, MemoryIsInductive, PTL DEF MemorySpec
<1> QED  BY <1>3, EditsStay DEF FactsAreKept, DreamsKeepFacts
===============================================================================
