--------------------------------- MODULE Memory ---------------------------------
(***************************************************************************)
(* Long-term memory: what a turn asks to remember (oc-server/src/session.rs,*)
(* persist_explicit_memory), what is kept of a conversation before it is   *)
(* dropped (flush_episodic), and the nightly consolidation that turns      *)
(* episodes into curated memories and rewrites MEMORY.md (dreaming.rs),    *)
(* over the memory table (oc-store/src/ops.rs).                            *)
(*                                                                         *)
(* A row's id is the hash of the text it was made from: here, the fact.    *)
(* Its text is the set of facts it states.  Every call of the store is a   *)
(* step of its own; lanes of different sessions, the consolidation and a   *)
(* person with an editor interleave between them.                          *)
(***************************************************************************)
EXTENDS Naturals, Sequences, FiniteSets, Functions

CONSTANTS
  Prefs,        \* facts of one preference topic (extract_pref_key)
  Others,       \* facts of no topic
  Flushable,    \* facts that a conversation may state in so many words
  Lanes,        \* sessions
  Edits,        \* lines a person adds to MEMORY.md, each once
  MinUses,      \* min_use_count of the gate (2 in DreamCfg::default)
  MaxTurns,     \* bound: turns that ask to remember
  MaxDreams,    \* bound: consolidations begun
  MaxDecisions, \* bound: decisions the model returns in one consolidation
  MaxMishaps,   \* bound: failing store calls, models and reads
  NoFact

Facts == Prefs \cup Others
Lines == Facts \cup Edits

ASSUME MemoryAssumption ==
  /\ Prefs \cap Others = {} /\ Facts \cap Edits = {} /\ NoFact \notin Facts
  /\ Flushable \subseteq Facts
  /\ {MinUses, MaxTurns, MaxDreams, MaxDecisions, MaxMishaps} \subseteq Nat

VARIABLES
  rows,      \* ids of the memory table in the order of their creation
  tier, text, keyed,   \* of a row: "episodic" or "curated"; pref_key is set
  pc,        \* of a lane: "idle", "write", "delete"
  fact,      \* what it was asked to remember
  victim,    \* to_delete
  dream,     \* "idle", "curated", "decide", "act", "read", "compose", "reread", "write"
  passed,    \* its candidates, with the text they had
  curated,   \* the curated rows it saw, with their texts
  items,     \* decisions still to carry out
  merged,    \* merged_texts: facts of the carried out ones
  goals,     \* history: rows that this consolidation has merged into
  before, body, reread,  \* MEMORY.md as read, as rewritten, as read again
  saved,     \* history: what it really held when it was read again
  file,      \* MEMORY.md
  readable,  \* it is UTF-8
  edits, turns, dreams, mishaps

rowVars  == <<rows, tier, text, keyed>>
laneVars == <<pc, fact, victim>>
planVars == <<passed, curated, items, merged, goals>>
bodyVars == <<before, body, reread, saved>>
dreamVars == <<dream, planVars, bodyVars, dreams>>
fileVars == <<file, readable>>
memoryVars == <<rowVars, laneVars, dreamVars, fileVars, edits, turns, mishaps>>

MemoryInit ==
  /\ rows = <<>>
  /\ tier = [f \in Facts |-> "episodic"] /\ text = [f \in Facts |-> {}]
  /\ keyed = [f \in Facts |-> FALSE]
  /\ pc = [l \in Lanes |-> "idle"] /\ fact = [l \in Lanes |-> NoFact]
  /\ victim = [l \in Lanes |-> NoFact]
  /\ dream = "idle" /\ passed = <<>> /\ curated = {} /\ items = <<>> /\ merged = {}
  /\ goals = {} /\ before = {} /\ body = {} /\ reread = {} /\ saved = {}
  /\ file = {} /\ readable = TRUE
  /\ edits = Edits /\ turns = MaxTurns /\ dreams = MaxDreams /\ mishaps = MaxMishaps

Mishap == mishaps > 0 /\ mishaps' = mishaps - 1
Fine == UNCHANGED mishaps

-------------------------------------------------------------------------------
(* Store operations.                                                        *)

Exists(f) == f \in Range(rows)

(* The rows of the facts in S, oldest first. *)
Nth(D, k) == CHOOSE i \in D : Cardinality({j \in D : j < i}) = k - 1
RowsOf(S) == LET D == {i \in DOMAIN rows : rows[i] \in S}
             IN [k \in 1..Cardinality(D) |-> rows[Nth(D, k)]]

(* upsert_memory: of a row that is there, tier and origin stay as they are. *)
Upsert(f, as, key) ==
  /\ rows' = IF Exists(f) THEN rows ELSE Append(rows, f)
  /\ tier' = IF Exists(f) THEN tier ELSE [tier EXCEPT ![f] = as]
  /\ text' = [text EXCEPT ![f] = {f}]
  /\ keyed' = [keyed EXCEPT ![f] = key]

(* The columns of a deleted row are reset, so that they say nothing. *)
Cleared(f) ==
  /\ rows' = RowsOf(Facts \ {f})
  /\ keyed' = [keyed EXCEPT ![f] = FALSE]
  /\ tier' = [tier EXCEPT ![f] = "episodic"]

(* delete_memory. *)
Delete(f) == Cleared(f) /\ text' = [text EXCEPT ![f] = {}]

(* memory_by_pref_key. *)
SameTopic == RowsOf({f \in Facts : keyed[f] /\ tier[f] = "curated"})

(* promote_memory. *)
Promote(f) ==
  /\ tier' = IF Exists(f) THEN [tier EXCEPT ![f] = "curated"] ELSE tier
  /\ UNCHANGED <<rows, text, keyed>>

(* A slip: the source goes although there is nothing to merge it into. *)
MergeRegardless(s, t, m) ==
  IF s # t
  THEN /\ Cleared(s)
       /\ text' = [f \in Facts |-> CASE f = s -> {} [] f = t /\ Exists(t) -> m
                                     [] OTHER -> text[f]]
  ELSE text' = [text EXCEPT ![t] = m] /\ UNCHANGED <<rows, tier, keyed>>

(* merge_memory: the target first, then its source is deleted; a target that
   is gone leaves both as they are. *)
Merge(s, t, m) ==
  CASE ~Exists(t) -> UNCHANGED rowVars
    [] Exists(t) /\ s # t -> /\ Cleared(s)
                             /\ text' = [text EXCEPT ![t] = m, ![s] = {}]
    [] OTHER -> text' = [text EXCEPT ![t] = m] /\ UNCHANGED <<rows, tier, keyed>>

-------------------------------------------------------------------------------
(* A turn that asks to remember.                                            *)

(* supersede: the oldest row of the topic decides. *)
Plan(f) ==
  IF SameTopic = <<>> THEN "add"
  ELSE IF text[Head(SameTopic)] = {f} THEN "ignore" ELSE "replace"

(* The topic is looked up; a failed look-up counts as an empty one. *)
Remembers(l, f) ==
  /\ pc[l] = "idle" /\ turns > 0 /\ turns' = turns - 1
  /\ \/ /\ f \in Prefs /\ Plan(f) = "ignore"
        /\ UNCHANGED <<pc, fact, victim>> /\ Fine
     \/ /\ f \in Prefs /\ Plan(f) = "replace"
        /\ victim' = [victim EXCEPT ![l] = Head(SameTopic)]
        /\ fact' = [fact EXCEPT ![l] = f] /\ pc' = [pc EXCEPT ![l] = "write"] /\ Fine
     \/ /\ f \in Prefs => Plan(f) = "add"
        /\ fact' = [fact EXCEPT ![l] = f] /\ pc' = [pc EXCEPT ![l] = "write"]
        /\ Fine /\ UNCHANGED victim
     \/ /\ f \in Prefs /\ Mishap
        /\ fact' = [fact EXCEPT ![l] = f] /\ pc' = [pc EXCEPT ![l] = "write"]
        /\ UNCHANGED victim
  /\ UNCHANGED <<rowVars, dreamVars, fileVars, edits>>

TurnOver(l) ==
  /\ pc' = [pc EXCEPT ![l] = "idle"] /\ fact' = [fact EXCEPT ![l] = NoFact]
  /\ victim' = [victim EXCEPT ![l] = NoFact]

(* A slip: the row that was just written is deleted as the old one. *)
NoVictim(l) == victim[l] = NoFact

(* Nothing to delete, or the old row is the one just written. *)
SkipsDelete(l) == victim[l] \in {NoFact, fact[l]}

(* The new preference is written first, then the old one deleted. *)
WritesFact(l) ==
  /\ pc[l] = "write"
  /\ \/ /\ Upsert(fact[l], "curated", fact[l] \in Prefs)
        /\ IF SkipsDelete(l) THEN TurnOver(l)
           ELSE pc' = [pc EXCEPT ![l] = "delete"] /\ UNCHANGED <<fact, victim>>
        /\ Fine
     \/ Mishap /\ TurnOver(l) /\ UNCHANGED rowVars
  /\ UNCHANGED <<dreamVars, fileVars, edits, turns>>

DeletesVictim(l) ==
  /\ pc[l] = "delete"
  /\ \/ Delete(victim[l]) /\ Fine
     \/ Mishap /\ UNCHANGED rowVars
  /\ TurnOver(l)
  /\ UNCHANGED <<dreamVars, fileVars, edits, turns>>

(* flush_episodic, one candidate: before a reset or with a compaction. *)
Flush(f) ==
  /\ f \in Flushable
  /\ Upsert(f, "episodic", FALSE)
  /\ UNCHANGED <<laneVars, dreamVars, fileVars, edits, turns, mishaps>>

-------------------------------------------------------------------------------
(* The consolidation: scan_with and rewrite_memory_md.                      *)

DreamEnds == /\ dream' = "idle" /\ passed' = <<>> /\ curated' = {} /\ items' = <<>>
             /\ merged' = {} /\ goals' = {}
             /\ before' = {} /\ body' = {} /\ reread' = {} /\ saved' = {}

(* gate_check, of what can change here.  touch_memory, which would count the
   uses of a row, has no caller: only a gate that asks for none lets one pass. *)
UseCount == 0
Passes(f) == tier[f] = "episodic" /\ UseCount >= MinUses
Candidates == RowsOf({f \in Facts : Passes(f)})

Shown(f) == [id |-> f, says |-> text[f]]

DreamBegins ==
  /\ dream = "idle" /\ dreams > 0
  /\ Candidates # <<>>
  /\ passed' = [i \in DOMAIN Candidates |-> Shown(Candidates[i])]
  /\ dream' = "curated" /\ dreams' = dreams - 1
  /\ UNCHANGED <<rowVars, laneVars, curated, items, merged, goals, bodyVars,
                 fileVars, edits, turns, mishaps>>

DreamListsCurated ==
  /\ dream = "curated" /\ dream' = "decide"
  /\ \/ curated' = {Shown(f) : f \in {g \in Range(rows) : tier[g] = "curated"}} /\ Fine
     \/ curated' = {} /\ Mishap
  /\ UNCHANGED <<rowVars, laneVars, passed, items, merged, goals, bodyVars,
                 dreams, fileVars, edits, turns>>

Create(c) == [source |-> c.id, target |-> NoFact, says |-> c.says]
MergeInto(c, t) == [source |-> c.id, target |-> t.id, says |-> c.says \cup t.says]

(* The model answers with any list of decisions: a candidate becomes a memory
   of its own or goes into one of the curated memories, and may be left out or
   named again, as may a target.  Without a usable answer every candidate
   becomes a memory of its own. *)
Replies == UNION {[1..n -> Range(passed) \X (curated \cup {NoFact})] : n \in 0..MaxDecisions}

DreamDecides ==
  /\ dream = "decide" /\ dream' = "act"
  /\ \/ /\ \E choice \in Replies :
             items' = [i \in DOMAIN choice |->
                         IF choice[i][2] = NoFact THEN Create(choice[i][1])
                         ELSE MergeInto(choice[i][1], choice[i][2])]
        /\ Fine
     \/ items' = [i \in DOMAIN passed |-> Create(passed[i])] /\ Mishap
  /\ UNCHANGED <<rowVars, laneVars, passed, curated, merged, goals, bodyVars,
                 dreams, fileVars, edits, turns>>

(* One decision; one that fails is skipped. *)
DreamActs ==
  /\ dream = "act" /\ items # <<>>
  /\ items' = Tail(items)
  /\ LET it == Head(items) IN
     \/ /\ IF it.target = NoFact THEN Promote(it.source)
                                 ELSE Merge(it.source, it.target, it.says)
        /\ merged' = merged \cup it.says
        /\ goals' = goals \cup ({it.target} \cap Range(rows)) /\ Fine
     \/ Mishap /\ UNCHANGED <<rowVars, merged, goals>>
  /\ UNCHANGED <<laneVars, dream, passed, curated, bodyVars, dreams,
                 fileVars, edits, turns>>

DreamActed ==
  /\ dream = "act" /\ items = <<>>
  /\ IF merged = {} THEN DreamEnds
     ELSE dream' = "read" /\ UNCHANGED <<planVars, bodyVars>>
  /\ UNCHANGED <<rowVars, laneVars, dreams, fileVars, edits, turns, mishaps>>

(* read_or_empty: a file that cannot be read is an empty one. *)
ReadFile == IF readable THEN file ELSE {}

DreamReads ==
  /\ dream = "read" /\ dream' = "compose"
  /\ before' = ReadFile
  /\ UNCHANGED <<rowVars, laneVars, planVars, body, reread, saved, dreams, fileVars, edits,
                 turns, mishaps>>

(* The model adds what was decided to what it keeps of the file; without an
   answer the file stays. *)
DreamComposes ==
  /\ dream = "compose"
  /\ \/ /\ dream' = "reread" /\ \E kept \in SUBSET before : body' = kept \cup merged
        /\ UNCHANGED <<planVars, before, reread, saved>> /\ Fine
     \/ DreamEnds /\ Mishap
  /\ UNCHANGED <<rowVars, laneVars, dreams, fileVars, edits, turns>>

DreamRereads ==
  /\ dream = "reread" /\ dream' = "write"
  /\ reread' = ReadFile /\ saved' = file
  /\ UNCHANGED <<rowVars, laneVars, planVars, before, body, dreams, fileVars, edits,
                 turns, mishaps>>

(* A slip: the file is replaced whatever became of it. *)
OverwriteAlways(b, s) == TRUE

(* decide_write. *)
Overwrite(b, s) == b = s

(* atomic_write, or append_section. *)
DreamWrites ==
  /\ dream = "write"
  /\ \/ /\ file' = IF Overwrite(before, reread) THEN body ELSE file \cup body
        /\ readable' = (Overwrite(before, reread) \/ readable)
        /\ Fine
     \/ Mishap /\ UNCHANGED fileVars
  /\ DreamEnds
  /\ UNCHANGED <<rowVars, laneVars, dreams, edits, turns>>

Dreaming == \/ DreamBegins \/ DreamListsCurated \/ DreamDecides \/ DreamActs \/ DreamActed
            \/ DreamReads \/ DreamComposes \/ DreamRereads \/ DreamWrites

(* A person saves the file, perhaps in another encoding. *)
Edit(u) ==
  /\ u \in edits /\ edits' = edits \ {u}
  /\ file' = file \cup {u}
  /\ readable' \in BOOLEAN
  /\ UNCHANGED <<rowVars, laneVars, dreamVars, turns, mishaps>>

MemoryNext == \/ \E l \in Lanes : \/ \E f \in Facts : Remembers(l, f)
                                  \/ WritesFact(l) \/ DeletesVictim(l)
              \/ \E f \in Facts : Flush(f)
              \/ Dreaming
              \/ \E u \in Edits : Edit(u)

MemorySpec == MemoryInit /\ [][MemoryNext]_memoryVars

-------------------------------------------------------------------------------
(* Properties.                                                              *)

Snapshot == [id : Facts, says : SUBSET Facts]
Decision == [source : Facts, target : Facts \cup {NoFact}, says : SUBSET Facts]

MemoryTypeOK ==
  /\ rows \in Seq(Facts) /\ \A i, j \in DOMAIN rows : rows[i] = rows[j] => i = j
  /\ tier \in [Facts -> {"episodic", "curated"}] /\ text \in [Facts -> SUBSET Facts]
  /\ keyed \in [Facts -> BOOLEAN]
  /\ pc \in [Lanes -> {"idle", "write", "delete"}]
  /\ fact \in [Lanes -> Facts \cup {NoFact}] /\ victim \in [Lanes -> Facts \cup {NoFact}]
  /\ dream \in {"idle", "curated", "decide", "act", "read", "compose", "reread", "write"}
  /\ passed \in Seq(Snapshot) /\ curated \subseteq Snapshot /\ items \in Seq(Decision)
  /\ merged \subseteq Facts /\ goals \subseteq Facts
  /\ {before, body, reread, saved, file} \subseteq SUBSET Lines
  /\ readable \in BOOLEAN /\ edits \subseteq Edits
  /\ turns \in 0..MaxTurns /\ dreams \in 0..MaxDreams /\ mishaps \in 0..MaxMishaps

Known == UNION {text[f] : f \in Range(rows)}

(* The three ways in which a known preference topic can become unknown:
   the row written for a replacement is gone, merged away or deleted by
   another lane, when its old row is deleted; *)
Overtaken(l) == pc[l] = "delete" /\ pc'[l] = "idle" /\ ~Exists(fact[l])

(* a row that states more than its own fact, having been merged into, is told
   or flushed anew, and states no more than that; *)
Retold(f) == Exists(f) /\ text[f] # {f} /\ text'[f] = {f}

(* a second decision of one consolidation concerns a row that an earlier one
   has merged into, of which the model knew only what it was shown. *)
DecidedTwice ==
  /\ dream = "act" /\ items' # items
  /\ {Head(items).source, Head(items).target} \cap goals # {}

TopicStays ==
  [][Known \cap Prefs # {} =>
       \/ (Known \cap Prefs)' # {}
       \/ \E l \in Lanes : Overtaken(l)
       \/ \E f \in Facts : Retold(f)
       \/ DecidedTwice]_memoryVars

(* session.rs, persist_explicit_memory: whatever call fails and whichever steps
   of other lanes and of the consolidation come in between, a known topic stays
   known, except in the three ways above.  The comment at session.rs:1168 knows
   of no exception: see the README. *)
PreferencesAreKept == []MemoryTypeOK /\ TopicStays

(* Carrying out a decision loses nothing that was known at that moment, also
   when a turn replaced or repeated the target after it was shown to the model.
   What a second decision about a row overwrites is in the texts that MEMORY.md
   is rewritten from. *)
DreamsKeepFacts ==
  [][dream = "act" /\ items' # items =>
       Known \subseteq Known' \cup (IF DecidedTwice THEN merged' ELSE {})]_memoryVars

(* What a person saved between the two reads is in the file afterwards, whatever
   the model made of the rest; except when both reads came to nothing, the
   second because the file could not be decoded: then it is replaced (see the
   README on dreaming.rs:280). *)
EditsAreKept ==
  [][dream = "write" /\ dream' = "idle" /\ ~(before = {} /\ reread = {}) =>
       saved \ before \subseteq file']_memoryVars

(* dreaming.rs: a consolidation loses neither facts nor what a person wrote,
   with the exceptions named above. *)
FactsAreKept == DreamsKeepFacts /\ EditsAreKept

===============================================================================
