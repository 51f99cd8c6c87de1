--------------------------------- MODULE Recall ---------------------------------
(***************************************************************************)
(* How memories are found again, and which ones a conversation leaves      *)
(* behind (oc-store: fts.rs, ops.rs search_candidates; oc-server:          *)
(* tokenize, lane1_bootstrap, handle_memory_search; oc-core: memory.rs     *)
(* trigger_prefilter, rank, extract_episode_candidates).                   *)
(*                                                                         *)
(* A text is a sequence of characters of three sorts: letters, marks       *)
(* (punctuation outside ASCII, which the index leaves out but a query      *)
(* keeps) and blanks (white space and ASCII punctuation, which separate    *)
(* the words of a query).                                                  *)
(***************************************************************************)
EXTENDS Integers, FiniteSets, SequencesExt

CONSTANTS
  Letters, Marks, Blanks,   \* the sorts of characters
  Candidates,               \* how many rows a search reads (32 for a turn, 64 for a query)
  PerTurn,                  \* trigger_max_per_turn
  MinPair, MinUser, MinAssistant   \* MIN_PAIR_CHARS, MIN_LONE_USER_CHARS, ..._ASSISTANT_CHARS

Parts(s, n) == {SubSeq(s, i, i + n - 1) : i \in 1..(Len(s) - n + 1)}
Holds(text, word) == word \in Parts(text, Len(word))

-------------------------------------------------------------------------------
(* The words of a query.                                                     *)

(* The longest stretches of a text without the characters of S. *)
Between(s, S) ==
  {SubSeq(s, p[1], p[2]) :
     p \in {q \in (1..Len(s)) \X (1..Len(s)) :
              /\ q[1] <= q[2]
              /\ \A i \in q[1]..q[2] : s[i] \notin S
              /\ q[1] = 1 \/ s[q[1] - 1] \in S
              /\ q[2] = Len(s) \/ s[q[2] + 1] \in S}}

(* A slip: a segment of one character is a word too. *)
AnySegment(seg) == TRUE
IsWord(seg) == Len(seg) >= 2

(* tokenize: every longer segment and each pair of neighbours in it. *)
Tokenize(msg) == UNION {{seg} \cup Parts(seg, 2) : seg \in {s \in Between(msg, Blanks) : IsWord(s)}}

-------------------------------------------------------------------------------
(* The index.                                                                *)

(* fold: what an index entry keeps of a window; nothing if it has no letter. *)
Fold(window) == LET kept == SelectSeq(window, LAMBDA c : c \in Letters)
                IN  IF kept = <<>> THEN {} ELSE {kept}

(* A slip: the text is cut at its marks and blanks first. *)
WindowsOfSegments(s) ==
  LET runs == Between(s, Marks \cup Blanks)
  IN  UNION {IF Len(r) = 1 THEN {r} ELSE Parts(r, 2) : r \in runs}

(* windows: every pair of neighbours, across marks and blanks as well; a text of one
   character stands for itself. *)
Windows(s) == UNION {Fold(w) : w \in Parts(s, IF Len(s) = 1 THEN 1 ELSE 2)}

(* term_expr: a word asks for all its windows. *)
InIndex(text, word) == Windows(word) \subseteq Windows(text)

(* Slips: a word without a letter is left out of the expression instead; the index
   is trusted and the text not looked at again. *)
NoFallback(words) == TRUE
Expressible(words) == \A w \in words : Windows(w) # {}

Scan(text, words) == \E w \in words : Holds(text, w)
IndexAlone(text, words) == TRUE
Recheck(text, words) == Scan(text, words)

(* match_expr and the two ways of search_candidates: any word may match; if one cannot be
   expressed the whole table is scanned.  Without words every row is a candidate. *)
IsCandidate(text, words) ==
  \/ words = {}
  \/ Expressible(words) /\ Recheck(text, words)
       /\ \E w \in words : Windows(w) # {} /\ InIndex(text, w)
  \/ ~Expressible(words) /\ Scan(text, words)

(* search_candidates: the newest rows first, so many at most; rows are kept in the order
   they were inserted. *)
SearchCandidates(rows, words) ==
  LET found == SelectSeq(rows, LAMBDA r : IsCandidate(r.text, words))
  IN  SubSeq(Reverse(found), 1, IF Len(found) < Candidates THEN Len(found) ELSE Candidates)

-------------------------------------------------------------------------------
(* What becomes of the candidates.                                           *)

Hits(row, words) == Cardinality({w \in words : Holds(row.text, w)})

Sorted(rows, Before(_, _)) ==
  LET order == SetToSortSeq(DOMAIN rows,
                            LAMBDA i, j : \/ Before(rows[i], rows[j])
                                          \/ ~Before(rows[j], rows[i]) /\ i < j)
  IN  [n \in DOMAIN rows |-> rows[order[n]]]
Best(rows, n) == SubSeq(rows, 1, IF Len(rows) < n THEN Len(rows) ELSE n)

(* A slip: a memory that was not curated may be injected. *)
AnyTier(row) == TRUE
IsCurated(row) == row.tier = "curated"

(* lane1_bootstrap and trigger_prefilter: of the curated rows that share a word with the
   message the few with the most hits, then the most important. *)
LaneOne(rows, msg) ==
  LET words == Tokenize(msg)
      better(a, b) == \/ Hits(a, words) > Hits(b, words)
                      \/ Hits(a, words) = Hits(b, words) /\ a.importance > b.importance
      curated == SelectSeq(rows, IsCurated)
      shared == SelectSeq(SearchCandidates(curated, words), LAMBDA r : Hits(r, words) >= 1)
  IN  IF words = {} THEN <<>> ELSE Best(Sorted(shared, better), PerTurn)

(* rank and handle_memory_search: share of the words times importance times a half for
   every half-life since its last use; ages are whole half-lives up to Oldest. *)
Oldest == 3
Score(row, words) == Hits(row, words) * row.importance * 2 ^ (Oldest - row.age)
MemorySearch(rows, query, limit) ==
  LET words == Tokenize(query)
      ranked == Sorted(SearchCandidates(rows, words),
                       LAMBDA a, b : Score(a, words) > Score(b, words))
  IN  Best(SelectSeq(ranked, LAMBDA r : Score(r, words) > 0), limit)

(* memory_text, the search of /memory: all rows are looked at, and ten are shown. *)
Listed == 10
MemoryShown(rows, query) == MemorySearch(rows, query, Listed)

-------------------------------------------------------------------------------
(* The episodes of a conversation.  An entry is its role and its length; "explicit" says
   that it asks to remember something (detect_explicit_memory), which was stored when it
   was said.                                                                 *)

(* A slip: an assistant entry without text answers the question before it. *)
AnswersAnyway(entry) == entry.role = "assistant"
Answers(entry) == entry.role = "assistant" /\ entry.size > 0

(* A slip of the pair's rule: what was remembered when it was said is kept again. *)
KeepsAnyPair(user, answer) == user.size + answer.size >= MinPair
KeepsPair(user, answer) == user.size + answer.size >= MinPair /\ ~user.explicit
KeepsUser(user) == user.size >= MinUser /\ ~user.explicit

(* extract_episode_candidates: a candidate is the positions of the entries it is made of. *)
Episodes(entries) ==
  LET lone(st) == IF st.user # 0 /\ KeepsUser(entries[st.user])
                  THEN Append(st.out, {st.user}) ELSE st.out
      step(st, i) ==
        CASE entries[i].role = "user" -> [user |-> i, out |-> lone(st)]
          [] Answers(entries[i]) /\ st.user # 0 ->
               [user |-> 0, out |-> IF KeepsPair(entries[st.user], entries[i])
                                    THEN Append(st.out, {st.user, i}) ELSE st.out]
          [] Answers(entries[i]) /\ st.user = 0 /\ entries[i].size >= MinAssistant ->
               [st EXCEPT !.out = Append(@, {i})]
          [] OTHER -> st
  IN  lone(FoldLeft(step, [user |-> 0, out |-> <<>>], [i \in DOMAIN entries |-> i]))

-------------------------------------------------------------------------------
(* What is promised.                                                         *)

(* fts.rs:16 and ops.rs:541: the index only narrows the search; for every message a user
   can write, exactly the rows are found that a scan of the table would find. *)
FoundAsByScan(text, msg) ==
  LET words == Tokenize(msg)
  IN  IsCandidate(text, words) <=> (words = {} \/ Scan(text, words))

(* As long as no more rows match than a search reads: what a turn is told are the curated
   memories it shares most words with, and every one left out is no better than
   each of those that fill the turn; a query never returns what it has no word of
   and leaves out only what scores less, and what /memory shows begins with the same. *)
BestAreInjected(rows, msg) ==
  LET words == Tokenize(msg)
      told == LaneOne(rows, msg)
      worse(a, b) == \/ Hits(a, words) < Hits(b, words)
                     \/ Hits(a, words) = Hits(b, words) /\ a.importance <= b.importance
      found == MemorySearch(rows, msg, PerTurn)
  IN  Len(rows) <= Candidates =>
        /\ IsPrefix(found, MemoryShown(rows, msg))
        /\ \A r \in ToSet(told) : r.tier = "curated" /\ Scan(r.text, words)
        /\ \A r \in ToSet(rows) \ ToSet(told) :
             r.tier = "curated" /\ Scan(r.text, words) =>
               Len(told) = PerTurn /\ \A t \in ToSet(told) : worse(r, t)
        /\ \A r \in ToSet(found) : Scan(r.text, words)
        /\ \A r \in ToSet(rows) \ ToSet(found) :
             Scan(r.text, words) =>
               Len(found) = PerTurn /\ \A t \in ToSet(found) : Score(r, words) <= Score(t, words)

(* memory.rs:545: an entry is part of one episode at most; a question goes with the first
   thing the assistant then said in words, whatever tools ran in between and unless the
   user spoke first; nothing becomes an episode that was remembered when it was said. *)
EpisodesArePairs(entries) ==
  LET out == Episodes(entries)
      answered(u, a) == /\ entries[u].role = "user" /\ u < a
                        /\ entries[a].role = "assistant" /\ entries[a].size > 0
                        /\ \A i \in (u + 1)..(a - 1) :
                             entries[i].role \notin {"user"} /\
                               ~(entries[i].role = "assistant" /\ entries[i].size > 0)
  IN  /\ \A m, n \in DOMAIN out : m # n => out[m] \cap out[n] = {}
      /\ \A e \in ToSet(out) : \A i \in e : ~entries[i].explicit
      /\ \A u, a \in DOMAIN entries :
           answered(u, a) =>
             /\ {u} \notin ToSet(out) /\ {a} \notin ToSet(out)
             /\ {u, a} \in ToSet(out) <=> entries[u].size + entries[a].size >= MinPair
                                            /\ ~entries[u].explicit
===============================================================================
