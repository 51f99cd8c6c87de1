--------------------------------- MODULE SideCalls ---------------------------------
(***************************************************************************)
(* The model calls beside the runs: the summary of a conversation, the     *)
(* rewriting of MEMORY.md, the text of a reminder (oc-server summarize.rs, *)
(* dreaming.rs, proactive.rs), and what becomes of the file.               *)
(*                                                                         *)
(* A stream is what the provider sends: pieces of text, "blank" among      *)
(* them, other deltas, "done", an "error" or, where it falls silent until  *)
(* the timeout, "hang".  One that begins with "refused" was never opened.  *)
(* A text is a sequence of pieces.                                         *)
(***************************************************************************)
EXTENDS Integers, SequencesExt, FiniteSetsExt

CONSTANTS
  None,     \* absence of a value
  Pieces    \* pieces of text, "blank" among them

(* str::trim, and the callers' test for an empty text. *)
Solid(text) == {i \in DOMAIN text : text[i] # "blank"}
Trim(text) == IF Solid(text) = {} THEN <<>> ELSE SubSeq(text, Min(Solid(text)), Max(Solid(text)))
OrNone(text) == IF Trim(text) = <<>> THEN None ELSE Trim(text)

Cuts == {"error", "hang", "refused"}

(* The loop over the stream: text is collected, an error or one of Ends ends it. *)
Collected(stream, Ends) ==
  LET ends == {i \in DOMAIN stream : stream[i] \in Ends \cup Cuts}
      last == IF ends = {} THEN Len(stream) ELSE Min(ends)
  IN  [text |-> SelectSeq(SubSeq(stream, 1, last), LAMBDA d : d \in Pieces),
       late |-> last > 0 /\ stream[last] = "hang"]

(* A slip: what came before the timeout is used. *)
KeepLate(got) == got.text
InTime(got) == IF got.late THEN <<>> ELSE got.text

(* summarize: of no messages nothing is asked. *)
Summarize(messages, stream) ==
  IF messages = <<>> THEN None ELSE OrNone(InTime(Collected(stream, {"done"})))

(* run_model_with_system: read to the end of the stream. *)
RunModel(stream) == OrNone(InTime(Collected(stream, {})))

(* run_isolated_turn, and what fire_cron makes of it.  A slip: nothing is said. *)
IsolatedTurn(stream) == InTime(Collected(stream, {"done"}))
AsAnswered(prompt, text) == text
Spoken(prompt, text) == IF Trim(text) = <<>> THEN <<"due">> \o prompt ELSE text
Reminder(prompt, stream) == Spoken(prompt, IsolatedTurn(stream))

-------------------------------------------------------------------------------
(* What is asked.                                                            *)

(* build_consolidation_prompt: the file as it is, and the new items.  A slip: the items
   alone. *)
ItemsAlone(existing) == <<>>
Existing(existing) == IF Trim(existing) = <<>> THEN <<>> ELSE <<"current">> \o Trim(existing)
ConsolidationPrompt(existing, items) ==
  Existing(existing) \o <<"new">> \o FlattenSeq([i \in DOMAIN items |-> Trim(items[i])]) \o <<"merge">>

-------------------------------------------------------------------------------
(* What is written: the states of the disk one after the other, any of which a crash may
   leave behind.  main is MEMORY.md, tmp the file beside it.                 *)

(* Some of a text is on the disk before all of it is. *)
Torn(text) == SubSeq(text, 1, Len(text) \div 2)

(* atomic_write (where rename replaces a file): written beside, then moved.  It fails while
   writing, or moves and cleans up if it cannot.  A slip: written where it is. *)
WriteInPlace(disk, body, fails) == <<disk, [disk EXCEPT !.main = Torn(body)], [disk EXCEPT !.main = body]>>
AtomicWrite(disk, body, fails) ==
  LET begun == [disk EXCEPT !.tmp = Torn(body)]
      beside == [disk EXCEPT !.tmp = body]
  IN  CASE fails = "write" -> <<disk, begun>>
        [] fails = "rename" -> <<disk, begun, beside, [disk EXCEPT !.tmp = None]>>
        [] OTHER -> <<disk, begun, beside, [main |-> body, tmp |-> None]>>

(* append_section: a mark and the text, after all that is there. *)
AppendSection(disk, body) ==
  LET with(more) == [disk EXCEPT !.main = (IF @ = None THEN <<>> ELSE @) \o more]
  IN  <<disk, with(<<"mark">>), with(<<"mark">> \o Torn(body)), with(<<"mark">> \o Trim(body))>>

ReadOrEmpty(disk) == IF disk.main = None THEN <<>> ELSE disk.main

(* rewrite_memory_md, while somebody edits the file or does not. *)
RewriteMemoryMd(disk, items, edit, stream, fails) ==
  LET body == RunModel(stream)
      now == IF edit = None THEN disk ELSE [disk EXCEPT !.main = edit]
  IN  IF items = <<>> THEN <<disk>>
      ELSE IF body = None THEN <<disk, now>>
      ELSE <<disk>> \o (IF ReadOrEmpty(disk) = ReadOrEmpty(now) THEN AtomicWrite(now, body, fails)
                        ELSE AppendSection(now, body))

-------------------------------------------------------------------------------
(* What is promised.                                                         *)

Text(stream) == SelectSeq(stream, LAMBDA d : d \in Pieces)
IsWhole(stream) == /\ ToSet(stream) \cap Cuts = {}
                   /\ \A i \in DOMAIN stream : stream[i] = "done" => i = Len(stream)

(* summarize.rs:18, dreaming.rs:224: an answer that came to its end is taken whole, whatever
   else came with it; of one that came too late, or not at all, nothing is taken, and
   the caller goes on as if it had not asked. *)
AnswersAreTaken(stream) ==
  LET asked == <<[role |-> "user", content |-> <<"x">>]>>
  IN  /\ IsWhole(stream) => /\ Summarize(asked, stream) = OrNone(Text(stream))
                            /\ RunModel(stream) = OrNone(Text(stream))
                            /\ IsolatedTurn(stream) = Text(stream)
      /\ Collected(stream, {}).late => RunModel(stream) = None
      /\ Collected(stream, {"done"}).late => Summarize(asked, stream) = None

(* proactive.rs:122: a reminder is never silent, whatever became of its turn. *)
ReminderSpeaks(prompt, stream) ==
  Trim(prompt) # <<>> => Trim(Reminder(prompt, stream)) # <<>>

(* dreaming.rs:119 (oc-core): what the rewriting replaces was shown to the model that rewrote it. *)
AllIsShown(existing, items) ==
  LET prompt == ToSet(ConsolidationPrompt(existing, items)) \cup {"blank"}
  IN  ToSet(existing) \subseteq prompt /\ \A i \in DOMAIN items : ToSet(items[i]) \subseteq prompt

(* dreaming.rs:341: a crash at any moment leaves the file as it was or as it was to be; what a
   person wrote meanwhile stays in it; and without an answer it is as the person left it. *)
CrashKeepsFile(old, edit, stream, fails) ==
  LET disk == [main |-> old, tmp |-> None]
      states == RewriteMemoryMd(disk, <<<<"i">>>>, edit, stream, fails)
      bare(text) == IF text = None THEN <<>> ELSE text
      left == IF edit = None THEN old ELSE edit
  IN  \A n \in DOMAIN states :
        \/ states[n].main \in {old, left}
        \/ bare(left) # bare(old) /\ IsPrefix(bare(left), states[n].main)
        \/ bare(left) = bare(old) /\ states[n].main = RunModel(stream) /\ fails = None
===============================================================================
