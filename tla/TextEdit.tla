--------------------------------- MODULE TextEdit ---------------------------------
(***************************************************************************)
(* What the file tool shows of a file and how it edits one (oc-tools       *)
(* file.rs, sanitize.rs).                                                  *)
(*                                                                         *)
(* A text is a sequence of characters; a wide one takes several bytes.     *)
(* The file system is external: a read returns the whole file and a write  *)
(* replaces it.                                                            *)
(***************************************************************************)
EXTENDS Integers, SequencesExt, FiniteSetsExt

CONSTANTS
  Return, Newline,  \* the characters of a line's end
  Wide,             \* a character of several bytes
  WideBytes,        \* how many
  MaxOutput         \* MAX_OUTPUT_BYTES

Part(s, i, n) == SubSeq(s, i, i + n - 1)
Holds(s, w) == \E i \in 1..(Len(s) - Len(w) + 1) : Part(s, i, Len(w)) = w
FirstN(s, n) == SubSeq(s, 1, IF n < Len(s) THEN n ELSE Len(s))
LastN(s, n) == SubSeq(s, IF n < Len(s) THEN Len(s) - n + 1 ELSE 1, Len(s))

Bytes(s) == FoldLeft(LAMBDA n, c : n + (IF c = Wide THEN WideBytes ELSE 1), 0, s)

-------------------------------------------------------------------------------
(* What is shown.                                                            *)

(* sanitize: control characters other than the newline (and the tab) are left out. *)
Cleaned(s) == SelectSeq(s, LAMBDA c : c # Return)

HeadBudget == (MaxOutput * 2) \div 3

(* floor_char_boundary_slice and ceil_char_boundary_slice: the longest whole beginning and
   end within a budget. *)
WholeFirst(s, budget) ==
  LET fits == {n \in 0..Len(s) : Bytes(FirstN(s, n)) <= budget}
  IN  FirstN(s, Max(fits))
WholeLast(s, budget) ==
  LET fits == {n \in 0..Len(s) : Bytes(LastN(s, n)) <= budget}
  IN  LastN(s, Max(fits))

(* A slip: the end is as long as the beginning. *)
EvenHalves(s) == WholeLast(s, HeadBudget)
TailPart(s) == WholeLast(s, MaxOutput - HeadBudget)

(* sanitize: what is shown, and how many bytes it says it left out. *)
Sanitize(s) ==
  LET clean == Cleaned(s)
  IN  IF Bytes(clean) <= MaxOutput THEN [whole |-> TRUE, head |-> clean, tail |-> <<>>, left |-> 0]
      ELSE [whole |-> FALSE, head |-> WholeFirst(clean, HeadBudget), tail |-> TailPart(clean),
            left |-> Bytes(clean) - MaxOutput]

(* str::lines: the lines without their ends; an end of line at the end begins none. *)
RECURSIVE Lines(_)
Lines(s) ==
  IF s = <<>> THEN <<>>
  ELSE LET ends == {i \in DOMAIN s : s[i] = Newline}
           end == IF ends = {} THEN Len(s) + 1 ELSE CHOOSE i \in ends : \A j \in ends : i <= j
           line == SubSeq(s, 1, end - 1)
           bare == IF ends # {} /\ line # <<>> /\ line[Len(line)] = Return
                   THEN SubSeq(line, 1, Len(line) - 1) ELSE line
       IN  <<bare>> \o Lines(SubSeq(s, end + 1, Len(s)))

RECURSIVE Join(_)
Join(lines) == CASE lines = <<>> -> <<>>
                 [] Len(lines) = 1 -> lines[1]
                 [] OTHER -> lines[1] \o <<Newline>> \o Join(Tail(lines))

(* A slip: one line too few from the end. *)
LastButOne(lines, n) == LastN(lines, n - 1)
LastLines(lines, n) == LastN(lines, n)

(* The operations "read", "head" and "tail". *)
ReadOf(file) == Sanitize(file)
HeadOf(file, n) == Sanitize(Join(FirstN(Lines(file), n)))
TailOf(file, n) == Sanitize(Join(LastLines(Lines(file), n)))

-------------------------------------------------------------------------------
(* Editing.                                                                  *)

(* str::matches and str::replacen: the positions of a text from the left, none overlapping
   the one before. *)
RECURSIVE MatchesFrom(_, _, _)
MatchesFrom(s, w, i) ==
  IF i + Len(w) - 1 > Len(s) THEN <<>>
  ELSE IF Part(s, i, Len(w)) = w THEN <<i>> \o MatchesFrom(s, w, i + Len(w))
  ELSE MatchesFrom(s, w, i + 1)

Replaced(s, at, n, by) ==
  FoldRight(LAMBDA k, t : SubSeq(t, 1, k - 1) \o by \o SubSeq(t, k + n, Len(t)), at, s)

ToCrLf(s) ==
  FoldLeft(LAMBDA t, c : t \o (IF c = Newline THEN <<Return, Newline>> ELSE <<c>>), <<>>, s)

(* Slips: only the text looked for is given the file's line ends; the text is looked for as
   it is and no other way. *)
ConvertsOldOnly(new) == new
Converted(new) == ToCrLf(new)

NeverRetries(content, old) == FALSE
MayConvert(content, old) ==
  /\ Holds(content, <<Return, Newline>>) /\ Newline \in ToSet(old)
  /\ ~Holds(old, <<Return, Newline>>)

(* resolve_needle: what is looked for and what replaces it, or nothing. *)
Needle(content, old, new) ==
  IF Holds(content, old) THEN <<old, new>>
  ELSE IF MayConvert(content, old) /\ Holds(content, ToCrLf(old))
       THEN <<ToCrLf(old), Converted(new)>>
  ELSE <<>>

(* A slip: the first place is taken where several match. *)
TakesFirst(at, all) == at # <<>>
Decided(at, all) == Len(at) = 1 \/ all

(* The operation "edit": what becomes of the file and what the model is told. *)
Edit(content, old, new, all) ==
  LET told(what, file) == [told |-> what, file |-> file]
      needle == Needle(content, old, new)
  IN  IF old = <<>> \/ old = new THEN told("bad arguments", content)
      ELSE IF needle = <<>> THEN told("no match", content)
      ELSE LET at == MatchesFrom(content, needle[1], 1)
           IN  IF Decided(at, all)
               THEN told("edited", Replaced(content, IF all THEN at ELSE <<at[1]>>,
                                             Len(needle[1]), needle[2]))
               ELSE told("ambiguous", content)

-------------------------------------------------------------------------------
(* What is promised.                                                         *)

CrLfFile(s) == \A i \in DOMAIN s : /\ s[i] = Newline => i > 1 /\ s[i - 1] = Return
                                   /\ s[i] = Return => i < Len(s) /\ s[i + 1] = Newline
PlainFile(s) == Return \notin ToSet(s)
OneStyle(s) == CrLfFile(s) \/ PlainFile(s)

(* sanitize.rs:9: a whole text is shown as it is; of a longer one both ends are shown, within
   the budget, no character cut in two, and the number it gives is short by less than
   a character at each cut. *)
OutputIsBounded(s) ==
  LET out == Sanitize(s)
      clean == Cleaned(s)
      shown == Bytes(out.head) + Bytes(out.tail)
  IN  /\ shown <= MaxOutput
      /\ IsPrefix(out.head, clean) /\ IsSuffix(out.tail, clean)
      /\ out.whole <=> shown = Bytes(clean)
      /\ Bytes(clean) - shown - out.left \in 0..(2 * (WideBytes - 1))

(* file.rs: the head of a file and the rest from its tail are the file, line by line. *)
HeadAndTailMeet(file) ==
  LET lines == Lines(file)
      body == Cleaned(file)
      text == IF body # <<>> /\ body[Len(body)] = Newline THEN Front(body) ELSE body
  IN  OneStyle(file) /\ Bytes(body) <= MaxOutput =>
        \A n \in 1..(Len(lines) - 1) :
          HeadOf(file, n).head \o <<Newline>> \o TailOf(file, Len(lines) - n).head = text

(* file.rs:260: whatever part of a file a model copies from what it was shown, the edit finds
   it, in whichever of the two styles the file ends its lines. *)
ShownCanBeEdited(file, old, new, all) ==
  OneStyle(file) /\ ReadOf(file).whole /\ old # <<>> /\ old # new /\ Holds(ReadOf(file).head, old) =>
    Edit(file, old, new, all).told \in {"edited", "ambiguous"}

(* An edit that is refused changes nothing; unless all places were asked for, one that is made
   changes one place, which holds the text the model gave, and puts there the text it
   gave, and no place clear of it holds that text too; and a file keeps its style of
   line ends, as far as the text reaches over the end of a line. *)
EditsAreExact(file, old, new, all) ==
  LET out == Edit(file, old, new, all)
      rest(p) == Len(file) - p[1] - p[2]
      places == {p \in (0..Len(file)) \X (0..Len(file)) :
        /\ rest(p) >= 0 /\ p[1] + rest(p) <= Len(out.file)
        /\ Cleaned(Part(file, p[1] + 1, p[2])) = Cleaned(old)
        /\ FirstN(file, p[1]) = FirstN(out.file, p[1])
        /\ LastN(file, rest(p)) = LastN(out.file, rest(p))
        /\ Cleaned(SubSeq(out.file, p[1] + 1, Len(out.file) - rest(p))) = Cleaned(new)}
      at == {i \in 1..(Len(file) - Len(old) + 1) : Part(file, i, Len(old)) = old}
  IN  /\ out.told # "edited" => out.file = file
      /\ out.told = "edited" /\ ~all => /\ places # {}
                                       /\ \A i, j \in at : j < i + Len(old)
      /\ out.told = "ambiguous" => Holds(file, old) \/ Holds(Cleaned(file), old)
      /\ /\ CrLfFile(file) /\ PlainFile(old) /\ PlainFile(new)
         /\ \E i \in 2..Len(old) : old[i] = Newline
         => CrLfFile(out.file)
===============================================================================
