---------------------------------- MODULE WebPage ----------------------------------
(***************************************************************************)
(* What web_fetch makes of a page (oc-tools web.rs).                       *)
(*                                                                         *)
(* A page is a sequence of letters; a tag's name with its bracket, a       *)
(* closing tag and an entity are letters of their own.  Size gives the     *)
(* bytes of a letter, LowerSize those of its lower case; for all but a few *)
(* letters they are the same.                                              *)
(***************************************************************************)
EXTENDS Integers, SequencesExt, FiniteSetsExt

CONSTANTS
  None,        \* absence of a value: the code panicked
  Letters,     \* the letters of a page
  Size, LowerSize

Blocks == <<[open |-> "<script", close |-> "</script>"], [open |-> "<style", close |-> "</style>"]>>
Opens == {"<", "<script", "<style"}
Closes == {"</script>", "</style>"}

(* The letter each byte belongs to, and its place in it. *)
BytesOf(page, size) == FlattenSeq([n \in DOMAIN page |-> [k \in 1..size[page[n]] |-> <<page[n], k>>]])

(* Slicing at i is allowed at the edge of a letter only. *)
IsEdge(bytes, i) == i = Len(bytes) \/ (i < Len(bytes) /\ bytes[i + 1][2] = 1)

(* strip_block: blocks are looked for in the lower case of the page and cut from the page, both
   at the same index; one that is not closed takes the rest with it. *)
RECURSIVE StripFrom(_, _, _, _, _)
StripFrom(bytes, lower, block, i, out) ==
  LET here == bytes[i + 1][1]
      ends == {j \in (i + 1)..Len(lower) : lower[j] = <<block.close, 1>>}
  IN  IF i >= Len(bytes) THEN out
      ELSE IF ~IsEdge(lower, i) THEN None
      ELSE IF i < Len(lower) /\ lower[i + 1] = <<block.open, 1>>
           THEN IF ends = {} THEN out ELSE StripFrom(bytes, lower, block, Min(ends), out)
      ELSE IF ~IsEdge(bytes, i) THEN None
      ELSE StripFrom(bytes, lower, block, i + Size[here], Append(out, here))
StripBlock(page, block) ==
  StripFrom(BytesOf(page, Size), BytesOf(page, LowerSize), block, 0, <<>>)

(* A slip: an unclosed tag ends with its line. *)
InTagOnLine(inTag, c) == c \in Opens \/ (inTag /\ c \notin {">", "nl"} \cup Closes)
InTag(inTag, c) == c \in Opens \/ (inTag /\ c \notin {">"} \cup Closes)

(* strip_tags. *)
StripTags(page) ==
  FoldLeft(LAMBDA st, c :
             [inTag |-> InTag(st.inTag, c),
              out |-> IF st.inTag \/ c \in Opens \cup Closes \cup {">"} THEN st.out ELSE Append(st.out, c)],
           [inTag |-> FALSE, out |-> <<>>], page).out

(* The entities, one kind after the other: "&amp;" first, so that what it yields may be the
   beginning of another. *)
Decode(text) ==
  LET amp == [n \in DOMAIN text |-> IF text[n] = "&amp;" THEN "&" ELSE text[n]]
      isLt(n) == amp[n] = "&" /\ n < Len(amp) /\ amp[n + 1] = "lt;"
  IN  FoldLeft(LAMBDA out, n :
                 IF amp[n] = "&lt;" \/ isLt(n) THEN Append(out, "less")
                 ELSE IF n > 1 /\ isLt(n - 1) THEN out ELSE Append(out, amp[n]),
               <<>>, [n \in DOMAIN amp |-> n])

(* The lines of a text, trimmed; of several empty ones one is kept.  A slip: none is. *)
LinesOf(text) ==
  LET ends == {n \in DOMAIN text : text[n] = "nl"} \cup
                (IF text # <<>> /\ text[Len(text)] # "nl" THEN {Len(text) + 1} ELSE {})
      at == <<0>> \o [k \in 1..Cardinality(ends) |->
                        CHOOSE n \in ends : Cardinality({m \in ends : m < n}) = k - 1]
  IN  [k \in 1..(Len(at) - 1) |-> SubSeq(text, at[k] + 1, at[k + 1] - 1)]
TrimLine(line) ==
  LET solid == {n \in DOMAIN line : line[n] # "sp"}
  IN  IF solid = {} THEN <<>> ELSE SubSeq(line, Min(solid), Max(solid))
DropsEmpty(line, blank) == line # <<>>
Stays(line, blank) == line # <<>> \/ ~blank
Squeeze(text) ==
  FoldLeft(LAMBDA st, l :
             LET line == TrimLine(l)
             IN  [blank |-> line = <<>>,
                  out |-> IF Stays(line, st.blank) THEN st.out \o line \o <<"nl">> ELSE st.out],
           [blank |-> FALSE, out |-> <<>>], LinesOf(text)).out

(* html_to_text. *)
HtmlToText(page) ==
  LET one == StripBlock(page, Blocks[1])
      both == IF one = None THEN None ELSE StripBlock(one, Blocks[2])
  IN  IF both = None THEN None ELSE Squeeze(Decode(StripTags(both)))

-------------------------------------------------------------------------------
(* What is promised.                                                         *)

Plain(page) == \A n \in DOMAIN page : Size[page[n]] = LowerSize[page[n]]

(* n lies in a block that opens before it and is not closed before it. *)
InBlock(page, n) ==
  \E m \in 1..n, b \in ToSet(Blocks) :
    page[m] = b.open /\ \A k \in m..(n - 1) : page[k] # b.close
(* Blocks are not begun within blocks, nor closed where none was begun; brackets pair. *)
WellFormed(page) ==
  /\ \A n \in DOMAIN page : \A b \in ToSet(Blocks) :
       page[n] = b.close <=> /\ page[n] \in Closes
                             /\ \E m \in 1..(n - 1) : page[m] = b.open
                                  /\ \A k \in (m + 1)..(n - 1) : page[k] \notin Opens \cup Closes
  /\ \A n \in DOMAIN page : page[n] \in {"<script", "<style"} => n = 1 \/ ~InBlock(page, n - 1)
                                                                \/ page[n - 1] \in Closes
(* What a browser shows of it: outside blocks, and outside tags. *)
Shows(page, n) ==
  /\ ~InBlock(page, n) /\ page[n] \notin {"<", ">"}
  /\ LET before == {m \in 1..n : page[m] \in {"<", ">"} /\ ~InBlock(page, m)}
     IN  before = {} \/ page[Max(before)] = ">"

(* None, one, or one with an empty line. *)
Breaks(text) == Min({2, Len(SelectSeq(text, LAMBDA c : c = "nl"))})

(* web.rs:166: of a page without scripts in scripts the model is given what the page shows, in
   its order and in its paragraphs, the entities read once, no script and no style, and no two
   empty lines in a row. *)
PageIsRead(page) ==
  Plain(page) /\ WellFormed(page) =>
    LET shown == SelectSeq([n \in DOMAIN page |-> n], LAMBDA n : Shows(page, n))
        text == [k \in DOMAIN shown |-> page[shown[k]]]
        twice == \E k \in 1..(Len(text) - 1) : text[k] = "&amp;" /\ text[k + 1] = "lt;"
        read == [k \in DOMAIN text |-> CASE text[k] = "&amp;" -> "&" [] text[k] = "&lt;" -> "less"
                                          [] OTHER -> text[k]]
        blank(c) == c \in {"sp", "nl"}
        out == HtmlToText(page)
    IN  /\ ~twice => SelectSeq(out, LAMBDA c : ~blank(c)) = SelectSeq(read, LAMBDA c : ~blank(c))
        /\ ~twice => \A j, k \in DOMAIN read :
             j < k /\ ~blank(read[j]) /\ ~blank(read[k]) =>
               LET place(x) == Len(SelectSeq(SubSeq(read, 1, x), LAMBDA c : ~blank(c)))
                   at(x) == CHOOSE y \in DOMAIN out : /\ ~blank(out[y])
                              /\ Len(SelectSeq(SubSeq(out, 1, y), LAMBDA c : ~blank(c))) = place(x)
               IN  Breaks(SubSeq(read, j, k)) = Breaks(SubSeq(out, at(j), at(k)))
        /\ \A k \in 1..(Len(out) - 2) : ~(out[k] = "nl" /\ out[k + 1] = "nl" /\ out[k + 2] = "nl")

(* Not kept by the code (see README): any page can be read. *)
AnyPageIsRead(page) == HtmlToText(page) # None
===============================================================================
