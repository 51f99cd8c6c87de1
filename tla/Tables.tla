---------------------------------- MODULE Tables ----------------------------------
(***************************************************************************)
(* The tables a slash command answers with (oc-server/src/dispatch.rs,     *)
(* align_rows and the texts built with it) and what the web page makes of  *)
(* them again (oc-http/ui/src/lib/commandOutput.js).                       *)
(*                                                                         *)
(* A text is a sequence of characters; a table is a sequence of rows and a *)
(* row a sequence of cells.                                                *)
(***************************************************************************)
EXTENDS Integers, FiniteSets, SequencesExt

CONSTANTS
  Blank, Newline, Slash, Colon,   \* characters that mean something to the web page
  Here,                           \* the mark of the current session
  Key, Dash,                      \* the label of a value, and a value that is not known
  Shown                           \* how many memories a search shows (10)

Blanks(n) == [i \in 1..n |-> Blank]
Space(c) == c \in {Blank, Newline}
RECURSIVE TrimEnd(_)
TrimEnd(s) == IF s # <<>> /\ Space(Last(s)) THEN TrimEnd(Front(s)) ELSE s
Trim(s) == Reverse(TrimEnd(Reverse(TrimEnd(s))))

(* The parts of a text between the stretches of characters Cuts holds of that are long enough. *)
RECURSIVE Split(_, _, _)
Split(s, Cuts(_), shortest) ==
  LET gap(i) == i + shortest - 1 <= Len(s) /\ \A j \in i..(i + shortest - 1) : Cuts(s[j])
      at == SelectInSeq([i \in DOMAIN s |-> gap(i)], LAMBDA b : b)
      past == CHOOSE j \in (at + shortest)..(Len(s) + 1) :
                /\ \A k \in at..(j - 1) : Cuts(s[k])
                /\ j = Len(s) + 1 \/ ~Cuts(s[j])
  IN  IF at = 0 THEN <<s>>
      ELSE <<SubSeq(s, 1, at - 1)>> \o Split(SubSeq(s, past, Len(s)), Cuts, shortest)

-------------------------------------------------------------------------------
(* Tables written.                                                           *)

Longest(S) == IF S = {} THEN 0 ELSE CHOOSE n \in S : \A m \in S : m <= n
LastFull(row) == LET full == {i \in DOMAIN row : row[i] # <<>>}
                 IN  IF full = {} THEN 1 ELSE Longest(full)

(* Slips: a column is as wide as its first row; the last cell is padded too; a single blank
   separates the columns. *)
WidthOfFirst(table, i) == Len(table[1][i])
PadsAll(row) == Len(row) + 1
OneBlank == 1
Width(table, i) == Longest({Len(row[i]) : row \in {r \in ToSet(table) : i \in DOMAIN r}})
LastCell(row) == LastFull(row)
Gap == 2

(* align_rows. *)
Line(table, row) ==
  LET cell(i) == row[i] \o (IF i = LastCell(row) THEN <<>>
                            ELSE Blanks(Width(table, i) - Len(row[i]) + Gap))
  IN  FlattenSeq([i \in 1..(IF LastCell(row) < Len(row) THEN LastCell(row) ELSE Len(row))
                    |-> cell(i)])
AlignRows(table) ==
  TrimEnd(FlattenSeq([n \in DOMAIN table |-> Append(Line(table, table[n]), Newline)]))

(* What each list writes of an item: sessions_text, tasks_text, cron_text, intent_text. *)
SessionsText(sessions, current) ==
  AlignRows([n \in DOMAIN sessions |->
               <<sessions[n].id, sessions[n].tag,
                 IF sessions[n].id = current THEN Here ELSE <<>>>>])
TasksText(tasks) ==
  AlignRows([n \in DOMAIN tasks |-> <<tasks[n].id, tasks[n].tag, tasks[n].text>>])
CronText(jobs) ==
  AlignRows([n \in DOMAIN jobs |-> <<jobs[n].id, jobs[n].tag, jobs[n].when, jobs[n].text>>])
IntentText(intents) ==
  AlignRows([n \in DOMAIN intents |->
               <<intents[n].id, intents[n].when, intents[n].tag, intents[n].text>>])

(* A slip: a memory is written as it is stored. *)
AsStored(text) == text
Squeeze(text) ==
  LET words == SelectSeq(Split(text, Space, 1), LAMBDA w : w # <<>>)
  IN  FlattenSeq([n \in DOMAIN words |-> IF n = 1 THEN words[n] ELSE <<Blank>> \o words[n]])

(* memory_text, of what the search found. *)
MemoryText(found) ==
  AlignRows([n \in 1..(IF Len(found) < Shown THEN Len(found) ELSE Shown) |->
               <<found[n].tag, Squeeze(found[n].text)>>])

(* help_text: the usages are padded to the longest, then come two blanks. *)
HelpText(rows) ==
  LET width == Longest({Len(r.id) : r \in ToSet(rows)})
      line(r) == r.id \o Blanks(width - Len(r.id) + 2) \o r.text
  IN  FlattenSeq([n \in DOMAIN rows |->
                    (IF n = 1 THEN <<>> ELSE <<Newline>>) \o line(rows[n])])

(* status_text and model_text: labelled values, two blanks apart; what is not known is a dash, and
   without a model there is nothing of it. *)
Field(key, value) == key \o <<Colon>> \o value
OrDash(value) == IF value = <<>> THEN Dash ELSE value
(* A slip: the values are one blank apart. *)
NextTo(fields) == FlattenSeq([n \in DOMAIN fields |-> IF n = 1 THEN fields[n]
                                                      ELSE Blanks(1) \o fields[n]])
Apart(fields) == FlattenSeq([n \in DOMAIN fields |-> IF n = 1 THEN fields[n]
                                                     ELSE Blanks(2) \o fields[n]])
ModelText(rt) ==
  IF rt.model = <<>> THEN Dash
  ELSE Apart(<<Field(Key, rt.model), Field(Key, rt.provider)>>
               \o (IF rt.endpoint = <<>> THEN <<>> ELSE <<Field(Key, rt.endpoint)>>))
StatusText(st, rt) ==
  LET context == OrDash(st.used) \o <<Slash>> \o st.window
  IN  Apart(<<Field(Key, st.session), Field(Key, OrDash(st.active)), Field(Key, st.queued),
              Field(Key, st.tasks), Field(Key, context)>>)
        \o (IF rt.model = <<>> THEN <<>>
            ELSE <<Newline>> \o Apart(<<Field(Key, rt.model), Field(Key, rt.provider)>>))

-------------------------------------------------------------------------------
(* Tables read.                                                              *)

(* parseCommandOutput. *)
Lines(text) == SelectSeq(Split(TrimEnd(text), LAMBDA c : c = Newline, 1),
                         LAMBDA l : Trim(l) # <<>>)
Columns(line) == Split(Trim(line), Space, 2)
ParseCommandOutput(text) ==
  LET lines == Lines(text)
      cols == [n \in DOMAIN lines |-> Columns(lines[n])]
      fields == \A n \in DOMAIN cols :
                  Len(cols[n]) >= 2 /\ \A i \in DOMAIN cols[n] : Contains(cols[n][i], Colon)
      pairs == Len(lines) >= 2 /\ \A n \in DOMAIN cols : Len(cols[n]) = 2 /\ cols[n][1][1] = Slash
  IN  CASE TrimEnd(text) = <<>> -> [kind |-> "empty", rows |-> <<>>]
        [] TrimEnd(text) # <<>> /\ fields -> [kind |-> "fields", rows |-> cols]
        [] TrimEnd(text) # <<>> /\ ~fields /\ pairs -> [kind |-> "pairs", rows |-> cols]
        [] OTHER -> [kind |-> IF Len(lines) = 1 /\ Len(cols[1]) = 1 THEN "note" ELSE "text",
                     rows |-> cols]

(* toField. *)
ToField(segment) ==
  LET at == SelectInSeq(segment, LAMBDA c : c = Colon)
  IN  <<SubSeq(segment, 1, at - 1), Trim(SubSeq(segment, at + 1, Len(segment)))>>

-------------------------------------------------------------------------------
(* What is promised.                                                         *)

Cells(row) == SelectSeq(row, LAMBDA c : c # <<>>)
ComesBack(text, table) ==
  ParseCommandOutput(text).rows = [n \in DOMAIN table |-> Cells(table[n])]

(* Where the cells of a line begin. *)
Starts(line) == {i \in DOMAIN line : /\ ~Space(line[i])
                                     /\ i > 1 => i > 2 /\ Space(line[i - 1]) /\ Space(line[i - 2])}

(* dispatch.rs:556-560 "列之间用两个以上空格分隔 ... 让 id、状态、说明各自对齐成竖列": whatever is in a
   table of single lines, the web page reads back each row and each cell; the cells of a
   column stand below each other; no line ends in blanks; a list is never taken for the
   help, nor the help for a list; and in the list of sessions exactly the current one is
   marked. *)
TablesComeBack(items) ==
  LET sessions == SessionsText(items, items[1].id)
      tasks == TasksText(items)
      jobs == CronText(items)
      help == HelpText(items)
      slashed == \A n \in DOMAIN items : items[n].id[1] = Slash
  IN  /\ ComesBack(sessions, [n \in DOMAIN items |->
                     <<items[n].id, items[n].tag,
                       IF items[n].id = items[1].id THEN Here ELSE <<>>>>])
      /\ ComesBack(tasks, [n \in DOMAIN items |-> <<items[n].id, items[n].tag, items[n].text>>])
      /\ ComesBack(jobs, [n \in DOMAIN items |->
                     <<items[n].id, items[n].tag, items[n].when, items[n].text>>])
      /\ ComesBack(IntentText(items), [n \in DOMAIN items |->
                     <<items[n].id, items[n].when, items[n].tag, items[n].text>>])
      /\ \A text \in {sessions, tasks, jobs} : \A line \in ToSet(Lines(text)) :
           TrimEnd(line) = line
      /\ \A a, b \in ToSet(Lines(jobs)) : Starts(a) = Starts(b) \/ Len(Columns(a)) # Len(Columns(b))
      /\ slashed /\ Len(items) >= 2 /\ (\A n \in DOMAIN items : items[n].text # <<>>) =>
           ParseCommandOutput(help) =
             [kind |-> IF \A n \in DOMAIN items : /\ Contains(items[n].id, Colon)
                                                  /\ Contains(items[n].text, Colon)
                       THEN "fields" ELSE "pairs",
              rows |-> [n \in DOMAIN items |-> <<items[n].id, items[n].text>>]]
      /\ ~slashed => ParseCommandOutput(tasks).kind # "pairs"

(* commandOutput.js:8-14: the page shows the status and the model as labelled values, each value as the
   daemon wrote it, colons and single blanks in it included. *)
StatusIsFields(st, rt) ==
  LET status == ParseCommandOutput(StatusText(st, rt))
      model == ParseCommandOutput(ModelText(rt))
      values(row) == [i \in DOMAIN row |-> ToField(row[i])[2]]
  IN  /\ status.kind = "fields"
      /\ values(status.rows[1]) = <<st.session, OrDash(st.active), st.queued, st.tasks,
                                    OrDash(st.used) \o <<Slash>> \o st.window>>
      /\ rt.model # <<>> =>
           /\ values(status.rows[2]) = <<rt.model, rt.provider>>
           /\ model.kind = "fields"
           /\ values(model.rows[1]) = SelectSeq(<<rt.model, rt.provider, rt.endpoint>>,
                                                LAMBDA v : v # <<>>)
      /\ rt.model = <<>> => model.kind = "note"

(* dispatch.rs:803 "记忆正文可能自带换行，会把「一行一条」的表格结构撕开——压成单行": a memory is one line of
   its table, whatever its text. *)
MemoriesAreLines(found) ==
  LET lines == Lines(MemoryText(found))
  IN  /\ Len(lines) = (IF Len(found) < Shown THEN Len(found) ELSE Shown)
      /\ \A n \in DOMAIN lines :
           Columns(lines[n]) = Cells(<<found[n].tag, Squeeze(found[n].text)>>)
===============================================================================
