------------------------------ MODULE ModelStream ------------------------------
(***************************************************************************)
(* From the bytes of a model's answer to a turn of the conversation, and   *)
(* back into the next request (oc-llm: sse.rs, openai.rs, anthropic.rs;    *)
(* oc-server: run.rs, run_model_turn).                                     *)
(*                                                                         *)
(* The bytes arrive in packets that are cut anywhere; SseBuffer makes      *)
(* lines of them, a provider makes deltas of the payloads, and the run     *)
(* puts the deltas together.  Texts are sequences of pieces.               *)
(***************************************************************************)
EXTENDS Integers, SequencesExt

CONSTANTS
  None,       \* absence of a value
  Unnamed,    \* UNKNOWN_TOOL_NAME, which stands in for an empty tool name
  Generated,  \* the id gen_call_id makes up for a call without one
  Empty       \* the empty name, in rows older than Unnamed

-------------------------------------------------------------------------------
(* SseBuffer.  A character is Mark ("data:"), Newline, a piece of text of one byte, or Wide,
   one of two bytes, as are all but the ASCII letters (of two bytes or more). *)

Mark == "data:"
Newline == "newline"
Wide == "wide"
First == "first byte"
Second == "second byte"
Replacement == "replacement character"

BytesOf(c) == IF c = Wide THEN <<First, Second>> ELSE <<c>>
Encoded(stream) == FlattenSeq([i \in DOMAIN stream |-> BytesOf(stream[i])])

IsTorn(packet, i) ==
  \/ packet[i] = First /\ (i = Len(packet) \/ packet[i + 1] # Second)
  \/ packet[i] = Second /\ (i = 1 \/ packet[i - 1] # First)

(* A slip: a packet that is not text as a whole is passed over. *)
TextOrNothing(packet) == IF \E i \in DOMAIN packet : IsTorn(packet, i) THEN <<>> ELSE packet

(* String::from_utf8_lossy of one packet: a half whose other half is not in it is replaced. *)
FromUtf8Lossy(packet) ==
  [i \in DOMAIN packet |-> IF IsTorn(packet, i) THEN Replacement ELSE packet[i]]

(* The numbers of a set, the least first. *)
Ascending(S) ==
  [n \in 1..Cardinality(S) |-> CHOOSE x \in S : Cardinality({y \in S : y < x}) = n - 1]

LineEnds(s) == {i \in DOMAIN s : s[i] = Newline}

(* What one complete line yields: a line that does not start with the mark is
   an event name, a comment or a separator. *)
PayloadOf(line) == IF line # <<>> /\ line[1] = Mark THEN <<Tail(line)>> ELSE <<>>

(* A slip: what follows the last newline is taken for a line. *)
ForgetRest(rest) == <<>>
KeepRest(rest) == rest

(* SseBuffer::push: the packet is decoded by itself, every complete line is taken off the
   buffer, the rest waits. *)
Push(buffer, packet) ==
  LET all == buffer.rest \o FromUtf8Lossy(packet)
      ends == Ascending(LineEnds(all))
      start(n) == IF n = 1 THEN 1 ELSE ends[n - 1] + 1
      from == IF ends = <<>> THEN 1 ELSE ends[Len(ends)] + 1
  IN  [rest |-> KeepRest(SubSeq(all, from, Len(all))),
       out |-> FoldLeft(LAMBDA out, n : out \o PayloadOf(SubSeq(all, start(n), ends[n] - 1)),
                        buffer.out, [n \in DOMAIN ends |-> n])]

EmptyBuffer == [rest |-> <<>>, out |-> <<>>]

(* sse.rs:16: however the network cuts the stream into packets, the same payloads come out as if
   it had come in one, but for the characters that a cut goes through: sse.rs:3 speaks of bytes,
   sse.rs:21 decodes each packet by itself, and the two halves of such a character are
   replaced.  It costs nothing but that character. *)
CutsDoNotMatter(stream) ==
  LET bytes == Encoded(stream)
      spoilt(cuts) == [i \in DOMAIN bytes |->
                         IF \/ i \in cuts /\ bytes[i] = First
                            \/ i - 1 \in cuts /\ bytes[i] = Second
                         THEN Replacement ELSE bytes[i]]
  IN  \A cuts \in SUBSET (1..(Len(bytes) - 1)) :
        LET at == Ascending(cuts \cup {0, Len(bytes)})
            packets == [n \in 1..(Len(at) - 1) |-> SubSeq(bytes, at[n] + 1, at[n + 1])]
        IN  FoldLeft(Push, EmptyBuffer, packets) = Push(EmptyBuffer, spoilt(cuts))

-------------------------------------------------------------------------------
(* The OpenAI-compatible provider.  A payload is "[DONE]", one that is not JSON,
   or a chunk that may carry several things at once.                         *)

Done(reason) == <<[kind |-> "done", reason |-> reason]>>
Something(kind, pieces) == IF pieces = <<>> THEN <<>> ELSE <<[kind |-> kind, pieces |-> pieces]>>

(* Only the first of several parallel tool calls is followed. *)
CallPart(tool) ==
  IF tool = None \/ tool.index # 0 THEN <<>>
  ELSE <<[kind |-> "call", id |-> tool.id, name |-> tool.name, args |-> tool.args]>>

UsagePart(tokens) == IF tokens = 0 THEN <<>> ELSE <<[kind |-> "usage", tokens |-> tokens]>>

FinishPart(finish) ==
  CASE finish = None -> <<>>
    [] finish = "tool_calls" -> Done("tool")
    [] finish = "length" -> Done("length")
    [] OTHER -> Done("stop")

(* Slips: usage is returned at once, whatever else the chunk carries; the end of the
   turn comes before the usage; every parallel call is followed. *)
UsageAlone(chunk) ==
  IF chunk.usage # 0 THEN UsagePart(chunk.usage)
  ELSE Something("text", chunk.text) \o Something("thought", chunk.thought)
       \o CallPart(chunk.tool) \o FinishPart(chunk.finish)
EndFirst(chunk) ==
  Something("text", chunk.text) \o Something("thought", chunk.thought)
    \o CallPart(chunk.tool) \o FinishPart(chunk.finish) \o UsagePart(chunk.usage)

(* parse_chunk: the end of the turn comes last, since nothing after it is read. *)
ParseChunk(chunk) ==
  Something("text", chunk.text) \o Something("thought", chunk.thought)
    \o CallPart(chunk.tool) \o UsagePart(chunk.usage) \o FinishPart(chunk.finish)

(* stream_chat's loop: [DONE] ends the stream, what is not JSON is skipped. *)
OpenAiDeltas(payloads) ==
  FoldLeft(LAMBDA st, p :
             IF st.closed \/ p.kind = "junk" THEN st
             ELSE IF p.kind = "[DONE]"
                  THEN [closed |-> TRUE, out |-> st.out \o Done("stop")]
                  ELSE [st EXCEPT !.out = @ \o ParseChunk(p)],
           [closed |-> FALSE, out |-> <<>>], payloads).out

(* The Anthropic provider: parse_event, and a stream that ends with its first Done:
   message_delta names the reason, message_stop only closes. *)
ParseEvent(p) ==
  CASE p.kind = "content_block_delta" -> Something("text", p.text)
    [] p.kind = "message_delta" ->
         (CASE p.reason = None -> <<>>
            [] p.reason = "tool_use" -> Done("tool")
            [] p.reason = "max_tokens" -> Done("length")
            [] OTHER -> Done("stop"))
    [] p.kind = "message_stop" -> Done("stop")
    [] OTHER -> <<>>

AnthropicDeltas(payloads) ==
  FoldLeft(LAMBDA st, p :
             LET out == ParseEvent(p)
             IN  IF st.closed THEN st
                 ELSE [closed |-> out # <<>> /\ out[1].kind = "done", out |-> st.out \o out],
           [closed |-> FALSE, out |-> <<>>], payloads).out

-------------------------------------------------------------------------------
(* run_model_turn puts the turn together until its end.                      *)

FreshTurn == [text |-> <<>>, thought |-> <<>>, id |-> None, name |-> None, args |-> <<>>,
              tokens |-> 0, end |-> None]

(* A slip: what a later part of a call leaves empty overwrites what it had. *)
LastPart(old, new) == new

(* The id and the name come with the first part of a call; later parts may carry
   them empty. *)
Newest(old, new) == IF new = None THEN old ELSE new

Consume(turn, d) ==
  IF turn.end # None THEN turn
  ELSE CASE d.kind = "text" -> [turn EXCEPT !.text = @ \o d.pieces]
         [] d.kind = "thought" -> [turn EXCEPT !.thought = @ \o d.pieces]
         [] d.kind = "call" -> [turn EXCEPT !.id = Newest(@, d.id), !.name = Newest(@, d.name),
                                            !.args = @ \o d.args]
         [] d.kind = "usage" -> [turn EXCEPT !.tokens = d.tokens]
         [] d.kind = "done" -> [turn EXCEPT !.end = d.reason]

(* A stream that ends without a Done counts as completed. *)
TurnOf(deltas) ==
  LET turn == FoldLeft(Consume, FreshTurn, deltas)
  IN  IF turn.end = None THEN [turn EXCEPT !.end = "stop"] ELSE turn

(* drive: the messages a tool round adds to the conversation. *)
RoundMessages(turn) ==
  LET id == IF turn.id = None THEN Generated ELSE turn.id
      name == IF turn.name = None THEN Unnamed ELSE turn.name
  IN  <<[role |-> "assistant", content |-> turn.text, thought |-> turn.thought, answers |-> None,
         calls |-> <<[id |-> id, name |-> name, args |-> turn.args]>>],
        [role |-> "tool", content |-> <<"output">>, thought |-> <<>>, answers |-> id,
         calls |-> <<>>]>>

(* A slip: the thinking is not sent back. *)
PlainAssistant(m) == [role |-> m.role, content |-> m.content, calls |-> m.calls,
                      reasoning_content |-> <<>>]
(* body, for an assistant message that calls a tool: no content is null, and the
   thinking goes back with the call. *)
CallingAssistant(m) ==
  [role |-> m.role, content |-> IF m.content = <<>> THEN None ELSE m.content,
   calls |-> m.calls, reasoning_content |-> m.thought]

OpenAiBody(messages) ==
  [i \in DOMAIN messages |->
     LET m == messages[i]
     IN  CASE m.role = "tool" -> [role |-> m.role, content |-> m.content, tool_call_id |-> m.answers]
           [] m.calls # <<>> -> CallingAssistant(m)
           [] OTHER -> [role |-> m.role, content |-> m.content]]

(* drive: the rows the same round leaves in the store, where a call's list is text
   and the thinking is not kept. *)
StoredRound(turn) ==
  LET row(m, calls) == [role |-> m.role, content |-> m.content, answers |-> m.answers,
                        calls |-> calls]
      round == RoundMessages(turn)
  IN  <<row(round[1], round[1].calls), row(round[2], None)>>

(* A slip: an empty name is sent as it is. *)
StoredName(name) == name
NameOf(name) == IF name = Empty THEN Unnamed ELSE name

(* A slip: every result is told as text. *)
ResultAsText(e) == FALSE
IsNative(e) == e.answers # None

(* entry_to_message: a list that cannot be read counts as none (both are None here), and a result that
   names no call is told as text. *)
EntryToMessage(e) ==
  LET plain == [role |-> e.role, content |-> e.content, thought |-> <<>>, answers |-> None,
                calls |-> <<>>]
  IN  CASE e.role = "assistant" ->
             [plain EXCEPT !.calls = IF e.calls = None THEN <<>>
                                     ELSE [i \in DOMAIN e.calls |->
                                             [e.calls[i] EXCEPT !.name = NameOf(@)]]]
        [] e.role = "tool" ->
             IF IsNative(e) THEN [plain EXCEPT !.answers = e.answers]
             ELSE [plain EXCEPT !.role = "user", !.content = <<"history">> \o @]
        [] OTHER -> plain
Replayed(rows) == [i \in DOMAIN rows |-> EntryToMessage(rows[i])]

-------------------------------------------------------------------------------
(* What the model said.                                                      *)

(* The payloads up to the one that ends the turn. *)
Spoken(payloads, Ends(_)) ==
  LET ends == {i \in DOMAIN payloads : Ends(payloads[i])}
      last == IF ends = {} THEN Len(payloads) ELSE CHOOSE i \in ends : \A j \in ends : i <= j
  IN  SubSeq(payloads, 1, last)
All(payloads, Pieces(_)) == FoldLeft(LAMBDA all, p : all \o Pieces(p), <<>>, payloads)

EndsChunks(p) == p.kind = "[DONE]" \/ (p.kind = "chunk" /\ p.finish # None)

(* openai.rs:244-253: a turn is everything its chunks carried up to the one that
   ends it, that one included: text, thinking, the arguments of the first call, the
   last token count, and the reason of its end. *)
NothingIsSwallowed(payloads) ==
  LET said == Spoken(payloads, EndsChunks)
      chunks == SelectSeq(said, LAMBDA p : p.kind = "chunk")
      calls == SelectSeq(chunks, LAMBDA p : p.tool # None /\ p.tool.index = 0)
      counts == SelectSeq(chunks, LAMBDA p : p.usage # 0)
      turn == TurnOf(OpenAiDeltas(payloads))
  IN  /\ turn.text = All(chunks, LAMBDA p : p.text)
      /\ turn.thought = All(chunks, LAMBDA p : p.thought)
      /\ turn.args = All(calls, LAMBDA p : p.tool.args)
      /\ turn.tokens = IF counts = <<>> THEN 0 ELSE counts[Len(counts)].usage
      /\ turn.end = "tool" <=> said # <<>> /\ said[Len(said)].kind = "chunk"
                                 /\ said[Len(said)].finish = "tool_calls"
      /\ turn.end = "length" <=> said # <<>> /\ said[Len(said)].kind = "chunk"
                                   /\ said[Len(said)].finish = "length"

(* The call and the thinking of a tool round go back to the model as it sent them,
   under the id and the name it gave them in any of their parts, and the result
   names the same call (openai.rs:73, run.rs:615). *)
RoundComesBack(payloads) ==
  LET turn == TurnOf(OpenAiDeltas(payloads))
      chunks == SelectSeq(Spoken(payloads, EndsChunks), LAMBDA p : p.kind = "chunk")
      calls == SelectSeq(chunks, LAMBDA p : p.tool # None /\ p.tool.index = 0)
      given(Field(_)) == {Field(c.tool) : c \in ToSet(calls)} \ {None}
      body == OpenAiBody(RoundMessages(turn))
      call == body[1].calls[1]
  IN  turn.end = "tool" =>
        /\ call.args = All(calls, LAMBDA p : p.tool.args)
        /\ call.id \in IF given(LAMBDA t : t.id) = {} THEN {Generated} ELSE given(LAMBDA t : t.id)
        /\ call.name \in IF given(LAMBDA t : t.name) = {} THEN {Unnamed}
                         ELSE given(LAMBDA t : t.name)
        /\ body[2].tool_call_id = call.id
        /\ body[1].reasoning_content = All(chunks, LAMBDA p : p.thought)

(* session.rs:690-699: a later run sends the round as this one did, except for the
   thinking, and a row of an older daemon (a call without a name, a list that is not
   JSON, a result without a call's id) as one a provider takes, its text with it. *)
RoundIsReplayed(payloads) ==
  LET turn == TurnOf(OpenAiDeltas(payloads))
      rows == StoredRound(turn)
      live == OpenAiBody(RoundMessages(turn))
      later == OpenAiBody(Replayed(rows))
      old == {[rows EXCEPT ![1].calls[1].name = Empty], [rows EXCEPT ![1].calls = None],
              [rows EXCEPT ![2].answers = None]}
      taken(m, e) ==
        /\ m.role = "tool" => m.tool_call_id # None
        /\ "calls" \in DOMAIN m => m.calls[1].name # Empty
        /\ IF m.content = None THEN e.content = <<>> ELSE IsSuffix(e.content, m.content)
  IN  turn.end = "tool" =>
        /\ later = [live EXCEPT ![1].reasoning_content = <<>>]
        /\ \A o \in old : LET sent == OpenAiBody(Replayed(o))
                         IN  taken(sent[1], o[1]) /\ taken(sent[2], o[2])

(* The same of an Anthropic stream: its text, and the reason that message_delta
   gives, which the message_stop after it does not replace. *)
EndsEvents(p) == p.kind = "message_stop" \/ (p.kind = "message_delta" /\ p.reason # None)
AnthropicKeepsReason(payloads) ==
  LET said == Spoken(payloads, EndsEvents)
      turn == TurnOf(AnthropicDeltas(payloads))
      last == said[Len(said)]
  IN  /\ turn.text = All(SelectSeq(said, LAMBDA p : p.kind = "content_block_delta"),
                         LAMBDA p : p.text)
      /\ turn.end = "tool" <=> said # <<>> /\ last.kind = "message_delta" /\ last.reason = "tool_use"
===============================================================================
