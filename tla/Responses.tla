------------------------------- MODULE Responses -------------------------------
(***************************************************************************)
(* The OpenAI-compatible gateway (oc-http: adapter.rs, server.rs, sse.rs): *)
(* how a request becomes one turn of a session, and how the events of that *)
(* turn become a response, either streamed (event_to_sse) or in one piece  *)
(* (accumulate_response).                                                  *)
(*                                                                         *)
(* Everything here is a function of its input.  A request is a sequence of *)
(* items, a turn the sequence of events its connection receives, among     *)
(* them those of other runs; a text is the sequence of its pieces.         *)
(***************************************************************************)
EXTENDS Integers, SequencesExt

CONSTANTS
  OwnRun,      \* the run the response belongs to
  OwnSession,  \* the session it runs in
  None         \* absence of a value

Terminal == {"end", "error"}
IsOwn(ev) == IF ev.kind = "usage" THEN ev.session = OwnSession ELSE ev.run = OwnRun

-------------------------------------------------------------------------------
(* The streamed form.                                                       *)

Fresh == [item |-> FALSE, text |-> <<>>, tokens |-> 0, frames |-> <<>>, over |-> FALSE]

(* next_seq: every frame but [DONE] takes the next number. *)
Emit(st, frames) ==
  LET numbered == SelectSeq(st.frames, LAMBDA f : f.type # "[DONE]")
  IN  [st EXCEPT !.frames = @ \o
         [i \in DOMAIN frames |->
            IF frames[i].type = "[DONE]" THEN frames[i]
            ELSE [frames[i] EXCEPT !.seq = Len(numbered) + i - 1]]]

Frame(type, text) == [type |-> type, text |-> text, seq |-> 0, tokens |-> 0, code |-> None]

(* A slip: every delta opens the output item. *)
OpensAlways(st, ev) == [Emit(st, <<Frame("item.added", <<>>), Frame("part.added", <<>>)>>)
                          EXCEPT !.item = TRUE]

(* The first delta opens the output item and its text part. *)
Opens(st, ev) ==
  IF st.item THEN st
  ELSE [Emit(st, <<Frame("item.added", <<>>), Frame("part.added", <<>>)>>) EXCEPT !.item = TRUE]

Delta(st, ev) ==
  LET opened == Opens(st, ev)
  IN  Emit([opened EXCEPT !.text = Append(@, ev.piece)], <<Frame("text.delta", <<ev.piece>>)>>)

End(st) ==
  LET closing == IF st.item
                 THEN <<Frame("text.done", st.text), Frame("item.done", st.text)>> ELSE <<>>
      full == [Frame("completed", st.text) EXCEPT !.tokens = st.tokens]
  IN  [Emit(st, closing \o <<full, Frame("[DONE]", <<>>)>>) EXCEPT !.over = TRUE]

(* The code of a failed response; the two forms of the answer keep a table each. *)
StreamedCode(kind) ==
  CASE kind = "Aborted" -> "cancelled"
    [] kind = "LoopDetected" -> "loop_detected"
    [] kind = "Timeout" -> "timeout"
    [] kind = "Truncated" -> "truncated"
    [] OTHER -> "internal_error"

Fail(st, kind) ==
  [Emit(st, <<[Frame("failed", <<>>) EXCEPT !.code = StreamedCode(kind)],
              Frame("[DONE]", <<>>)>>) EXCEPT !.over = TRUE]

(* Slips: the events of any run; usage whatever its session. *)
EveryRun(ev) == TRUE
UsageOfAnyone(ev) == ev.kind = "usage" \/ IsOwn(ev)

Concerns(ev) == IsOwn(ev)

(* event_to_sse, and stream_sse's loop around it, which stops at a terminal event. *)
EventToSse(st, ev) ==
  IF st.over \/ ~Concerns(ev) THEN st
  ELSE CASE ev.kind = "start" -> Emit(st, <<Frame("created", <<>>)>>)
         [] ev.kind = "delta" -> Delta(st, ev)
         [] ev.kind = "usage" -> [st EXCEPT !.tokens = ev.tokens]
         [] ev.kind = "end" -> End(st)
         [] ev.kind = "error" -> Fail(st, ev.why)

Streamed(events) == FoldLeft(EventToSse, Fresh, events)

-------------------------------------------------------------------------------
(* The form in one piece.                                                   *)

(* error_code *)
ErrorCode(kind) ==
  CASE kind = "Aborted" -> "cancelled"
    [] kind \in {"Failed", "Panicked"} -> "internal_error"
    [] kind = "LoopDetected" -> "loop_detected"
    [] kind = "Timeout" -> "timeout"
    [] kind = "Truncated" -> "truncated"

Accumulate(st, ev) ==
  IF st.status # "in_progress" \/ ~IsOwn(ev) THEN st
  ELSE CASE ev.kind = "start" -> st
         [] ev.kind = "delta" -> [st EXCEPT !.text = Append(@, ev.piece)]
         [] ev.kind = "usage" -> [st EXCEPT !.tokens = ev.tokens]
         [] ev.kind = "end" -> [st EXCEPT !.status = "completed"]
         [] ev.kind = "error" ->
              [st EXCEPT !.status = IF ev.why = "Aborted" THEN "cancelled" ELSE "failed",
                         !.code = ErrorCode(ev.why)]

(* accumulate_response; a response without text has no output item. *)
Accumulated(events) ==
  FoldLeft(Accumulate, [status |-> "in_progress", text |-> <<>>, tokens |-> 0, code |-> None],
           events)

-------------------------------------------------------------------------------
(* What a client makes of the stream.                                       *)

Of(frames, type) == SelectSeq(frames, LAMBDA f : f.type = type)
Read(frames) == FoldLeft(LAMBDA text, f : text \o f.text, <<>>, Of(frames, "text.delta"))

(* The frames of a stream are numbered without a gap; the output item is opened
   once, before its text, and closed once with exactly the text that was
   streamed; the terminal frame and [DONE] are the last, and nothing follows. *)
StreamIsWellFormed(events) ==
  LET out == Streamed(events)
      numbered == SelectSeq(out.frames, LAMBDA f : f.type # "[DONE]")
      place(type) == {i \in DOMAIN out.frames : out.frames[i].type = type}
  IN  /\ \A i \in DOMAIN numbered : numbered[i].seq = i - 1
      /\ Len(Of(out.frames, "item.added")) = Len(Of(out.frames, "part.added"))
      /\ Len(Of(out.frames, "item.added")) <= 1
      /\ \A d \in place("text.delta") : \E a \in place("part.added") : a < d
      /\ out.over <=> Of(out.frames, "[DONE]") # <<>>
      /\ out.over => out.frames[Len(out.frames)].type = "[DONE]"
      /\ \A f \in ToSet(Of(out.frames, "text.done") \o Of(out.frames, "item.done")) :
           f.text = Read(out.frames)
      /\ Of(out.frames, "completed") # <<>> =>
           Len(Of(out.frames, "text.done")) = Len(Of(out.frames, "item.added"))

(* Whichever form a client asks for, it is told the same: the same text, the same
   token count, the same end and the same code. *)
FormsAgree(events) ==
  LET stream == Streamed(events)
      whole == Accumulated(events)
  IN  /\ stream.over <=> whole.status # "in_progress"
      /\ Read(stream.frames) = whole.text
      /\ \A f \in ToSet(Of(stream.frames, "completed")) :
           /\ whole.status = "completed"
           /\ f.text = whole.text /\ f.tokens = whole.tokens
      /\ \A f \in ToSet(Of(stream.frames, "failed")) :
           whole.status \in {"failed", "cancelled"} /\ f.code = whole.code

(* A response holds what its own run said and nothing of any other, up to its end. *)
OnlyOwnText(events) ==
  LET ends == {i \in DOMAIN events : IsOwn(events[i]) /\ events[i].kind \in Terminal}
      until == IF ends = {} THEN Len(events) ELSE CHOOSE i \in ends : \A j \in ends : i <= j
      own == SelectSeq(SubSeq(events, 1, until), LAMBDA e : e.kind = "delta" /\ e.run = OwnRun)
  IN  Read(Streamed(events).frames) = [i \in DOMAIN own |-> own[i].piece]

-------------------------------------------------------------------------------
(* The request.                                                             *)

Refused == [refused |-> TRUE, parts |-> <<>>]
OfKinds(items, kinds) == SelectSeq(items, LAMBDA m : m.kind \in kinds)

(* A slip: the first user message is the current one. *)
FirstUser(items) ==
  LET said == OfKinds(items, {"user"}) IN IF said = <<>> THEN said ELSE <<said[1]>>

(* The last user message is the current one; earlier ones and the assistant's
   are history, which the session has already. *)
CurrentMessage(items) ==
  LET said == OfKinds(items, {"user"}) IN IF said = <<>> THEN said ELSE <<Last(said)>>

(* decode_file: a link, or bytes that do not decode to text, refuse the request. *)
Decodes(file) == file.kind # "bad_file"

(* build_turn_prefix: the instructions, the files, the tool results. *)
TurnPrefix(items) ==
  SelectSeq(OfKinds(items, {"system", "developer"}), LAMBDA m : ~m.blank)
    \o OfKinds(items, {"file"}) \o OfKinds(items, {"tool_output"})

(* extract_input: a request that brings neither a message nor a tool result is refused. *)
Turn(items) ==
  LET message == SelectSeq(CurrentMessage(items), LAMBDA m : ~m.blank)
  IN  IF \/ \E m \in ToSet(items) : ~Decodes(m)
         \/ message = <<>> /\ OfKinds(items, {"tool_output"}) = <<>>
      THEN Refused
      ELSE [refused |-> FALSE, parts |-> TurnPrefix(items) \o message]

(* A turn brings every instruction, file and tool result of its request, each as
   often as the request does; of what the user said it brings the last message at most, and
   ends with it if that is the newest item.  adapter.rs:141-144 says that before a newer tool
   result that message is history and not sent again; extract_input sends it all the same, so
   of such a request nothing more is stated. *)
TurnHoldsRequest(items) ==
  LET turn == Turn(items)
      said == {i \in DOMAIN items : items[i].kind = "user"}
      last == CHOOSE i \in said : \A j \in said : j <= i
      times(s, m) == Len(SelectSeq(s, LAMBDA x : x = m))
      userIsNewest == /\ said # {}
                      /\ \A i \in DOMAIN items : items[i].kind = "tool_output" => i < last
  IN  ~turn.refused =>
        /\ \A m \in ToSet(items) :
             m.kind \notin {"user", "assistant"} /\ ~m.blank =>
               times(turn.parts, m) = times(items, m)
        /\ \A m \in ToSet(OfKinds(turn.parts, {"user"})) : m = items[last]
        /\ userIsNewest /\ ~items[last].blank => turn.parts[Len(turn.parts)] = items[last]

(* validate_session_key: a key that is blank, too long, has control characters or lies in a
   namespace of the daemon's own is unfit. *)
UnfitKeys == {"blank", "too long", "control", "reserved"}

(* reject_unsupported *)
IsSupported(req) == ~req.tools

(* A slip: a user's own session comes before the one a request continues. *)
UserFirst(req, known) ==
  IF req.key # None THEN req.key
  ELSE IF req.user # None THEN req.user
  ELSE IF req.previous \in DOMAIN known THEN known[req.previous] ELSE "main"

(* resolve_session: the header's key, then the session of the response the request
   continues if it is still known, then one of the user's own, then main. *)
ResolveSession(req, known) ==
  IF req.key # None THEN req.key
  ELSE IF req.previous \in DOMAIN known THEN known[req.previous]
  ELSE IF req.user # None THEN req.user ELSE "main"

(* create_response: what is not supported or carries an unfit key is refused before anything
   is sent; the others are remembered under their response's number. *)
CreateResponse(st, req) ==
  LET fits == IsSupported(req) /\ req.key \notin UnfitKeys
      id == Len(st.answers) + 1
      session == ResolveSession(req, st.known)
  IN  [answers |-> Append(st.answers, IF fits THEN session ELSE None),
       known |-> IF fits THEN [k \in DOMAIN st.known \cup {id} |->
                                 IF k = id THEN session ELSE st.known[k]]
                 ELSE st.known]

Answered(requests) ==
  FoldLeft(CreateResponse, [answers |-> <<>>, known |-> <<>>], requests)

(* adapter.rs:79 and :101: a conversation stays in the session it began in from one response
   to the next, whoever asks, unless a key names another; a key is never overruled and
   never silently replaced; and what one user asks does not get into main. *)
ConversationsStayTogether(requests) ==
  LET out == Answered(requests)
      session(i) == out.answers[i]
  IN  \A i \in DOMAIN requests :
        LET req == requests[i]
        IN  /\ req.key \in UnfitKeys \/ req.tools <=> session(i) = None
            /\ session(i) # None =>
                 /\ req.key # None => session(i) = req.key
                 /\ req.key = None /\ req.previous \in 1..(i - 1) /\ session(req.previous) # None =>
                      session(i) = session(req.previous)
                 /\ session(i) = "main" => req.key \in {None, "main"} /\
                      (req.user = None \/ req.previous \in DOMAIN out.known)

-------------------------------------------------------------------------------
(* base64_decode.                                                           *)

(* A character is its six bits; padding and white space are skipped. *)
Padding == 64
Blank == 65
Skipped == {Padding, Blank}

(* A slip: a last group of one character is dropped silently. *)
ShortGroupsPass(n) == TRUE
GroupIsWhole(n) == n >= 2

(* Groups of four characters of six bits make three bytes; a shorter last group
   makes one byte less than it has characters. *)
Base64Decode(chars) ==
  LET cleaned == SelectSeq(chars, LAMBDA c : c \notin Skipped)
      groups == (Len(cleaned) + 3) \div 4
      group(g) == SubSeq(cleaned, 4 * g - 3, IF 4 * g < Len(cleaned) THEN 4 * g ELSE Len(cleaned))
      bits(g) == FoldLeft(LAMBDA acc, c : acc * 64 + c, 0, group(g))
                   * (64 ^ (4 - Len(group(g))))
      bytes(g) == SubSeq(<<bits(g) \div 65536, (bits(g) \div 256) % 256, bits(g) % 256>>,
                         1, Len(group(g)) - 1)
  IN  IF /\ \A c \in ToSet(cleaned) : c \in 0..63
         /\ \A g \in 1..groups : GroupIsWhole(Len(group(g)))
      THEN <<FoldLeft(LAMBDA out, g : out \o bytes(g), <<>>, [g \in 1..groups |-> g])>>
      ELSE <<>>

(* RFC 4648, character by character: character k holds the bits 6(k-1) to 6k-1 of
   the bytes, the last one filled up with zeros, and Padding fills the last group. *)
Bit(bytes, n) == IF n \div 8 < Len(bytes)
                 THEN (bytes[(n \div 8) + 1] \div (2 ^ (7 - (n % 8)))) % 2 ELSE 0
Base64Encode(bytes) ==
  LET chars == (8 * Len(bytes) + 5) \div 6
      value(k) == FoldLeft(LAMBDA v, b : 2 * v + Bit(bytes, 6 * (k - 1) + b - 1), 0,
                           <<1, 2, 3, 4, 5, 6>>)
  IN  [k \in 1..(4 * ((chars + 3) \div 4)) |-> IF k <= chars THEN value(k) ELSE Padding]

(* A file arrives as it was sent, whether its encoding is padded or not. *)
FilesArrive(bytes) ==
  LET encoded == Base64Encode(bytes)
  IN  /\ Base64Decode(encoded) = <<bytes>>
      /\ Base64Decode(SelectSeq(encoded, LAMBDA c : c # Padding)) = <<bytes>>

(* Text of which a character is missing is refused rather than cut short. *)
TornFilesAreRefused(bytes) ==
  LET chars == SelectSeq(Base64Encode(bytes), LAMBDA c : c # Padding)
  IN  Len(chars) % 4 = 2 => Base64Decode(SubSeq(chars, 1, Len(chars) - 1)) = <<>>
===============================================================================
