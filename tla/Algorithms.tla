-------------------------------- MODULE Algorithms --------------------------------
(***************************************************************************)
(* The system's sequential parts on small inputs.                          *)
(*                                                                         *)
(* A behaviour picks a topic and then builds an input of it symbol by      *)
(* symbol, or drives the part that keeps a state; the invariants say what  *)
(* the part makes of every input reached that way.  Each part is a module  *)
(* of its own, instantiated here with its small constants.                 *)
(***************************************************************************)
EXTENDS Integers, Sequences, FiniteSets

CONSTANTS
  None,      \* absence of a value
  Lengths    \* bound: Lengths[t], the longest input of topic t

-------------------------------------------------------------------------------
(* The context plan: results that are kept, that are cut and that grow by the note, a reported
   count below and one above the estimates.                                  *)

Context == INSTANCE ContextPlan WITH PruneTo <- 1, KeepRecent <- 2, Marker <- 12
Messages == {[kind |-> "user", chars |-> 3], [kind |-> "call", chars |-> 5]}
              \cup {[kind |-> "result", chars |-> n] : n \in {4, 9, 30}}
Triggers == {0, 1, 3, 4, 6}
Reports == {0, 4, 15}

-------------------------------------------------------------------------------
(* A gateway response: the events of its own run and session and of others.  *)

Gate == INSTANCE Responses WITH OwnRun <- "own", OwnSession <- "main"
Event(kind, run, session, piece, tokens, why) ==
  [kind |-> kind, run |-> run, session |-> session, piece |-> piece, tokens |-> tokens,
   why |-> why]
Events == {Event("start", "own", "main", None, 0, None),
           Event("delta", "own", "main", "a", 0, None),
           Event("delta", "own", "main", "b", 0, None),
           Event("delta", "other", "main", "c", 0, None),
           Event("usage", None, "main", None, 7, None),
           Event("usage", None, "side", None, 9, None),
           Event("end", "own", "main", None, 0, None),
           Event("end", "other", "main", None, 0, None),
           Event("error", "own", "main", None, 0, "Aborted"),
           Event("error", "own", "main", None, 0, "Truncated")}

Item(kind, blank, tag) == [kind |-> kind, blank |-> blank, tag |-> tag]
Items == {Item("user", FALSE, 1), Item("user", FALSE, 2), Item("user", TRUE, 0),
          Item("assistant", FALSE, 1), Item("system", FALSE, 1), Item("developer", TRUE, 0),
          Item("file", FALSE, 1), Item("bad_file", FALSE, 1), Item("tool_output", FALSE, 1)}

Bytes == {0, 1, 127, 255}
Requests == {r \in [key : {None, "k", "reserved"}, previous : {0, 1, 2}, user : {None, "u1", "u2"},
                     tools : BOOLEAN] : r.tools => r.key = "k"}

-------------------------------------------------------------------------------
(* A model's answer: characters of its stream, chunks of an OpenAI stream and events of an
   Anthropic one.                                                            *)

Stream == INSTANCE ModelStream WITH Unnamed <- "unnamed", Generated <- "generated",
            Empty <- ""
Characters == {Stream!Mark, Stream!Newline, "a", Stream!Wide}

NoPart == [kind |-> "chunk", text |-> <<>>, thought |-> <<>>, tool |-> None, usage |-> 0,
           finish |-> None]
Tool(index, id, name, args) == [index |-> index, id |-> id, name |-> name, args |-> args]
Payloads == {[kind |-> "junk"], [kind |-> "[DONE]"],
             [NoPart EXCEPT !.text = <<"a">>],
             [NoPart EXCEPT !.thought = <<"t">>, !.text = <<"b">>],
             [NoPart EXCEPT !.tool = Tool(0, "c1", "read", <<"x">>), !.thought = <<"u">>],
             [NoPart EXCEPT !.tool = Tool(0, None, None, <<"y">>)],
             [NoPart EXCEPT !.tool = Tool(1, "c2", "write", <<"z">>)],
             [NoPart EXCEPT !.usage = 7],
             [NoPart EXCEPT !.usage = 9, !.finish = "stop", !.text = <<"e">>],
             [NoPart EXCEPT !.finish = "tool_calls"],
             [NoPart EXCEPT !.finish = "length"]}

Anthropic == {[kind |-> "content_block_delta", text |-> <<"a">>, reason |-> None],
              [kind |-> "content_block_delta", text |-> <<"b">>, reason |-> None],
              [kind |-> "message_delta", text |-> <<>>, reason |-> None],
              [kind |-> "message_delta", text |-> <<>>, reason |-> "tool_use"],
              [kind |-> "message_delta", text |-> <<>>, reason |-> "end_turn"],
              [kind |-> "message_stop", text |-> <<>>, reason |-> None],
              [kind |-> "ping", text |-> <<>>, reason |-> None]}

-------------------------------------------------------------------------------
(* A calendar of two months of three days of two hours of two minutes of two seconds, and
   weeks of two days.                                                        *)

Minutes == 0..23
Clock == [m \in Minutes |-> [minute |-> m % 2, hour |-> (m \div 2) % 2, dom |-> (m \div 4) % 3,
                             month |-> m \div 12, dow |-> (m \div 4) % 2]]
Cron == INSTANCE Calendar WITH Wall <- Clock, PerMinute <- 2, Horizon <- 48, Width <- 16
Fields(n) == SUBSET (0..n) \ {{}}
Schedules ==
  {[minutes |-> ms, hours |-> hs, months |-> mo, doms |-> d[1], domStar |-> d[2],
    dows |-> w[1], dowStar |-> w[2], from |-> from] :
      ms \in Fields(1), hs \in Fields(1), mo \in Fields(1), from \in {0, 1, 2, 7, 24},
      d \in {<<0..2, TRUE>>, <<{0}, FALSE>>, <<{2}, FALSE>>, <<{0, 1}, FALSE>>},
      w \in {<<0..1, TRUE>>, <<{0}, FALSE>>, <<{1}, FALSE>>}}
Ranges == [lo : 0..5, hi : 0..7, step : 1..6]

-------------------------------------------------------------------------------
(* Standing intents of three ages, one of which was born expired.            *)

Intents3 == <<"i1", "i2", "i3">>
Nagging == INSTANCE Intents WITH Reminders <- Intents3, Cooldown <- 2, Budget <- 2,
             Expiry <- [i \in {"i1", "i2", "i3"} |-> CASE i = "i1" -> 0 [] i = "i2" -> 3
                                                        [] i = "i3" -> -1],
             PerTurn <- 1, LastTime <- 6
IntentSteps(s) ==
  {Nagging!Tick(s) : t \in {1} \cap {n \in {1} : s.now < 6}}
    \cup {Nagging!Scan(s, hits, failing) : hits \in SUBSET {"i1", "i2", "i3"},
                                           failing \in {{}, {"i1", "i2", "i3"}}}

-------------------------------------------------------------------------------
(* Memories: two letters, a mark and a blank; a few rows; short conversations. *)

Memories == INSTANCE Recall WITH Letters <- {"a", "b"}, Marks <- {"!"}, Blanks <- {"_"},
              Candidates <- 4, PerTurn <- 2, MinPair <- 3, MinUser <- 3, MinAssistant <- 4
TextCharacters == {"a", "b", "!", "_"}
Texts(n) == UNION {[1..m -> TextCharacters] : m \in 0..n}
Rows == {[text |-> t, tier |-> tier, importance |-> i, age |-> i] :
           t \in {<<"a", "b">>, <<"b", "!", "a">>, <<"a", "a", "b">>},
           tier \in {"curated", "episodic"}, i \in {1, 2}}
Queries == {<<"a", "b">>, <<"a", "a", "b">>, <<"a", "b", "_", "b", "!">>, <<"b">>}
Entries == {[role |-> r, size |-> n, explicit |-> FALSE] : r \in {"user", "assistant"},
                                                          n \in {1, 2, 4}}
             \cup {[role |-> "assistant", size |-> 0, explicit |-> FALSE],
                   [role |-> "tool", size |-> 2, explicit |-> FALSE],
                   [role |-> "user", size |-> 4, explicit |-> TRUE]}

-------------------------------------------------------------------------------
(* A terminal: two runs of its session and one of another.                   *)

Places == [r \in {"r1", "r2", "r3"} |-> IF r = "r3" THEN "side" ELSE "main"]
Terminal == INSTANCE Screen WITH Runs <- {"r1", "r2", "r3"}, SessionOf <- Places, Main <- "main"
Prompts == {"p1", "p2"}
Keys == {"y", "n", "/", "enter", "esc", "back", "ctrl-c"}

ScreenEvents(s) ==
  {[kind |-> k, run |-> r, n |-> None] : k \in {"start", "end", "error", "tool"},
                                         r \in {"r1", "r3"}}
    \cup {[kind |-> "delta", run |-> r, n |-> <<"a", "b", "c", "d", "e">>[Len(s.heard[r]) + 1]] : r \in {"r1", "r2", "r3"}}
    \cup {[kind |-> "update", run |-> "r1", n |-> "chunk"]}
    \cup {[kind |-> k, run |-> r, n |-> p] : k \in {"approval", "question"}, r \in {"r1", "r3"},
                                             p \in Prompts \ {s.asked[i].id : i \in DOMAIN s.asked}}

ScreenSteps(s) ==
  IF s.quit THEN {}
  ELSE {Terminal!OnKey(s, k) : k \in {c \in Keys : Len(s.input) < 1 \/ c \notin {"y", "n", "/"}}}
         \cup {Terminal!OnEvent(s, ev) : ev \in ScreenEvents(s)}
         \cup {Terminal!OnCommandResult(s, clears, switches) :
                 clears \in {None, "main"}, switches \in {None, "main", "side"}}
         \cup {Terminal!OnRefused(s), Terminal!Disconnect(s)}
         \cup {Terminal!HintDue(s) : h \in {TRUE} \cap {s.hint}}

-------------------------------------------------------------------------------
(* A run's signals.                                                          *)

Agents == INSTANCE Agent

-------------------------------------------------------------------------------
(* A file, and the edits a model may ask for.                                *)

Files == INSTANCE TextEdit WITH Return <- "cr", Newline <- "nl", Wide <- "w",
           WideBytes <- 3, MaxOutput <- 9
FileCharacters == {"a", "w", "cr", "nl"}
OldTexts == {<<"a">>, <<"nl">>, <<"a", "a">>, <<"a", "nl">>, <<"nl", "a">>, <<"a", "nl", "a">>,
             <<"a", "nl", "nl">>, <<"cr">>}
NewTexts == {<<>>, <<"a">>, <<"w", "nl", "w">>}

-------------------------------------------------------------------------------
(* Lists a command answers with: their items, of one line, and memories of several. *)

Lists == INSTANCE Tables WITH Blank <- "_", Newline <- "nl", Slash <- "/", Colon <- ":",
           Here <- <<"<">>, Key <- <<"k">>, Dash <- <<"-">>, Shown <- 2
ListItems == {[id |-> id, tag |-> tag, when |-> <<"w">>, text |-> text] :
                id \in {<<"x">>, <<"/", "x">>, <<"/", "x", "_", ":">>},
                tag \in {<<"[", "]">>, <<"[", ":", "]">>},
                text \in {<<>>, <<"t">>, <<"t", "_", ":", "t">>}}
StatusViews == [session : {<<"s">>, <<"s", "_", ":">>}, active : {<<>>, <<"r">>}, queued : {<<"0">>},
                tasks : {<<"2">>}, used : {<<>>, <<"7">>}, window : {<<"9">>}]
RuntimeInfos == [model : {<<>>, <<"m">>, <<"m", "_", ":">>}, provider : {<<"o">>},
                 endpoint : {<<>>, <<"h", ":", "/", "/", ":">>}]
MemoryTexts == UNION {[1..n -> {"t", "_", "nl"}] : n \in 1..3}
MemoryItems(s) == [n \in DOMAIN s |-> [tag |-> <<"(", ")">>, text |-> s[n]]]

-------------------------------------------------------------------------------
(* Commands typed in two sessions while runs come and go.                    *)

Slash == INSTANCE Commands WITH Sessions <- {"main", "side"}, Main <- "main", InChannel <- 2
ByName == [s \in {"main", "side"} |-> IF s = "main" THEN 2 ELSE 1]
CommandSteps(s) ==
  {Slash!Handle(s, cmd, "fresh").st : cmd \in [name : {"/stop", "/clear", "/compact"}, arg : {None},
                                              session : {"main", "side", None}]}
    \cup {Slash!AbortAll(s, w) : w \in {x \in s.waiting : x.what = "stop"}}
    \cup {Slash!Reset(s, w, failing).st : w \in {x \in s.waiting : x.what = "reset"},
                                         failing \in BOOLEAN}
    \cup {Slash!Flush(s, t, "session.reset") : t \in {"main", "side"}}
    \cup {Slash!Begin(s, t) : t \in {u \in {"main", "side"} : s.active[u] = None /\ Len(s.began) < 3}}
    \cup {Slash!Wait(s, t) : t \in {u \in {"side"} : s.active[u] # None /\ s.queued[u] < 1}}
    \cup UNION {{Slash!End(s, t), Slash!Report(s, t, s.active[t])} :
                  t \in {u \in {"main", "side"} : s.active[u] # None}}
    \cup {Slash!TakeUsage(s) : x \in {1} \cap {Len(s.channel), Len(s.channel) - 1}}
    \cup {Slash!Evict(s, t) : t \in {u \in {"side"} : s.slot[u] /\ s.active[u] = None /\ s.queued[u] = 0}}
    \cup {Slash!ForgetUsage(s)}

-------------------------------------------------------------------------------
(* A session's run, the compactions its user asks for, and the watch.        *)

Watchman == INSTANCE Watch WITH WarnAfter <- 1, AbortAfter <- 2
WatchSteps(s) ==
  {Watchman!Tick(s)}
    \cup (IF s.active = None THEN {} ELSE {Watchman!Progress(s, k) : k \in {"text", "tool"}})
    \cup (IF s.compacting THEN {Watchman!CompactDone(s)}
          ELSE {Watchman!CompactStart(s), Watchman!HealthScan(s)}
                 \cup {IF s.active = None THEN Watchman!StartRun(s) ELSE Watchman!Finished(s)})

-------------------------------------------------------------------------------
(* A connection with room for two frames, one on the wire, and a ring of two events. *)

Wire == INSTANCE Connection WITH OutCap <- 2, BusCap <- 2, WireCap <- 1
WireSteps(s) ==
  Wire!OwnSteps(s) \cup (IF s.asked < 3 THEN Wire!Ask(s) ELSE {}) \cup Wire!Kill(s)
    \cup (IF s.said < 5 THEN Wire!Broadcast(s) ELSE {})

-------------------------------------------------------------------------------
(* A web page: one thing may happen beside its run.                          *)

Browser == INSTANCE WebClient WITH Extras <- 1, Lag <- 1

-------------------------------------------------------------------------------
(* Skills: lines of a file, and directories.                                 *)

SkillLines == {"---", "name", "off", "darwin", "prose"}
Finding == INSTANCE Skills WITH Rule <- "---", FieldLines <- {"name", "off", "darwin", "win32"},
             NameOf <- [f \in {"name", "off", "darwin", "win32"} |-> IF f = "name" THEN "b" ELSE None],
             OffOf <- [f \in {"name", "off", "darwin", "win32"} |-> f = "off"],
             OsOf <- [f \in {"name", "off", "darwin", "win32"} |->
                        IF f \in {"darwin", "win32"} THEN {f} ELSE {}],
             Order <- [n \in {"a", "b", "c", "p"} |->
                         CASE n = "a" -> 3 [] n = "b" -> 1 [] n = "c" -> 2 [] n = "p" -> 0]
Front(f) == <<"---", f, "---", "prose">>
Leaf(leaf, file) == [leaf |-> leaf, file |-> file, subs |-> <<>>]
Directories ==
  {Leaf(l, f) : l \in {"a", "c"}, f \in {<<"prose">>, Front("name"), Front("off"), Front("darwin"),
                                        Front("win32"), <<"---", "name">>}}
    \cup {[leaf |-> "p", file |-> None, subs |-> subs] :
            subs \in {<<>>, <<Leaf("a", <<"prose">>)>>, <<Leaf("b", Front("darwin")), Leaf("c", <<"prose">>)>>,
                     <<Leaf("c", Front("name")), Leaf("a", None)>>}}
    \cup {[leaf |-> "b", file |-> <<"---">>, subs |-> <<Leaf("a", <<"prose">>)>>]}
SkillLists == {{}, {<<"a">>}, {<<"b">>, <<"c">>}, {<<"p", "c">>, <<"a">>}}
Hosts == {"macos", "windows", "linux"}

-------------------------------------------------------------------------------
(* The answers to the calls beside the runs, and a file of a few pieces.     *)

Calls == INSTANCE SideCalls WITH Pieces <- {"a", "b", "blank"}
CallSignals == {"a", "b", "blank", "thought", "done", "error", "hang", "refused"}
FileTexts == {None, <<>>, <<"blank">>, <<"a">>, <<"a", "b", "blank">>}
EditTexts == {None, <<>>, <<"a">>, <<"a", "c">>}
ItemTexts == {<<>>, <<<<"a">>>>, <<<<"blank", "c">>, <<"b">>>>}

-------------------------------------------------------------------------------
(* A page: of one letter the lower case is shorter.                          *)

PageLetters == {"<", "<script", "</script>", "<style", "</style>", ">", "&amp;", "&lt;", "lt;", "a",
                "nl", "sp", "wide"}
Pages == INSTANCE WebPage WITH Letters <- PageLetters,
           Size <- [c \in PageLetters |-> IF c = "wide" THEN 2 ELSE 1],
           LowerSize <- [c \in PageLetters |-> 1]

-------------------------------------------------------------------------------
(* The machine.                                                              *)

VARIABLES
  topic,   \* which part is looked at
  input    \* the input so far, or the part's state; for the parts that keep a state
           \* with the number of steps they have made

vars == <<topic, input>>

Symbols == [context |-> Messages, events |-> Events, items |-> Items, requests |-> Requests,
            bytes |-> Bytes, characters |-> Characters, payloads |-> Payloads,
            anthropic |-> Anthropic, text |-> TextCharacters, rows |-> Rows, entries |-> Entries,
            schedule |-> Schedules, range |-> Ranges, signals |-> Agents!Signals,
            file |-> FileCharacters, list |-> ListItems, memories |-> MemoryTexts,
            lines |-> SkillLines, skills |-> Directories, calls |-> CallSignals, page |-> PageLetters]

Machines == [intents |-> Nagging!Start, screen |-> Terminal!Fresh,
             commands |-> Slash!Fresh, watch |-> Watchman!Fresh, wire |-> Wire!Fresh,
             web |-> Browser!Fresh]

Init == \/ topic \in DOMAIN Symbols /\ input = <<>>
        \/ topic \in DOMAIN Machines /\ input = [steps |-> 0, state |-> Machines[topic]]

(* One more symbol of an input. *)
Lengthen ==
  /\ topic \in DOMAIN Symbols /\ Len(input) < Lengths[topic]
  /\ \E symbol \in Symbols[topic] : input' = Append(input, symbol)
  /\ UNCHANGED topic

(* A message touches some topics, or time passes. *)
StepIntents ==
  /\ topic = "intents" /\ input.steps < Lengths.intents
  /\ \E next \in IntentSteps(input.state) : input' = [steps |-> input.steps + 1, state |-> next]
  /\ UNCHANGED topic

(* A key, a frame, the timer, or the end of the connection. *)
StepScreen ==
  /\ topic = "screen" /\ input.steps < Lengths.screen
  /\ \E next \in ScreenSteps(input.state) : input' = [steps |-> input.steps + 1, state |-> next]
  /\ UNCHANGED topic

(* A command is typed, goes on, or something happens beside it. *)
StepCommands ==
  /\ topic = "commands" /\ input.steps < Lengths.commands
  /\ \E next \in CommandSteps(input.state) : input' = [steps |-> input.steps + 1, state |-> next]
  /\ UNCHANGED topic

(* The run starts, moves or ends, the user asks for a compaction, time passes, the watch looks. *)
StepWatch ==
  /\ topic = "watch" /\ input.steps < Lengths.watch
  /\ \E next \in WatchSteps(input.state) : input' = [steps |-> input.steps + 1, state |-> next]
  /\ UNCHANGED topic

(* One of a connection's tasks goes on, its client asks or is killed, an event is broadcast. *)
StepWire ==
  /\ topic = "wire" /\ input.steps < Lengths.wire
  /\ \E next \in WireSteps(input.state) : input' = [steps |-> 0, state |-> next]
  /\ UNCHANGED topic

(* An answer of the gateway reaches the page, its user acts, or the run goes on. *)
StepWeb ==
  /\ topic = "web" /\ input.steps < Lengths.web
  /\ \E next \in Browser!Steps(input.state) : input' = [steps |-> 0, state |-> next]
  /\ UNCHANGED topic

Next == Lengthen \/ StepIntents \/ StepScreen \/ StepCommands \/ StepWatch \/ StepWire \/ StepWeb
Spec == Init /\ [][Next]_vars

-------------------------------------------------------------------------------
(* What holds of every input.                                                *)

(* compaction.rs:143 and run.rs:apply_compaction: whatever is cut from a conversation, tool
   rounds stay whole, the recent messages stay untouched, the plan fits or can do no more,
   nothing is dropped that need not be, and with no count reported what is sent is as short as
   the plan says but for the notes. *)
ContextInv ==
  topic = "context" => \A t \in Triggers :
    /\ \A reported \in Reports :
         /\ Context!SentIsPaired(input, reported, t) /\ Context!RecentAreSent(input, reported, t)
         /\ Context!Paired(input) => /\ Context!PlanFits(input, reported, t)
                                    /\ Context!DropsAreNeeded(input, reported, t)
    /\ Context!Paired(input) => Context!SentIsAsPlanned(input, t)

(* oc-http sse.rs and server.rs: the two forms of a response tell a client the same, a stream
   is well formed, and neither holds anything of another run. *)
ResponseInv ==
  topic = "events" => /\ Gate!StreamIsWellFormed(input) /\ Gate!FormsAgree(input)
                      /\ Gate!OnlyOwnText(input)

(* oc-http adapter.rs: a turn brings what its request holds, files byte for byte, a torn file
   is refused, and a conversation stays in its session. *)
RequestInv ==
  /\ topic = "items" => Gate!TurnHoldsRequest(input)
  /\ topic = "requests" => Gate!ConversationsStayTogether(input)
  /\ topic = "bytes" => Gate!FilesArrive(input) /\ Gate!TornFilesAreRefused(input)

(* oc-llm: the cuts of the network cost at most the letters they go through, nothing else a model
   said is swallowed, and a tool round goes back to it as it said it. *)
ModelStreamInv ==
  /\ topic = "characters" => Stream!CutsDoNotMatter(input)
  /\ topic = "payloads" => Stream!NothingIsSwallowed(input) /\ Stream!RoundComesBack(input)
                         /\ Stream!RoundIsReplayed(input)
  /\ topic = "anthropic" => Stream!AnthropicKeepsReason(input)

(* cron.rs: a recurring job rings exactly when its expression says. *)
CalendarInv ==
  /\ topic = "schedule" /\ input # <<>> =>
       Cron!RingsAsWritten(input[1], input[1].from, 47)
  /\ topic = "range" /\ input # <<>> =>
       Cron!PartsAreRanges(input[1].lo, input[1].hi, input[1].step)

(* oc-core proactive.rs: standing intents do not nag. *)
IntentsInv == topic = "intents" => Nagging!NoNagging(input.state)

(* fts.rs, ops.rs, memory.rs: the index finds what a scan would, the best memories are used,
   and a conversation's episodes are its pairs. *)
RecallInv ==
  /\ topic = "text" => \A msg \in Texts(3) : Memories!FoundAsByScan(input, msg)
  /\ topic = "rows" => \A msg \in Queries : Memories!BestAreInjected(input, msg)
  /\ topic = "entries" => Memories!EpisodesArePairs(input)

(* agent.rs: whatever reaches a run, it ends once and keeps what it showed. *)
AgentInv == topic = "signals" => Agents!RunsEndOnce(input)

(* file.rs, sanitize.rs: what the model sees of a file is what is in it, and its edits land where
   it meant them. *)
FileInv ==
  topic = "file" =>
    /\ Files!OutputIsBounded(input) /\ Files!HeadAndTailMeet(input)
    /\ \A old \in OldTexts, new \in NewTexts, all \in BOOLEAN :
         Files!ShownCanBeEdited(input, old, new, all) /\ Files!EditsAreExact(input, old, new, all)

(* dispatch.rs, commandOutput.js: the page reads the lists the daemon wrote. *)
ListsInv ==
  /\ topic = "list" /\ input # <<>> => Lists!TablesComeBack(input)
  /\ topic = "list" /\ input = <<>> =>
       \A st \in StatusViews, rt \in RuntimeInfos : Lists!StatusIsFields(st, rt)
  /\ topic = "memories" => Lists!MemoriesAreLines(MemoryItems(input))

(* command.rs, dispatch.rs: commands do what they say, in their own session. *)
CommandsInv ==
  topic = "commands" =>
    /\ Slash!StopsWhatWasShown(input.state) /\ Slash!ClearedIsReset(input.state)
    /\ \A s \in {"main", "side"} : Slash!StatusIsOwn(input.state, s, ByName)
    /\ \A cmd \in Slash!AllCommands : Slash!CommandsStayInside(input.state, cmd)

(* conn.rs, cli_client.rs: a connection serves its client to the end and ends with it. *)
WireInv == topic = "wire" => /\ Wire!AnswersFit(input.state) /\ Wire!NewsInOrder(input.state)
                             /\ Wire!NobodyIsStuck(input.state)

(* session.rs HealthScan, diag.rs, queue.rs: the watch stops the silent, and them alone while no
   compaction has taken a run's slot. *)
WatchInv == topic = "watch" => Watchman!KillsTheSilent(input.state)

(* skill.rs, skills_loader.rs, prompt.rs: skills are read as written, can be found again, and do
   not unsettle the prompt. *)
SkillsInv ==
  /\ topic = "lines" => \A n \in 0..Len(input) :
       Finding!FrontIsRead(SubSeq(input, 1, n), SubSeq(input, n + 1, Len(input)))
  /\ topic = "skills" /\ (\A m, n \in DOMAIN input : input[m].leaf = input[n].leaf => m = n) =>
       /\ \A allow, deny \in SkillLists, host \in Hosts :
            Finding!ListedCanBeRead(input, allow, deny, host)
       /\ \A p \in [DOMAIN input -> DOMAIN input] :
            (\A m, n \in DOMAIN input : p[m] = p[n] => m = n) =>
              Finding!PrefixIsStable(input, [n \in DOMAIN input |-> input[p[n]]])

(* summarize.rs, dreaming.rs, proactive.rs: what the calls beside the runs give is taken, and what
   they do not give breaks nothing. *)
CallsInv ==
  topic = "calls" =>
    /\ Calls!AnswersAreTaken(input)
    /\ \A prompt \in FileTexts \ {None} : Calls!ReminderSpeaks(prompt, input)
    /\ \A old \in FileTexts, edit \in EditTexts, fails \in {None, "write", "rename"} :
         Calls!CrashKeepsFile(old, edit, input, fails)
    /\ input = <<>> => \A old \in FileTexts \ {None}, items \in ItemTexts : Calls!AllIsShown(old, items)

(* web.rs: what the model is given of a page is what the page shows. *)
PageInv == topic = "page" => Pages!PageIsRead(input)

(* oc-tui app.rs: what the screen shows of a run can be read, an answer reaches the prompt it was
   meant for unless a later one has come, and is not sent as a message as well. *)
ScreenInv == topic = "screen" => /\ Terminal!RunsAreReadable(input.state)
                                 /\ Terminal!AnswersReachTheirPrompt(input.state)

(* state.js, ChatPane.vue, App.vue: the page shows its run once but for an entry without its mark,
   comes to rest with it, and keeps a command with its result. *)
WebInv == topic = "web" => /\ Browser!ShownOnce(input.state) /\ Browser!QuietWhenOver(input.state)
                           /\ Browser!CommandHasItsCard(input.state)

-------------------------------------------------------------------------------
(* What the run checks, by the part of the program.                          *)

(* agent.rs, compaction.rs, the file tools: what a run sends to its model, keeps of it, and does
   to the files it names. *)
LoopInv == ContextInv /\ AgentInv /\ FileInv /\ PageInv

(* oc-http adapter.rs, sse.rs: a request arrives whole, and its answer means the same in both
   forms. *)
FormsInv == RequestInv /\ ResponseInv

(* cron.rs, proactive.rs: what comes of itself comes when it was asked for. *)
ScheduleInv == CalendarInv /\ IntentsInv /\ CallsInv

(* memory.rs, fts.rs, skill.rs: what is put before the model is what was to be found. *)
PromptInv == RecallInv /\ SkillsInv

(* oc-tui, the web page, command.rs: what is shown is so, and what is asked reaches its aim. *)
ClientInv == ScreenInv /\ CommandsInv /\ ListsInv /\ WebInv

(* conn.rs, diag.rs: a connection and the watch over the runs. *)
DaemonInv == WireInv /\ WatchInv
===============================================================================
