# A TLA+ model of oc

oc (oh-my-claw) is a personal assistant that runs as a daemon: clients connect,
each conversation is a *session*, and in every session the user's turns are
answered by *runs*, one after the other. A run talks to a language model, calls
tools, writes what was said to a store and streams what happens to whoever
listens. The daemon runs on a multi-threaded tokio runtime
(`oc-cli/src/main.rs`), so everything below that is a task interleaves freely
with every other task.

This directory holds a model of the parts where that matters: TLA+ modules that
translate the code, TLC configurations that check them on small instances, and
proofs of theorems that hold for every instance.

- [The system](#the-system): components, their state, how they interact
- [What makes each part correct](#what-makes-each-part-correct)
- [Modules](#modules): what each one models, and how it corresponds to the code
- [Runs](#runs): what is checked, under which bounds
- [Fairness](#fairness)
- [Proofs](#proofs)
- [Where code and documents disagree](#where-code-and-documents-disagree)
- [Only model-checked, not modelled](#only-model-checked-not-modelled)
- [Plan](#plan)

To check a module, `tlc -config X.cfg M` where `X.cfg` names the run and `M` its MC
module (`SessionLane_order.cfg` belongs to `SessionLaneMC`, and so on; `RunDriver_run`, `RunLog_replay`,
`Reminders_rings` and `Store_crashes` need no MC module and belong to the module itself). To
check the proofs, `tlapm M.tla` for each of `SessionLane_proofs`, `SessionRegistry_proofs`,
`RunDriver_proofs`, `RunLog_proofs`, `Storage_proofs`, `ToolBridge_proofs`,
`Reminders_proofs` and `Gateway_proofs`.

Paths are relative to `crates/` unless they begin with `docs/`.

## The system

### Components

| Component | Source | State it keeps | Operations |
|---|---|---|---|
| Session actor and run queue | `oc-server/src/session.rs`, `oc-core/src/queue.rs` | run queue (active turn, pending turns), handle of the active run, maps of sinks and run logs, time of last activity | `Submit`, `Abort`, `Compact`, `Finished`, `Resume`, `HealthScan`, `EvictIfIdle`, each a command in a mailbox of 64 |
| Session registry | `oc-server/src/registry.rs` | concurrent map of session ids to actor handles | `get_or_spawn`, `existing`, `cancel_all`, `evict_idle` |
| Run driver | `oc-server/src/run.rs`, `oc-core/src/agent.rs`, `sink.rs` | text of the turn, text carried over from truncated turns, tool rounds, fingerprints of calls, cancellation token | `drive`: model turns, tool calls, `persist`, `emit_inline`; idle and run watchdogs |
| Run log | `oc-server/src/run_log.rs` | ring of 1024 events, marks, subscribers | `push`, `mark_persisted`, `subscribe_from`; `forward_run_log` |
| Transcript | `oc-store/src/ops.rs`, `oc-server/src/session.rs`, `summarize.rs` | entries of a session, `reset_at`; the actor's `compact_in_flight` | `append_entry`, `load_transcript`, `reset_session`, `compact_with_summary`; `load_history`, `compact_core` |
| Dispatcher, commands, idempotency cache | `oc-server/src/dispatch.rs`, `command.rs`, `state.rs` | answers to recent requests | one handler per protocol method, one per slash command |
| Connections | `oc-server/src/conn.rs`, `codec.rs`, `transport.rs` | an outbound queue per connection, a place in the broadcast ring | read, handle, forward, write |
| Diagnostic slots | `oc-server/src/diag.rs` | per session: times of start and last progress, phase | written by driver and actor, read by the health scan and `oc debug` |
| Store | `oc-store/src` | one SQLite file, a writer thread with its queue, a pool of readers, the schema's version | writes, reads, migration; the single-instance lock of `oc-cli/src/lock.rs` |
| Tool bridge, approval and input gates | `oc-server/src/tools_bridge.rs`, `oc-tools/src/exec.rs`, `ask_user.rs` | the registry of pending prompts | ask, answer, time out, drop |
| Task ledger | `oc-server/src/ledger.rs`, `oc-tools/src/process.rs` | background processes and their tokens | start, cancel, list, report |
| Cron and heartbeat | `oc-server/src/proactive.rs`, `scheduler.rs`, `oc-core/src/proactive` | jobs and intents in the store, timers | fire precisely, fire by heartbeat, reschedule, raise an intent |
| Memory | `oc-core/src/memory.rs`, `dreaming.rs`, `oc-server/src/dreaming.rs`, `oc-store/src/fts.rs` | rows of memories, their index, MEMORY.md | remember, supersede, flush, consolidate, recall |
| HTTP gateway | `oc-http/src` | pool of connections to the daemon, permits | check out, hand shake, return, stream or accumulate a run |
| Providers | `oc-llm/src` | what is left of a line | bytes to deltas, conversation to a request |
| Tools | `oc-tools/src` | - | files, pages, processes |
| Skills, prompt | `oc-core/src/skill.rs`, `prompt.rs`, `oc-cli/src/skills_loader.rs` | - | read, filter and list skills |
| Terminal client | `oc-tui/src`, `oc-cli/src` | what is on the screen, prompts, the input line | keys, events, command output |
| Web client | `oc-http/ui/src` | messages per session, the water mark of the history, streams, the activity card, the last snapshot | load, send, resume, stop, switch, command, log in |

### How they meet

```
 client -- connection -- dispatcher --get_or_spawn--> registry
   ^                        |  submit / abort / resume     | evict_idle (heartbeat)
   |                        v                              v
   |                  mailbox of 64  ------------->  session actor --- run queue
   |                                                  |        ^
   |                                   spawns a run   v        | Finished
   +--- outbound queue <--- sink <------------------ run driver ---> provider, tools
   |                                                  |
   +--- forwarder <------ run log <-------------------+----> writer thread ---> store
                                                              ^
                              reset, compaction --------------+
```

- A request looks its session's actor up and sends a command with a reply
  channel. The actor answers after the queue has decided.
- The actor spawns at most one run task. The run reports `Finished` to the
  actor's own mailbox; the actor then starts the oldest queued turn.
- The run waits in the sink's outbound queue (back-pressure), for the store's
  answers, for the provider and for tools.
- A run of a web client is *Detached*: the client may reload, load its history
  and resume the stream from the run's log.
- Compactions are run by the actor (`/compact`) or by a task of their own (after a
  run). `/reset` is run by the connection's dispatcher. All of them, and the
  run, write to the same transcript, and only the writer thread orders them.
- The heartbeat scans for stuck runs and evicts idle actors.

### What is hard about it

Two turns in one lane; a command that meets an exiting actor; an actor that
does not hear anything while it waits for the store or for a summary; a
summary of a snapshot that is written after a reset; a page that reloads
between an entry's write and its mark; a run that is dropped by its timeout with
an entry in the writer's queue; a truncated reply that is continued, and may call a
tool in between; an answer to a prompt that races its timeout; events that overtake
the answer on one connection; a connection that goes back to the pool in the middle of
an answer; a job found due by two tasks, or rung when the daemon dies; a preference
replaced by two calls of the store while a consolidation merges it; a migration that
dies half way; a writer thread that panics with calls in its queue; a web page whose history, stream and
snapshots arrive in any order. `PROJECT.json` lists
all of them ("hazards") with the line and the properties that are about them.

## What makes each part correct

- **Session actor.** One run at a time, in the order of acceptance
  (`AtMostOneRunning`, `LaneIsSerial`). The entries of a turn are contiguous in
  the store and a run knows everything earlier turns wrote (`TranscriptSerial`,
  `HistoryIsComplete`). What submitters were told is true (`AcceptedIsTracked`),
  nobody waits for ever (`NoStrandedTurn`, `EverySubmissionAnswered`,
  `AcceptedIsServed`), and eviction takes no work along (`EvictionLosesNothing`).
- **Registry.** One live actor per session, and it can be found (`OneLane`,
  `LiveIsRegistered`); "the queue is full" is said only of a full queue
  (`NoSpuriousBusy`); a sweep ends whatever actors do (`SweepEnds`).
- **Run driver.** What a completed run has stored is what the model said, in order
  and once (`ReplyIsKept`), no half sentence becomes history
  (`NoFragmentStored`), results follow their calls (`ResultsFollowDispatch`), the
  client is told what the run returns (`VerdictMatches`), and a run ends
  (`NoCallRepeats`, `RunEnds`, `DisconnectEnds`).
- **Run log.** A reloading page misses nothing (`NoHole`) and sees at most one
  entry twice (`RepeatsOneEntry`); its forwarder ends (`ForwarderFinishes`).
- **Transcript.** A reset stays reset (`ResetStays`); nothing leaves the context
  but by a reset or into a summary (`NothingVanishes`), and nothing is in it twice
  (`NothingTwice`); what a run is given can be sent to a provider
  (`PromptIsWellFormed`).

- **Tool bridge and ledger.** Nothing that needs a consent runs without one, and silence
  is none (`ConsentComesFirst`); a prompt is registered exactly while somebody waits for it
  (`PendingHasPump`) and leaves the registry in every case (`PromptsAreRemoved`); an abort or a
  closed terminal ends a waiting tool without a timer (`AbortFrees`), a reloading page does not
  (`ReloadIsNoAbort`); what the ledger says of a task is what happened (`LedgerTellsTruth`).
- **Gateway.** Permits are never lost or doubled (`PermitsAddUp`); what lies in the pool can be
  used as it is, without a frame owed or on its way (`ConnectionsAreAtRest`); a page sees a run
  without a gap (`RelayHasNoGap`) and its stream ends (`StreamsEnd`).
- **Reminders.** A job has one fate: rung once, or removed, never both (`OneFate`); a recurring one
  keeps a next time (`EveryHasNext`) and rings no oftener than it should (`RingsAreEarned`); what is due
  is served (`DueIsServed`); a retry of what was answered makes no second job (`RetriesCreateOnce`).
- **Memory.** A topic of preferences that is known stays known but in three named ways (`PreferencesAreKept`), a
  consolidation loses no fact (`DreamsKeepFacts`) and no line a person wrote, unless the file cannot be decoded
  (`EditsAreKept`).
- **Store.** The shape of the tables follows the version, wherever a migration died (`SchemaIsWhole`); one
  server has the file (`OneServer`); what was answered Ok is on the disk (`AnswersHold`); the doctor
  says nothing false (`DoctorIsRight`); every call ends (`EveryCallEnds`).
- **Sequential parts.** Each is compared with what its callers rely on, stated independently of how the
  code gets there: see [Algorithms](#algorithms-the-sequential-parts).

## Modules

Every definition that stands for code is listed in `PROJECT.json` ("map") with
the lines it stands for. Some helper operators in the modules are marked *a slip*.
Next never uses them: each is a plausible bug in the code beside it, a dropped
guard or a wrong order. Putting a slip in the place of the operator below it
must break the property named with it in `PROJECT.json` ("mutants"), which shows
that the property does depend on that line.

### SerialLane: what a lane promises

The abstract specification: turns are accepted into a line, opened one at a time
in that order, write only while they are open, and are closed. A hard abort may
empty the line; the store may fail to keep an entry. No mailbox, task or writer.

### SessionLane: one session actor

| Variable | Code |
|---|---|
| `mailbox`, `open` | the command channel and its receiver |
| `actor`, `starting` | where `actor_loop` is: receiving, waiting for the store in `begin_run`, waiting in `Compact`, gone |
| `active`, `pending` | `RunQueue` |
| `run` | `Option<ActiveRun>` |
| `sinks`, `runLogs` | the two maps of the actor, as their domains |
| `task`, `persists`, `ended`, `panicked`, `cancelled` | the run task inside `start_run`, as the lane sees it |
| `writes`, `transcript` | the writer's queue and the session's entries |
| `reply` | what each submitter knows |
| `served`, `drained`, `attached` | history: turns finished, thrown away, resumed |

Each command is one action, `HandleSubmit` to `Evict`. A handler that awaits is
two: `begin_run` sends the user's message to the store and waits (`BeginRun` in the
handlers, then `StartRun`), `Compact` waits for a summary (`HandleCompact`,
`CompactDone`). Between the two halves the mailbox is shut, but the other tasks go
on. Everything a handler does without awaiting is one step. A sender that meets a
full channel waits: its step is not enabled. What the run does in detail is
RunDriver's; here it writes, announces its end, times out, panics and reports.

The refinement mapping to SerialLane counts a turn as current from `begin_run` to
the return of its run task, and takes as log what is in the store and what is still
queued for it.

### SessionRegistry: many actors

The map `entry` with `get_or_spawn` (lookup, then a second look under the entry
lock), `chat.send` with its one retry, and `evict_idle`: candidates, probe, timeout of
the probe, `remove_if`, `forget`. An operation on the map under its shard lock is
one step. An actor is reduced to its channel, its number of accepted turns, and
whether it is old enough to go; actors are numbered as they are spawned, so that a
handle to an evicted actor can be told from one to its successor. Compared with
SessionLane, the channel is unbounded: a full one only delays.

### RunDriver: one run

`pc` names what the driver does next, `sending` what it still has to send before.
The agent state machine (`oc-core/src/agent.rs`) is folded into the transitions of
the driver that feed it. Environment: the provider (`Opens`, `Streams`), the
connection (`ClientReads`, `ClientCloses`), the writer, and whoever cancels.
Text deltas are numbered, so that `ReplyIsKept` can compare what is stored with what
was said. Three things are easily overlooked and are modelled as they are: the run
timeout announces itself through the same outbound queue, and may wait there; the
idle watchdog announces the end twice; a run whose very first event is refused
returns as completed.

### RunLog: reload and resume

The ring, the marks and the subscriptions, with the driver's order (push, persist,
mark), the writer that stores an entry one step before the driver knows, summaries
that other tasks append, and pages that load their history, resume and leave. An
event is its position in the stream, an entry is the set of events whose content it
holds. Reasoning is not replayed, and is not content. What a resume replays is said by positions in the ring (`Picked`).

### Transcript: reset and compaction

Entries are numbered by `seq`; `resetAt` is where the context begins. Each transaction
of the store is a step. A compaction takes the guard, loads, works on its snapshot
while everybody else goes on, writes, and releases. `cleared` is history: the last
entry the user has reset away. The token budget of `load_history` depends on the length
of texts; here any suffix of what was loaded may be what fits
(`WithinBudget`). An entry that answers a call names it; a summary names what it
stands for.

### ToolBridge and TaskLedger: tools that wait

A call is the driver that waits for the tool under its timeout, the gate's pump that registers a
prompt and waits for an answer, the pump that forwards updates, and the client who answers late,
twice or never. `setup` is what the run was started with (kind of sink, approval mode, a limit
or none), `pending` the registry in `ServerState`, `pump` and `aborted` the gate's task, which only
sees an abort at its next await; its guard takes the prompt out when it is dropped. TaskLedger is what a
background process leaves: the process itself, the channel from tool to ledger, the follower
task, the token. ToolBridge EXTENDS it: a call of the process tool hands over and returns.

### Gateway: the pool and the relay

Both ends of the connections between `oc-http` and the daemon. `user` and `idle` say who has a
connection, `permits` how many may be opened; `up` and `down` are frames on their way, `socket` and
`writer` the two halves of a connection's life. A handler is a sequence of actions from `Acquire` to `Drop`
or `Put`; it may be dropped wherever it stands, because its client leaves. The daemon answers one request at a
time while runs push events into the same queue.

### Reminders: two paths to one ring

The rows of the cron table, a heartbeat that works through a snapshot of what is due, precise timers of
one-shot jobs, removal, `cron.add` with its cache of answers, and a daemon that dies and comes back.
`mishaps` bounds crashes and failing calls; `lost` is history: the jobs a crash cost or repeated.

### Memory: remembering, replacing, consolidating

The memory table, the lanes in which users ask to remember (write, then delete what it replaces), the
consolidation in its eight steps, and an editor of MEMORY.md. Each call of the store is a step, so lanes, the
consolidation and the editor meet between any two of them. A fact is its own id; a row's text is the set of facts it
states, so that "nothing known is lost" can be said. The model answers with any list of up to `MaxDecisions` decisions: a
candidate or a target may be named twice. Three things are assumed of it and of the person: a merged text states what both
texts say; the new MEMORY.md holds the merged texts and any part of the old file; a person adds lines. `goals` and `saved`
are history: the rows this consolidation has merged into, and what the file really held when it was read again.

### Store: file, lock, thread

`disk` is what survives; a migration step is a transaction, and a process may die between any two. `thread`,
`queue`, `alive` are the writer thread, its queue and the flag its callers look at before they send; `calls` is
what each caller waits for. Readers take a connection of the pool, or a new one.

### Algorithms: the sequential parts

Parts without interleavings of their own are modules of pure operators, each with the promises its
callers rely on at its end. `Algorithms` instantiates them with small constants and is one state machine: it
picks a topic, then makes every input of that topic symbol by symbol, or, for a part that keeps a state, drives
it step by step. `Lengths` (AlgorithmsMC) bounds the inputs. An invariant of `Algorithms` is the promise of a
topic, and the run checks them grouped by the part of the program.

| Module | Code | Promise |
|---|---|---|
| ContextPlan | `plan_compaction`, `apply_compaction` | tool rounds stay whole, the recent is sent as it is, the plan fits by its own count or can do no more, nothing is dropped without need; while no count was reported, what is sent is as short as planned but for the notes |
| Agent | `oc-core/src/agent.rs` | whatever a run hears, it ends once and keeps what it showed |
| TextEdit | `oc-tools` `file.rs`, `sanitize.rs` | what is shown can be edited and lands where it was meant; clipping meets in the middle |
| WebPage | `web.rs`, `html_to_text` | the model is given what the page shows, in its order and paragraphs |
| ModelStream | `oc-llm`, `run_model_turn`, `entry_to_message` | a packet's cut spoils the character it goes through and nothing else, nothing is swallowed, a tool round goes back as it came, now and when it is replayed |
| Responses | `oc-http` `adapter.rs`, `sse.rs` | a turn brings what its request holds, with the newest user message also when a tool's output is newer; both forms of the answer tell the same, of this run only |
| Calendar | `cron.rs` | a field is the set it says; the next time is the first that matches |
| Intents | `intent_scan`, `allow_fire` | no more reminders than budget and cooldown allow, none after expiry |
| SideCalls | `summarize.rs`, `dreaming.rs`, `fire_cron` | an answer is taken whole or, if late, not at all; a reminder is never silent; a crash leaves MEMORY.md whole |
| Recall | `fts.rs`, `memory.rs` | the index finds what a scan would, the best memories are injected, episodes are pairs |
| Skills | `skill.rs`, `skills_loader.rs`, `prompt.rs` | a file's front is read as written, what is listed can be read, the list's order is stable |
| Screen | `oc-tui/src/app.rs` | each run can be read off the screen; an answer reaches the prompt it was meant for or a later one, once, and is no message as well |
| Commands | `command.rs`, `dispatch.rs` | a command does what it says, in its session and within its rights |
| WebClient | `oc-http/ui`: `state.js`, `api.js`, `activity.js`, `ChatPane.vue`, `App.vue` | a run is shown once, in order, with one card per call, but for an entry loaded before its mark; nothing looks busy when nothing streams; a command's card is in one list |
| Tables | `align_rows`, `commandOutput.js` | the page reads the tables the daemon wrote |
| Connection | `conn.rs`, `cli_client.rs` | answers fit their requests, news come in order or are skipped, nobody is stuck |
| Watch | `diag.rs`, `HealthScan` | a run is stopped if it is silent for long enough, and not before; after a compaction on request one that works is stopped too, but not before it is as old |

WebClient is the largest of them: a page and the run it watches, driven step by step. Its state holds what the page
holds (`list`, `seq`, `stream`, `act`, `snap`, `gate`) and the place `pos` the run has reached in `Course`, one tool round and
a reply in the order RunDriver and RunLog give them, an entry's mark a step after the entry. Every answer of the gateway is an element of the state until it
lands: histories in `loads`, events in `stream.queue`, the snapshot in `snap`, the command's answer in `command`; any of
them may come next.

### How the modules fit together

SessionLane abstracts RunDriver to "writes, ends, reports", RunDriver abstracts the lane
to "somebody may cancel" and ToolBridge to "a tool that ends", SessionRegistry abstracts SessionLane to
"accepts, finishes, may be evicted", RunLog takes the order of pushes and writes from RunDriver, and
Transcript takes the order of entries from it. `run` in Transcript is sequential because
of `AtMostOneRunning`; that a run's first entry is its user's message is SessionLane's
`BeginRun`. Gateway takes from RunLog that a resumed run is replayed and then streamed. The queue of
writes in SessionLane, RunDriver and RunLog is Store's while its thread lives; Reminders and Memory see the store
as calls that succeed or fail. Watch looks closer at what SessionLane's `HandleHealthScan` leaves open.

## Runs

Each run has the cfg of its name, and is to end without an error. Several of the properties are
conjunctions; a run's invariant `XInv` is the conjunction named beside it.

| Run | Instance | Shows |
|---|---|---|
| SessionLane_order | 3 Detached turns, room for 2 in the queue, mailbox of 2, 1 control command, 1 entry per run | `AtMostOneRunning`, `NoStrandedTurn`, `EvictionLosesNothing`, `TranscriptSerial`, `HistoryIsComplete`, `NoResumeAfterFinish`, refinement `LaneIsSerial` |
| SessionLane_answers | 3 turns, one of them Detached, queue for 1, mailbox of 2, 1 control command | `TypeOK`, `AcceptedIsTracked`, `OutputsFollowTurns`, `TurnsAreServed` (`EverySubmissionAnswered`, `AcceptedIsServed`) |
| SessionRegistry_requests | `main` and one session that can be evicted, 3 requests for it, 3 probes | `RegistryInv` (`OneLane`, `LiveIsRegistered`, `MainStays`, `NoSpuriousBusy`, `NoWorkEvicted`), `AllIsAnswered` (`SweepEnds`, `RequestAnswered`) |
| RunDriver_run | Conn and Detached, with and without run timeout, 2 calls, threshold 2, 2 rounds, 1 continuation, 2 deltas, 1 refused write, outbound queue of 1 | `DriverInv` (`ReplyIsKept`, `NoFragmentStored`, `ResultsFollowDispatch`, `VerdictMatches`, `NoCallRepeats`), `EndsInTime` (`RunEnds`, `DisconnectEnds`) |
| RunLog_replay | 1 page, ring of 2, 5 events, 4 entries, 1 failed write | `LogInv` (`NoHole`, `RepeatsOneEntry`), `ForwarderFinishes` |
| Transcript_context | 2 compactions, 1 recent entry kept, 6 entries | `TranscriptInv` (`ResetStays`, `NothingVanishes`, `NothingTwice`, `GuardIsHeld`), `PromptIsWellFormed` |
| ToolBridge_gates | 2 calls, every kind of setup that differs, safe and blocked commands, 1 background process, 1 failing call | `BridgeInv` (`PendingHasPump`, `LedgerTellsTruth`, `ReloadIsNoAbort`), `ConsentComesFirst`, `AbortFrees`, `PromptsAreRemoved` |
| Gateway_pool | 2 requests of 4 kinds, 1 permit, 2 sockets, 2 events, 1 restart | `PoolInv` (`PermitsAddUp`, `ConnectionsAreAtRest`), `RelayHasNoGap`, `StreamsEnd` |
| Reminders_rings | 2 jobs, 2 attempts of a request, time to 3, a ring every 2, 1 mishap | `RemindersInv` (`OneFate`, `EveryHasNext`, `RingsAreEarned`), `RetriesCreateOnce`, `DueIsServed` |
| Memory_facts | 2 preferences and 2 other facts, one of each in conversations too, 2 lanes, 3 turns, 1 consolidation of up to 2 decisions, 1 line of a person, 1 mishap | `PreferencesAreKept` (with the types, and `TopicStays`), `FactsAreKept` (`DreamsKeepFacts`, `EditsAreKept`) |
| Store_crashes | 2 servers and a doctor, a file of any of 4 versions, 2 callers of 2 calls | `StoreInv` (`SchemaIsWhole`, `OneServer`, `AnswersHold`, `DoctorIsRight`), `EveryCallEnds` |
| Algorithms | the lengths of AlgorithmsMC | `LoopInv`, `FormsInv`, `ModelStreamInv`, `ScheduleInv`, `PromptInv`, `ClientInv`, `DaemonInv` |

### Why these bounds are enough

- *Three turns* are the least with which one runs, one waits, and one is rejected or
  overtakes; two with which a hard abort drains something. A queue for one is full
  with three turns, a queue for two is not: SessionLane_answers has the one and
  SessionLane_order the other. A mailbox for two fills up, so that `Finished` and a
  submission wait for room in either order. One control command is enough to meet every
  command of a turn; what two of them do to each other is covered by the proofs, which
  bound nothing. Turns are symmetric in SessionLane_order; runs with liveness use no symmetry.
- *Three requests and three probes* let a request be overtaken by an eviction
  twice, so that its retry meets the same race again, while a third respawns the actor.
- *A ring of two under five events* drops its oldest event up to three times; marks in front of
  it, inside it and at its end occur. One page is enough: subscriptions do not influence each other.
- *Two calls, two rounds and a threshold of two*: a loop in which another call comes
  between, and a run that ends by the limit on rounds without a loop.
  *One continuation*: a text in two pieces, with a call between or none.
  An outbound queue of one is full after every event.
- *Six entries and one kept*: two compactions after each other, the second of which
  takes in the first's summary, with a reset or a turn in between. `MaxHistory` is out of
  reach in this run: a compaction of a session with more entries than are loaded moves
  `reset_at` over those that were not, which the code accepts. What a shorter load leaves of
  the history is a suffix, and `PromptIsWellFormed` is checked for every suffix.
- *Two tool calls*: prompts of two calls are in the registry one after the other, and a late answer to the
  first meets the second.
- *One permit, two sockets*: whoever comes second waits for, or takes over, the connection of the first, which is idle,
  dead, or in the middle of an answer; the daemon's restart lies anywhere in between. More permits add
  connections that do not meet.
- *Time to 3, a ring every 2*: a one-shot job of each delay comes due before, at and after the heartbeat, one beyond
  the horizon of timers; a recurring job rings, is rescheduled and may ring once more.
- *Two preferences and two other facts, two lanes, two decisions*: one preference replaces the other while the other lane does
  the reverse, or an episode is merged into either; two episodes are merged into one row, or one into a row that was merged
  away. Each of the exceptions of the two properties happens: without any one of them the run fails. One mishap suffices: the
  store's calls of a turn end with the first that fails. Lanes are symmetric.
- *Two steps of schema* give a half migrated file; a version beyond the program's occurs too.
- *Lengths of inputs*: three to seven symbols, chosen so that each promise has its near miss: a tool round at
  the edge of what may be cut, a packet cut in a mark, a letter of three bytes at the limit of the output, an
  edit over a mixed line end, two runs in one session and one in another on the screen. A conversation is planned with no
  reported count, one below its estimate and one above; the note of a cut result is longer than the result may be. A
  character has one byte or two, which is enough for a cut to go through it.
- *One thing beside the page's run* (`Extras`: a session selected, a command, a broken stream, a refused history or a
  snapshot) *and one event on its way* (`Lag`): each meets the run at each of its places, before and after the history.
  With two of them (3.6 million states, beyond the run) the promises hold as well.

The constants of the code that are smaller in the runs: mailbox 64, ring 1024,
`LOOP_REPEAT_THRESHOLD` 3, `MAX_TOOL_ROUNDS` 24, `MAX_TRUNCATION_CONTINUATIONS` 2,
entries kept by a compaction 6, idle connections 4, outbound queue and broadcast ring, a calendar of two months of three
days. Nothing in the code depends on their values other than by comparison.

Deadlock is checked where a system at rest has a step for it: SessionLane, SessionRegistry,
RunDriver and RunLog (`Quiescent`, `Over`); in Transcript the user may always reset. The other runs end when their
bounds are used up (all requests made, time over, inputs as long as they may be), and say `CHECK_DEADLOCK FALSE`;
that nobody is left waiting in them is what `StreamsEnd`, `AbortFrees`, `DueIsServed`, `EveryCallEnds`
and `DaemonInv` check.

## Fairness

- **SessionLane.** The actor and the writer thread are polled; a run announces its end, returns
  and reports. The last is what the watchdogs are for (RunDriver's `RunEnds` says under
  which conditions it is true). Users are not obliged to submit, abort or resume. A sender
  that waits for room in the channel is not assumed to be fair either; only `RunReport` is,
  which waits in tokio's fair queue of senders.
- **SessionRegistry.** For `SweepEnds` only the heartbeat is polled and its timer fires: actors may
  never answer. For `RequestAnswered` the requests are polled and actors handle what is in
  their channel.
- **RunDriver.** Three assumptions, stated apart: the driver is polled, its timers fire, tools time
  out and the writer answers (`DriverFairness`); the client reads (`ClientFairness`); the
  provider answers the request to open a stream (`ProviderFairness`). RunDriver_run assumes the
  first two (`SilentProviderSpec`); `RunEnds` has the third as its premise, `DisconnectEnds` does
  without it. `StalledClientSpec` drops the second. A stream that is open needs
  no fairness of the provider: the idle watchdog ends it.
- **RunLog.** The run ends, by its timeout at the latest; the writer, the actor's
  `Finished` and the forwarders are polled.
- **ToolBridge.** The daemon's tasks are polled, and a send returns once its connection is closed or its task
  aborted. No timer, client or command owes anything: `AbortFrees` must not lean on a timeout.
- **Gateway.** Tasks of both processes are polled and timers fire; clients, people and runs owe nothing.
- **Reminders.** Time passes, the heartbeat is polled (`scheduler.rs` ticks for ever), and what a timer has begun
  ends by the turn's timeout. That a timer wakes is not assumed.
- **Store.** The threads of a server go on while it lives. Processes need not be started, nor die.
- **Transcript, Memory, Algorithms.** Only safety is checked. `NobodyIsStuck` (Connection) is a statement about
  states: where somebody waits, some step of the connection itself is enabled that leads on.

## Proofs

The runs check small instances; the theorems hold for every value of the constants that the module's assumption
allows. No other assumption is used, but where a theorem states one.

| Modules | What is proved, of any number of | Assumption |
|---|---|---|
| SessionLane_proofs | turns, control commands, entries; any capacities | `LaneAssumption`: `None` is no turn, Detached turns are turns, the mailbox has room for a command |
| SessionRegistry_proofs | sessions, requests, probes; any queue lengths | `RegistryAssumption`: main is a session, every request names one, `None` is no actor |
| RunDriver_proofs | calls, deltas, failing writes; any limits | `DriverAssumption`: `None` is no call, the outbound queue has room for an event, the loop threshold is at least 1 |
| RunLog_proofs | pages, events, entries, failing writes; any size of the ring | `RunLogAssumption`: the ring has room for an event, the run pushes at least one, the session begins with an entry |
| Storage_proofs, of Transcript | compactions, entries, recent entries kept | `TranscriptAssumption`: `MaxHistory` is at least 1 |
| Storage_proofs, of Store | servers, callers, calls, starts, steps of the schema | `StoreAssumption`: the schema has a step, `None` and the doctor are not servers |
| Storage_proofs, of Memory | sessions, facts, preferences, turns, consolidations, decisions, failures, editors; any gate | `MemoryAssumption`: facts and edits differ, `NoFact` is neither, what can be flushed is a fact |
| ToolBridge_proofs | calls, processes, failures; any set of setups and risks | `BridgeAssumption`: setups and risks are those of the code, each call starts at most one process |
| Reminders_proofs | jobs, requests, mishaps; any period, TTL and horizon | `RemindersAssumption`: period and delays are at least 1 and at most `MaxAhead`, which may be any number |
| Gateway_proofs | requests, connections, events, restarts; any permits and idle places | `GatewayAssumption`: there is a permit and a run has an event, no more connections rest than there are permits, `None` is no request |

Each assumption also says that the bounds are natural numbers. The limits which the modules put on counters
(`MaxMishaps`, `MaxStarts`, `MaxEntries`, ...) are constants too, so the theorems hold under any of them.

| Theorem | Property |
|---|---|
| `Typing` | `TypeOK`, with the capacities of queue and mailbox |
| `RecordsAgree` | `LaneAgreement`, which no run checks by itself: a part of `LaneInv` |
| `OneRunAtATime` | `AtMostOneRunning` |
| `NobodyIsStranded` | `NoStrandedTurn` |
| `AnswersAreTrue` | `AcceptedIsTracked` |
| `OutputsAreKept` | `OutputsFollowTurns` |
| `EvictionIsSafe` | `EvictionLosesNothing` |
| `ResumeComesInTime` | `NoResumeAfterFinish` |
| `RunsStartInformed` | `HistoryIsComplete` |
| `LaneImplementsSerialLane` | `LaneIsSerial`: the refinement of SerialLane |
| `EntriesStayTogether` | `TranscriptSerial` |
| `RegistryIsSafe` | `RegistryInv`, all six conjuncts |
| `RunIsSafe` | `DriverInv`, all six conjuncts |
| `LogIsSafe` | `LogInv`: `NoHole` and `RepeatsOneEntry` |
| `TranscriptIsSafe` | `TranscriptInv`, while the session has at most `MaxHistory` entries |
| `ContextIsSafe` | `ResetStays`, `NothingTwice`, `GuardIsHeld` without that bound |
| `PromptIsSafe` | `PromptIsWellFormed` |
| `BridgeIsSafe` | `BridgeInv`, with the ledger's part |
| `ConsentIsSafe` | `ConsentComesFirst`, a property of steps |
| `RemindersAreSafe` | `RemindersInv` |
| `RetriesAreSafe` | `RetriesCreateOnce`, a property of steps |
| `StoreIsSafe` | `StoreInv` |
| `PreferencesStay` | `PreferencesAreKept`: types, and `TopicStays`, a property of steps |
| `EditsStay` | `EditsAreKept`, a conjunct of `FactsAreKept` |
| `FactsStay` | `FactsAreKept`, a property of steps |
| `PoolIsInOrder` | `PoolInv`, with `PermitsAddUp` and `ConnectionsAreAtRest` |
| `NoGapIsRelayed` | `RelayHasNoGap` |

No property of these is inductive. Each module of proofs begins with the invariant that is (`LaneInv`, `RegInv`,
`PoolIInv`, `StoreIInv`, `MemoryIInv`, and `IInv` in the others), a conjunction of named parts; each was checked by TLC on the instance of its run before it
was proved. Then come the types, one lemma per action or group of actions and part of the invariant, and at the end
the theorems.

### The lane

**The inductive invariant.** None of the properties is inductive. Take `AtMostOneRunning`: that
the lane is free when `Finished` is handled depends on whose `Finished` it is. A second
`Finished` of the same turn, or one of a turn that still runs, would free the lane under a
run; so one needs to know where every turn is, from its `Submit` in the channel to its
`Finished`. `LaneInv` says it:

    LaneInv == TypeOK /\ LaneAgreement /\ NoStrandedTurn /\ AcceptedIsTracked
               /\ OutputsFollowTurns /\ GoneIsIdle /\ RunHoldsLane /\ TurnsAreFresh

`RunHoldsLane` says that the run the actor knows of is the only task in the lane and that
a run with `Finished` under way has left it. `TurnsAreFresh` says that a turn is in the channel at most
once, then in the queue at most once, and has no task before it leaves the queue. `GoneIsIdle`
says that an actor that has exited has neither.

**The argument.** `InitInv`: it holds at the start. `StepInv`: every step keeps it. The actions that change
the lane's records have a lemma each (`SendSubmitInv`, `StartRunInv`, `RunReportInv`,
`HandleAbortInv`, `EvictInv`, `HandleSubmitInv`, `HandleFinishedInv`), with one step per conjunct
the action can disturb; all others leave the same variables alone and are covered by `FrameInv`.
`Invariance` follows; the theorems are its consequences. `OneRunAtATime` is `RunHoldsLane`, `EvictionIsSafe`
follows from `GoneIsIdle`, `AcceptedIsTracked` and `RunHoldsLane`.

`HistoryIsComplete` needs one thing more (`MessageIsLast`): while `begin_run` waits, the user's
message is the last entry in the writer's queue, because no run is in the lane that
could queue another. The writer is first in, first out; so once it has this message
it has everything.

**The refinement.** `StepRefines` maps each action to one of SerialLane's or to a stutter, under `LaneInv`. A turn that starts
at once is `AcceptAndOpen`, because an empty lane has an empty queue (`NoStrandedTurn`); `Finished` opens the next turn where
nobody is served, because the run it reports has left the lane (`RunHoldsLane`); a run that writes is the one being
served. The abstract log is the store's entries followed by the writer's queue (`Issued`), so a write that succeeds is not
seen, and one that fails loses an entry: three lemmas about concatenation (`IssueLast`, `ApplyKeepsIssued`, `FailLosesOne`).

`EntriesStayTogether` does not follow from SerialLane, which would serve a turn twice. It rests on `IssuedInOrder`: the
entries of a turn are contiguous, those of the turn that holds the lane come last, and nobody has written who is not
served or holds the lane. A turn that begins has therefore no entry yet (`TurnsAreFresh`).

Lemmas about sequences at the start of the module say what appending to a mailbox and taking from it
do to the set of its elements, and to an element that occurs once.

### The registry

`RegistryInv` is not inductive either. That a session has one live actor is `LiveIsRegistered`: the map has one entry for
it. But that nobody is told "queue full" by mistake (`NoSpuriousBusy`) needs the whole way of a request: it is told None either
by an actor that rejected it, or because its actor died before or while it waited; it tries once more; and
the second try must not meet a dead actor again. `RegInv` adds

- `HoldersKnow`, `RequestsWait`, `MailTyped`: whose handle a request holds, and in which channel it is, once;
- `OthersAreYoung`: since a request took its handle, no other actor of its session has come of age, so whoever takes the place
  of its dead one is young, and `RetriedLaneIsYoung`: that stays so until the second try is answered;
- `RetryIsHeard`, `NoneIsDead`: hence the second try reaches an actor, and None without rejection means a dead handle;
- `EntryOwns`, `ProbesSpareMain`: an entry names an actor of its session, and no probe is under way to main's.

`InitInv` and one lemma per action (`NextInv` combines them) give `Invariant`. Where an actor dies (`ReceiveProbeInv`) every
conjunct has a step of its own. The two conjuncts about age rest on the guard of `Age`: idle_after is 24 hours, and no actor
comes of age while a request is under way; without it the code's single retry would not be enough.

### The run

    IInv == TypeOK /\ OneWrite /\ Limits /\ Carrying /\ Verdict
            /\ Reply /\ Fragments /\ Results /\ Circles

What is stored is stated about `Log`, the entries followed by the one the writer has not answered yet. `OneWrite` says
that there is one at most and that the driver waits for it: a write that succeeds therefore leaves `Log` as it is, and
one that fails takes its last entry away.

- `Reply` gives `ReplyIsKept`. While no write has failed, `Log` says 1 to some k, in order and once, and what follows k
  is exactly what the driver holds: `carried` from truncated turns, then `acc`. A delta extends `acc`, a truncated turn moves
  `acc` to `carried`, a dispatch or the end moves both to `Log`; `Carrying` says that nothing is left behind after that.
- `Verdict` gives `VerdictMatches`. It counts an End or Error that is about to be sent (`sending`) like one that was
  announced, because between the two the driver waits for room, and cancellation or the run timeout may come there.
- `Fragments`: a text without a call is last in `Log`, and the driver is no longer at work.
- `Results`: while a call is under way the dispatch that names it is last in `Log`.
- `Circles` gives `NoCallRepeats`: of no call are more results stored, the one that is owed included, than the call's
  fingerprint occurs in `prints`, and that is below the threshold as long as the driver works.

`ReplyIsKept` says "in order and once" by comparing positions (`Says`), not by joining the texts, which would need
an induction over the log.

### The run log

    IInv == TypeOK /\ StoreInv /\ PageInv /\ NoHole /\ RepeatsOneEntry
    StoreInv == Ring /\ Control /\ Written /\ Marked /\ OneUnmarked

`NoHole` and `RepeatsOneEntry` are decided when a page resumes, by a history it loaded earlier, the marks of now and what the
ring holds; afterwards they stay, because a push reaches every page that listens, and a page that was told the run's end
can miss only a terminal event.

- `Ring`: the ring holds the newest events and all of them while it is not full. With it `ReplayFacts` says what a resume
  replays: everything past the mark that the ring still has, but for reasoning.
- `Marked`: up to a mark's entry nothing lies in the store past the mark's event, and, if no write failed, everything before
  it does; later marks are at later events. So what lies before the last mark the history has reached is in the history
  (`ReplayLeavesNoHole`). It needs that the entry of a mark is the newest with content (`LastStoredIsLast`), whatever summaries
  were written in between, and `Control`: nothing is pushed between a write and its mark.
- `OneUnmarked`: between two entries with content there is always a mark, and all of them have theirs while another is about to
  be written. Of two entries a page knows the older is therefore behind the mark it resumes from (`ReplayIsRight`).

A failed write is covered by the next mark (`run.rs:930`); `Written` and `Marked` promise the content of entries only while
none has failed, and `NoHole` is stated with that condition. `RepeatsOneEntry` needs none. `InOrderIsOnto` says that the
places a replay takes are enumerated once each and completely, by counting how many come before each of them.

### Reset and compaction

    IInv == TypeOK /\ SummariesLookBack /\ CallIsThere /\ OneCompaction /\ ResetStays /\ NothingTwice
            /\ (\A t \in Tasks : SnapshotOf(t)) /\ (Last <= MaxHistory => NothingVanishes)

A compaction writes a summary of what it loaded, while turns, other compactions and resets go on. `SnapshotOf` is what
must still be true when it writes: of the rows in the context no other covers what the snapshot covers, and none that is older than
the snapshot's last is missing from it. The first part keeps `NothingTwice`, the second keeps `NothingVanishes`, because
`reset_at` moves behind the snapshot's last row. `OneCompaction` is why nobody else can have summarised
those rows: the guard is held exactly while a compaction is under way. A reset in between only takes rows out of the context.

Only the second part needs `Last <= MaxHistory`: `load_transcript` returns at most so many rows, and a compaction of a
longer session moves `reset_at` over rows it has not read. That is why `TranscriptIsSafe` carries this condition and
`ContextIsSafe` does without. `MaxHistory` is the
configuration's `max_history_entries`, which `oc-cli` sets to 200.

`PromptIsSafe` is about `RepairPairs` and any subset of the context, hence also about every suffix a
budget may leave.

### Tools that wait

    IInv == Types /\ setup \in Setups /\ UpdatesBounded /\ GateIInv /\ LedgerIInv
    GateIInv == PendingHasPump /\ PumpServesOnce /\ Consent /\ CausesAreTrue
    LedgerIInv == LedgerTypeOK /\ LedgerTellsTruth /\ HandoffIsOnce

The gate's part is a statement about each call by itself (`GateOf`), the ledger's about each process (`TruthOf`), so that a
step has to be followed for the one it is of. `Consent` is the way from the answer to the command: a command that was
let through, runs or has run is one that nobody had to be asked about, or one whose pump holds a yes; a pump has told its gate something
only when it is gone (`PumpServesOnce`), and it passes on what it has heard. It needs that whoever waits at exec's gate is one whose
risk and mode ask the user: without that conjunct the invariant is not inductive, since `Proceed` looks at the verdict only.
`HandoffIsOnce` keeps a process from being entered in the ledger twice.

### Reminders

    IInv == TypeOK /\ Scanning /\ (\A j \in Jobs : Job(j)) /\ Caching
    Job(j) == Kinds(j) /\ Fate(j) /\ Earned(j) /\ (kind[j] = "every" => next[j] # Never)

`Fate` says that a one-shot job is in one place only: in the table, removed, claimed by its timer, claimed by the
heartbeat, or rung. Both paths claim by the same conditional removal, and a heartbeat that works on an old snapshot finds
the row gone. `Earned` counts minutes: up to its next time a recurring job has no more rings than matching minutes, one less if it is due.
That `next_fire` returns a minute after now that matches, and the first such (`NextFireIsNext`), makes each reschedule
add a minute at least. `Caching` says that an answer is cached as long as it is fresh; so a retry that reaches the handler finds none
(`RetriesAreSafe`: `LookUp` is the only step to the handler).

### Store

    StoreIInv == Types /\ Opening /\ Serving
    Opening   == LockIsHeld /\ Migrating /\ StepsAreWhole /\ StepsOfLater /\ Passed
    Serving   == QueueIsOfQueued /\ RowsAreOfCalls /\ acked \subseteq disk.rows

`LockIsHeld` gives `OneServer`. The doctor migrates without the lock, so `Migrating` has to hold of two
processes at once: what a process has seen is not newer than the file, and a transaction belongs to one that has a step to do. A step that
is there already fails in `Commit`; since the steps are whole (`StepsAreWhole`), one that succeeds is the next after the
file's version. `AnswersHold` needs that a call waits in the queue once and only while it is "queued", and that the row of a
call that has not been executed is not in the file yet: hence an answer "ok" is that of this call, not of an earlier
one of the same caller, and no death or panic takes the row back.

### Memory

    MemoryIInv == MemoryTypeOK /\ SaysItself /\ (\A l \in Lanes : LanePlan(l))
                  /\ Gathered /\ Listed /\ Decided /\ FileGrows

A turn and a consolidation both act on what they saw some steps ago. The invariant says what is still true of it.

- `LanePlan`: what replaces another row is a preference, and the row that is about to go is not the one that was written.
  `SaysItself`: a row states the fact it was made from. So a lane that deletes the old row leaves the topic known while
  its own row is there (`ReplacingKeepsTopic`); that it need not be is the exception `Overtaken`.
- `Gathered`, `Listed`, `Decided`, for the three stages of a consolidation: a row that was shown to the model says no more than
  it did then, if it is still there (`AsShown`), because turns and flushes only make a row say less (`PlansStay`); only an earlier
  decision makes one say more, and then what it says is among the merged texts (`AsDecided`). So the text that a merge writes
  contains what both rows say at that moment, or it is a second decision about one of them and what it overwrites is in
  `merged`, from which MEMORY.md is rewritten. `DreamActsIsGood` says both of one decision.
- `FileGrows`: between the second read and the rename a person only adds, and a read gives the whole file or nothing. If the
  reads differ, the file is appended to; if they are alike and not empty, the second was the file.

`TopicSteps` goes through the steps: a row that is written keeps what was known, unless it was merged into and is told
anew (`UpsertKeepsKnown`, exception `Retold`); only a decision and the deletion of the old row take rows away. Rows are
taken in order: `NthIsOnto` shows that `RowsOf` has each row of a set once and no other. No theorem has a hypothesis beside
`MemoryAssumption`; the exceptions stand in the properties, where the run shows that each of them happens.

### The gateway

    PoolIInv == Typed /\ PoolOK /\ Holding /\ Single
                /\ (\A s \in Sockets : Wires(s) /\ Exchanges(s))
                /\ (\A r \in Requests : Sinks(r) /\ Begun(r) /\ Gapless(r))

Answers carry no name, so that a handler gets its own depends on what is under way on its connection, and that on
everything that has happened to the connection before.

- `PoolOK` and `Holding`: a connection is unused, idle once, in use by one request, or dropped, and a request holds one exactly
  while it is at work. `PermitsAddUp` is part of `PoolOK`; the lemmas `UserComes` and `UserLeaves` count who is in use.
- `Wires`: what is under way on a connection is its user's; on a dropped one it is of requests that are over, and in the pool
  there is nothing. `Single`: a request has sent into one connection only, so the daemon serves it once.
- `Sinks`: a run that still goes on streams into its request's connection or into one that is dropped. Hence a push
  never reaches a connection in the pool.
- `Exchanges`: of the run's events the handler has read the first b, the rest is on its way in order, and among them is at most
  one response, at some place q, of the type the handler waits for. A question, an answer the daemon has not pushed yet and a
  response under way exclude each other. While the daemon still pushes to the connection, what was read and what is under
  way are all events so far. `Seen` ties b to what a page has been sent: a resume holds the events that overtook its Res, and
  shows them from the first one on.

With `Exchanges` the head of the queue is the response or event b + 1 (`ReadEvent`, `HeadIsResponse`), which gives `Gapless`;
a handler that has read the run's end has read all its frames, so its connection is at rest when it goes back
(`EventKeeps`, `RequestEnds`). One lemma per action or group of actions (`ConnectKeeps`, `HelloKeeps`, `ServeKeeps`, ...) ends in one of a few that
say what a step of one request and one connection does to the whole invariant (`MoveKeeps`, `BeginKeeps`, `EndKeeps`, `StayKeeps`).

## Where code and documents disagree

The modules keep a few properties the code does not have, marked *Not kept by the code* or *What … says of …*.
Added to a copy of the cfg in the table (as INVARIANT or PROPERTY), each gives a counterexample that follows
the code.

| Property | Add to | What happens |
|---|---|---|
| `AcceptedReachesLifecycle` | SessionLane_answers | A hard abort drains queued turns and announces nothing (`session.rs:347`); `session.rs:151-152` promises whoever has a run id does not wait in vain |
| `LiveHasDiagSlot` | SessionRegistry_requests | A request respawns an actor between `remove_if` and `forget` (`registry.rs:137`), and the new actor's slot is removed; `diag.rs:72-73` says it is rebuilt |
| `PairsStayWhole` | RunDriver_run | The empty output of a tool is not stored (`run.rs:910`): its call remains without a result, a third way besides the two of `session.rs:755-756` |
| `CancelReleases` | RunDriver_run, with `SPECIFICATION StalledClientSpec` | A cancelled run that waits for room in the outbound queue (`run.rs:815`) does not end while the client neither reads nor closes; `sink.rs:47-48` says it hears an abort there |
| `NoOverlap` | RunLog_replay | A page that reloads between an entry's write and its mark (`run.rs:929`) is shown it twice; `docs/superpowers/plans/2026-09-17-resume-watermark.md:7` says that never happens |
| `ResetIsForgotten` | Transcript_context | The summary of a conversation that was reset meanwhile enters the context after the reset (`ops.rs:171`); `dispatch.rs:229-230` says it enters no prompt |
| `UpdatesArrive` | ToolBridge_gates | The update pump is aborted with updates in its channel, against `tools_bridge.rs:256` |
| `EndIsHeard`, `AbsenceIsNoticed`, `BusyMeansBusy` | Gateway_pool | A run's end pushed into a connection whose client left; a run that asks a page that is gone waits out its timeout; a request is refused although a connection is idle |
| `AnyPageIsRead` (WebPage) | Algorithms, for the topic `page` | `strip_block` indexes the page with positions of its lower case: a letter whose lower case has another length makes it cut elsewhere or panic |

Some promises are stated as far as the code keeps them: the property names the exceptions, and with an
exception taken out its run gives the counterexample.

| Property, exception | Run | What happens, against what |
|---|---|---|
| `PreferencesAreKept`: `Overtaken` | Memory_facts | Two sessions replace one preference by the other and each deletes what the other has just written, or a consolidation merges the new row away before the old one is deleted: the topic is empty. `session.rs:1168-1170` says the worst case is that both stay for a while |
| `PreferencesAreKept`: `Retold`, `DecidedTwice` | Memory_facts | A row that others were merged into is told again and its text replaced (`upsert_memory`); or a second decision writes a text composed without the first. The same comment says that no data is lost |
| `EditsAreKept`: both reads empty | Memory_facts | A file that is not UTF-8 reads as empty (`dreaming.rs:335-337`). If it did so before, or was empty, the hashes agree and the person's file is replaced, against `dreaming.rs:280-281` and `decide_write` ("differs: append, so as not to lose the other's changes") |
| `TurnHoldsRequest`: a tool's output is newest | Algorithms, `FormsInv` | The newest user message is sent with it although the conversation has it, while `adapter.rs:141-144` says that earlier messages are not re-sent |
| `SentIsAsPlanned`: no reported count | Algorithms, `LoopInv` | The plan counts tokens scaled to the provider's count, but a result is cut by characters, four per token, to which a note of 12 is added (`run.rs:408-418`). A result whose scaled size is above the limit may be too short to be cut: the plan counts as saved what is sent, while `compaction.rs:31` says such results are cut down to `prune_to_tokens` |
| `CutsDoNotMatter`: cuts inside a character | Algorithms, `ModelStreamInv` | Each packet is decoded by itself (`from_utf8_lossy`, `sse.rs:21`): a character that two packets share arrives as replacement characters, although `sse.rs:3` speaks of bytes only |
| `ShownOnce`: `again` | Algorithms, `ClientInv` | `NoOverlap` (above) from the page's side: the entry that was in the history without its mark is shown twice, against `state.js:52-54` |
| `AnswersReachTheirPrompt`: a later prompt | Algorithms, `ClientInv` | The terminal holds one approval and one question; a later one replaces it (`app.rs:471`, `:479`), and the earlier cannot be answered any more, though `docs/guides/usage.md:201` says approvals are answered with y and n. A line begun for nobody, or for an earlier question, is sent to the one that is open at Enter |
| `KillsTheSilent`: after a compaction | Algorithms, `DaemonInv` | `/compact` during a run takes its slot and leaves none (`diag.rs:245`, `:261`): the run is then judged by its age and may be stopped while it works, against `session.rs:433-434` |

`RetriesCreateOnce` says of a retry what `dispatch.rs:27` does: one that comes after the answer gets that answer. A retry
while the first attempt is at work finds nothing in the cache, which is written after the handler (`dispatch.rs:119`), and
makes a second job; that is within the model (two attempts at once) and stated by no property, since nothing in the code is
meant to prevent it.

Four operators of WebClient are kept in the same way; they are applied to `input.state` for the topic `web` of Algorithms:

| Operator | What happens |
|---|---|
| `NothingTwice` | After a stop or a broken stream a snapshot resumes the run from the water mark of a history loaded before it began (`state.js:349`): text is shown twice, which `state.js:52-54` means to prevent |
| `StreamIsKept` | Selecting a session loads its history over what its open stream has shown (`state.js:118`); what is not stored yet is gone, although `state.js:263-264` keeps the stream for the user's return |
| `StopStops` | A run stopped before its number is known, or one that was resumed (`api.js:302`), goes on in the daemon |
| `GateIsQuiet` | A history refused at the start shows the login page and then opens the ambient stream behind it (`App.vue:40-41`), against `App.vue:49` |

The same models show more of this kind, which no property states.

*Runs and sessions.*
The drain of a hard abort leaves the run logs of the drained turns: a resume is a hit on a log nobody writes to
(`session.rs:176`). A hard `/stop` goes to every session by `abort_all`, and each drains its queue, although
`registry.rs:163-164` calls it a no-op for sessions without a match. A run that panics frees the lane without a Lifecycle
event (`docs/architecture/agent-loop.md:81` says it sends an error). After a failed write the next mark of a run log
covers events that no entry holds. The last mark covers Lifecycle End: a page whose history is complete
resumes, and is never told the end. A cancelled run does not end while the provider does not answer the request for a
stream. An entry stored between flush and reset is in neither context nor memory. A compaction that ends during a
tool call puts its summary between the call and its result, and both are dropped later. The watch measures by the wall clock,
so a jump of the clock stops a run that works.

*Model streams.* A usage chunk after the finish reason is not read. An unknown finish reason counts as a stop, and a stop with a call loses the call. The
Anthropic provider sends no tools. `is_retryable` and `retry_after` are not used. A summary or rewriting whose stream
breaks off or is truncated is used as far as it came, against `summarize.rs:18` and `dreaming.rs:224`: half a file may
replace the whole of MEMORY.md.

*Gateway and connections.* A usage event has no run and is shown to every response of the session. Cancelling a queued
response leaves its waiter without an event, and the hard abort it sends drains other turns.
`previous_response_id` is forgotten by a restart and falls to the default session. An empty Anthropic delta opens an
item in the stream form only. `conn.rs:102` says a client that is too slow is disconnected; `send().await` waits. A
client skips a frame it cannot decode, so an answer it cannot decode leaves it waiting. The hand-shake accepts
any answer, and the server does not insist on it. One failing `accept` ends the daemon.

*Reminders.* A crash between claim and push costs a one-shot job its ring. A heartbeat's snapshot rings a
recurring job once that was just removed. `v += step` may overflow a byte. A job for 29 February is beyond the horizon of
366 days and stops; `cron.add` stores such a job without a word. `*/2` counts as a restriction of days, `5/10` as
the 5 alone. Two sessions with stale rows of an intent can exceed budget and cooldown.

*Memory.* Supersession looks at the oldest preference of a topic only: two that coexist stay. `upsert`
keeps tier and origin of an older row. An edit between second read and rename is lost; on Windows the file is removed before the rename.
`use_count` is never counted, so that with the default of two no episode is ever consolidated (`ops.rs:225`). Topics of preferences
are found by substring ("ide" in "video"); `detect_explicit_memory` keeps the rest of a longer trigger.

*Clients, commands and tools.* A prompt on the terminal is not taken away when its run ends. After the daemon's end the terminal's loop spins, and the queue hint
overwrites the note that it is gone. A usage that arrives after an eviction re-creates the session's entry. `/new` names
sessions by the second. Tables other than that of memories are torn by a line break or two blanks in a text. An empty
frontmatter is refused as unclosed. On the web page the questions of a resumed run are never shown (`resumeChat` has no
case for them), and one question is shared by all sessions; a refused command whose list was replaced loses its card; the tool
card of a stopped run spins on; `/session main` does not resume; an empty history reports 0, for which everything is
replayed. Skills of one name keep the order of the directory. `oc doctor` migrates without
the lock, so that one of it and a first `oc serve` fails. An edit whose old text begins with a line break leaves mixed
line ends in a CRLF file (`tools.rs:395`); overlapping occurrences count once. Entities are decoded twice ("&amp;amp;lt;").

## Only model-checked, not modelled

**Only model-checked.**

- The liveness properties: fairness and ENABLED are outside of the prover.
- The modules under Algorithms. They declare recursive operators over their inputs, and what these compute for
  every input needs an induction the provers cannot do; the runs enumerate inputs instead.

**Abstracted.** Time: an actor may be idle for long enough or not, a timer may fire at any moment after it was set
(Reminders, Calendar, Intents and Watch have clocks). Texts are sequences of a few pieces; tokens are sizes, and a budget may
cut anywhere. ContextPlan scales a message's tokens exactly, where the code rounds a double. What a failed write costs: in the modules of sessions and runs writes fail one at a time, the death of the
writer is Store's. SQLite's transactions, tokio's channels and the file system are external and do what they promise.

**Not modelled, and why.** The wire format, sockets, login and assets of both servers; the tools that are one call of the
system; tables of models and providers, configuration, set-up dialogues and argument parsing; the wording of prompts
and of commands; the words `detect_explicit_memory` looks for; rendering, and of the web page the questions of a run, notices
and usage. They are conversions, I/O or
tables without interleavings; what of them has a case worth stating (tables that are parsed again, a response's two
forms, a page's text) is in Algorithms. `testing.rs` and `mock.rs` are for the tests.

## Plan

Done, in this order, the most important behaviour first: SerialLane, SessionLane, its proofs and its refinement,
SessionRegistry and its proofs, RunLog, RunDriver, Transcript; ToolBridge with TaskLedger, Gateway, Reminders, Memory, Store; the
sequential parts under Algorithms.

To do, modules: RunDriver with ToolBridge in the place of its tool, to check `EndsInTime` with tools that ask; a resume in
Gateway over RunLog's ring.

To do, theorems: `TopicStays` without its exceptions, once the replacement of a preference is one transaction; and that the
gateway's relay implements a queue per page.
