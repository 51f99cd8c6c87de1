-------------------------------- MODULE RunLog --------------------------------
(***************************************************************************)
(* The event log of a Detached run (oc-server/src/run_log.rs): a bounded   *)
(* ring of the run's inline events with marks that say which of them are   *)
(* in the store, so that a page that reloads can continue the stream where *)
(* its history ends.                                                       *)
(*                                                                         *)
(* The run driver pushes events and persists entries in turn (run.rs); the *)
(* writer thread stores an entry one step before the driver learns of it   *)
(* and sets the mark.  A page loads its history, then resumes: the session *)
(* actor looks the log up and subscribes it, and a forwarder task sends    *)
(* what the subscription holds (session.rs, forward_run_log).              *)
(*                                                                         *)
(* An event is known by its position in the stream; an entry by its        *)
(* sequence number in the session.                                         *)
(***************************************************************************)
EXTENDS Naturals, Sequences, FiniteSetsExt

CONSTANTS
  Pages,         \* browser pages, each of which reloads once
  Cap,           \* capacity of the ring (1024 in the code)
  MaxEvents,     \* bound: events of the run
  MaxEntries,    \* bound: entries of the session written during the run
  MaxFailures    \* bound: entries the store fails to write

ASSUME RunLogAssumption ==
  /\ Cap \in Nat \ {0}
  /\ MaxEvents \in Nat \ {0} /\ MaxEntries \in Nat \ {0} /\ MaxFailures \in Nat

VARIABLES
  driver,   \* the run driver: "emit", "final" after a terminal event, "done"
  storing,  \* the entry it waits for: "no", "queued" or "stored"
  orphan,   \* an entry whose waiting driver was dropped is still queued
  stream,   \* kind of every event pushed so far: "text", "reasoning", "terminal"
  buf,      \* Inner.buf: positions of the events in the ring
  marks,    \* Inner.marks: (entry seq, events pushed) pairs
  subs,     \* Inner.subs: the pages subscribed
  covered,  \* events whose content the driver has handed to the store so far
  entries,  \* the session's entries: the events each one holds the content of
  failures, \* entries the store may still fail to write
  open,     \* run_logs still holds the log
  page,     \* where a page stands
  since,    \* the newest entry of the history it loaded
  queue,    \* its subscription's channel
  received  \* events its forwarder has sent it

driverVars == <<driver, storing, orphan, covered, failures>>
logVars    == <<stream, buf, marks, subs>>
pageVars   == <<page, since, queue, received>>
vars == <<driverVars, logVars, entries, open, pageVars>>

Pushed == Len(stream)
Positions == 1..MaxEvents
Elements(s) == {s[i] : i \in DOMAIN s}
Content(i) == stream[i] = "text"

Init == /\ driver = "emit" /\ storing = "no" /\ orphan = FALSE
        /\ stream = <<>> /\ buf = <<>> /\ marks = <<>> /\ subs = {}
        /\ covered = 0 /\ failures = MaxFailures
        /\ entries = << {} >>      \* begin_run has stored the user's message
        /\ open = TRUE
        /\ page = [p \in Pages |-> "away"]
        /\ since = [p \in Pages |-> 0]
        /\ queue = [p \in Pages |-> <<>>]
        /\ received = [p \in Pages |-> <<>>]

-------------------------------------------------------------------------------
(* The run driver.                                                          *)

(* A slip: the capacity is compared with the wrong side of the append. *)
IntoRingLate(n) == Append(IF Len(buf) > Cap THEN Tail(buf) ELSE buf, n)

IntoRing(n) == Append(IF Len(buf) = Cap THEN Tail(buf) ELSE buf, n)

(* RunLog::push, under the log's lock; a subscription whose forwarder has
   gone is dropped on this occasion. *)
Push(kind) ==
  LET n == Pushed + 1
      listening == {p \in subs : page[p] = "following"}
  IN  /\ stream' = Append(stream, kind)
      /\ buf' = IntoRing(n)
      /\ subs' = listening
      /\ queue' = [p \in Pages |-> IF p \in listening THEN Append(queue[p], n)
                                                      ELSE queue[p]]
      /\ UNCHANGED marks

Emit ==
  /\ driver = "emit" /\ storing = "no" /\ Pushed < MaxEvents - 1
  /\ \E kind \in {"text", "reasoning"} : Push(kind)
  /\ UNCHANGED <<driverVars, entries, open, page, since, received>>

(* Lifecycle End: pushed before the last entry is written.  A Lifecycle Error
   ends the run at once. *)
EmitTerminal ==
  /\ driver = "emit" /\ storing = "no"
  /\ Push("terminal")
  /\ driver' \in {"final", "done"}
  /\ UNCHANGED <<storing, orphan, covered, failures, entries, open, page, since, received>>

(* persist, up to its await; an entry with neither text nor a tool call is
   not written. *)
Persist ==
  /\ driver \in {"emit", "final"} /\ storing = "no"
  /\ Len(entries) < MaxEntries
  /\ \E i \in (covered + 1)..Pushed : Content(i)
  /\ storing' = "queued"
  /\ UNCHANGED <<driver, orphan, covered, failures, logVars, entries, open, pageVars>>

NothingToPersist ==
  /\ driver = "final" /\ storing = "no"
  /\ driver' = "done"
  /\ UNCHANGED <<storing, orphan, covered, failures, logVars, entries, open, pageVars>>

(* run_timeout drops the driver and announces the timeout itself; an entry it
   was waiting for stays in the writer's queue. *)
Timeout ==
  /\ driver # "done" /\ Pushed < MaxEvents
  /\ Push("terminal")
  /\ driver' = "done"
  /\ orphan' = (storing = "queued")
  /\ storing' = "no"
  /\ UNCHANGED <<covered, failures, entries, open, page, since, received>>

NextEntry == {i \in (covered + 1)..Pushed : Content(i)}

(* The writer thread. *)
Store ==
  /\ storing = "queued" \/ orphan
  /\ entries' = Append(entries, NextEntry)
  /\ storing' = IF orphan THEN "no" ELSE "stored"
  /\ orphan' = FALSE
  /\ covered' = Pushed
  /\ UNCHANGED <<driver, failures, logVars, open, pageVars>>

AfterPersist == driver' = IF driver = "final" THEN "done" ELSE driver

(* A failed write is only logged; the driver goes on. *)
StoreFails ==
  /\ storing = "queued" \/ orphan
  /\ failures > 0
  /\ failures' = failures - 1
  /\ storing' = "no" /\ orphan' = FALSE
  /\ covered' = Pushed
  /\ AfterPersist
  /\ UNCHANGED <<logVars, entries, open, pageVars>>

(* Only the last run entry can be without its mark, so it is the newest one
   that is not a summary. *)
LastStored == Max({s \in DOMAIN entries : s = 1 \/ entries[s] # {}})

(* RunLog::mark_persisted. *)
Mark ==
  /\ storing = "stored"
  /\ marks' = Append(marks, [seq |-> LastStored, at |-> Pushed])
  /\ storing' = "no"
  /\ AfterPersist
  /\ UNCHANGED <<orphan, covered, failures, stream, buf, subs, entries, open, pageVars>>

(* A summary written by a compaction goes to the end of the session. *)
StoreSummary ==
  /\ Len(entries) + (IF storing = "queued" \/ orphan THEN 1 ELSE 0) < MaxEntries
  /\ entries' = Append(entries, {})
  /\ UNCHANGED <<driverVars, logVars, open, pageVars>>

(* A slip: the sink is taken out of its map and the log is not. *)
KeepLog == UNCHANGED open

DropLog == open' = FALSE

(* SessionCmd::Finished. *)
Finish ==
  /\ driver = "done" /\ open
  /\ DropLog
  /\ UNCHANGED <<driverVars, logVars, entries, pageVars>>

-------------------------------------------------------------------------------
(* Pages.                                                                   *)

LoadHistory(p) ==
  /\ page[p] = "away"
  /\ since' = [since EXCEPT ![p] = Len(entries)]
  /\ page' = [page EXCEPT ![p] = "loaded"]
  /\ UNCHANGED <<driverVars, logVars, entries, open, queue, received>>

(* Slips: the first mark that fits; positions counted in the ring as if none
   had been dropped from it. *)
FirstMark(s) == LET fit == {i \in DOMAIN marks : marks[i].seq <= s}
                IN  IF fit = {} THEN 0 ELSE marks[Min(fit)].at
SkipAsIfComplete(n) == n

(* The last mark at or before entry s. *)
ReplayFrom(s) == LET fit == {i \in DOMAIN marks : marks[i].seq <= s}
                 IN  IF fit = {} THEN 0 ELSE marks[Max(fit)].at

(* How many elements of the ring to skip, by a saturating subtraction. *)
Skip(n) == LET start == Pushed - Len(buf) IN IF n > start THEN n - start ELSE 0

(* A set of places in their order, and what a sequence has there. *)
InOrder(D) == [k \in 1..Cardinality(D) |->
                 CHOOSE i \in D : Cardinality({j \in D : j < i}) = k - 1]
Picked(s, D) == [k \in 1..Cardinality(D) |-> s[InOrder(D)[k]]]

(* RunLog::subscribe_from: replay and registration under one lock.  Reasoning
   is not replayed. *)
Replay(s) == Picked(buf, {k \in DOMAIN buf : /\ k > Skip(ReplayFrom(s))
                                             /\ stream[buf[k]] # "reasoning"})

(* SessionCmd::Resume. *)
Resume(p) ==
  /\ page[p] = "loaded"
  /\ IF open
     THEN /\ queue' = [queue EXCEPT ![p] = Replay(since[p])]
          /\ subs' = subs \cup {p}
          /\ page' = [page EXCEPT ![p] = "following"]
     ELSE /\ page' = [page EXCEPT ![p] = "missed"]
          /\ UNCHANGED <<queue, subs>>
  /\ UNCHANGED <<driverVars, stream, buf, marks, entries, open, since, received>>

(* forward_run_log: stop after a terminal event. *)
Forward(p) ==
  /\ page[p] = "following" /\ queue[p] # <<>>
  /\ LET i == Head(queue[p])
     IN  /\ received' = [received EXCEPT ![p] = Append(@, i)]
         /\ page' = [page EXCEPT ![p] = IF stream[i] = "terminal" THEN "told" ELSE @]
  /\ queue' = [queue EXCEPT ![p] = Tail(@)]
  /\ UNCHANGED <<driverVars, logVars, entries, open, since>>

(* The channel is empty and its sender went with the log. *)
ForwarderEnds(p) ==
  /\ page[p] = "following" /\ queue[p] = <<>>
  /\ ~open
  /\ page' = [page EXCEPT ![p] = "closed"]
  /\ UNCHANGED <<driverVars, logVars, entries, open, since, queue, received>>

(* The page is closed: the forwarder's send fails and its channel goes. *)
Leave(p) ==
  /\ page[p] = "following" /\ queue[p] # <<>>
  /\ page' = [page EXCEPT ![p] = "left"]
  /\ queue' = [queue EXCEPT ![p] = <<>>]
  /\ UNCHANGED <<driverVars, logVars, entries, open, since, received>>

Page(p) == LoadHistory(p) \/ Resume(p) \/ Forward(p) \/ ForwarderEnds(p) \/ Leave(p)

-------------------------------------------------------------------------------
(* The run is over and every page has what it will get. *)
Over == /\ ~open /\ ~orphan
        /\ \A p \in Pages : page[p] \in {"told", "closed", "missed", "left"}
        /\ UNCHANGED vars

Driver == Emit \/ EmitTerminal \/ Persist \/ NothingToPersist \/ Mark \/ Timeout

Next == Driver \/ Store \/ StoreFails \/ StoreSummary \/ Finish \/ Over
        \/ \E p \in Pages : Page(p)

Spec == Init /\ [][Next]_vars

(* A run ends, at the latest by its timeout; the actor is told so; the
   forwarders are polled. *)
FairSpec == Spec /\ WF_vars(EmitTerminal \/ Persist \/ NothingToPersist \/ Mark \/ Timeout)
                 /\ WF_vars(Store) /\ WF_vars(Finish)
                 /\ \A p \in Pages : WF_vars(Forward(p)) /\ WF_vars(ForwarderEnds(p))

-------------------------------------------------------------------------------
(* Properties.                                                              *)

Sent(p) == Elements(received[p]) \cup Elements(queue[p])
InHistory(p) == UNION {entries[s] : s \in 1..since[p]}
Following == {p \in Pages : page[p] \in {"following", "told"}}

(* Every variable has its type. *)
TypeOK ==
  /\ driver \in {"emit", "final", "done"}
  /\ storing \in {"no", "queued", "stored"}
  /\ orphan \in BOOLEAN /\ open \in BOOLEAN
  /\ stream \in Seq({"text", "reasoning", "terminal"}) /\ Pushed <= MaxEvents
  /\ buf \in Seq(Positions) /\ Len(buf) <= Cap
  /\ marks \in Seq([seq : 1..MaxEntries, at : Positions])
  /\ entries \in Seq(SUBSET Positions) /\ Len(entries) <= MaxEntries
  /\ subs \subseteq Pages
  /\ covered \in 0..MaxEvents /\ failures \in 0..MaxFailures
  /\ page \in [Pages -> {"away", "loaded", "following", "told", "closed", "missed", "left"}]
  /\ since \in [Pages -> 0..MaxEntries]
  /\ queue \in [Pages -> Seq(Positions)] /\ received \in [Pages -> Seq(Positions)]

(* run_log.rs:4: whatever a page's history does not hold is replayed to it or
   reaches it live, however reload, resume, writes and summaries cross; it
   misses only what the ring had dropped.  A write that failed is covered by
   the next mark all the same (run.rs:930), and then this does not hold. *)
NoHole ==
  failures = MaxFailures =>
    \A p \in Following, i \in 1..Pushed :
      Content(i) /\ i \notin InHistory(p) \cup Sent(p) => i + Cap <= Pushed

(* run_log.rs:105 allows an overlap.  It is never more than one entry: what a
   page is shown twice, by its history and by the replay, is the content of the
   one whose mark was not set when the page resumed. *)
RepeatsOneEntry ==
  \A p \in Following :
    \A s, r \in 1..since[p] :
      entries[s] \cap Sent(p) # {} /\ entries[r] \cap Sent(p) # {} => s = r

(* A forwarder ends with its run: it never waits on a log that nobody will
   write to any more. *)
ForwarderFinishes == \A p \in Pages : page[p] = "following" ~> page[p] # "following"

(* What a page that reloads is shown: all of it, and no more than one entry twice. *)
LogInv == TypeOK /\ NoHole /\ RepeatsOneEntry

(* Not kept by the code between an entry's write and its mark (see README).
   docs/superpowers/plans/2026-09-17-resume-watermark.md:7 says that nothing is
   shown twice, independent of when the page loads and resumes. *)
NoOverlap == \A p \in Following : Sent(p) \cap InHistory(p) = {}
===============================================================================
