---------------------------------- MODULE Store ----------------------------------
(***************************************************************************)
(* The database file and the processes that open it (oc-store: migrate.rs, *)
(* writer.rs, reader.rs, lib.rs; oc-cli: lock.rs, main.rs, doctor.rs).     *)
(*                                                                         *)
(* A server takes the single-instance lock, migrates the file step by step *)
(* and then runs one writer thread, which executes every write, and a pool *)
(* of read connections.  `oc doctor' migrates the same file without taking *)
(* the lock.  Any process may die at any moment, and the writer thread may *)
(* panic inside a command.  SQLite is external: a transaction is all or    *)
(* nothing and one process at a time holds the write lock.                 *)
(***************************************************************************)
EXTENDS Integers, Sequences, FiniteSets

CONSTANTS
  Servers,    \* the processes `oc serve'
  Doctor,     \* the process `oc doctor'
  Callers,    \* tasks of a server that use the store
  Target,     \* TARGET_VERSION
  MaxIdle,    \* MAX_IDLE, the resident read connections
  MaxStarts,  \* bound: starts of each process
  MaxCalls,   \* bound: calls of each caller
  None        \* absence of a value

Processes == Servers \cup {Doctor}

ASSUME StoreAssumption ==
  /\ Target \in Nat \ {0} /\ MaxIdle \in Nat /\ MaxStarts \in Nat /\ MaxCalls \in Nat
  /\ Doctor \notin Servers /\ None \notin Processes

VARIABLES
  disk,     \* the file: version, the steps applied, whether its tables are those of today's
            \* step 1, the rows committed
  lock,     \* the holder of oc.lock, or None
  tx,       \* the process with an open write transaction, or None
  phase,    \* what each process is doing
  seen,     \* run_migrations' current, in each process
  starts,   \* starts left
  alive,    \* the writer's health flag
  thread,   \* the writer thread: "idle", "busy", "unwinding" or "dead"
  queue,    \* its command queue; the head is being executed while the thread is busy
  calls,    \* each caller's latest call
  made,     \* how many calls it has made
  idle,     \* read connections resting in the pool
  acked     \* rows whose writers were told Ok

server == <<alive, thread, queue, calls, made, idle, acked>>
storeVars == <<disk, lock, tx, phase, seen, starts, server>>

(* The writer's commands, as far as they differ here: a row of the transcript, a row of a table
   that only today's step 1 creates, and the probe that writes nothing. *)
Commands == {"entry", "memory", "ping"}
NoCall == [kind |-> None, row |-> 0, stage |-> "ended"]
RowOf(c) == <<c, calls[c].row>>
Rows(c) == IF calls[c].kind = "ping" THEN {} ELSE {RowOf(c)}

StoreInit ==
  /\ \E v \in 0..(Target + 1), today \in BOOLEAN :
       /\ v = 0 => today
       /\ disk = [version |-> v, steps |-> 1..(IF v > Target THEN Target ELSE v),
                  today |-> today, rows |-> {}]
  /\ lock = None /\ tx = None
  /\ phase = [p \in Processes |-> "down"] /\ seen = [p \in Processes |-> 0]
  /\ starts = [p \in Processes |-> MaxStarts]
  /\ alive = FALSE /\ thread = "dead" /\ queue = <<>>
  /\ calls = [c \in Callers |-> NoCall] /\ made = [c \in Callers |-> 0]
  /\ idle = 0 /\ acked = {}

Up == \E s \in Servers : phase[s] = "up"

-------------------------------------------------------------------------------
(* Starting.                                                                 *)

(* A slip: the lock is not looked at. *)
LockAnyway(s) == TRUE
LockIsFree(s) == lock = None

(* lock::acquire: a second server gives up at once. *)
Acquire(s) ==
  /\ phase[s] = "down" /\ starts[s] > 0
  /\ starts' = [starts EXCEPT ![s] = @ - 1]
  /\ IF LockIsFree(s) THEN lock' = s /\ phase' = [phase EXCEPT ![s] = "opening"]
     ELSE UNCHANGED <<lock, phase>>
  /\ UNCHANGED <<disk, tx, seen, server>>

(* doctor::run: no lock. *)
StartDoctor ==
  /\ phase[Doctor] = "down" /\ starts[Doctor] > 0
  /\ starts' = [starts EXCEPT ![Doctor] = @ - 1]
  /\ phase' = [phase EXCEPT ![Doctor] = "opening"]
  /\ UNCHANGED <<disk, lock, tx, seen, server>>

Unlock(p) == lock' = IF lock = p THEN None ELSE lock

(* A process that cannot open the file ends; nothing else is changed. *)
GiveUp(p) == /\ phase' = [phase EXCEPT ![p] = "down"]
             /\ Unlock(p)
             /\ tx' = IF tx = p THEN None ELSE tx

(* run_migrations reads user_version; a file of a later version is refused. *)
ReadVersion(p) ==
  /\ phase[p] = "opening"
  /\ IF disk.version > Target
     THEN GiveUp(p) /\ UNCHANGED seen
     ELSE /\ seen' = [seen EXCEPT ![p] = disk.version]
          /\ phase' = [phase EXCEPT ![p] = "migrating"]
          /\ UNCHANGED <<lock, tx>>
  /\ UNCHANGED <<disk, starts, server>>

(* A slip: the version is written ahead of the transaction. *)
BeginAfterVersion(p) == disk' = [disk EXCEPT !.version = seen[p] + 1]
BeginStep(p) == UNCHANGED disk

(* The transaction of one step takes the write lock; while another process holds it, this one
   waits, or gives up after busy_timeout. *)
Begin(p) ==
  /\ phase[p] = "migrating" /\ seen[p] < Target
  /\ IF tx = None THEN tx' = p /\ BeginStep(p) /\ UNCHANGED <<lock, phase>>
     ELSE tx # p /\ GiveUp(p) /\ UNCHANGED disk
  /\ UNCHANGED <<seen, starts, server>>

(* A slip: tables that exist already do not stop a step. *)
AppliesAlways(n) == TRUE
Applies(n) == n \notin disk.steps

(* step: CREATE TABLE and ADD COLUMN fail where somebody else was faster, and the transaction is
   rolled back; otherwise tables and version are committed together. *)
Commit(p) ==
  /\ tx = p /\ phase[p] = "migrating"
  /\ LET next == seen[p] + 1
     IN  IF Applies(next)
         THEN /\ disk' = [disk EXCEPT !.version = next, !.steps = @ \cup {next}]
              /\ seen' = [seen EXCEPT ![p] = next]
              /\ tx' = None /\ UNCHANGED <<lock, phase>>
         ELSE GiveUp(p) /\ UNCHANGED <<disk, seen>>
  /\ UNCHANGED <<starts, server>>

(* Writer::spawn returns: the server accepts connections. *)
Ready(s) ==
  /\ s \in Servers /\ phase[s] = "migrating" /\ seen[s] = Target
  /\ phase' = [phase EXCEPT ![s] = "up"]
  /\ alive' = TRUE /\ thread' = "idle" /\ queue' = <<>> /\ idle' = 0
  /\ UNCHANGED <<disk, lock, tx, seen, starts, calls, made, acked>>

(* A slip: the version alone is trusted. *)
VersionSuffices == TRUE
CheckShape == disk.today

(* doctor: check_shape looks at the tables, not at the version. *)
Report ==
  /\ phase[Doctor] = "migrating" /\ seen[Doctor] = Target
  /\ phase' = [phase EXCEPT ![Doctor] = IF CheckShape THEN "passed" ELSE "objected"]
  /\ UNCHANGED <<disk, lock, tx, seen, starts, server>>

(* A process dies, or the server is told to stop, which it does without emptying the writer's
   queue.  The system releases what it held; its callers are gone with it. *)
Die(p) ==
  /\ phase[p] \notin {"down", "passed", "objected"}
  /\ GiveUp(p)
  /\ IF phase[p] = "up"
     THEN /\ alive' = FALSE /\ thread' = "dead" /\ queue' = <<>> /\ idle' = 0
          /\ calls' = [c \in Callers |-> NoCall]
          /\ UNCHANGED <<made, acked>>
     ELSE UNCHANGED server
  /\ UNCHANGED <<disk, seen, starts>>

-------------------------------------------------------------------------------
(* Writes.                                                                   *)

inServer == UNCHANGED <<lock, tx, phase, seen, starts>>
Stage(c, s) == calls' = [calls EXCEPT ![c].stage = s]

FirstStage == IF alive THEN "checked" ELSE "dead"

MayCall(c) == Up /\ calls[c].stage \in {"ended", "ok", "failed", "dead"} /\ made[c] < MaxCalls

(* writer_call and Writer::send, up to the look at the health flag. *)
Call(c, kind) ==
  /\ MayCall(c)
  /\ made' = [made EXCEPT ![c] = @ + 1]
  /\ calls' = [calls EXCEPT ![c] = [kind |-> kind, row |-> made[c] + 1, stage |-> FirstStage]]
  /\ UNCHANGED <<disk, alive, thread, queue, idle, acked>> /\ inServer

(* The rest of send: the channel may have been closed meanwhile. *)
Enqueue(c) ==
  /\ calls[c].stage = "checked"
  /\ IF thread = "dead" THEN Stage(c, "dead") /\ UNCHANGED queue
     ELSE Stage(c, "queued") /\ queue' = Append(queue, c)
  /\ UNCHANGED <<disk, alive, thread, made, idle, acked>> /\ inServer

Receive ==
  /\ Up /\ thread = "idle" /\ queue # <<>>
  /\ thread' = "busy"
  /\ UNCHANGED <<disk, alive, queue, calls, made, idle, acked>> /\ inServer

Done == thread' = "idle" /\ queue' = Tail(queue)

(* A slip: the answer does not wait for the row. *)
AnswerEarly(c) == UNCHANGED disk
Write(c) == disk' = [disk EXCEPT !.rows = @ \cup Rows(c)]

(* run_loop: the operation is executed and its outcome sent to the caller. *)
Execute ==
  /\ Up /\ thread = "busy"
  /\ LET c == Head(queue)
     IN  /\ tx = None \/ calls[c].kind = "ping"
         /\ calls[c].kind = "memory" => disk.today
         /\ Write(c)
         /\ Stage(c, "ok") /\ acked' = acked \cup Rows(c)
  /\ Done
  /\ UNCHANGED <<alive, made, idle>> /\ inServer

(* The operation fails: a table is missing, the file is locked for too long, the disk is full. *)
ExecuteFails ==
  /\ Up /\ thread = "busy" /\ calls[Head(queue)].kind # "ping"
  /\ Stage(Head(queue), "failed")
  /\ Done
  /\ UNCHANGED <<disk, alive, made, idle, acked>> /\ inServer

(* The thread panics inside an operation.  Its guard takes the flag down; the channel and what
   it holds go only after that. *)
Panic ==
  /\ Up /\ thread = "busy"
  /\ alive' = FALSE /\ thread' = "unwinding"
  /\ Stage(Head(queue), "dead")
  /\ queue' = Tail(queue)
  /\ UNCHANGED <<disk, made, idle, acked>> /\ inServer

(* A slip: the reply channels of buffered commands survive their queue. *)
DropSilently == UNCHANGED calls
DropReplies == calls' = [c \in Callers |-> IF calls[c].stage = "queued"
                                           THEN [calls[c] EXCEPT !.stage = "dead"] ELSE calls[c]]

DropChannel ==
  /\ Up /\ thread = "unwinding"
  /\ thread' = "dead" /\ queue' = <<>>
  /\ DropReplies
  /\ UNCHANGED <<disk, alive, made, idle, acked>> /\ inServer

-------------------------------------------------------------------------------
(* Reads.                                                                    *)

TakeIdle == IF idle > 0 THEN idle - 1 ELSE idle

(* Store's reads need neither the writer nor its flag: a connection of the
   pool is taken, or a new one is opened. *)
Read(c) ==
  /\ MayCall(c)
  /\ made' = [made EXCEPT ![c] = @ + 1]
  /\ calls' = [calls EXCEPT ![c] = [kind |-> "read", row |-> made[c] + 1, stage |-> "reading"]]
  /\ idle' = TakeIdle
  /\ UNCHANGED <<disk, alive, thread, queue, acked>> /\ inServer

(* A slip: every connection is kept. *)
KeepAll == idle + 1
PutIdle == IF idle < MaxIdle THEN idle + 1 ELSE idle

(* Reader::read: the closure has run, well or not, and the connection goes back. *)
FinishRead(c) ==
  /\ calls[c].stage = "reading"
  /\ \E outcome \in {"ok", "failed"} : Stage(c, outcome)
  /\ idle' = PutIdle
  /\ UNCHANGED <<disk, alive, thread, queue, made, acked>> /\ inServer

(* The closure panics: its connection is lost, and nothing else. *)
ReadPanics(c) ==
  /\ calls[c].stage = "reading"
  /\ Stage(c, "failed")
  /\ UNCHANGED <<disk, alive, thread, queue, made, idle, acked>> /\ inServer

-------------------------------------------------------------------------------
StoreNext == \/ \E s \in Servers : Acquire(s) \/ Ready(s)
             \/ StartDoctor \/ Report
             \/ \E p \in Processes : ReadVersion(p) \/ Begin(p) \/ Commit(p) \/ Die(p)
             \/ \E c \in Callers, k \in Commands : Call(c, k)
             \/ \E c \in Callers : Enqueue(c) \/ Read(c) \/ FinishRead(c) \/ ReadPanics(c)
             \/ Receive \/ Execute \/ ExecuteFails \/ Panic \/ DropChannel

StoreSpec == StoreInit /\ [][StoreNext]_storeVars

(* A server's threads and tasks keep running while it lives. *)
Fairness ==
  /\ WF_storeVars(Receive) /\ WF_storeVars(DropChannel)
  /\ WF_storeVars(Execute \/ ExecuteFails \/ Panic)
  /\ \A c \in Callers : WF_storeVars(Enqueue(c)) /\ WF_storeVars(FinishRead(c) \/ ReadPanics(c))
FairSpec == StoreSpec /\ Fairness

-------------------------------------------------------------------------------
(* Properties.                                                               *)

StoreTypeOK ==
  /\ disk.version \in 0..(Target + 1) /\ disk.steps \subseteq 1..Target /\ disk.today \in BOOLEAN
  /\ lock \in Servers \cup {None} /\ tx \in Processes \cup {None}
  /\ thread \in {"idle", "busy", "unwinding", "dead"} /\ queue \in Seq(Callers)
  /\ idle \in Nat /\ acked \subseteq Callers \X (1..MaxCalls)

(* migrate.rs: whoever dies or collides with whom, the version names exactly the steps the file
   has, and a server serves nothing but a file of its own version. *)
SchemaIsWhole ==
  /\ disk.version <= Target => disk.steps = 1..disk.version
  /\ Up => disk.version = Target

(* lock.rs: two servers are never inside the file together. *)
OneServer == Cardinality({s \in Servers : phase[s] # "down"}) <= 1

(* writer.rs: what a caller was told is stored survives panics, deaths and restarts, and what it
   was told is not, is not: a retry does not write it twice. *)
AnswersHold ==
  /\ acked \subseteq disk.rows
  /\ \A c \in Callers : calls[c].stage \in {"failed", "dead"} => RowOf(c) \notin disk.rows

(* doctor.rs: after its "all checks passed" no table is missing, even where the version number
   says nothing. *)
DoctorIsRight == phase[Doctor] = "passed" => disk.today /\ disk.version = Target

(* writer.rs: a call that saw the flag up while the writer died is still answered, because its
   queue dies with the thread; reader.rs: the pool rests at MAX_IDLE connections at most. *)
StoreInv == StoreTypeOK /\ SchemaIsWhole /\ OneServer /\ AnswersHold /\ DoctorIsRight /\ idle <= MaxIdle

(* writer.rs, reader.rs: whoever calls the store gets an answer or an error, also from a writer
   that died with the call in its queue. *)
EveryCallEnds ==
  \A c \in Callers : calls[c].stage \in {"checked", "queued", "reading"}
                       ~> calls[c].stage \in {"ended", "ok", "failed", "dead"}
===============================================================================
