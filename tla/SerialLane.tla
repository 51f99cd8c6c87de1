------------------------------ MODULE SerialLane ------------------------------
(***************************************************************************)
(* What a session's lane promises to the people who talk to it, without    *)
(* mailboxes, run tasks or a store thread: the accepted turns are served   *)
(* one at a time, in the order in which they were accepted, and everything *)
(* a turn writes to the conversation comes after the last entry of the     *)
(* turn before it and before the first entry of the turn after it.         *)
(* docs/architecture/agent-loop.md, "one lane per session".                *)
(***************************************************************************)
EXTENDS Naturals, Sequences

CONSTANTS Turns,  \* the turns users may submit, one per run id
          None    \* not a turn

VARIABLES waiting,  \* accepted turns that have not been started, oldest first
          current,  \* the turn being served, or None
          log       \* the entries issued for the conversation, <<turn, role>>

vars == <<waiting, current, log>>

Roles == {"user", "assistant"}
Entry == Turns \X Roles

Init == /\ waiting = <<>>
        /\ current = None
        /\ log = <<>>

(* A turn is put at the end of the line. *)
Accept(t) == /\ waiting' = Append(waiting, t)
             /\ UNCHANGED <<current, log>>

(* Serving a turn opens with what its user said. *)
Open(t) == /\ current = None
           /\ current' = t
           /\ log' = Append(log, <<t, "user">>)

(* Nobody is served and nobody waits: the turn is served at once. *)
AcceptAndOpen(t) == /\ waiting = <<>>
                    /\ Open(t)
                    /\ UNCHANGED waiting

(* The longest-waiting turn is served next. *)
OpenNext == /\ waiting # <<>>
            /\ Open(Head(waiting))
            /\ waiting' = Tail(waiting)

(* Only the turn being served writes. *)
Write == /\ current # None
         /\ log' = Append(log, <<current, "assistant">>)
         /\ UNCHANGED <<waiting, current>>

Close == /\ current # None
         /\ current' = None
         /\ UNCHANGED <<waiting, log>>

(* A hard abort empties the line. *)
Drop == /\ waiting' = <<>>
        /\ UNCHANGED <<current, log>>

(* The store may fail to keep an entry; the others keep their order. *)
Lose(i) == /\ i \in DOMAIN log
           /\ log' = SubSeq(log, 1, i - 1) \o SubSeq(log, i + 1, Len(log))
           /\ UNCHANGED <<waiting, current>>

Next == \/ \E t \in Turns : Accept(t) \/ AcceptAndOpen(t)
        \/ OpenNext
        \/ Write
        \/ Close
        \/ Drop
        \/ \E i \in DOMAIN log : Lose(i)

Spec == Init /\ [][Next]_vars
===============================================================================
