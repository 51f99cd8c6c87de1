------------------------------- MODULE AlgorithmsMC -------------------------------
(* How long the inputs of each topic may become. *)
EXTENDS Algorithms

LengthsSmall ==
  [context |-> 6, events |-> 5, items |-> 4, requests |-> 3, bytes |-> 4, characters |-> 5, payloads |-> 5,
   anthropic |-> 5, text |-> 5, rows |-> 3, entries |-> 5, schedule |-> 1, range |-> 1,
   signals |-> 6, file |-> 6, list |-> 3, memories |-> 2, intents |-> 7, screen |-> 5, commands |-> 6,
   watch |-> 9, wire |-> 1, web |-> 1, lines |-> 5,
   skills |-> 3, calls |-> 5, page |-> 5]
===============================================================================
