----------------------------- MODULE SessionLaneMC -----------------------------
(* Small instances of SessionLane for TLC. *)
EXTENDS SessionLane, TLC

(* Turns of the same kind are interchangeable (safety runs only). *)
SameKind == Permutations(Turns \cap Detached) \cup Permutations(Turns \ Detached)
===============================================================================
