-------------------------------- MODULE MemoryMC --------------------------------
(* Instance of Memory for TLC. *)
EXTENDS Memory, TLC

CONSTANTS p1, p2, e1, e2, u1, l1, l2

(* Sessions are interchangeable. *)
SameLanes == Permutations(Lanes)

===============================================================================
