--------------------------- MODULE SessionRegistryMC ---------------------------
(* Small instances of SessionRegistry for TLC. *)
EXTENDS SessionRegistry, TLC
CONSTANTS main, side, c1, c2, c3

(* Requests that race for the evictable session. *)
ThreeToSide == (c1 :> side) @@ (c2 :> side) @@ (c3 :> side)
===============================================================================
