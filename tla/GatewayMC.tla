------------------------------- MODULE GatewayMC -------------------------------
(* Instance of Gateway for TLC. *)
EXTENDS Gateway

CONSTANTS r1, r2

===============================================================================
