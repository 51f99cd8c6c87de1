----------------------------- MODULE TranscriptMC -----------------------------
(* Model values for the compactions of Transcript. *)
EXTENDS Transcript, TLC

CONSTANTS t1, t2

TasksSym == Permutations({t1, t2})
===============================================================================
