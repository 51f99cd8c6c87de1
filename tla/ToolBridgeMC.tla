------------------------------ MODULE ToolBridgeMC ------------------------------
(* Instance of ToolBridge for TLC. *)
EXTENDS ToolBridge

FirstCalls == 1..MaxCalls

(* A terminal with an approval timeout, a page without one, and the two modes
   that never ask. *)
TriedSetups ==
  { [detached |-> FALSE, mode |-> "Prompt", limit |-> TRUE],
    [detached |-> TRUE, mode |-> "Prompt", limit |-> FALSE],
    [detached |-> FALSE, mode |-> "Allow", limit |-> FALSE],
    [detached |-> TRUE, mode |-> "Deny", limit |-> FALSE] }
===============================================================================
