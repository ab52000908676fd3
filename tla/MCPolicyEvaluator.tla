-------------------------- MODULE MCPolicyEvaluator --------------------------
(***************************************************************************)
(* Two concurrent requests.  MCInputs are three inputs with three keys for *)
(* a cache of two entries; MCTwins are two inputs with the same key.       *)
(***************************************************************************)
EXTENDS PolicyEvaluator

CONSTANTS r1, r2

MCRequests == {r1, r2}
MCInput(action, clearance) ==
  [path |-> "egaop/execution", action |-> action, clearance |-> clearance]
MCInputs == {MCInput("read", 1), MCInput("write", 1), MCInput("delete", 1)}
MCTwins  == {MCInput("read", 1), MCInput("read", 2)}
=============================================================================
