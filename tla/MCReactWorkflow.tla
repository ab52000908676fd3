--------------------------- MODULE MCReactWorkflow ---------------------------
(***************************************************************************)
(* Three iterations, two distinct tool calls, LLM calls that cost nothing  *)
(* or 2 of a budget of 3, two attempts of createSandbox and executeTool.   *)
(***************************************************************************)
EXTENDS ReactWorkflow

CONSTANTS k1, k2

MCToolKeys  == {k1, k2}
MCCallCosts == {0, 2}
=============================================================================
