--------------------------- MODULE MCSandboxRuntime ---------------------------
(***************************************************************************)
(* Two executions, one slot and one exit of the process.                   *)
(***************************************************************************)
EXTENDS SandboxRuntime, TLC

CONSTANTS s1, s2

MCCalls  == {s1, s2}
MCNameOf == s1 :> 1 @@ s2 :> 2
=============================================================================
