----------------------------- MODULE MCPlatform -----------------------------
(***************************************************************************)
(* The samples of the objective: five percent fail; five percent are slow, *)
(* half of these slower still; nothing works; nothing was measured.        *)
(***************************************************************************)
EXTENDS Platform

PlatformSamples ==
  {[total |-> 20, failed |-> 1, histogram |-> <<19, 1>>],
   [total |-> 20, failed |-> 0, histogram |-> <<18, 1, 1>>],
   [total |-> 1, failed |-> 1, histogram |-> <<0, 0, 1>>],
   [total |-> 20, failed |-> 0, histogram |-> <<>>]}
=============================================================================
