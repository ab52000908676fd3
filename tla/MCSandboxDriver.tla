--------------------------- MODULE MCSandboxDriver ---------------------------
(***************************************************************************)
(* Five requests for two slots.  s1 and s2 are two attempts of the same    *)
(* execution, so the second meets the first one's container name; s5 asks  *)
(* for an image that is not allowed.                                       *)
(***************************************************************************)
EXTENDS SandboxDriver, TLC

CONSTANTS s1, s2, s3, s4, s5

MCCalls    == {s1, s2, s3, s4, s5}
MCNameOf   == s1 :> 1 @@ s2 :> 1 @@ s3 :> 2 @@ s4 :> 3 @@ s5 :> 4
MCBadImage == {s5}
=============================================================================
