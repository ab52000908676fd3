----------------------------- MODULE MCLlmRouter -----------------------------
(***************************************************************************)
(* Two Generate calls and a stream compete for one slot; the chain asks    *)
(* two providers, and a rate-limited call is retried once.                 *)
(***************************************************************************)
EXTENDS LlmRouter

CONSTANTS c1, c2, c3

MCCallers   == {c1, c2, c3}
MCStreaming == {c3}
MCModels    == <<"claude", "gpt">>
MCProviders == [m \in 1 .. 2 |-> IF m = 1 THEN "anthropic" ELSE "openai"]
=============================================================================
