---------------------------- MODULE MCMemoryPlane ----------------------------
(***************************************************************************)
(* Two types of the same key, so that two cache slots share a row; one     *)
(* Read at a time and one exit of the process.                             *)
(***************************************************************************)
EXTENDS MemoryPlane

MCSlots == {[type |-> "working", key |-> "k"], [type |-> "episodic", key |-> "k"]}
=============================================================================
