------------------------------ MODULE SlotPool ------------------------------
(***************************************************************************)
(* What a counting semaphore promises to its callers: at most Size of them *)
(* hold a slot, a newcomer takes a slot at once only while nobody waits,   *)
(* a slot given back goes to a waiter when there is one, and a waiter may  *)
(* give up.  The counter and the queue of promises that realise it are in  *)
(* AsyncSemaphore; the container slots of the sandbox driver realise it    *)
(* too.                                                                    *)
(***************************************************************************)
EXTENDS Naturals, FiniteSets

CONSTANTS Users,   \* those who may ask for a slot
          Size     \* how many slots there are

VARIABLES holding, \* users that own a slot
          asking   \* users that wait for one

vars == <<holding, asking>>

Init == holding = {} /\ asking = {}

Take(u) ==
  /\ u \notin holding \cup asking
  /\ asking = {}
  /\ Cardinality(holding) < Size
  /\ holding' = holding \cup {u}
  /\ UNCHANGED asking

Ask(u) ==
  /\ u \notin holding \cup asking
  /\ Cardinality(holding) = Size
  /\ asking' = asking \cup {u}
  /\ UNCHANGED holding

GiveUp(u) ==
  /\ u \in asking
  /\ asking' = asking \ {u}
  /\ UNCHANGED holding

Return(u) ==
  /\ u \in holding
  /\ asking = {}
  /\ holding' = holding \ {u}
  /\ UNCHANGED asking

Pass(u, v) ==
  /\ u \in holding
  /\ v \in asking
  /\ holding' = (holding \ {u}) \cup {v}
  /\ asking' = asking \ {v}

Next ==
  \E u \in Users :
    \/ Take(u)
    \/ Ask(u)
    \/ GiveUp(u)
    \/ Return(u)
    \/ \E v \in Users : Pass(u, v)

Spec == Init /\ [][Next]_vars
=============================================================================
