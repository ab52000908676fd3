--------------------------- MODULE AsyncSemaphore ---------------------------
(***************************************************************************)
(* packages/shared/src/grpc/async-semaphore.ts, the counting semaphore     *)
(* that bounds the LLM router's concurrent calls to the upstream API.      *)
(* One JavaScript callback is one step: acquire up to its await, the timer *)
(* callback of a waiter, and release are each atomic on the event loop.    *)
(***************************************************************************)
EXTENDS Naturals, Sequences, FiniteSets

CONSTANTS
  Callers,  \* the asynchronous calls that compete for slots
  Max,      \* constructor argument max
  Timed     \* the callers that pass a timeoutMs > 0

ASSUME MaxAssumption     == Max \in Nat \ {0}   \* the constructor throws otherwise
ASSUME CallersAssumption == IsFiniteSet(Callers)
ASSUME TimedAssumption   == Timed \subseteq Callers

VARIABLES
  current,  \* this.current
  waiters,  \* this.waiters, oldest first
  state     \* per caller: outside, awaiting its promise, or owner of a slot

vars == <<current, waiters, state>>

Running == {c \in Callers : state[c] = "running"}
Waiting == {c \in Callers : state[c] = "waiting"}

\* The sequence s without its element i (Array.splice(i, 1)), in the form the
\* provers take: SequencesExt!RemoveAt, as a function on the shorter domain.
Without(s, i) == [j \in 1 .. Len(s) - 1 |-> IF j < i THEN s[j] ELSE s[j + 1]]

Init ==
  /\ current = 0
  /\ waiters = <<>>
  /\ state = [c \in Callers |-> "idle"]

\* Mutants of the actions below.
TimeoutWithoutSplice(c) ==
  \E i \in 1 .. Len(waiters) :
    /\ c \in Timed
    /\ waiters[i] = c
    /\ state' = [state EXCEPT ![c] = "idle"]
    /\ UNCHANGED <<current, waiters>>

GiveBackForgotten(c) ==
  /\ state[c] = "running"
  /\ waiters = <<>>
  /\ state' = [state EXCEPT ![c] = "idle"]
  /\ UNCHANGED <<current, waiters>>

\* acquire() with a free slot: the promise is already resolved with true.
AcquireNow(c) ==
  /\ state[c] = "idle"
  /\ current < Max
  /\ current' = current + 1
  /\ state' = [state EXCEPT ![c] = "running"]
  /\ UNCHANGED waiters

\* acquire() without one: the caller's waiter goes to the back of the line.
AcquireWait(c) ==
  /\ state[c] = "idle"
  /\ ~ (current < Max)
  /\ waiters' = Append(waiters, c)
  /\ state' = [state EXCEPT ![c] = "waiting"]
  /\ UNCHANGED current

\* The timer callback: it answers false only if the waiter is still in line.
Timeout(c) ==
  \E i \in 1 .. Len(waiters) :
    /\ c \in Timed
    /\ waiters[i] = c
    /\ waiters' = Without(waiters, i)
    /\ state' = [state EXCEPT ![c] = "idle"]
    /\ UNCHANGED current

\* release() with a waiter: its timer is cleared and it becomes the runner.
HandOver(c) ==
  /\ state[c] = "running"
  /\ waiters /= <<>>
  /\ waiters' = Tail(waiters)
  /\ state' = [state EXCEPT ![c] = "idle", ![Head(waiters)] = "running"]
  /\ UNCHANGED current

\* release() without one.
GiveBack(c) ==
  /\ state[c] = "running"
  /\ waiters = <<>>
  /\ current' = IF current > 0 THEN current - 1 ELSE current
  /\ state' = [state EXCEPT ![c] = "idle"]
  /\ UNCHANGED waiters

\* Callers release what they acquired exactly once (the finally blocks of
\* Generate and GenerateStream, guarded by their flag "acquired").
Release(c) == HandOver(c) \/ GiveBack(c)

Next ==
  \E c \in Callers : AcquireNow(c) \/ AcquireWait(c) \/ Timeout(c) \/ Release(c)

Spec == Init /\ [][Next]_vars
-----------------------------------------------------------------------------
TypeOK ==
  /\ current \in Nat
  /\ waiters \in Seq(Callers)
  /\ state \in [Callers -> {"idle", "waiting", "running"}]

\* The counter is the number of callers inside: a hand-over moves the slot
\* without counting it, a return counts it once.
SlotAccounting == current = Cardinality(Running)

\* The purpose of the class: never more than Max callers inside.
Bounded == Cardinality(Running) <= Max

\* The line holds every waiting caller exactly once and nobody else, whatever
\* the order of timers and releases: no lost wake-up, no wake-up of a caller
\* that was already told false.
LineExact ==
  /\ Waiting = {waiters[i] : i \in 1 .. Len(waiters)}
  /\ \A i, j \in 1 .. Len(waiters) : waiters[i] = waiters[j] => i = j

\* Nobody waits while a slot is free.
NoIdleSlot == waiters /= <<>> => current = Max

\* What acquire, release and the timers of the line leave true together.
LineAndSlots == SlotAccounting /\ LineExact /\ NoIdleSlot

\* A newcomer never overtakes the line: it gets a slot at once only when nobody
\* is waiting for one.
NoBarging ==
  [][ \A c \in Callers :
        state[c] = "idle" /\ state'[c] = "running" => Waiting = {} ]_vars

\* The class implements the abstract pool of slots.
Pool == INSTANCE SlotPool
          WITH Users <- Callers, Size <- Max, holding <- Running, asking <- Waiting
PoolSpec == Pool!Spec
=============================================================================
