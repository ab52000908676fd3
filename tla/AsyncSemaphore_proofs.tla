------------------------ MODULE AsyncSemaphore_proofs ------------------------
(***************************************************************************)
(* The semaphore is correct for every number of callers and every Max.     *)
(* IInv, the conjunction of what the run checks, is inductive: the counter *)
(* alone does not bound the callers inside, because release decrements it  *)
(* only when the line is empty, so the line and the states must agree too. *)
(***************************************************************************)
EXTENDS AsyncSemaphore, FiniteSetTheorems, TLAPS

IInv ==
  /\ TypeOK
  /\ SlotAccounting
  /\ current <= Max
  /\ LineExact
  /\ NoIdleSlot

\* The elements of a line, and that none occurs twice: the parts of LineExact.
Members(s)  == {s[i] : i \in 1 .. Len(s)}
NoRepeat(s) == \A i, j \in 1 .. Len(s) : s[i] = s[j] => i = j

\* The callers inside are a finite set, so their number is a natural number.
LEMMA RunningFinite == IsFiniteSet(Running) /\ Cardinality(Running) \in Nat
<1>1. Running \subseteq Callers
  BY DEF Running
<1> QED
  BY <1>1, CallersAssumption, FS_Subset, FS_CardinalityType

\* Removing one element from a line keeps its other members and its order.
LEMMA WithoutProperties ==
  ASSUME NEW S, NEW s \in Seq(S), NEW i \in 1 .. Len(s)
  PROVE  /\ Without(s, i) \in Seq(S)
         /\ Len(Without(s, i)) = Len(s) - 1
         /\ \A j \in 1 .. Len(s) - 1 :
              Without(s, i)[j] = IF j < i THEN s[j] ELSE s[j + 1]
<1> DEFINE n == Len(s) - 1
<1>1. n \in Nat
  OBVIOUS
<1>2. Without(s, i) \in [1 .. n -> S]
  BY DEF Without
<1>3. Without(s, i) \in Seq(S) /\ Len(Without(s, i)) = n
  BY <1>1, <1>2
<1> QED
  BY <1>3 DEF Without

\* What a line with no repetition loses when its element i leaves: exactly it.
LEMMA WithoutMembers ==
  ASSUME NEW S, NEW s \in Seq(S), NEW i \in 1 .. Len(s),
         NoRepeat(s)
  PROVE  /\ Members(Without(s, i)) = Members(s) \ {s[i]}
         /\ NoRepeat(Without(s, i))
<1> DEFINE t == Without(s, i)
<1>1. Len(t) = Len(s) - 1 /\ \A j \in 1 .. Len(t) : t[j] = IF j < i THEN s[j] ELSE s[j + 1]
  BY WithoutProperties
<1> HIDE DEF t
<1>2. NoRepeat(t)
  BY <1>1 DEF NoRepeat
<1>3. \A j \in 1 .. Len(t) : t[j] \in {s[k] : k \in 1 .. Len(s)} \ {s[i]}
  BY <1>1 DEF NoRepeat
<1>4. ASSUME NEW k \in 1 .. Len(s), k /= i
      PROVE  \E j \in 1 .. Len(t) : t[j] = s[k]
  <2>1. CASE k < i
    BY <1>1, <2>1
  <2>2. CASE k > i
    <3>1. k - 1 \in 1 .. Len(t) /\ ~ (k - 1 < i) /\ (k - 1) + 1 = k
      BY <1>1, <2>2
    <3> QED
      BY <1>1, <3>1
  <2> QED
    BY <1>4, <2>1, <2>2
<1>5. ASSUME NEW x \in {s[j] : j \in 1 .. Len(s)} \ {s[i]}
      PROVE  x \in {t[j] : j \in 1 .. Len(t)}
  <2>1. PICK k \in 1 .. Len(s) : x = s[k]
    OBVIOUS
  <2>2. k /= i
    BY <2>1
  <2> QED
    BY <2>1, <2>2, <1>4
<1>6. Members(t) = Members(s) \ {s[i]}
  BY <1>3, <1>5 DEF Members
<1> QED
  BY <1>2, <1>6 DEF t
-----------------------------------------------------------------------------
(* How each action moves a caller between the sets the abstract pool sees. *)

LEMMA AcquireNowMoves ==
  ASSUME TypeOK, NEW c \in Callers, AcquireNow(c)
  PROVE  c \notin Running /\ c \notin Waiting
         /\ Running' = Running \cup {c} /\ Waiting' = Waiting
  BY DEF TypeOK, AcquireNow, Running, Waiting

LEMMA AcquireWaitMoves ==
  ASSUME TypeOK, NEW c \in Callers, AcquireWait(c)
  PROVE  c \notin Running /\ c \notin Waiting
         /\ Running' = Running /\ Waiting' = Waiting \cup {c}
  BY DEF TypeOK, AcquireWait, Running, Waiting

LEMMA TimeoutMoves ==
  ASSUME IInv, NEW c \in Callers, Timeout(c)
  PROVE  c \in Waiting /\ Running' = Running /\ Waiting' = Waiting \ {c}
<1>1. c \in Waiting
  BY DEF IInv, LineExact, Timeout
<1>2. state' = [state EXCEPT ![c] = "idle"]
  BY DEF Timeout
<1> QED
  BY <1>1, <1>2 DEF IInv, TypeOK, Running, Waiting

LEMMA HandOverMoves ==
  ASSUME IInv, NEW c \in Callers, HandOver(c)
  PROVE  /\ Head(waiters) \in Waiting /\ c \in Running /\ Head(waiters) /= c
         /\ Running' = (Running \ {c}) \cup {Head(waiters)}
         /\ Waiting' = Waiting \ {Head(waiters)}
<1> DEFINE h == Head(waiters)
<1>1. h = waiters[1] /\ 1 \in 1 .. Len(waiters)
  BY DEF IInv, TypeOK, HandOver
<1>2. h \in Waiting
  BY <1>1 DEF IInv, LineExact
<1>3. c \in Running /\ h /= c
  BY <1>2 DEF HandOver, Running, Waiting
<1>4. state' = [state EXCEPT ![c] = "idle", ![h] = "running"]
  BY DEF HandOver
<1> HIDE DEF h
<1>5. /\ Running' = (Running \ {c}) \cup {h}
      /\ Waiting' = Waiting \ {h}
  BY <1>2, <1>3, <1>4 DEF IInv, TypeOK, Running, Waiting
<1> QED
  BY <1>2, <1>3, <1>5 DEF h

LEMMA GiveBackMoves ==
  ASSUME TypeOK, NEW c \in Callers, GiveBack(c)
  PROVE  c \in Running /\ Running' = Running \ {c} /\ Waiting' = Waiting
  BY DEF TypeOK, GiveBack, Running, Waiting

\* With nobody in the line, nobody waits.
LEMMA EmptyLine == ASSUME IInv, waiters = <<>> PROVE Waiting = {}
  BY DEF IInv, LineExact
-----------------------------------------------------------------------------
LEMMA InitInv == Init => IInv
<1> SUFFICES ASSUME Init PROVE IInv
  OBVIOUS
<1>1. TypeOK
  BY DEF Init, TypeOK
<1>2. Running = {} /\ Waiting = {}
  BY DEF Init, Running, Waiting
<1>3. SlotAccounting
  BY <1>2, FS_EmptySet DEF Init, SlotAccounting
<1>4. LineExact
  BY <1>2 DEF Init, LineExact
<1> QED
  BY <1>1, <1>3, <1>4, MaxAssumption DEF Init, IInv, NoIdleSlot

LEMMA AcquireNowInv == ASSUME IInv, NEW c \in Callers, AcquireNow(c) PROVE IInv'
<1>1. c \notin Running /\ Running' = Running \cup {c} /\ Waiting' = Waiting
  BY AcquireNowMoves DEF IInv
<1>2. TypeOK'
  BY DEF IInv, TypeOK, AcquireNow
<1>3. SlotAccounting'
  <2>1. Cardinality(Running \cup {c}) = Cardinality(Running) + 1
    BY <1>1, RunningFinite, FS_AddElement
  <2> QED
    BY <1>1, <2>1 DEF IInv, SlotAccounting, AcquireNow
<1>4. current' <= Max
  BY MaxAssumption DEF IInv, TypeOK, AcquireNow
<1>5. LineExact'
  BY <1>1 DEF IInv, LineExact, AcquireNow
<1>6. NoIdleSlot'
  BY MaxAssumption DEF IInv, TypeOK, NoIdleSlot, AcquireNow
<1> QED
  BY <1>2, <1>3, <1>4, <1>5, <1>6 DEF IInv

LEMMA AcquireWaitInv == ASSUME IInv, NEW c \in Callers, AcquireWait(c) PROVE IInv'
<1>1. /\ c \notin Waiting
      /\ Running' = Running /\ Waiting' = Waiting \cup {c}
  BY AcquireWaitMoves DEF IInv
<1>2. TypeOK'
  BY DEF IInv, TypeOK, AcquireWait
<1>3. SlotAccounting' /\ current' <= Max
  BY <1>1 DEF IInv, SlotAccounting, AcquireWait
<1>4. LineExact'
  <2>1. /\ Len(waiters') = Len(waiters) + 1
        /\ \A i \in 1 .. Len(waiters) : waiters'[i] = waiters[i]
        /\ waiters'[Len(waiters) + 1] = c
    BY DEF IInv, TypeOK, AcquireWait
  <2>2. Len(waiters) \in Nat
    BY DEF IInv, TypeOK
  <2>3. \A i \in 1 .. Len(waiters) : waiters[i] /= c
    BY <1>1 DEF IInv, LineExact
  <2> QED
    BY <1>1, <2>1, <2>2, <2>3 DEF IInv, LineExact
<1>5. NoIdleSlot'
  BY MaxAssumption DEF IInv, TypeOK, NoIdleSlot, AcquireWait
<1> QED
  BY <1>2, <1>3, <1>4, <1>5 DEF IInv

LEMMA TimeoutInv == ASSUME IInv, NEW c \in Callers, Timeout(c) PROVE IInv'
<1> PICK i \in 1 .. Len(waiters) :
      /\ waiters[i] = c
      /\ waiters' = Without(waiters, i)
      /\ state' = [state EXCEPT ![c] = "idle"]
      /\ UNCHANGED current
  BY DEF Timeout
<1>1. Running' = Running /\ Waiting' = Waiting \ {c}
  BY TimeoutMoves
<1>2. waiters \in Seq(Callers)
  BY DEF IInv, TypeOK
<1>3. TypeOK'
  BY <1>2, WithoutProperties DEF IInv, TypeOK
<1>4. SlotAccounting' /\ current' <= Max
  BY <1>1 DEF IInv, SlotAccounting
<1>5. LineExact'
  <2>1. Members(waiters) = Waiting /\ NoRepeat(waiters)
    BY DEF IInv, LineExact, Members, NoRepeat
  <2>2. Members(waiters') = Waiting \ {c} /\ NoRepeat(waiters')
    BY <1>2, <2>1, WithoutMembers
  <2> QED
    BY <1>1, <2>2 DEF LineExact, Members, NoRepeat
<1>6. NoIdleSlot'
  BY DEF IInv, NoIdleSlot
<1> QED
  BY <1>3, <1>4, <1>5, <1>6 DEF IInv

LEMMA HandOverInv == ASSUME IInv, NEW c \in Callers, HandOver(c) PROVE IInv'
<1> DEFINE h == Head(waiters)
<1>1. /\ h \in Waiting /\ c \in Running /\ h /= c
      /\ Running' = (Running \ {c}) \cup {h}
      /\ Waiting' = Waiting \ {h}
  BY HandOverMoves
<1>2. waiters \in Seq(Callers) /\ waiters /= <<>> /\ waiters' = Tail(waiters)
  BY DEF IInv, TypeOK, HandOver
<1>3. TypeOK'
  BY <1>2 DEF IInv, TypeOK, HandOver
<1>4. SlotAccounting' /\ current' <= Max
  <2>1. /\ Cardinality(Running \ {c}) = Cardinality(Running) - 1
        /\ IsFiniteSet(Running \ {c})
    BY <1>1, RunningFinite, FS_RemoveElement
  <2>2. h \notin Running \ {c}
    BY <1>1 DEF Running, Waiting
  <2>3. Cardinality((Running \ {c}) \cup {h}) = Cardinality(Running \ {c}) + 1
    BY <2>1, <2>2, FS_AddElement
  <2> QED
    BY <1>1, <2>1, <2>3, RunningFinite DEF IInv, SlotAccounting, HandOver
<1>5. LineExact'
  <2>1. /\ h = waiters[1] /\ 1 \in 1 .. Len(waiters)
        /\ Len(waiters') = Len(waiters) - 1
        /\ \A i \in 1 .. Len(waiters') : waiters'[i] = waiters[i + 1]
    BY <1>2
  <2>2. \A i, j \in 1 .. Len(waiters') : waiters'[i] = waiters'[j] => i = j
    BY <1>2, <2>1 DEF IInv, LineExact
  <2>3. \A i \in 1 .. Len(waiters') : waiters'[i] \in Waiting \ {h}
    BY <1>2, <2>1 DEF IInv, LineExact
  <2>4. ASSUME NEW w \in Waiting \ {h}
        PROVE  \E i \in 1 .. Len(waiters') : waiters'[i] = w
    <3> PICK k \in 1 .. Len(waiters) : waiters[k] = w
      BY DEF IInv, LineExact
    <3>1. k - 1 \in 1 .. Len(waiters') /\ (k - 1) + 1 = k
      BY <1>2, <2>1
    <3> QED
      BY <2>1, <3>1
  <2> QED
    BY <1>1, <2>2, <2>3, <2>4 DEF LineExact
<1>6. NoIdleSlot'
  BY <1>2 DEF IInv, NoIdleSlot, HandOver
<1> QED
  BY <1>3, <1>4, <1>5, <1>6 DEF IInv

LEMMA GiveBackInv == ASSUME IInv, NEW c \in Callers, GiveBack(c) PROVE IInv'
<1>1. c \in Running /\ Running' = Running \ {c} /\ Waiting' = Waiting
  BY GiveBackMoves DEF IInv
<1>2. Cardinality(Running \ {c}) = Cardinality(Running) - 1
  BY <1>1, RunningFinite, FS_RemoveElement
<1>3. Running \ {c} \subseteq Callers /\ IsFiniteSet(Running \ {c})
  BY RunningFinite, FS_RemoveElement DEF Running
<1>4. Cardinality(Running \ {c}) \in Nat
  BY <1>3, FS_CardinalityType
<1>5. current > 0 /\ current' = current - 1
  BY <1>2, <1>4, RunningFinite DEF IInv, SlotAccounting, GiveBack
<1>6. TypeOK'
  BY <1>5 DEF IInv, TypeOK, GiveBack
<1>7. SlotAccounting' /\ current' <= Max
  BY <1>1, <1>2, <1>5, MaxAssumption DEF IInv, TypeOK, SlotAccounting
<1>8. LineExact' /\ NoIdleSlot'
  BY <1>1 DEF IInv, LineExact, NoIdleSlot, GiveBack
<1> QED
  BY <1>6, <1>7, <1>8 DEF IInv

LEMMA NextInv == ASSUME IInv, [Next]_vars PROVE IInv'
<1>1. ASSUME NEW c \in Callers,
             AcquireNow(c) \/ AcquireWait(c) \/ Timeout(c) \/ Release(c)
      PROVE  IInv'
  BY <1>1, AcquireNowInv, AcquireWaitInv, TimeoutInv, HandOverInv, GiveBackInv
     DEF Release
<1>2. CASE UNCHANGED vars
  BY <1>2 DEF vars, IInv, TypeOK, SlotAccounting, LineExact, NoIdleSlot, Running, Waiting
<1> QED
  BY <1>1, <1>2 DEF Next

\* The inductive invariant holds in every reachable state.
THEOREM Inductive == Spec => []IInv
<1>1. Init => IInv
  BY InitInv
<1>2. IInv /\ [Next]_vars => IInv'
  BY NextInv
<1> QED
  BY <1>1, <1>2, PTL DEF Spec

\* Never more callers inside than the constructor's max: acquire's fast path
\* counts a slot it found free, and release hands over the slot it does not
\* give back.
THEOREM NeverOverMax == Spec => []Bounded
<1>1. IInv => Bounded
  BY DEF IInv, SlotAccounting, Bounded
<1> QED
  BY <1>1, Inductive, PTL

\* The line is exactly the callers whose promise is pending.
THEOREM LineIsExact == Spec => []LineExact
<1>1. IInv => LineExact
  BY DEF IInv
<1> QED
  BY <1>1, Inductive, PTL

\* A free slot and a pending promise never coexist.
THEOREM NobodyWaitsForNothing == Spec => []NoIdleSlot
<1>1. IInv => NoIdleSlot
  BY DEF IInv
<1> QED
  BY <1>1, Inductive, PTL

\* The counter, the line and the states of the callers always agree.
THEOREM LineAgreesWithSlots == Spec => []LineAndSlots
<1>1. IInv => LineAndSlots
  BY DEF IInv, LineAndSlots
<1> QED
  BY <1>1, Inductive, PTL

\* acquire never lets a newcomer pass a pending waiter, though its fast path
\* reads only the counter.
THEOREM NewcomersNeverBarge == Spec => NoBarging
<1> DEFINE Fair ==
      \A c \in Callers :
        state[c] = "idle" /\ state'[c] = "running" => Waiting = {}
<1>1. ASSUME IInv, NEW c \in Callers,
             AcquireNow(c) \/ AcquireWait(c) \/ Timeout(c) \/ Release(c)
      PROVE  Fair
  <2>1. CASE AcquireNow(c)
    <3>1. waiters = <<>>
      BY <1>1, <2>1 DEF IInv, NoIdleSlot, AcquireNow, TypeOK
    <3> QED
      BY <1>1, <3>1, EmptyLine
  <2>2. CASE AcquireWait(c) \/ Timeout(c) \/ GiveBack(c)
    BY <1>1, <2>2 DEF AcquireWait, Timeout, GiveBack, IInv, TypeOK
  <2>3. CASE HandOver(c)
    <3>1. state[Head(waiters)] = "waiting"
      BY <1>1, <2>3, HandOverMoves DEF Waiting
    <3> QED
      BY <1>1, <2>3, <3>1 DEF HandOver, IInv, TypeOK
  <2> QED
    BY <1>1, <2>1, <2>2, <2>3 DEF Release
<1>2. IInv /\ [Next]_vars => [Fair]_vars
  BY <1>1 DEF Next
<1> QED
  BY <1>2, Inductive, PTL DEF Spec, NoBarging
-----------------------------------------------------------------------------
\* One step of the counter and its queue is one step of the abstract pool.
LEMMA StepImplementsPool ==
  ASSUME IInv, IInv', NEW c \in Callers,
         AcquireNow(c) \/ AcquireWait(c) \/ Timeout(c) \/ Release(c)
  PROVE  Pool!Next
<1>1. CASE AcquireNow(c)
  <2>1. Waiting = {}
    <3>1. waiters = <<>>
      BY <1>1 DEF IInv, TypeOK, NoIdleSlot, AcquireNow
    <3> QED
      BY <3>1, EmptyLine
  <2>2. Cardinality(Running) < Max
    BY <1>1 DEF IInv, SlotAccounting, AcquireNow
  <2>3. Pool!Take(c)
    BY <1>1, <2>1, <2>2, AcquireNowMoves DEF IInv, Pool!Take, Pool!Cardinality, Cardinality
  <2> QED
    BY <2>3 DEF Pool!Next
<1>2. CASE AcquireWait(c)
  <2>1. Cardinality(Running) = Max
    BY <1>2, MaxAssumption DEF IInv, TypeOK, SlotAccounting, AcquireWait
  <2>2. Pool!Ask(c)
    BY <1>2, <2>1, AcquireWaitMoves DEF IInv, Pool!Ask, Pool!Cardinality, Cardinality
  <2> QED
    BY <2>2 DEF Pool!Next
<1>3. CASE Timeout(c)
  <2>1. Pool!GiveUp(c)
    BY <1>3, TimeoutMoves DEF Pool!GiveUp
  <2> QED
    BY <2>1 DEF Pool!Next
<1>4. CASE HandOver(c)
  <2>1. Pool!Pass(c, Head(waiters))
    BY <1>4, HandOverMoves DEF Pool!Pass
  <2>2. Head(waiters) \in Callers
    BY <1>4, HandOverMoves DEF Waiting
  <2> QED
    BY <2>1, <2>2 DEF Pool!Next
<1>5. CASE GiveBack(c)
  <2>1. Waiting = {}
    BY <1>5, EmptyLine DEF GiveBack
  <2>2. Pool!Return(c)
    BY <1>5, <2>1, GiveBackMoves DEF IInv, Pool!Return
  <2> QED
    BY <2>2 DEF Pool!Next
<1> QED
  BY <1>1, <1>2, <1>3, <1>4, <1>5 DEF Release

\* The counter with its queue of promises implements the abstract pool of
\* slots, for every set of callers and every Max.
THEOREM ImplementsPool == Spec => PoolSpec
<1>1. Init => Pool!Init
  BY DEF Init, Pool!Init, Running, Waiting
<1>2. IInv /\ IInv' /\ [Next]_vars => [Pool!Next]_(Pool!vars)
  <2> SUFFICES ASSUME IInv, IInv', [Next]_vars
               PROVE  [Pool!Next]_(Pool!vars)
    OBVIOUS
  <2>1. CASE Next
    BY <2>1, StepImplementsPool DEF Next
  <2>2. CASE UNCHANGED vars
    BY <2>2 DEF vars, Pool!vars, Running, Waiting
  <2> QED
    BY <2>1, <2>2
<1> QED
  BY <1>1, <1>2, Inductive, PTL DEF Spec, PoolSpec, Pool!Spec
=============================================================================
