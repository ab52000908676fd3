------------------------ MODULE SandboxDriver_proofs ------------------------
(***************************************************************************)
(* The driver's slots are correct for every number of calls and every      *)
(* MaxContainers.  Nothing about counters and lines is proved again: every *)
(* step is shown to be a step of AsyncSemaphore, whose inductive invariant *)
(* then holds here too, and its theorems are inherited.                    *)
(***************************************************************************)
EXTENDS SandboxDriver, FiniteSetTheorems, TLAPS

Sem == INSTANCE AsyncSemaphore_proofs
         WITH Callers <- Calls, Max <- MaxContainers, Timed <- Calls,
              state <- SlotState

\* What the driver's own variables say of each other.  The last conjunct names
\* the callbacks that release a slot after an await: none of them can find that
\* its slot was released meanwhile.
StagesAgree ==
  /\ \A c \in active  : pc[c] \in {"started", "hung", "returned"}
  /\ \A c \in Calls   : box[c] = "running" =>
       c \in active \cup stranded \/ pc[c] = "removing"
  /\ \A c \in removed : c \in active /\ pc[c] = "returned" /\ box[c] = "gone"
  /\ \A c \in stranded : pc[c] = "failed"

IInv == TypeOK /\ StagesAgree /\ Sem!IInv

\* The stages in which a call neither owns a slot nor waits for one.
Outside == {"idle", "started", "hung", "returned", "failed"}

LEMMA SlotStateOf ==
  \A c \in Calls :
    SlotState[c] = IF c \in Owners THEN "running"
                   ELSE IF pc[c] = "waiting" THEN "waiting" ELSE "idle"
  BY DEF SlotState, Waiting

LEMMA WaitersWait ==
  ASSUME IInv, waiters /= <<>>
  PROVE  /\ Head(waiters) \in Calls
         /\ pc[Head(waiters)] = "waiting"
         /\ Head(waiters) \notin Owners
<1>1. Head(waiters) = waiters[1] /\ 1 \in 1 .. Len(waiters)
  BY DEF IInv, TypeOK
<1>3. Head(waiters) \in Sem!Waiting
  BY <1>1 DEF IInv, Sem!IInv, Sem!LineExact
<1> QED
  BY <1>3, SlotStateOf DEF Sem!Waiting

\* Whoever releases its slot for good, whichever callback does it, takes one
\* release step of the semaphore.
LEMMA ReleaseMaps ==
  ASSUME IInv, NEW c \in Calls, NEW stage \in {"returned", "failed"},
         c \in Owners, active' = active \ {c},
         ReleaseSlot(c, stage)
  PROVE  Sem!Release(c)
<1>1. SlotState[c] = "running" /\ SlotState \in [Calls -> {"idle", "waiting", "running"}]
  BY SlotStateOf DEF SlotState
<1>2. pc[c] /= "waiting"
  BY DEF IInv, StagesAgree, Owners
<1>3. CASE waiters = <<>>
  <2>1. /\ pc' = [pc EXCEPT ![c] = stage]
        /\ waiters' = waiters
        /\ current' = IF current > 0 THEN current - 1 ELSE current
    BY <1>3 DEF ReleaseSlot
  <2>2. Owners' = Owners \ {c} /\ Waiting' = Waiting
    BY <1>2, <2>1 DEF IInv, TypeOK, Owners, Waiting
  <2>3. SlotState' = [SlotState EXCEPT ![c] = "idle"]
    BY <2>1, <2>2 DEF SlotState, Owners, Waiting, IInv, TypeOK
  <2> QED
    BY <1>1, <1>3, <2>1, <2>3 DEF Sem!Release, Sem!GiveBack
<1>4. CASE waiters /= <<>>
  <2> DEFINE h == Head(waiters)
  <2>1. h \in Calls /\ pc[h] = "waiting" /\ h \notin Owners
    BY <1>4, WaitersWait
  <2>2. /\ pc' = [pc EXCEPT ![c] = stage, ![h] = "slot"]
        /\ waiters' = Tail(waiters)
        /\ current' = current
    BY <1>4 DEF ReleaseSlot
  <2>3. h /= c
    BY <2>1
  <2> HIDE DEF h
  <2>4. Owners' = (Owners \ {c}) \cup {h} /\ Waiting' = Waiting \ {h}
    BY <1>2, <2>1, <2>2, <2>3 DEF IInv, TypeOK, Owners, Waiting
  <2>5. SlotState' = [SlotState EXCEPT ![c] = "idle", ![h] = "running"]
    BY <2>1, <2>2, <2>3, <2>4 DEF SlotState, Owners, Waiting, IInv, TypeOK
  <2> QED
    BY <1>1, <1>4, <2>2, <2>5 DEF Sem!Release, Sem!HandOver, h
<1> QED
  BY <1>3, <1>4

\* Asking for a slot and giving up are the semaphore's own actions.
LEMMA AcquireMaps ==
  ASSUME IInv, NEW c \in Calls, AcquireNow(c) \/ AcquireWait(c) \/ Timeout(c)
  PROVE  [Sem!Next]_(Sem!vars)
<1>1. SlotState \in [Calls -> {"idle", "waiting", "running"}]
  BY DEF SlotState
<1>2. CASE AcquireNow(c)
  <2>1. SlotState[c] = "idle"
    BY <1>2, SlotStateOf DEF AcquireNow, Owners, IInv, StagesAgree
  <2>2. Owners' = Owners \cup {c} /\ Waiting' = Waiting
    BY <1>2 DEF AcquireNow, IInv, TypeOK, Owners, Waiting
  <2>3. SlotState' = [SlotState EXCEPT ![c] = "running"]
    BY <1>2, <2>2 DEF SlotState
  <2>4. Sem!AcquireNow(c)
    BY <1>2, <2>1, <2>3 DEF AcquireNow, Sem!AcquireNow
  <2> QED
    BY <2>4 DEF Sem!Next
<1>3. CASE AcquireWait(c)
  <2>1. SlotState[c] = "idle" /\ c \notin Owners
    BY <1>3, SlotStateOf DEF AcquireWait, Owners, IInv, StagesAgree
  <2>2. Owners' = Owners /\ Waiting' = Waiting \cup {c}
    BY <1>3 DEF AcquireWait, IInv, TypeOK, Owners, Waiting
  <2>3. SlotState' = [SlotState EXCEPT ![c] = "waiting"]
    BY <1>3, <2>1, <2>2 DEF SlotState
  <2>4. Sem!AcquireWait(c)
    BY <1>3, <2>1, <2>3 DEF AcquireWait, Sem!AcquireWait
  <2> QED
    BY <2>4 DEF Sem!Next
<1>4. CASE Timeout(c)
  <2> PICK i \in 1 .. Len(waiters) :
        /\ waiters[i] = c
        /\ waiters' = Without(waiters, i)
        /\ pc' = [pc EXCEPT ![c] = "failed"]
        /\ UNCHANGED <<current, active, box, removed, stranded>>
    BY <1>4 DEF Timeout
  <2>1. c \in Sem!Waiting
    BY DEF IInv, Sem!IInv, Sem!LineExact
  <2>2. c \notin Owners /\ c \in Waiting
    BY <2>1, SlotStateOf DEF Sem!Waiting, Waiting
  <2>3. Owners' = Owners /\ Waiting' = Waiting \ {c}
    BY <2>2 DEF IInv, TypeOK, Owners, Waiting
  <2>4. SlotState' = [SlotState EXCEPT ![c] = "idle"]
    BY <2>2, <2>3 DEF SlotState
  <2>5. Sem!Timeout(c)
    BY <2>4 DEF Sem!Timeout, Without, Sem!Without
  <2> QED
    BY <2>5 DEF Sem!Next
<1> QED
  BY <1>2, <1>3, <1>4

\* Every step of the driver and of the daemon is a step of the semaphore or
\* leaves it alone.
LEMMA StepMaps == ASSUME IInv, [Next]_vars PROVE [Sem!Next]_(Sem!vars)
<1> DEFINE Goal == [Sem!Next]_(Sem!vars)
<1>1. ASSUME NEW c \in Calls, Sem!Release(c) PROVE Goal
  BY <1>1 DEF Sem!Next
<1>2. ASSUME UNCHANGED <<current, waiters>>, Owners' = Owners, Waiting' = Waiting
      PROVE  Goal
  BY <1>2 DEF Sem!vars, SlotState
<1> HIDE DEF Goal
<1>3. ASSUME NEW c \in Calls,
             AcquireNow(c) \/ AcquireWait(c) \/ Timeout(c)
      PROVE  Goal
  BY <1>3, AcquireMaps DEF Goal
<1>4. ASSUME NEW c \in Calls,
             RejectImage(c) \/ CreateContainerFails(c) \/ RemoveFailed(c)
      PROVE  Goal
  <2>1. /\ pc[c] \in {"slot", "removing"}
        /\ active' = active
        /\ ReleaseSlot(c, "failed")
    BY <1>4 DEF RejectImage, CreateContainerFails, RemoveFailed
  <2>2. c \in Owners /\ c \notin active
    BY <2>1 DEF Owners, IInv, StagesAgree
  <2> QED
    BY <1>1, <2>1, <2>2, ReleaseMaps
<1>5. ASSUME NEW c \in Calls, TerminateReturns(c) PROVE Goal
  <2>1. c \in Owners /\ active' = active \ {c} /\ ReleaseSlot(c, "returned")
    BY <1>5 DEF TerminateReturns, Owners, IInv, StagesAgree
  <2> QED
    BY <1>1, <2>1, ReleaseMaps
<1>6. ASSUME NEW c \in Calls,
             CreateContainer(c) \/ Start(c) \/ StartFails(c)
             \/ ReturnSandbox(c) \/ InitCommandHangs(c)
      PROVE  Goal
  <2>1. UNCHANGED <<current, waiters>>
    BY <1>6 DEF CreateContainer, Start, StartFails, ReturnSandbox, InitCommandHangs
  <2>2. Owners' = Owners
    BY <1>6 DEF CreateContainer, Start, StartFails, ReturnSandbox, InitCommandHangs,
                IInv, TypeOK, Owners
  <2>3. Waiting' = Waiting
    BY <1>6 DEF CreateContainer, Start, StartFails, ReturnSandbox, InitCommandHangs,
                IInv, TypeOK, Waiting
  <2> QED
    BY <1>2, <2>1, <2>2, <2>3
<1>7. ASSUME NEW c \in Calls, TerminateRemoves(c) \/ Vanish(c) PROVE Goal
  BY <1>2, <1>7 DEF TerminateRemoves, Vanish, Owners, Waiting
<1>8. ASSUME UNCHANGED vars PROVE Goal
  <2>1. UNCHANGED <<current, waiters>> /\ Owners' = Owners /\ Waiting' = Waiting
    BY <1>8 DEF vars, Owners, Waiting
  <2> QED
    BY <1>2, <2>1
<1> QED
  BY <1>3, <1>4, <1>5, <1>6, <1>7, <1>8 DEF Next, CreateStep, Goal
-----------------------------------------------------------------------------
LEMMA InitInv == Init => IInv
<1> SUFFICES ASSUME Init PROVE IInv
  OBVIOUS
<1>1. TypeOK /\ StagesAgree
  BY DEF Init, TypeOK, StagesAgree, Stages, Boxes
<1>2. SlotState = [c \in Calls |-> "idle"]
  BY DEF Init, SlotState, Owners, Waiting
<1>3. Sem!Init
  BY <1>2 DEF Init, Sem!Init
<1> QED
  BY <1>1, <1>3, Sem!InitInv, MaxContainersAssumption, CallsAssumption
     DEF IInv, Sem!IsFiniteSet, IsFiniteSet

LEMMA ReleaseType ==
  ASSUME IInv, NEW c \in Calls, NEW stage \in {"returned", "failed"},
         ReleaseSlot(c, stage)
  PROVE  /\ pc' \in [Calls -> Stages]
         /\ \A d \in Calls \ {c} : pc'[d] = pc[d] \/ pc[d] = "waiting"
         /\ pc'[c] = stage \/ pc[c] = "waiting"
<1>1. CASE waiters = <<>>
  BY <1>1 DEF ReleaseSlot, IInv, TypeOK, Stages
<1>2. CASE waiters /= <<>>
  <2> DEFINE h == Head(waiters)
  <2>1. h \in Calls /\ pc[h] = "waiting" /\ pc' = [pc EXCEPT ![c] = stage, ![h] = "slot"]
    BY <1>2, WaitersWait DEF ReleaseSlot
  <2> HIDE DEF h
  <2> QED
    BY <2>1 DEF IInv, TypeOK, Stages
<1> QED
  BY <1>1, <1>2

LEMMA StagesInv == ASSUME IInv, [Next]_vars PROVE StagesAgree'
<1>1. ASSUME NEW c \in Calls,
             AcquireNow(c) \/ AcquireWait(c) \/ CreateContainer(c) \/ StartFails(c)
      PROVE  StagesAgree'
  BY <1>1 DEF AcquireNow, AcquireWait, CreateContainer, StartFails,
              IInv, TypeOK, StagesAgree
<1>2. ASSUME NEW c \in Calls, Timeout(c) PROVE StagesAgree'
  <2>1. pc' = [pc EXCEPT ![c] = "failed"] /\ UNCHANGED <<active, box, removed, stranded>>
    BY <1>2 DEF Timeout
  <2>2. c \in Sem!Waiting
    BY <1>2 DEF Timeout, IInv, Sem!IInv, Sem!LineExact
  <2>3. pc[c] = "waiting"
    BY <2>2, SlotStateOf DEF Sem!Waiting
  <2> QED
    BY <2>1, <2>3 DEF IInv, TypeOK, StagesAgree
<1>3. ASSUME NEW c \in Calls,
             RejectImage(c) \/ CreateContainerFails(c) \/ RemoveFailed(c)
      PROVE  StagesAgree'
  <2>1. ReleaseSlot(c, "failed") /\ pc[c] \in {"slot", "removing"}
    BY <1>3 DEF RejectImage, CreateContainerFails, RemoveFailed
  <2>2. /\ UNCHANGED <<active, removed>>
        /\ \/ box' = box /\ stranded' = stranded /\ pc[c] = "slot"
           \/ box' = box /\ stranded' = stranded \cup {c}
           \/ box' = [box EXCEPT ![c] = "gone"] /\ stranded' = stranded
           \/ /\ box' = [box EXCEPT ![c] = "created"] /\ stranded' = stranded
              /\ pc[c] = "slot"
    BY <1>3 DEF RejectImage, CreateContainerFails, RemoveFailed
  <2>3. c \notin active /\ c \notin removed
    BY <2>1 DEF IInv, StagesAgree
  <2> QED
    BY <2>1, <2>2, <2>3, ReleaseType DEF IInv, TypeOK, StagesAgree
<1>4. ASSUME NEW c \in Calls, Start(c) \/ ReturnSandbox(c) \/ InitCommandHangs(c)
      PROVE  StagesAgree'
  BY <1>4 DEF Start, ReturnSandbox, InitCommandHangs, IInv, TypeOK, StagesAgree
<1>5. ASSUME NEW c \in Calls, TerminateRemoves(c) \/ Vanish(c) PROVE StagesAgree'
  BY <1>5 DEF TerminateRemoves, Vanish, IInv, TypeOK, StagesAgree
<1>6. ASSUME NEW c \in Calls, TerminateReturns(c) PROVE StagesAgree'
  <2>1. /\ ReleaseSlot(c, "returned") /\ c \in removed
        /\ active' = active \ {c} /\ removed' = removed \ {c}
        /\ box' = box /\ stranded' = stranded
    BY <1>6 DEF TerminateReturns
  <2> QED
    BY <2>1, ReleaseType DEF IInv, TypeOK, StagesAgree
<1>7. CASE UNCHANGED vars
  BY <1>7 DEF vars, IInv, StagesAgree
<1> QED
  BY <1>1, <1>2, <1>3, <1>4, <1>5, <1>6, <1>7 DEF Next, CreateStep

LEMMA TypeInv == ASSUME IInv, [Next]_vars PROVE TypeOK'
<1>1. ASSUME NEW c \in Calls,
             RejectImage(c) \/ CreateContainerFails(c) \/ RemoveFailed(c)
             \/ TerminateReturns(c)
      PROVE  /\ pc' \in [Calls -> Stages]
             /\ box' \in [Calls -> Boxes]
             /\ active' \subseteq Calls /\ removed' \subseteq Calls /\ stranded' \subseteq Calls
  <2>1. ReleaseSlot(c, "failed") \/ ReleaseSlot(c, "returned")
    BY <1>1 DEF RejectImage, CreateContainerFails, RemoveFailed, TerminateReturns
  <2>2. /\ box' \in {box, [box EXCEPT ![c] = "gone"], [box EXCEPT ![c] = "created"]}
        /\ active' \subseteq active /\ removed' \subseteq removed
        /\ stranded' \in {stranded, stranded \cup {c}}
    BY <1>1 DEF RejectImage, CreateContainerFails, RemoveFailed, TerminateReturns
  <2> QED
    BY <2>1, <2>2, ReleaseType DEF IInv, TypeOK, Boxes
<1>2. ASSUME NEW c \in Calls,
             AcquireNow(c) \/ AcquireWait(c) \/ Timeout(c)
             \/ CreateContainer(c) \/ Start(c) \/ StartFails(c) \/ ReturnSandbox(c)
             \/ InitCommandHangs(c) \/ TerminateRemoves(c) \/ Vanish(c)
      PROVE  /\ pc' \in [Calls -> Stages]
             /\ box' \in [Calls -> Boxes]
             /\ active' \subseteq Calls /\ removed' \subseteq Calls /\ stranded' \subseteq Calls
  BY <1>2 DEF AcquireNow, AcquireWait, Timeout, CreateContainer, Start, StartFails,
              ReturnSandbox, InitCommandHangs, TerminateRemoves, Vanish,
              IInv, TypeOK, Stages, Boxes
<1>3. CASE UNCHANGED vars
  BY <1>3 DEF vars, IInv, TypeOK
<1>4. Sem!TypeOK'
  BY StepMaps, Sem!NextInv, MaxContainersAssumption, CallsAssumption
     DEF IInv, Sem!IInv, Sem!IsFiniteSet, IsFiniteSet
<1> QED
  BY <1>1, <1>2, <1>3, <1>4 DEF Next, CreateStep, TypeOK, Sem!TypeOK

LEMMA NextInv == ASSUME IInv, [Next]_vars PROVE IInv'
<1>1. Sem!IInv'
  BY StepMaps, Sem!NextInv, MaxContainersAssumption, CallsAssumption
     DEF IInv, Sem!IsFiniteSet, IsFiniteSet
<1> QED
  BY <1>1, StagesInv, TypeInv DEF IInv

\* The inductive invariant holds in every reachable state.
THEOREM Inductive == Spec => []IInv
<1>1. Init => IInv
  BY InitInv
<1>2. IInv /\ [Next]_vars => IInv'
  BY NextInv
<1> QED
  BY <1>1, <1>2, PTL DEF Spec

\* The driver keeps the types of its state.
THEOREM TypeCorrect == Spec => []TypeOK
<1>1. IInv => TypeOK
  BY DEF IInv
<1> QED
  BY <1>1, Inductive, PTL

\* Every exit of createSandbox and every successful terminate gives the slot
\* back exactly once.
THEOREM SlotsAccounted == Spec => []SlotAccounting
<1>1. IInv => SlotAccounting
  <2> SUFFICES ASSUME IInv PROVE SlotAccounting
    OBVIOUS
  <2>1. Sem!Running = Owners
    BY SlotStateOf DEF Sem!Running, Owners, IInv, TypeOK
  <2> QED
    BY <2>1 DEF IInv, Sem!IInv, Sem!SlotAccounting, SlotAccounting,
                Sem!Cardinality, Cardinality
<1> QED
  BY <1>1, Inductive, PTL

\* Only an owner's container runs, or one that the daemon neither confirmed to
\* start nor agreed to remove: another call that failed left nothing running, a
\* terminated sandbox is gone.
THEOREM NothingRunsUnowned == Spec => []LiveIsOwned
<1>1. IInv => LiveIsOwned
  BY DEF IInv, StagesAgree, LiveIsOwned, Live, Owners
<1> QED
  BY <1>1, Inductive, PTL

\* No more than MaxContainers containers run besides those, although the counter
\* that is compared with the limit counts slots, and containers are made and
\* removed several awaits away from it.
THEOREM LimitHolds == Spec => []LimitRespected
<1>1. IInv => LimitRespected
  <2> SUFFICES ASSUME IInv PROVE LimitRespected
    OBVIOUS
  <2> DEFINE Kept == Live \ stranded
  <2>1. Kept \subseteq Owners /\ Owners \subseteq Calls
    BY DEF IInv, TypeOK, StagesAgree, Live, Owners
  <2>2. Sem!Running = Owners
    BY <2>1, SlotStateOf DEF Sem!Running
  <2>3. Cardinality(Owners) = current /\ current <= MaxContainers /\ current \in Nat
    BY <2>2 DEF IInv, TypeOK, Sem!IInv, Sem!SlotAccounting, Sem!Cardinality, Cardinality
  <2>4. IsFiniteSet(Owners)
    BY <2>1, CallsAssumption, FS_Subset
  <2>5. Cardinality(Kept) <= Cardinality(Owners) /\ Cardinality(Kept) \in Nat
    BY <2>1, <2>4, FS_Subset, FS_CardinalityType
  <2> QED
    BY <2>3, <2>5, MaxContainersAssumption DEF LimitRespected
<1> QED
  BY <1>1, Inductive, PTL

\* The container slots are an AsyncSemaphore, for every set of calls and every
\* limit.
THEOREM ImplementsSemaphore == Spec => SlotsSpec
<1>1. Init => Slots!Init
  <2> SUFFICES ASSUME Init PROVE Slots!Init
    OBVIOUS
  <2>1. SlotState = [c \in Calls |-> "idle"]
    BY DEF Init, SlotState, Owners, Waiting
  <2> QED
    BY <2>1 DEF Init, Slots!Init
<1>2. [Sem!Next]_(Sem!vars) => [Slots!Next]_(Slots!vars)
  BY DEF Sem!Next, Sem!vars, Slots!Next, Slots!vars,
         Sem!AcquireNow, Slots!AcquireNow, Sem!AcquireWait, Slots!AcquireWait,
         Sem!Timeout, Slots!Timeout, Sem!Without, Slots!Without,
         Sem!Release, Slots!Release, Sem!HandOver, Slots!HandOver,
         Sem!GiveBack, Slots!GiveBack
<1>3. IInv /\ [Next]_vars => [Slots!Next]_(Slots!vars)
  BY <1>2, StepMaps
<1> QED
  BY <1>1, <1>3, Inductive, PTL DEF Spec, SlotsSpec, Slots!Spec
=============================================================================
