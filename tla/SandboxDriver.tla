---------------------------- MODULE SandboxDriver ----------------------------
(***************************************************************************)
(* execution-plane/sandbox-runtime/src/docker-driver.ts: the driver that   *)
(* creates one container per execution, at most MaxContainers at a time,   *)
(* and removes it when the execution ends.  A step is what runs between    *)
(* two awaits; while the Docker daemon works, other calls run.             *)
(*                                                                         *)
(* A call c of createSandbox makes at most one container, called c too.    *)
(* The daemon is external: box says what it knows of each container.       *)
(***************************************************************************)
EXTENDS Naturals, Sequences, FiniteSets

CONSTANTS
  Calls,          \* calls of createSandbox
  NameOf,         \* the execution each call is for: it names the container
  BadImage,       \* the calls whose image is not in the allowlist
  MaxContainers   \* maxContainers

ASSUME MaxContainersAssumption == MaxContainers \in Nat \ {0}
ASSUME CallsAssumption         == IsFiniteSet(Calls) /\ BadImage \subseteq Calls

VARIABLES
  current,   \* running.current
  waiters,   \* waiters, oldest first
  active,    \* activeContainers
  pc,        \* where each createSandbox call is
  box,       \* the daemon's view of each call's container
  removed,   \* containers removed by a terminateSandbox that has not resumed yet
  stranded   \* history: calls whose start was rejected, and then their removal

vars == <<current, waiters, active, pc, box, removed, stranded>>

Stages  == {"idle", "waiting", "slot", "created", "removing", "started", "hung",
            "returned", "failed"}
Boxes   == {"none", "created", "running", "gone"}

Without(s, i) == [j \in 1 .. Len(s) - 1 |-> IF j < i THEN s[j] ELSE s[j + 1]]

\* The calls that own a slot: on their way to a container, or holding one the
\* driver has not been told to terminate.
Owners  == {c \in Calls : pc[c] \in {"slot", "created", "removing"}} \cup active
Waiting == {c \in Calls : pc[c] = "waiting"}
Live    == {c \in Calls : box[c] = "running"}

Init ==
  /\ current = 0
  /\ waiters = <<>>
  /\ active = {}
  /\ pc = [c \in Calls |-> "idle"]
  /\ box = [c \in Calls |-> "none"]
  /\ removed = {}
  /\ stranded = {}

\* Mutants of the operators below.
WaiterForgotten(c, stage) ==
  /\ waiters' = IF waiters = <<>> THEN waiters ELSE Tail(waiters)
  /\ pc' = [pc EXCEPT ![c] = stage]
  /\ current' = IF waiters = <<>> /\ current > 0 THEN current - 1 ELSE current

SlotCountedTwice(c, stage) ==
  /\ current' = current - 1
  /\ IF waiters = <<>>
     THEN /\ pc' = [pc EXCEPT ![c] = stage]
          /\ UNCHANGED waiters
     ELSE /\ waiters' = Tail(waiters)
          /\ pc' = [pc EXCEPT ![c] = stage, ![Head(waiters)] = "slot"]

\* releaseContainerSlot() by call c, which goes to the given stage: the oldest
\* waiter inherits the slot, or the counter drops.
ReleaseSlot(c, stage) ==
  IF waiters /= <<>>
  THEN /\ waiters' = Tail(waiters)
       /\ pc' = [pc EXCEPT ![c] = stage, ![Head(waiters)] = "slot"]
       /\ UNCHANGED current
  ELSE /\ current' = IF current > 0 THEN current - 1 ELSE current
       /\ pc' = [pc EXCEPT ![c] = stage]
       /\ UNCHANGED waiters
-----------------------------------------------------------------------------
AcquireOffByOne(c) ==
  /\ pc[c] = "idle"
  /\ current <= MaxContainers
  /\ current' = current + 1
  /\ pc' = [pc EXCEPT ![c] = "slot"]
  /\ UNCHANGED <<waiters, active, box, removed, stranded>>

TerminateReturnsAnyway(c) ==
  /\ pc[c] = "returned"
  /\ c \in active
  /\ active' = active \ {c}
  /\ removed' = removed \ {c}
  /\ ReleaseSlot(c, "returned")
  /\ UNCHANGED <<box, stranded>>

\* acquireContainerSlot(5000), by a new request.
AcquireNow(c) ==
  /\ pc[c] = "idle"
  /\ current < MaxContainers
  /\ current' = current + 1
  /\ pc' = [pc EXCEPT ![c] = "slot"]
  /\ UNCHANGED <<waiters, active, box, removed, stranded>>

AcquireWait(c) ==
  /\ pc[c] = "idle"
  /\ ~ (current < MaxContainers)
  /\ waiters' = Append(waiters, c)
  /\ pc' = [pc EXCEPT ![c] = "waiting"]
  /\ UNCHANGED <<current, active, box, removed, stranded>>

\* The 5 s timer: the request fails with "Sandbox container limit reached".
Timeout(c) ==
  \E i \in 1 .. Len(waiters) :
    /\ waiters[i] = c
    /\ waiters' = Without(waiters, i)
    /\ pc' = [pc EXCEPT ![c] = "failed"]
    /\ UNCHANGED <<current, active, box, removed, stranded>>

\* The image is looked at only once the slot is owned.
RejectImage(c) ==
  /\ pc[c] = "slot"
  /\ c \in BadImage
  /\ ReleaseSlot(c, "failed")
  /\ UNCHANGED <<active, box, removed, stranded>>

\* The daemon knows no container of this name.
NameFree(c) == \A d \in Calls : NameOf[d] = NameOf[c] => box[d] \in {"none", "gone"}

\* docker.createContainer resolves: the name is free.
CreateContainer(c) ==
  /\ pc[c] = "slot"
  /\ c \notin BadImage
  /\ NameFree(c)
  /\ box' = [box EXCEPT ![c] = "created"]
  /\ pc' = [pc EXCEPT ![c] = "created"]
  /\ UNCHANGED <<current, waiters, active, removed, stranded>>

\* It rejects (name taken, image missing, daemon error), and there is nothing to
\* remove for the driver; the daemon may have made the container all the same.
CreateContainerFails(c) ==
  /\ pc[c] = "slot"
  /\ c \notin BadImage
  /\ \/ NameFree(c) /\ box' = [box EXCEPT ![c] = "created"]
     \/ UNCHANGED box
  /\ ReleaseSlot(c, "failed")
  /\ UNCHANGED <<active, removed, stranded>>

\* container.start() resolves: the container counts as active at once.
Start(c) ==
  /\ pc[c] = "created"
  /\ box' = [box EXCEPT ![c] = "running"]
  /\ active' = active \cup {c}
  /\ pc' = [pc EXCEPT ![c] = "started"]
  /\ UNCHANGED <<current, waiters, removed, stranded>>

\* It rejects, though the container may have started: the catch block awaits a
\* forced removal first.
StartFails(c) ==
  /\ pc[c] = "created"
  /\ box' \in {box, [box EXCEPT ![c] = "running"]}
  /\ pc' = [pc EXCEPT ![c] = "removing"]
  /\ UNCHANGED <<current, waiters, active, removed, stranded>>

\* That removal; its failure is swallowed, and the slot is released either way.
RemoveFailed(c) ==
  /\ pc[c] = "removing"
  /\ \/ box' = [box EXCEPT ![c] = "gone"] /\ UNCHANGED stranded
     \/ UNCHANGED box /\ stranded' = stranded \cup {c}
  /\ ReleaseSlot(c, "failed")
  /\ UNCHANGED <<active, removed>>

\* inspect and the init commands are best effort and cannot fail the call.
ReturnSandbox(c) ==
  /\ pc[c] = "started"
  /\ pc' = [pc EXCEPT ![c] = "returned"]
  /\ UNCHANGED <<current, waiters, active, box, removed, stranded>>

\* The stream of an init command has no error handler: without an "end" event
\* the call never returns.
InitCommandHangs(c) ==
  /\ pc[c] = "started"
  /\ pc' = [pc EXCEPT ![c] = "hung"]
  /\ UNCHANGED <<current, waiters, active, box, removed, stranded>>
-----------------------------------------------------------------------------
\* terminateSandbox: the daemon removes the container.  If it refuses, or knows
\* no such container, the answer is false and nothing changes, so that is no step.
TerminateRemoves(c) ==
  /\ pc[c] = "returned"
  /\ box[c] = "running"
  /\ box' = [box EXCEPT ![c] = "gone"]
  /\ removed' = removed \cup {c}
  /\ UNCHANGED <<current, waiters, active, pc, stranded>>

\* The continuation frees the slot and answers true.
TerminateReturns(c) ==
  /\ c \in removed
  /\ active' = active \ {c}
  /\ removed' = removed \ {c}
  /\ ReleaseSlot(c, "returned")
  /\ UNCHANGED <<box, stranded>>

\* The container disappears without the driver (docker rm, a pruned host).
Vanish(c) ==
  /\ box[c] = "running"
  /\ box' = [box EXCEPT ![c] = "gone"]
  /\ UNCHANGED <<current, waiters, active, pc, removed, stranded>>

CreateStep(c) ==
  \/ RejectImage(c)
  \/ CreateContainer(c)
  \/ CreateContainerFails(c)
  \/ Start(c)
  \/ StartFails(c)
  \/ RemoveFailed(c)
  \/ ReturnSandbox(c)
  \/ InitCommandHangs(c)

Next ==
  \E c \in Calls :
    \/ AcquireNow(c)
    \/ AcquireWait(c)
    \/ Timeout(c)
    \/ CreateStep(c)
    \/ TerminateRemoves(c)
    \/ TerminateReturns(c)
    \/ Vanish(c)

\* Timers fire and the daemon answers what createSandbox asks it; nobody is
\* obliged to terminate a sandbox.
Fairness ==
  \A c \in Calls : WF_vars(Timeout(c)) /\ WF_vars(CreateStep(c))

Spec     == Init /\ [][Next]_vars
FairSpec == Spec /\ Fairness
-----------------------------------------------------------------------------
TypeOK ==
  /\ current \in Nat
  /\ waiters \in Seq(Calls)
  /\ active \subseteq Calls
  /\ pc \in [Calls -> Stages]
  /\ box \in [Calls -> Boxes]
  /\ removed \subseteq Calls
  /\ stranded \subseteq Calls

\* Every exit of createSandbox and every successful terminate gives the slot
\* back exactly once: the counter is the number of calls that own one.
SlotAccounting == current = Cardinality(Owners)

\* No more than MaxContainers containers run, whichever way creations fail, time
\* out and overlap with terminations, apart from those that the daemon neither
\* confirmed to start nor agreed to remove.
LimitRespected == Cardinality(Live \ stranded) <= MaxContainers

\* Apart from those only an owner's container runs: a call that failed otherwise
\* left nothing running, and a terminated sandbox is gone.
LiveIsOwned == Live \subseteq Owners \cup stranded

\* docs/developer-guide.md, line 92, on SANDBOX_MAX_CONTAINERS: "container slot
\* limit; excess waits 5s then fails with RESOURCE_EXHAUSTED"; broken by a container
\* that started though its start was rejected, and was not removed.
LimitCoversAll == Cardinality(Live) <= MaxContainers

\* Every request is answered unless one of its init commands hangs: a waiter
\* by a slot or by its timer, an owner by the daemon.
RequestAnswered ==
  \A c \in Calls :
    pc[c] /= "idle" ~> pc[c] \in {"returned", "failed", "hung"}

\* The container slots are a semaphore of their own in this file; they behave
\* as AsyncSemaphore does, whose slots are here released by other callbacks
\* than those that acquired them.
SlotState ==
  [c \in Calls |-> IF c \in Owners THEN "running"
                   ELSE IF c \in Waiting THEN "waiting" ELSE "idle"]
Slots == INSTANCE AsyncSemaphore
           WITH Callers <- Calls, Max <- MaxContainers, Timed <- Calls,
                state <- SlotState
SlotsSpec == Slots!Spec
=============================================================================
