---------------------------- MODULE SandboxRuntime ----------------------------
(***************************************************************************)
(* execution-plane/sandbox-runtime/src/index.ts around the driver: the     *)
(* process crashes and restarts with empty memory while the daemon keeps   *)
(* the containers, and on SIGTERM it sweeps the containers it knows before *)
(* it exits.  The gRPC server serves requests while the sweep runs.        *)
(***************************************************************************)
EXTENDS SandboxDriver

CONSTANT MaxExits   \* bound: how often the process ends

VARIABLES
  exits,     \* how often it ended
  sweep,     \* shutdown handler: not running, sweeping, or done
  todo,      \* cleanup's snapshot of activeContainers, less what it handled
  sweeping   \* the container whose removal cleanup awaits (at most one)

runtimeVars == <<vars, exits, sweep, todo, sweeping>>

RuntimeInit ==
  /\ Init
  /\ exits = 0
  /\ sweep = "off"
  /\ todo = {}
  /\ sweeping = {}

DriverStep == Next /\ UNCHANGED <<exits, sweep, todo, sweeping>>

\* SIGTERM: cleanup takes its snapshot.
SweepStarts ==
  /\ sweep = "off"
  /\ sweep' = "sweeping"
  /\ todo' = active
  /\ UNCHANGED <<vars, exits, sweeping>>

\* The daemon removes the next container of the snapshot, or fails to.
SweepRemoves(c) ==
  /\ sweep = "sweeping"
  /\ sweeping = {}
  /\ c \in todo
  /\ \/ /\ box[c] = "running"
        /\ box' = [box EXCEPT ![c] = "gone"]
     \/ UNCHANGED box
  /\ sweeping' = {c}
  /\ todo' = todo \ {c}
  /\ UNCHANGED <<current, waiters, active, pc, removed, stranded, exits, sweep>>

\* Either way the container is forgotten and its slot released.
SweepForgets(c) ==
  /\ c \in sweeping
  /\ active' = active \ {c}
  /\ ReleaseSlot(c, pc[c])
  /\ sweeping' = {}
  /\ UNCHANGED <<box, removed, stranded, exits, sweep, todo>>

SweepEnds ==
  /\ sweep = "sweeping"
  /\ todo = {} /\ sweeping = {}
  /\ sweep' = "done"
  /\ UNCHANGED <<vars, exits, todo, sweeping>>

\* The process ends and a new one starts: after the sweep (tryShutdown, or the
\* forced exit 5 s later), or in a crash.  Calls in flight fail at the client;
\* the containers stay as they are.
Exit ==
  /\ exits < MaxExits
  /\ exits' = exits + 1
  /\ current' = 0
  /\ waiters' = <<>>
  /\ active' = {}
  /\ removed' = {}
  /\ pc' = [c \in Calls |-> IF pc[c] \in {"idle", "returned"} THEN pc[c] ELSE "failed"]
  /\ sweep' = "off"
  /\ todo' = {}
  /\ sweeping' = {}
  /\ UNCHANGED <<box, stranded>>

RuntimeNext ==
  \/ DriverStep
  \/ SweepStarts
  \/ \E c \in Calls : SweepRemoves(c) \/ SweepForgets(c)
  \/ SweepEnds
  \/ Exit

RuntimeSpec == RuntimeInit /\ [][RuntimeNext]_runtimeVars
-----------------------------------------------------------------------------
\* docs/developer-guide.md, line 92, on SANDBOX_MAX_CONTAINERS: "container slot
\* limit; excess waits 5s then fails with RESOURCE_EXHAUSTED".  The host never
\* runs more sandboxes than that when the runtime has restarted, those apart that
\* already exceed the limit of one process (LimitCoversAll).
LimitSurvivesRestart == LimitRespected
=============================================================================
