------------------------------ MODULE Platform ------------------------------
(***************************************************************************)
(* The components around the five that have runs of their own.  Of the     *)
(* api-server: the rows of an agent, the pages of two lists, an account,   *)
(* and the console that asks it.                                           *)
(* Around the workflow: its approval gate, its activities and the remote   *)
(* ones, the stream it reads from the router, the tool proxy, the limits,  *)
(* the audit chain, the objectives, the traces and the pods.               *)
(*                                                                         *)
(* They share no state: a behaviour follows the one that focus names, the  *)
(* others rest in an initial state, and what is checked of each is what it *)
(* would be checked for alone.  The gate and the tool proxy are extended   *)
(* and keep the names of their properties.                                 *)
(***************************************************************************)
EXTENDS Naturals, Sequences, FiniteSets, ApprovalGate, ToolCalls

CONSTANTS
  Requests, Failing, Keys,                               \* AgentRegistry
  AgentIds, Slugs, PageSize, MaxPages,                   \* Listings
  Clients, LockAfter,                                    \* Accounts
  Readers, DedupWindow, MaxClock, MaxTries,              \* Console
  Effects, MaxErrors,
  MaxRequests, MaxTokens, Window, MaxTime, MaxTokenAsk,  \* Limits
  LlmSteps, ToolSteps, Concurrent, PerMinute,            \* Activities
  MaxAttempts, MaxCrashes,
  MaxChunks,                                             \* ChunkStream
  Events, MaxEntries, MaxDays, MaxMade,                  \* AuditChain
  Samples, Target, MaxHistory, BurnWindows, MaxMinutes,  \* SloTracker
  MaxReplays,                                            \* RemoteActivities
  Executions, MaxGone,                                   \* K8sSandboxes
  Traced, MaxSpans, ExportTries, MaxRestarts             \* TraceStore

\* The ids of agents are ordered, and a page has room for one.
ASSUME PageAssumption == AgentIds \subseteq Nat \ {0} /\ PageSize \in Nat \ {0}

\* An account is locked after some failures, a promise is shared for some time
\* and fetched at least once.
ASSUME AccountAssumption == LockAfter \in Nat \ {0}
ASSUME ConsoleAssumption == DedupWindow \in Nat \ {0} /\ MaxTries \in Nat \ {0}

\* An activity calls a model or a tool, and the quota of executions is a number.
ASSUME ActivityAssumption ==
  LlmSteps \cap ToolSteps = {} /\ Concurrent \in Nat /\ MaxAttempts \in Nat \ {0}

\* Something is let through, and a window takes some time.
ASSUME LimitAssumption ==
  MaxRequests \in Nat \ {0} /\ Window \in Nat \ {0} /\ MaxTokens \in Nat /\ MaxTokenAsk \in Nat

\* An execution has finitely many steps, each recorded in some attempts; a chain
\* keeps a number of entries, and there is one for each day.
ASSUME TraceAssumption == MaxSpans \in Nat /\ ExportTries \in Nat \ {0}
ASSUME AuditAssumption == MaxEntries \in Nat /\ MaxDays \in Nat

\* The figures of a sample are counts, and so are those of its buckets.
ASSUME ObjectiveAssumption ==
  /\ Target \in 0 .. 1000
  /\ \A s \in Samples : s.total \in Nat /\ s.failed \in Nat
  /\ \A s \in Samples : \A b \in DOMAIN s.histogram : b \in Nat /\ s.histogram[b] \in Nat

VARIABLES
  focus,
  agents, versions, agentRequest, past,
  drawn, listed, walk, namespaces, visit,
  account, client, tokens, revoked, unlocked,
  clock, asked, promise, dedup, page, source, timer, heartbeats, errors,
  now, bucket, retryAt, admitted, entry, granted, state, spent,
  attempts, watched, outcome, executing, called, crashes,
  router, sent, queue, closed, error, generator, consumed, cancelled,
  chain, made, day,
  minute, history,
  attempt, at, heard, lost, refused, agent, existed, allowed, letter, replays, pool,
  pods, handler, creator, gone,
  span, exports, returned, traceStore, replayed, restarts

Registry == INSTANCE AgentRegistry WITH request <- agentRequest
Lists    == INSTANCE Listings
Users    == INSTANCE Accounts
Page     == INSTANCE Console WITH now <- clock, Window <- DedupWindow, MaxTime <- MaxClock
Limit    == INSTANCE Limits
Work     == INSTANCE Activities
Chunk    == INSTANCE ChunkStream
Audit    == INSTANCE AuditChain
Slo      == INSTANCE SloTracker
Remote   == INSTANCE RemoteActivities
Pods     == INSTANCE K8sSandboxes WITH caller <- creator
Traces   == INSTANCE TraceStore

registryVars == <<agents, versions, agentRequest, past>>
listVars     == <<drawn, listed, walk, namespaces, visit>>
accountVars  == <<account, client, tokens, revoked, unlocked>>
consoleVars  == <<clock, asked, promise, dedup, page, source, timer, heartbeats, errors>>
limitVars    == <<now, bucket, retryAt, admitted, entry, granted, state, spent>>
activityVars == <<attempts, watched, outcome, executing, called, crashes>>
chunkVars    == <<router, sent, queue, closed, error, generator, consumed, cancelled>>
auditVars    == <<chain, made, day>>
sloVars      == <<minute, history>>
remoteVars   == <<attempt, at, heard, lost, refused, agent, existed, allowed, letter, replays, pool>>
podVars      == <<pods, handler, creator, gone>>
traceVars    == <<span, exports, returned, traceStore, replayed, restarts>>

vars == <<focus, registryVars, listVars, accountVars, consoleVars, gateVars, limitVars, activityVars,
          chunkVars, toolVars, auditVars, sloVars, remoteVars, podVars, traceVars>>

Init ==
  /\ focus \in {"agent", "agentList", "namespaceList", "account", "reads", "events", "gate",
                "rate", "quota", "budget", "work", "chunk", "tools", "audit", "slo",
                "remote", "pods", "traces"}
  /\ Registry!RegistryInit /\ (focus /= "agent" => \A r \in Requests : agentRequest[r].op = "get")
  /\ Lists!ListInit /\ (focus /= "agentList" => drawn = {})
  /\ Users!AccountInit
  /\ focus /= "account" => account = Users!NoAccount /\ \A c \in Clients : client[c].op = "login"
  /\ Page!ConsoleInit /\ GateInit /\ Limit!LimitInit /\ Work!ActivityInit /\ Chunk!ChunkInit
  /\ Audit!AuditInit /\ Slo!SloInit /\ Pods!PodInit /\ Traces!TraceInit
  /\ ToolInit /\ (focus /= "tools" => \A c \in Calls : request[c] = Plain)
  /\ Remote!RemoteInit /\ (focus /= "remote" => agent)

\* Every component but the one that moves.
Rest(moving) ==
  /\ UNCHANGED focus
  /\ IF moving = "registry" THEN TRUE ELSE UNCHANGED registryVars
  /\ IF moving = "lists" THEN TRUE ELSE UNCHANGED listVars
  /\ IF moving = "users" THEN TRUE ELSE UNCHANGED accountVars
  /\ IF moving = "page" THEN TRUE ELSE UNCHANGED consoleVars
  /\ IF moving = "gate" THEN TRUE ELSE UNCHANGED gateVars
  /\ IF moving = "limit" THEN TRUE ELSE UNCHANGED limitVars
  /\ IF moving = "work" THEN TRUE ELSE UNCHANGED activityVars
  /\ IF moving = "chunk" THEN TRUE ELSE UNCHANGED chunkVars
  /\ IF moving = "tools" THEN TRUE ELSE UNCHANGED toolVars
  /\ IF moving = "audit" THEN TRUE ELSE UNCHANGED auditVars
  /\ IF moving = "slo" THEN TRUE ELSE UNCHANGED sloVars
  /\ IF moving = "remote" THEN TRUE ELSE UNCHANGED remoteVars
  /\ IF moving = "pods" THEN TRUE ELSE UNCHANGED podVars
  /\ IF moving = "traces" THEN TRUE ELSE UNCHANGED traceVars

ApiServerNext ==
  \/ focus = "agent" /\ Registry!RegistryNext /\ Rest("registry")
  \/ focus = "agentList" /\ Lists!AgentListNext /\ Rest("lists")
  \/ focus = "namespaceList" /\ Lists!NamespaceNext /\ Rest("lists")
  \/ focus = "account" /\ Users!AccountNext /\ Rest("users")
  \/ focus = "reads" /\ (Page!TimePasses \/ Page!ReadNext) /\ Rest("page")
  \/ focus = "events" /\ Page!EventNext /\ Rest("page")

ServiceNext ==
  \/ focus = "gate"   /\ GateNext /\ Rest("gate")
  \/ focus = "rate"   /\ (Limit!Tick \/ Limit!RateNext) /\ Rest("limit")
  \/ focus = "quota"  /\ (Limit!Tick \/ Limit!QuotaNext) /\ Rest("limit")
  \/ focus = "budget" /\ (Limit!Tick \/ Limit!BudgetNext) /\ Rest("limit")
  \/ focus = "work"   /\ Work!ActivityNext /\ Rest("work")
  \/ focus = "chunk"  /\ Chunk!ChunkNext /\ Rest("chunk")
  \/ focus = "tools"  /\ ToolNext /\ Rest("tools")
  \/ focus = "audit"  /\ Audit!AuditNext /\ Rest("audit")
  \/ focus = "slo"    /\ Slo!SloNext /\ Rest("slo")
  \/ focus = "remote" /\ Remote!RemoteNext /\ Rest("remote")
  \/ focus = "pods"   /\ Pods!PodNext /\ Rest("pods")
  \/ focus = "traces" /\ Traces!TraceNext /\ Rest("traces")

Next == ApiServerNext \/ ServiceNext

\* The fairness each of the modules states, for the behaviours that follow it.
Fairness ==
  /\ WF_gateVars(focus = "gate" /\ GateProgress)
  /\ \A s \in Work!Steps :
       /\ WF_activityVars(focus = "work" /\ Work!Schedule(s))
       /\ WF_activityVars(focus = "work" /\ Work!Abandoned(s))
       /\ \A k \in 1 .. MaxAttempts : WF_activityVars(focus = "work" /\ Work!Runs(s, k))
  /\ WF_chunkVars(focus = "chunk" /\ (Chunk!End \/ Chunk!Error))
  /\ WF_chunkVars(focus = "chunk" /\ Chunk!GeneratorStep)
  /\ \A c \in Calls : WF_toolVars(focus = "tools" /\ Handles(c))

PlatformSpec == Init /\ [][Next]_vars /\ Fairness
-----------------------------------------------------------------------------
\* A stored version of an agent is one the agent had, and no two are the same.
VersionsFaithful == Registry!VersionsFaithful

\* The pages of ListAgents show every agent that stays, and none twice.
WalkComplete == Lists!WalkComplete

\* Enough failed logins, however they interleave, lock the account.
LimitLocks == Users!LimitLocks

\* admin-console: a reader is never shown what was fetched longer than the
\* window before it asked, and a page has one source of events, closed with it.
ConsoleSound == Page!FreshEnough /\ Page!OneSource

\* The rate limiter, the quotas and the token budgets of packages/shared: no
\* stretch of time holds more than they promise, though they clean up and roll
\* their windows while requests arrive, and a caller that waits as long as it was
\* told to is let through if nobody else of its key was in the meantime.
NeverTooMuch == Limit!SlidingRate /\ Limit!RetryHonest /\ Limit!TwoWindows /\ Limit!BudgetKept

\* activities/index.ts: the quota of concurrent executions counts the requests
\* that are under way, through failures, retries, timeouts and crashes.
QuotaExact == Work!QuotaExact

\* activities/index.ts, the generator over the router's stream: chunks in order,
\* and its end or error only after all of them.
NothingSkipped == Chunk!NothingSkipped

\* packages/shared/src/audit: a chain verifies, and each of its hashes that is left
\* in a chain that verifies vouches for all events up to it.
ChainTells == Audit!ChainTells

\* packages/shared/src/slo: an objective that is missed or burns its budget has none
\* left, however its figures are rounded, and its latency is the least that fits.
SloAgrees == Slo!SloAgrees

\* The activities that Temporal runs again after an answer was lost: what their
\* workflow hears is true, a dead letter remembers its replays, and an execution
\* has one pod at a time, though attempts that were given up go on.
RetriesHarmless == Remote!HeardIsTrue /\ Remote!ReplaysCounted /\ Pods!OnePodEach

\* observability-plane: a replay shows every span exported to this process, in the
\* order of the steps but for attempts that were given up.
ReplayComplete == Traces!ReplayComplete

\* What must end: the gate; every activity, by telling its workflow something;
\* the generator over a stream; every tool call that was begun.
AllEnds == <>[](
  /\ focus = "gate"  => GateClosed
  /\ focus = "work"  => Work!AllAnswered
  /\ focus = "chunk" => Chunk!Returned
  /\ focus = "tools" => NoneUnderWay)
=============================================================================
