# TLA+ models of the agent orchestration platform

The platform runs AI agents: an API server accepts an execution, a Temporal
workflow drives a think/act loop for it, and gRPC services ("planes") answer the
calls the loop makes: policy, LLM, tools, sandboxes, memory. This directory
holds TLA+ modules of the parts whose correctness depends on the order of
events, the TLC runs that check them on small instances, and TLAPS proofs of
their most important properties for every value of the constants.

Paths below are relative to `src/`. Run a check with
`tlc -config MCLlmRouter.cfg MCLlmRouter`, a proof with
`tlapm LlmRouter_proofs.tla`.

## 1. Inventory

| Component | State it keeps | Operations | Talks to |
|---|---|---|---|
| Agent execution workflow (`control-plane/workflow-engine/src/temporal/workflows/react-workflow.ts`) | iteration, cancel flag, conversation, cost, tool calls seen and made, sandbox id, result | the loop, cancel signal, status query | every activity |
| Activities (`.../activities/index.ts`, `dead-letter-queue.ts`) | the worker's quota, a dead letter table | admitAgent, evaluatePolicy, callLLM, callLLMStream, executeTool, createSandbox, terminateSandbox, persistMemory, recordObservability, reportOutcome | the planes over gRPC with a 10 s deadline |
| Approval gate (`.../workflows/hitl-gate.ts`) | last decision | approval signal, timeout | activities |
| Sandbox driver (`execution-plane/sandbox-runtime/src/docker-driver.ts`) | slot counter, waiters, active containers | createSandbox, terminateSandbox, cleanup | Docker daemon |
| Kubernetes driver (`packages/shared/src/sandbox`) | nothing; the pods are the cluster's | createSandbox, terminateSandbox | Kubernetes API |
| LLM router (`execution-plane/llm-router/src/index.ts`) | concurrency semaphore, circuit breakers, rate limiter | Generate, GenerateStream | providers |
| Async semaphore (`packages/shared/src/grpc/async-semaphore.ts`) | counter, waiters | acquire, timer, release | LLM router |
| Tool proxy (`execution-plane/tool-proxy/src/index.ts`) | rate limiter | CallTool, shutdown | tools, sandboxes |
| Memory plane (`memory-plane/src/`) | Redis cache, PostgreSQL rows, write queue | Read, Write, Delete, List, Search, shutdown | Redis, PostgreSQL |
| Policy plane (`policy-plane/src/`) | decision cache, circuit breaker | evaluatePolicy | OPA |
| Quotas, budgets, limits (`packages/shared/src/quotas`, `budget`, `rate-limiter.ts`) | counters of windows in memory | check, tryConsume, cleanup | — |
| Registry (`control-plane/api-server/src/agents`, `namespaces`) | agents, their versions, namespaces | create, update, rollback, delete, list | PostgreSQL |
| Authentication (`control-plane/api-server/src/auth`) | users, failed logins, locks, revoked tokens | register, login, change-password, logout | PostgreSQL, Redis |
| API gateway (`control-plane/api-server/src/index.ts`) | event connections | routes, server-sent events | every plane |
| Audit chain (`packages/shared/src/audit`) | entries and last hash of each day | createAuditEntry, verifyAuditChain | PostgreSQL |
| SLO tracker (`packages/shared/src/slo`) | samples | record, snapshot, clear | — |
| Observability plane (`observability-plane/src`) | traces in memory, rows | ExportTrace, GetExecutionReplay | PostgreSQL |
| Admin console (`admin-console/src/lib`) | shared requests, event source of a page | apiRequest, useSSE | API server |
| Secret store, SDKs, interceptors | rows, nothing | CRUD, one request each | — |

**How they interact.** The workflow is the only caller of most planes. It awaits
one activity at a time; an activity is one gRPC call with a deadline of 10 s
(`activities/index.ts`, lines 82-94) which Temporal repeats, so
a plane may do the work twice, or do it after its caller has given up. Inside a
plane there is one JavaScript thread: a callback runs to its next `await` without
interruption, and between two awaits every other request may run.

**What is hard, and what makes each part correct.**

- *Workflow*: the cancel signal arrives at any await; every activity may fail for
  good; the recording of an event may itself be rejected, in the loop, in the
  catch block, or after the result is known. It must stop when cancelled, stop
  at its budget, schedule no tool call twice, terminate its sandbox and report
  what it returns.
- *Activities*: an attempt that Temporal has given up goes on in the worker beside
  the next one; answers are lost, effects are not. Quotas must be given back on
  every exit, answers must be true, and each activity must end.
- *Sandbox driver*: one slot per container, taken before and given back after many
  awaits, on seven different exits, with a timer and a hand-over competing for the
  same waiter; a call that is rejected may have taken effect. Slots must be
  neither lost nor given back twice; the limit must bound what the daemon runs,
  not only the counter.
- *LLM router*: a breaker gives a call up without stopping it, a retry sleeps
  through the abort of its request. What runs at the providers must stay within
  the slots, and a provider that never answers must not keep one.
- *Write queue and memory plane*: the write in flight stays at the head while new
  writes arrive, a full queue drops its head, a failed statement may have been
  applied; cache fills race writes and deletes; a crash loses the queue. Order,
  the newest write, and a cache that comes to agree with its rows.
- *Policy plane*: breaker and cache under concurrent requests; fail closed.
- *Approval gate*: signals during the records that follow a decision.
- *Tool proxy*: retries, two deadlines and the shutdown around one request.
- *Registry, lists, logins*: several statements without a transaction, other
  requests between them; pages of a table that changes.
- *Streams and pages*: a wake-up between a test and an await; answers that come
  after their reader left.
- *Traces*: a recording that Temporal repeats, with another span each time.
- *Limits, audit chain, objectives*: edges of windows, cuts and roundings.

`PROJECT.json` lists each hazard at its line under "hazards".

## 2. Modules

| Module | Models | Shape |
|---|---|---|
| `SlotPool` | what any limiter of concurrent work promises | abstract specification |
| `AsyncSemaphore` | the semaphore class and its callers' acquire/finally discipline | one action per callback; implements `SlotPool` |
| `LlmRouter` | Generate and GenerateStream | extends `AsyncSemaphore`; one action per await and outcome |
| `SandboxDriver` | `DockerSandboxDriver` and the daemon | one action per await; its slots implement `AsyncSemaphore` |
| `SandboxRuntime` | the process around the driver: sweep at shutdown, exit, restart | extends `SandboxDriver` |
| `ReactWorkflow` | `reactWorkflow` with the answers of its activities | one action per await and outcome |
| `MemoryWriteQueue` | `MemoryWriteQueue` with the database's answers | one action per callback |
| `MemoryPlane` | the memory service: Redis, rows, the queue, exits | extends `MemoryWriteQueue` |
| `PolicyEvaluator` | the policy plane's evaluator and interceptor, with OPA's answers | one action per stretch between awaits |
| `Activities` | callLLM and executeTool in a worker under Temporal's attempts | one action per step of an attempt |
| `ChunkStream` | the generator of callLLMStream | one action per event and per stretch of the generator |
| `RemoteActivities` | admitAgent, evaluatePolicy, reportOutcome, dead letters, the pool | one action per step of an attempt |
| `K8sSandboxes` | the Kubernetes driver and the activities that call it | one action per call of the API |
| `TraceStore` | recordObservability, ExportTrace, GetExecutionReplay | one action per handler or await |
| `ApprovalGate` | `hitlApprovalGate` | one action per await |
| `ToolCalls` | CallTool and the proxy's shutdown | one action per await and outcome |
| `Limits` | RateLimiter, QuotaEnforcer, TokenBudget at one clock | one action per call |
| `AgentRegistry` | the rows of an agent and its versions | one action per SQL statement |
| `Listings` | the pages of agents and of namespaces | one action per statement |
| `Accounts` | logins, locks, passwords, revocation | one action per statement |
| `AuditChain` | the hash chain and its verification | one action per call |
| `SloTracker` | samples and figures of a snapshot | state functions of the history |
| `Console` | the console's shared requests and its event source | one action per callback |
| `Logs` | filter and sum over the logs of limits and objectives | functions of how much was looked at |
| `Platform` | the fourteen components without a run of their own | INSTANCEs, see below |
| `..._proofs` | theorems and proofs of the module named; `ApiServer_proofs` and `Services_proofs` of `Platform` | extend the module and TLAPS |
| `MC...` | constants for TLC | extend the module |

Each module states its mutant next to the operator it is a variant of: a
plausible bug per property, which TLC must find.

**AsyncSemaphore.** `current` and `waiters` are the fields; `state` says where
each caller is. `acquire` is two actions because its condition is its only
branch (`AcquireNow`, `AcquireWait`); the timer callback is `Timeout`; `release`
is `HandOver` with a waiter and `GiveBack` without. A waiter in the model is its
caller: the class identifies it by object identity, and a caller has one request
at a time.

**LlmRouter.** Extends the semaphore: a handler's wait for a slot is the class's own
action. `call` says in which await each handler is and which model it asks;
`upstream` is what the providers work on, which is not what the handlers await:
a breaker that times out rejects `fire()` and leaves the call behind (`leftover`),
where its retry may still send a request. `AbortTimer` ends what is under way
through the signal. The abort timer and the breakers have the same length by
default and the timer is armed first, so `BreakerTimeout` comes after the abort.
Whether a breaker opens on a failure depends on a rolling percentage: any
failure may open it. A stream has no breaker and no retry. `AnswerAndRelease` is the
`finally` block, an operator of every action that ends a handler.

**SandboxDriver.** `current`, `waiters` and `active` are the driver's fields, `pc`
is where each call of `createSandbox` awaits, `box` is what the daemon knows.
`ReleaseSlot` is `releaseContainerSlot`, an operator of the actions that call
it. `CreateContainer` needs the container's name to be free: the name is derived
from the execution, so two attempts of one execution collide. Every daemon call
may be rejected, also after it took effect: a creation that failed may have left a
container, which nobody starts, and a start that failed may have started it
(`StartFails`). The catch block then asks for a removal whose own failure is
swallowed (`RemoveFailed`); the slot is released either way, and the history
variable `stranded` remembers the call. `LimitRespected` and `LiveIsOwned` are about
all other containers; `LimitCoversAll`, what the documentation says of all, does not hold. A `terminateSandbox` whose removal is refused
changes nothing and is no step. The file has a semaphore of its own; `SlotsSpec` states that, with
owners as its runners, it is an `AsyncSemaphore`.

**SandboxRuntime.** `Exit` ends the process with whatever it had in memory;
containers stay. `SweepStarts`, `SweepRemoves`, `SweepForgets` are `cleanup`, which
works through a snapshot while requests are still served.

**ReactWorkflow.** `pc` is the await the workflow is at. Records, admission and
policy come first; `CreateAttemptFails` is one failed attempt of the
`createSandbox` activity, which may have left a container behind (`box`);
`ToolAttempt` is one of `executeTool`, each of which may run the tool (`ran`), so that
`ScheduledOnce` is about what the workflow schedules: what an activity's attempts and
the tool proxy's retries repeat is theirs, see `ToolCalls!FailedIsUndone`. The
conversation is abstracted to `unanswered`, the retained structured tool calls
that no tool message answers; tool calls to their keys (name and arguments, as
the loop detection compares them); answers of the LLM to what they cost and what
they are. Of the two texts the code keeps for a tool call without id and a
branch for a tool call without a name only the first is modelled: the
classification of plain text always yields a name. The fallback after the finally
block is unreachable, and is not modelled.

**MemoryWriteQueue.** A write is its number in order of acceptance, all on one
key, so that `stored` (the row) shows which write the database holds. `op` is the
write the flusher took last. `WriteFails` covers an answer lost after the
statement was applied. A statement that the server applies even later, after a
retry of it succeeded, is not modelled.

**MemoryPlane.** The queue's actions, with the rows and the cache around them. The
cache is keyed by type and key, the row by key alone, so two slots may share a row.
A `Write` answers once the cache is set (`WriteCache`, `WriteAccepted`); `ReadMiss`,
`QueryRow`, `Fill` are the awaits of `Read`; `Delete` empties the cache and starts a
statement that nobody awaits (`DeleteCache`, `DeleteRow`). `Exit` loses queue, reads
and statements under way; cache and rows stay.

**PolicyEvaluator.** `circuit`, `failureCount`, `sinceFailure` are the breaker's
fields, `store` and `older` the cache: a JavaScript `Map` is a function together
with the order in which its keys were inserted, and `older` is that order as a
relation. `calls` says where each guarded call is: one call of `evaluatePolicy` is a
`Refuse`, a `ServeCached`, or an `AskOPA` followed by `OPAAnswers` or `OPAFails`.
Clocks are ages: the code compares the time since the last failure and since an
entry was stored with a constant, so an age stops growing where no comparison tells
it from a later one; the failure count stops at the threshold for the same reason.
An input is a record of a path, an action (for all top-level texts) and a clearance
(for all nested fields); `HashInput` keeps the action, which is what the array
replacer of `JSON.stringify` does. OPA's rules are external: `OPADecides` picks any
verdict. `ResponseCut` is a connection that breaks in the body: `postJSON` has no
handler for it, so the call is never answered. `sinceAllow` is a history variable
that no action reads.

**Activities, RemoteActivities, K8sSandboxes.** An activity is a sequence of
attempts; `watched`, or the last attempt, is what Temporal still waits for. An
attempt that was given up stays in the worker and goes on (`StartToClose`, `Lost`,
`Deadline` do not touch it). `executing` and `called` are the enforcer's counts, which
a crash forgets. `admitAgent` treats "already exists" as success; `CreateAgent` answers
every error of its database with an internal error (`RegistryFails`), though the row
may be there; others create and delete the agent meanwhile, so that "admitted" means
that it existed while the attempt ran (`existed`). `reportOutcome`
needs the pool, whose first connection may fail. A read of a pod may be rejected whatever
has become of the pod. A pod is named after its
execution, `Named` is what the API server would refuse a second one for.

**ChunkStream.** `queue`, `closed`, `error` are the generator's locals and `generator`
is where it stands: `parked` in the await, `running`, at a `yield`. The three
callbacks run between its stretches. `sent` and `consumed` number the chunks.

**AgentRegistry, Listings, Accounts.** One action per statement, with what the
handler read before kept in the request's record. A content is a function: under each
top-level key the request whose value it has, since `spec || $n` replaces the whole value
of a key (`Merged`). Two updates of one key therefore leave the later one, and nothing here claims
otherwise. `past` is the history of what an agent has been. The version table is searched by
name, not by agent, so `RestoredIsOwn` does not hold. In `Listings` ids are drawn in any order, because
they are UUIDs. In `Accounts` a token is the client it was given to.

**TraceStore.** A span is one attempt of `recordObservability`: each attempt draws an id of
its own, so that a second one shows its step again (`StepShownOnce` does not hold). Temporal
makes it when it did not hear of the first in time; the call of the first goes on and
may arrive later, in the next process too.

**Limits, AuditChain, SloTracker.** Clocks are numbers up to a bound, hashes the
sequence of what was hashed, rates fractions. A hash has no key: `Rehashed` computes
all of them anew, and `chainId` is part of an entry but not of its hash. So `ChainTells`
does not claim that an edit shows; it says what a chain that verifies proves: each hash that
a reader knows from before vouches for all events up to it. The tracker computes with
doubles. They compare like the fractions except at equality, where they may compare either
way, and a floor of a whole number may be one less; so `Compliant`, `Allowed`
and `Burning` are sets of possible values, and `SloAgrees` is about all of them. With a target of
0.9 and 1 failure of 10 the code reports the objective met, its budget 0 and its burn rate
above 1: `StatusIsBurn` does not hold. `Logs` has `filter` and `reduce` as
functions of how much of an array was looked at, which is also what a proof can unfold.
A sample without a histogram has an empty one. The Redis branch of the enforcer is
dead code: `getRedis` calls `createClient` on the default export of a module that
has none at run time, and falls back for ever.

**Platform.** The components above that have no run of their own are
instantiated next to each other, their constants and the assumptions on them stated once. `focus` names one; it moves, the others rest in an
initial state. They share no variables and none refers to another's, so a
behaviour of the composition in which only one moves is exactly a behaviour of that
one, and each invariant is checked on exactly the states it would be checked on
alone; what is not explored, on purpose, is the product of unrelated states.
The components that do interact are composed by EXTENDS: `LlmRouter` with the
semaphore, `MemoryPlane` with its queue, `SandboxRuntime` with the driver; the driver
and the semaphore, the semaphore and the pool by refinement.

## 3. Runs

| Run | Instance | What it shows |
|---|---|---|
| `llm_router` | 2 Generate calls and a stream, 1 slot, 2 models of 2 providers, 1 retry | the providers' work bounded by the slots, the line exact, every request answered, refinement of `SlotPool` |
| `sandbox_driver` | 5 calls, 2 slots, 2 calls of one execution, 1 bad image | the limit on running containers and nothing left running, but for a container whose start and removal were both rejected; every request answered, refinement of `AsyncSemaphore` |
| `react_workflow` | 3 iterations, 2 tool keys, calls of cost 0 or 2, budget 3, 2 attempts of a creation and of a tool | cancellation, budget, each tool call scheduled once, clean-up, reporting, termination |
| `write_queue` | queue of 2, 2 attempts, 5 writes | the newest write, no idle flusher, disposal drains |
| `memory_plane` | 2 types of one key, queue of 2, 2 attempts, 2 writes, 1 reader, 1 exit | rows only move forward, what is gone stays gone, cache and row converge |
| `policy_evaluator` | 2 requests, 3 keys, cache of 2, threshold 2, times of 1 tick | fail closed, breaker consistent and recovering, cache exact, a withdrawn permission is forgotten |
| `platform` | see below | a property of each of the fourteen components |
| `sandbox_restart` | 2 executions, 1 slot, 1 exit | **violated**: the limit of `docs/developer-guide.md` line 92 does not survive a restart |
| `react_conversation` | as `react_workflow` | **violated**: a repeated tool call stays unanswered, against the comment at line 560 |
| `react_sandbox_leak` | as `react_workflow` | **violated**: a created sandbox may never be terminated, against the comment at line 657 |
| `write_queue_losses` | as `write_queue` | **violated**: a write may vanish without the message of `docs/developer-guide.md` line 103 |
| `policy_cache_key` | 2 inputs with one key | **violated**: inputs that differ in the subject's clearance share a decision, against `policy.test.ts` line 411 |

The properties of `platform`:

| Property | Of | Instance |
|---|---|---|
| `VersionsFaithful` | `AgentRegistry` | 3 requests of any kind, 2 keys, any statement may fail |
| `WalkComplete` | `Listings` | 4 agents, 3 slugs, pages of 2 |
| `LimitLocks` | `Accounts` | 3 clients, lock after 2 failures |
| `ConsoleSound` (`FreshEnough`, `OneSource`) | `Console` | 3 readers of a URL, 2 effects of a page, 2 errors |
| `LastWordCounts` | `ApprovalGate` | 3 signals |
| `NeverTooMuch` (`SlidingRate`, `RetryHonest`, `TwoWindows`, `BudgetKept`) | `Limits` | limit 2, window of 3 ticks, 6 ticks |
| `QuotaExact` | `Activities` | 2 LLM steps and a tool step, 1 place, 2 attempts, 1 crash |
| `NothingSkipped` | `ChunkStream` | 3 chunks |
| `SentAsChecked` | `ToolCalls` | 1 call of every shape, 2 retries |
| `ChainTells` | `AuditChain` | chain of 3, 2 events, 5 entries, 1 change of day, every edit of one entry with hashes kept or computed anew |
| `SloAgrees` | `SloTracker` | 4 samples, one without a histogram, windows of 1 to 3 minutes |
| `RetriesHarmless` (`HeardIsTrue`, `ReplaysCounted`, `OnePodEach`) | `RemoteActivities`, `K8sSandboxes` | 2 attempts each, 2 replays, 1 execution, 2 evictions |
| `ReplayComplete` | `TraceStore` | 2 steps of 2 attempts each, 1 restart |
| `AllEnds` | `ApprovalGate`, `Activities`, `ChunkStream`, `ToolCalls` | as above |

A conjunction groups what one part promises; each conjunct fails by itself under a
bug of its own. The modules also state type invariants (`GateTypeOK`, ...);
they are for the reader, the properties above rely on no check of them.

**Bounds.** The router's properties need a holder, a waiter and a third request that
arrives when the slot moves; two models are needed for a call left behind by the first
while the second is asked, one retry for a call left in backoff. A hand-over, a
timeout out of the middle of a line and a newcomer are what `sandbox_driver` has five
creations for; they also give one conflict of names, one bad image, and three
distinct names that really contend for two slots. Three iterations let a repeated tool
call, a new one and a final answer follow each other, and a budget of 3 with costs of 2
is exceeded by the second answer; two attempts of a tool and two keys tell a repeated
attempt from a repeated schedule. A queue of two with five writes overflows while a
write is in flight, in backoff and idle, and can do so repeatedly; in the memory plane
two writes are enough for an older value that meets a newer row, in another slot or
from an earlier read. Two policy requests are enough for an answer that arrives after
another one opened the breaker, stored the same key or evicted it; three keys overflow a
cache of two; a lifetime and a recovery time of one tick separate fresh from expired and
early from late. In `platform`, three requests are a reader, a writer and one between
their statements; two attempts give one that was given up beside the one that
replaced it; a chain of three is cut twice by five entries; windows meet twice within the time
given. `MaxWrites`, `MaxExits`, `MaxSignals`, `MaxChunks`, `MaxCrashes` and the other
constants marked "bound" in the modules bound the model only; the rest are parameters of the code.
The proofs of section 4 depend on none of them. Deadlock is not
checked, because each of the systems may really stop (an execution that has closed, requests
that are all answered, a disposed queue); that none stops too early is what the
liveness properties say.

**Fairness.** `LlmRouter`: timers fire and continuations run; a provider need never
answer, nor a request ever come. `SandboxDriver`: timers fire, and the daemon answers what `createSandbox`
asks; nobody has to terminate a sandbox, and a hanging init command is an
outcome of its own. `ReactWorkflow`: activities have a startToCloseTimeout and
bounded retries, so each await ends; signals and the execution timeout may never
come. `MemoryWriteQueue`: the database answers (the pool has timeouts) and
backoff timers fire; `MemoryPlane` adds that Redis answers and that what has a time to live
expires. `PolicyEvaluator`: time passes, and a call to OPA
ends by its answer, an error or its timeout, except a response that is cut; requests
and the timer of the cache may never come. `BreakerRecovers` says in its premise that requests
keep coming and that OPA stops failing. `ApprovalGate`: its activities end and
`condition` has a timeout. `Activities`: Temporal schedules, times out and runs attempts;
polling is bounded and every request has a deadline. `ChunkStream`: the router's stream
ends (`RequestAnswered` of the router), the loop runs. `ToolCalls`: a tool answers or the signal expires.

## 4. Proofs

Every invariant and every safety or refinement property that a passing run checks is
also a theorem, about the specification without its fairness and for every value of the constants:

| Property | Theorem | Invariant that carries it |
|---|---|---|
| `LineAndSlots`, `PoolSpec` | `LineAgreesWithSlots`, `ImplementsPool`; `RouterLine`, `RouterImplementsPool` | `IInv` |
| `UpstreamBounded` | `ProvidersBounded` | `RouterInv` |
| `LimitRespected`, `LiveIsOwned`, `SlotsSpec` | `LimitHolds`, `NothingRunsUnowned`, `ImplementsSemaphore` | `StagesAgree` |
| `CancelHonoured`, `BudgetHonoured`, `ScheduledOnce`, `KnownSandboxTerminated`, `OutcomeReported` | `CancelledRunsStop`, `BudgetsHold`, `ToolsScheduledOnce`, `FinallyTerminates`, `OutcomesAreReported` | `Stages` |
| `NewestKept`, `FlusherActive` | `NewestNeverLost`, `FlusherNeverMissed` | `Line`, `Settled` |
| `RowsForward`, `GoneStaysGone` | `RowsMoveForward`, `DeletedStaysAway` | `PlaneInv` |
| `CacheExact`, `BreakerConsistent`, `AllowedByOPA` | `CacheIsExact`, `BreakerIsConsistent`, `FailsClosed` | `Recent` |
| `VersionsFaithful` | `VersionsStayFaithful` | `RegistryInv` |
| `LimitLocks` | `FailuresLock` | `AccountInv` |
| `ConsoleSound` | `ConsoleStaysSound` | `ReadsInv`, `EventsInv` |
| `WalkComplete` | `PagesShowAll` | `WalkInv` |
| `LastWordCounts` | `LastWordIsFinal` | `Decided` |
| `SentAsChecked` | `ToolsOnlyGetWhatPassed` | `Counted`, `Shaped` |
| `QuotaExact` | `QuotaStaysExact` | `ActivityInv` |
| `NothingSkipped` | `StreamsSkipNothing` | `ChunkInv` |
| `RetriesHarmless` | `RepetitionIsHarmless` | `RemoteInv`, `PodInv` |
| `ChainTells` | `TamperingIsSeen` | `ChainInv` |
| `ReplayComplete` | `ReplaysShowAll` | `TraceInv` |
| `NeverTooMuch` | `NothingTooMuch` | `RateInv`, `QuotaInv`, `BudgetInv` |
| `SloAgrees` | `FiguresNeverContradict` | `SloInv` |

**Assumptions.** Each is a named `ASSUME` of the module that declares the constants, and
TLC evaluates it on the run's instance: limits, windows, page sizes and thresholds are
positive, costs, counts and retries are natural numbers, callers are finitely many, ids of
agents are ordered, LLM and tool activities are different activities, a memory
plane has a slot. `ObjectiveAssumption` says only that the figures of samples are counts: that a
histogram counts every request is nothing the tracker enforces, so `SloAgrees` says
what the latency means where some bucket reaches the percentage; where none does the
code returns the last bucket. A target is a number of thousandths up to 1000.

**AsyncSemaphore_proofs.** The bound does not follow from the counter by itself:
the counter is compared with the limit, but a hand-over does not touch it. The
inductive invariant `IInv` adds the accounting (`current` is the number of
runners) and `current <= Max` to the typing and to `LineExact`; that nobody waits
while a slot is free makes the fast path fair (`NoBarging`). The preservation
proof has one step per action; the lemmas say what removing and appending do to
a sequence without repetition and to the cardinality of the runners.
`ImplementsPool` maps every action to one of `SlotPool`.

**LlmRouter_proofs.** Extends the semaphore's proofs. `StepOfSemaphore` shows that
each step of the router is one of the semaphore or leaves it alone, so `IInv` is
preserved by its own lemma. `RouterInv` adds what ties the requests to the slots: a request
in the chain owns a slot (`Serving`), a provider works only for a handler that
awaits just this call and is not aborted (`Awaited`), and what a breaker left behind
belongs to an aborted request (`Abandoned`), so that its late retry sends
nothing. `ChainMoves`, `UpstreamMoves`, `LeftoverMoves` go through the seventeen
actions once each. `UpstreamBounded` is then an injection of the calls into the
runners. It would be false without `Abandoned`, which is why the abort timer must
not come after a breaker's timeout. `NoSlotLeaks`, of `SlotsInUse`, is the other direction: `AnswersMove`
goes through the exits of a handler and finds a release in each. `RouterIsSemaphore`
lifts what is proved of the semaphore, its refinement of `SlotPool` among it, to the router.

**SandboxDriver_proofs.** Counters and lines are not reasoned about a second time.
The module instantiates `AsyncSemaphore_proofs` with the driver's owners as runners;
`ReleaseMaps`, `AcquireMaps` and `StepMaps` show that each step of the driver or the
daemon is a step of the semaphore or leaves it alone, so the semaphore's inductive
invariant is preserved by its own lemma `NextInv`. What is added is `StagesAgree`:
an active container's call is past its start, a running container is active, being removed
after a rejected start, or stranded, and a container being terminated is still active when the
continuation resumes, so that no callback releases a slot twice. `LimitRespected` is then a
comparison of cardinalities: containers that run and are not stranded, owners, counter, limit.

**ReactWorkflow_proofs.** The typing invariant carries `Stages`, which relates the
place in the code to the state (at which awaits there is a verdict, a result, a
sandbox). From it follow `CancelHonoured` (an iteration starts only while no
cancellation was requested), `BudgetHonoured`, `ScheduledOnce` (what was
scheduled is in `seenToolCalls`, and only the call being executed gets further attempts),
`KnownSandboxTerminated` and `OutcomeReported`.

**MemoryPlane_proofs.** First the queue alone. The order of the statements does not follow from the
queue, because the write in flight may have been dropped from it. `Line`
says that the queue holds consecutive arrivals up to the newest, none older than
the write taken last, which is not older than the row; and that the write in
flight is missing from the head only while the queue is full. `Settled` says that
an empty queue has left the newest write applied or logged. Together they give
`NeverBackwards`, `NewestKept` and `FlusherActive`.

Then the service. `QueueMoves` shows that each of its steps but an exit is one of the queue or
leaves it alone, and `ExitOrders` that an exit, which forgets the queue while its last statement
may still be applied, keeps `Ordered`, the part of the queue's invariant that does not promise that
nothing is lost. A row holds no more than what the database applied last, so a
row that is written gets a newer value: `RowsForward`. `GoneStaysGone` needs no row to be
compared: what is in flight was queued (`FlushFlies`, `EnqueueFlies`), so a key of which
nothing is queued, in flight, answered or being filled cannot be written by any step but a
request's.

**PolicyEvaluator_proofs.** A hit is served without asking anybody, so that it is
justified must be in the invariant: `Recent` says that a cached allow is never younger
than OPA's last allow for some input with its key. It is preserved because the answer
that stores an entry resets the history in the same step, and both age together.
`KeepKeeps` and `PutKeeps` say what deleting keys and storing one do to the order,
the size and `Recent`, for any cache size. From them follow `CacheExact`,
`BreakerConsistent` and `AllowedByOPA`, for any number of requests.

**ApiServer_proofs** and **Services_proofs** are about `Platform`. For each component a
lemma (`RegistryMoves`, `ChunkMoves`, ...) shows that a step of the platform is one of its own
next-state relation or leaves it alone; the rest of its section is about that relation.

*Registry.* `PastIsHistory`: the history has what every row holds, nothing of a row that does not
exist and nothing newer than the row. A statement raises the version of the row it
writes, so what it adds cannot meet an older entry under the same version.
*Lock.* `LimitLocks` is inductive with the types: a count that reaches the limit does so
in a request that goes on to lock, and leaves that place only with the count reset.
*Console.* The cache holds a promise that is under way since the time it says
(`CacheIsPromise`), and whoever made a promise holds it (`MakersHold`), so that the clean-up of an
older one does not end what a newer reader shares.
*Pages.* `WalkInv`: up to its cursor a walk has shown all that stayed, and nothing behind it.

*Gate.* `Decided` relates the variable that every signal overwrites
to the history: with a signal it is the last one, without one it is the timeout's from
`record` on. The workflow reads it three times and writes it once, and only the last read
is returned. *Tool proxy.* `Counted` says at which places of the handler how many requests
were sent and that they had passed; requests do not change, so the checks of the
first line still hold when the last retry goes out.
*Quota.* The counter is the cardinality of a set of pairs of activity and
attempt, those at "calling"; `AttemptWritten` and `AttemptCounted` say what writing one attempt
does to it.
*Stream.* What was sent is what was consumed followed by the queue, and a generator that
ended has cancelled the call. *Remote activities, pods.* Every attempt of `admitAgent`
that is over was lost or refused, and one that creates or meets the agent knows that it existed
(`AdmitCounts`); no pod changes hands, and one that is gone stays so.
*Traces.* The steps of an execution are awaited one by one (`OneByOne`) and attempted in
sequence (`AttemptsCounted`), so what arrives out of order belongs to an attempt that was given
up (`InOrder`), and a given up attempt stays one.
*Audit.* In a sequence that verifies, the hash of entry i is what the entries up to i say, by
induction from its first (`HashSaysAll`), so two of them with a hash in common agree up to it
(`HashVouches`); that a chain was edited is used for nothing but its type. The theorem says
so of every sequence of entries, not only of edits of one entry.
*Limits.* The bucket of the rate limiter is the end of the log of what it admitted, and what is
not in it any more was admitted a window ago (`RateInv`); of the requests the quota granted,
the last are counted in the entry, the `maxRequests` before them came before its start, the rest a
window before (`QuotaInv`); the tokens of a stretch are a difference of prefix sums, and
the sums grow by at most a day's tokens within each day (`BudgetInv`).
*Objectives.* `WindowIsMeasured` says that the samples of a window are counts, `FiguresHold` is
about one such list: the failures of a missed objective reach the budget in every rounding, and
the latency is the least bucket that fits.

**Induction over data.** The library's induction theorems take a predicate as a parameter, which no
installed prover can instantiate. `LeastNatural` gets a least element of a set of numbers
from the library's theorem about well-founded sets, `CountUp` and `Recursion` build counting
up and recursive functions from it, and `AmongSteps`, `SumSteps` unfold the functions of `Logs`
for every length. A recursion over anything but a number is still out of reach, and nothing
here needs one.

**Only model-checked.** Liveness: `RequestAnswered` of router and driver, `Closes`, `DisposeDrains`,
`BreakerRecovers`, `WithdrawalTakesEffect`, `Converges`, `AllEnds`: TLAPS does not handle
fairness and ENABLED. The violations of section 3 are found by TLC, too, and the
bounds marked "bound" matter to none of the proofs.

## 5. Known divergences that no run shows

Besides the five runs that end in a violation, the modules state what a doc, a comment or
a test says and the model does not fulfil. Each is a definition with that line in its comment;
put it under `INVARIANTS` (`PROPERTIES` for `ReplayDurable`) of the configuration
of its module, through `Platform`'s instance of it where it has one, to see the behaviour.

| Definition | What the code does |
|---|---|
| `LlmRouter!ModelUsedServed` | a stream that falls back has already sent content of the failed model |
| `Limits!QuotaSlides` | the quota's window is fixed, so two of them meet |
| `Activities!WaitFitsActivity` | polling for the quota outlasts the attempt, which then sends for nobody |
| `SloTracker!BurnRatesAcross` | longer burn windows are computed from the snapshot's own samples |
| `SloTracker!StatusIsBurn` | at equality doubles say that an objective is met and that its budget burns too fast |
| `Accounts!OnlyExpiredCleared` | isLocked clears a lock that was set between its two statements |
| `Listings!NamespacePagesComplete` | the token of the namespace list asks for newer rows of a list in descending order |
| `AuditChain!ChainAlwaysVerifies` | a chain cut to its newest entries does not verify |
| `AuditChain!EveryEditShows` | hashes without a key can be computed anew, and `chainId` is not hashed |
| `ToolCalls!FailedIsUndone` | a call reported as failed may have been done, several times |
| `ApprovalGate!ReturnedAsRecorded` | a signal during the record changes the returned decision |
| `SandboxDriver!LimitCoversAll` | a container whose start was rejected though it runs, and whose removal failed, keeps running without its slot |
| `RemoteActivities!ReportedIsKept` | a rejected INSERT of a dead letter is only logged |
| `K8sSandboxes!FailedLeavesNothing` | a creation that timed out leaves its pod |
| `AgentRegistry!EveryVersionTracked` | a failed snapshot, or two updates at once, skip a version |
| `AgentRegistry!RestoredIsOwn` | versions are found by name, so a rollback after a deletion and a re-creation restores another agent's (seen with four `Requests`) |
| `TraceStore!ReplayDurable` | no span ever reaches PostgreSQL, a restart empties replays |
| `TraceStore!StepShownOnce` | a second attempt of a recording exports another span of its step |

Met while reading and outside the models: no WebSocket plugin is registered with fastify
(`api-server/src/index.ts` lines 1-26 and 130-345), so the handlers of lines 1119 and 1210
are called with a request and a reply and throw before they register anybody; the console listens to unnamed events while
the server sends named ones (`realtime.ts` line 57, `api-server/src/index.ts` line 1070);
the default daily token budget is `parseInt("1_000_000")`, which is 1 (`budget/tracker.ts`
line 25); `getPool` ends the worker when PostgreSQL is down (`db.ts` line 31); the
pattern of forbidden characters in `k8s-sandbox-runtime.ts` line 11 contains the letters n and
r; the retrying gRPC interceptor never calls `next` (`grpc/interceptors.ts` line 42).

## 6. Plan

1. *Done*: the five components with proofs of their own; the router over the
   semaphore; the memory plane over its queue; the workflow's activities, gate and
   stream; the api-server's registry, lists and accounts; tool proxy, limits, audit
   chain, objectives, traces, pods, console.
2. *Done*: a theorem for every invariant and safety property of the passing runs.
3. Proofs of what no run singles out yet: an abstract ordered store that queue and memory plane
   implement.
4. `AgentExecution`: workflow and driver composed, with lost and late answers, in place of
   `CreateAttemptFails`.
5. Secret rotation, if it ever becomes more than single statements.

## 7. Not modelled, and why

The secret store (encryption and single statements), SDKs, charts, manifests and migrations
(no protocol), pages of the console (they render what they get), interceptors and server
set-up (no state), the gateway's forwarding routes (one call each) and its WebSocket routes
(they throw, section 5), metrics and log
queries (output), the classification of plain text and the scan for injected prompts
(regular expressions: their verdicts are inputs of the models). Within the
modelled components: texts, prompts, conversions of arguments and results,
logging, metrics and audit entries; the number of attempts of an activity in
`ReactWorkflow` other than `createSandbox` and `executeTool`, which changes no state of the workflow.
