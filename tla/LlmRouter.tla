----------------------------- MODULE LlmRouter -----------------------------
(***************************************************************************)
(* llm-router/src/index.ts over the semaphore: Generate and GenerateStream *)
(* with the rate limit, the slot, the scan, the fallback chain, the        *)
(* retries of a rate-limited model, the breaker of each provider and the   *)
(* abort timer of the request.                                             *)
(*                                                                         *)
(* The abort timer is armed when the chain starts and its length is that   *)
(* of a breaker's timeout, so no breaker gives up before the abort.  What  *)
(* a breaker gives up is not stopped: it stays behind in leftover.         *)
(***************************************************************************)
EXTENDS AsyncSemaphore

CONSTANTS
  Streaming,    \* the callers of GenerateStream; the others call Generate
  Models,       \* the preferred model and its fallbacks, in order
  ProviderOf,   \* provider of each model
  MaxRetries    \* retryWithBackoff's maxRetries

ASSUME ChainAssumption == Models /= <<>> /\ MaxRetries \in Nat

VARIABLES
  call,      \* what each request is doing
  upstream,  \* <<caller, model>>: requests the providers are working on
  leftover,  \* <<caller, model>>: calls in backoff after their breaker gave up
  breaker    \* opossum, per provider

routerVars == <<call, upstream, leftover, breaker>>

Providers == {ProviderOf[m] : m \in 1 .. Len(Models)}
Chain     == 1 .. Len(Models)

\* at: the await the handler is in.  written: models whose content is on the
\* stream.  answer: what the client was told.
NewCall == [at |-> "new", model |-> 1, attempt |-> 0, aborted |-> FALSE,
            written |-> {}, answer |-> "none"]

RouterInit ==
  /\ Init
  /\ call = [c \in Callers |-> NewCall]
  /\ upstream = {}
  /\ leftover = {}
  /\ breaker = [p \in Providers |-> "closed"]
-----------------------------------------------------------------------------
\* Before the chain.

Answer(c, what) == call' = [call EXCEPT ![c].at = "answered", ![c].answer = what]

\* No API key, or over the rate limit.
Refuse(c) ==
  /\ call[c].at = "new"
  /\ Answer(c, "refused")
  /\ UNCHANGED <<vars, upstream, leftover, breaker>>

Arrive(c) ==
  /\ call[c].at = "new"
  /\ AcquireNow(c) \/ AcquireWait(c)
  /\ call' = [call EXCEPT ![c].at = "queued"]
  /\ UNCHANGED <<upstream, leftover, breaker>>

SlotTimeout(c) ==
  /\ Timeout(c)
  /\ Answer(c, "busy")
  /\ UNCHANGED <<upstream, leftover, breaker>>

\* The finally block of both handlers.
AnswerAndRelease(c, what) ==
  /\ Answer(c, what)
  /\ Release(c)

ScanRejects(c) ==
  /\ call[c].at = "queued" /\ state[c] = "running"
  /\ AnswerAndRelease(c, "rejected")
  /\ UNCHANGED <<upstream, leftover, breaker>>

\* The abort timer is armed and the chain starts.
StartChain(c) ==
  /\ call[c].at = "queued" /\ state[c] = "running"
  /\ call' = [call EXCEPT ![c].at = "trying"]
  /\ UNCHANGED <<vars, upstream, leftover, breaker>>

AbortTimerOfGenerate(c) ==
  /\ call[c].at \in {"trying", "calling", "backoff"} /\ c \notin Streaming
  /\ ~ call[c].aborted
  /\ call' = [call EXCEPT ![c].aborted = TRUE]
  /\ upstream' = {u \in upstream : u[1] /= c}
  /\ UNCHANGED <<vars, leftover, breaker>>

\* setTimeout(() => abort.abort()): every request in flight ends.
AbortTimer(c) ==
  /\ call[c].at \in {"trying", "calling", "backoff"}
  /\ ~ call[c].aborted
  /\ call' = [call EXCEPT ![c].aborted = TRUE]
  /\ upstream' = {u \in upstream : u[1] /= c}
  /\ UNCHANGED <<vars, leftover, breaker>>
-----------------------------------------------------------------------------
\* One model of the chain.

Provider(c) == ProviderOf[call[c].model]

\* What opossum does with a result: any rejection counts, in the half-open state
\* the first result decides.
Succeeded(p) == breaker' = [breaker EXCEPT ![p] = IF @ = "open" THEN @ ELSE "closed"]
Failed(p) ==
  \/ breaker' = [breaker EXCEPT ![p] = "open"]
  \/ breaker[p] = "closed" /\ UNCHANGED breaker

\* fetch, or the SDK's create: with an aborted signal it fails without a request.
Send(c) == upstream' = IF call[c].aborted THEN upstream ELSE upstream \cup {<<c, call[c].model>>}

Received(c) == upstream' = upstream \ {<<c, call[c].model>>}

\* continue: the next model, or the end of the chain.
NextModel(c) ==
  IF call[c].model < Len(Models)
  THEN /\ call' = [call EXCEPT ![c].at = "trying", ![c].model = @ + 1, ![c].attempt = 0]
       /\ UNCHANGED vars
  ELSE AnswerAndRelease(c, "error")

\* breaker.fire, or the start of a stream, which has no breaker.  In the half-
\* open state one call is let through.
Fire(c) ==
  /\ call[c].at = "trying"
  /\ c \in Streaming \/ breaker[Provider(c)] \in {"closed", "halfOpen"}
  /\ Send(c)
  /\ call' = [call EXCEPT ![c].at = "calling"]
  /\ breaker' = IF c \notin Streaming /\ breaker[Provider(c)] = "halfOpen"
                THEN [breaker EXCEPT ![Provider(c)] = "trial"] ELSE breaker
  /\ UNCHANGED <<vars, leftover>>

\* The breaker is open, or awaits its trial call.
FailFast(c) ==
  /\ call[c].at = "trying" /\ c \notin Streaming
  /\ breaker[Provider(c)] \in {"open", "trial"}
  /\ NextModel(c)
  /\ UNCHANGED <<upstream, leftover, breaker>>

Succeeds(c) ==
  /\ call[c].at = "calling" /\ c \notin Streaming /\ ~ call[c].aborted
  /\ Received(c)
  /\ Succeeded(Provider(c))
  /\ AnswerAndRelease(c, "ok")
  /\ UNCHANGED leftover

\* 400, 422, 401 or 403: no other model is asked.
FatalStatus(c) ==
  /\ call[c].at = "calling" /\ ~ call[c].aborted
  /\ Received(c)
  /\ IF c \in Streaming THEN UNCHANGED breaker ELSE Failed(Provider(c))
  /\ AnswerAndRelease(c, "error")
  /\ UNCHANGED leftover

\* 429 with a retry left.
RateLimited(c) ==
  /\ call[c].at = "calling" /\ c \notin Streaming /\ ~ call[c].aborted
  /\ call[c].attempt < MaxRetries
  /\ Received(c)
  /\ call' = [call EXCEPT ![c].at = "backoff", ![c].attempt = @ + 1]
  /\ UNCHANGED <<vars, leftover, breaker>>

\* The backoff ends, aborted or not: fn is called again.
Retry(c) ==
  /\ call[c].at = "backoff"
  /\ Send(c)
  /\ call' = [call EXCEPT ![c].at = "calling"]
  /\ UNCHANGED <<vars, leftover, breaker>>

\* Any other failure, the last 429 and AbortError among them.  A stream may have
\* sent content of this model by then.
Fails(c) ==
  /\ call[c].at = "calling"
  /\ Received(c)
  /\ IF c \in Streaming THEN UNCHANGED breaker ELSE Failed(Provider(c))
  /\ NextModel(c)
  /\ UNCHANGED leftover

\* call.write of a chunk with content, and the end of the stream: the done chunk.
StreamChunk(c) ==
  /\ call[c].at = "calling" /\ c \in Streaming /\ ~ call[c].aborted
  /\ call' = [call EXCEPT ![c].written = @ \cup {call[c].model}]
  /\ UNCHANGED <<vars, upstream, leftover, breaker>>

StreamEnds(c) ==
  /\ call[c].at = "calling" /\ c \in Streaming /\ ~ call[c].aborted
  /\ Received(c)
  /\ AnswerAndRelease(c, "ok")
  /\ UNCHANGED <<leftover, breaker>>

BreakerTimeoutFirst(c) ==
  /\ call[c].at \in {"calling", "backoff"} /\ c \notin Streaming
  /\ leftover' = IF call[c].at = "backoff" THEN leftover \cup {<<c, call[c].model>>}
                                           ELSE leftover
  /\ Failed(Provider(c))
  /\ NextModel(c)
  /\ UNCHANGED upstream

\* The breaker's timeout: fire() is rejected, the call itself goes on.
BreakerTimeout(c) ==
  /\ call[c].at \in {"calling", "backoff"} /\ c \notin Streaming
  /\ call[c].aborted
  /\ leftover' = IF call[c].at = "backoff" THEN leftover \cup {<<c, call[c].model>>}
                                           ELSE leftover
  /\ Failed(Provider(c))
  /\ NextModel(c)
  /\ UNCHANGED upstream

\* A call left in backoff wakes up and calls its provider once more.
LeftoverRetries(c) ==
  \E o \in leftover :
    /\ o[1] = c
    /\ leftover' = leftover \ {o}
    /\ upstream' = IF call[c].aborted THEN upstream ELSE upstream \cup {o}
    /\ UNCHANGED <<vars, call, breaker>>

\* opossum's resetTimeout.
HalfOpen(p) ==
  /\ breaker[p] = "open"
  /\ breaker' = [breaker EXCEPT ![p] = "halfOpen"]
  /\ UNCHANGED <<vars, call, upstream, leftover>>
-----------------------------------------------------------------------------
BeforeChain(c) == Refuse(c) \/ Arrive(c) \/ SlotTimeout(c) \/ ScanRejects(c)

\* What the handler does by itself, once its last await is over.
Handler(c) ==
  \/ StartChain(c) \/ Fire(c) \/ FailFast(c) \/ Retry(c) \/ LeftoverRetries(c)
  \/ call[c].aborted /\ Fails(c)

\* What a provider's answer does.
ProviderAnswers(c) ==
  Succeeds(c) \/ FatalStatus(c) \/ RateLimited(c) \/ Fails(c) \/ StreamChunk(c) \/ StreamEnds(c)

RouterNext ==
  \/ \E c \in Callers : BeforeChain(c) \/ Handler(c) \/ ProviderAnswers(c)
                        \/ AbortTimer(c) \/ BreakerTimeout(c)
  \/ \E p \in Providers : HalfOpen(p)

\* Timers fire and continuations run.  A provider may never answer.
RouterFairness ==
  \A c \in Callers :
    /\ WF_<<vars, routerVars>>(Handler(c))
    /\ WF_<<vars, routerVars>>(AbortTimer(c))
    /\ WF_<<vars, routerVars>>(SlotTimeout(c))

RouterSpec     == RouterInit /\ [][RouterNext]_<<vars, routerVars>>
FairRouterSpec == RouterSpec /\ RouterFairness
-----------------------------------------------------------------------------
Calls == [at : {"new", "queued", "trying", "calling", "backoff", "answered"},
          model : Chain, attempt : 0 .. MaxRetries, aborted : BOOLEAN,
          written : SUBSET Chain,
          answer : {"none", "refused", "busy", "rejected", "ok", "error"}]

RouterTypeOK ==
  /\ call \in [Callers -> Calls]
  /\ upstream \subseteq Callers \X Chain
  /\ leftover \subseteq Callers \X Chain
  /\ breaker \in [Providers -> {"closed", "open", "halfOpen", "trial"}]

\* LLM_MAX_CONCURRENT bounds what the providers really work on, not only the
\* handlers inside: no call that its breaker gave up, that was retried or that
\* was aborted stays at a provider while its slot goes to another request.
UpstreamBounded == Cardinality(upstream) <= Max

\* The finally blocks free what was acquired, on every path once: a handler is
\* in its chain only with a slot of its own, and a request that is answered, by
\* whichever of the exits, neither keeps a slot nor a place in the line.
SlotsInUse ==
  \A c \in Callers :
    /\ call[c].at \in {"trying", "calling", "backoff"} => state[c] = "running"
    /\ call[c].at \in {"new", "answered"} => state[c] = "idle"

\* A request that reached the semaphore is answered, even if no provider ever
\* answers: the timers of the line and of the abort end it.
RequestAnswered == \A c \in Callers : call[c].at = "queued" ~> call[c].at = "answered"

\* api/proto/egaop/v1/llm.proto, line 68: "model_used = 3; // actual model that
\* served the stream": the done chunk names the model the content came from.
ModelUsedServed ==
  \A c \in Streaming : call[c].answer = "ok" => call[c].written \subseteq {call[c].model}
=============================================================================
