-------------------------- MODULE LlmRouter_proofs ---------------------------
(***************************************************************************)
(* The router bounds what its providers work on, for every chain of models *)
(* and every number of requests.  The semaphore bounds the handlers inside *)
(* (AsyncSemaphore_proofs); a provider works for a handler that awaits it, *)
(* because the abort ends every request in flight before a breaker gives   *)
(* one up, and what a breaker gave up finds the signal aborted.  No slot   *)
(* leaks: it is given back exactly by the steps that answer its request.   *)
(***************************************************************************)
EXTENDS LlmRouter, AsyncSemaphore_proofs

\* A request in the chain; RouterTypeOK without the length of the chain.
InChain(c) == call[c].at \in {"trying", "calling", "backoff"}

CallType == [at : {"new", "queued", "trying", "calling", "backoff", "answered"},
             model : Nat, attempt : Nat, aborted : BOOLEAN, written : SUBSET Nat,
             answer : {"none", "refused", "busy", "rejected", "ok", "error"}]

CallsTyped ==
  /\ call \in [Callers -> CallType]
  /\ upstream \subseteq Callers \X Nat
  /\ leftover \subseteq Callers \X Nat

\* Who is in the chain holds a slot; a provider works on the model its handler
\* awaits, unless it was aborted; what a breaker left behind was aborted.
Serving   == \A c \in Callers : InChain(c) => state[c] = "running"
Awaited   == \A u \in upstream : /\ call[u[1]].at = "calling"
                                 /\ call[u[1]].model = u[2]
                                 /\ ~ call[u[1]].aborted
Abandoned == \A o \in leftover : call[o[1]].aborted

RouterInv == IInv /\ CallsTyped /\ Serving /\ Awaited /\ Abandoned

SemaphoreStep(c) == AcquireNow(c) \/ AcquireWait(c) \/ Timeout(c) \/ Release(c)

\* A step of the semaphore takes its slot from nobody but the caller that
\* releases it.
LEMMA SlotsStay ==
  ASSUME IInv, NEW c \in Callers, SemaphoreStep(c), NEW d \in Callers,
         state[d] = "running", d /= c \/ ~ Release(c)
  PROVE  state'[d] = "running"
<1>1. state \in [Callers -> {"idle", "waiting", "running"}] /\ waiters \in Seq(Callers)
  BY DEF IInv, TypeOK
<1>2. CASE AcquireNow(c) \/ AcquireWait(c)
  BY <1>1, <1>2 DEF AcquireNow, AcquireWait
<1>3. CASE Timeout(c)
  <2>1. PICK i \in 1 .. Len(waiters) : waiters[i] = c /\ state' = [state EXCEPT ![c] = "idle"]
    BY <1>3 DEF Timeout
  <2>2. c \in Waiting
    BY <2>1 DEF IInv, LineExact
  <2> QED
    BY <1>1, <2>1, <2>2 DEF Waiting
<1>4. CASE HandOver(c) /\ d /= c
  <2>1. Head(waiters) \in Callers
    BY <1>1, <1>4 DEF HandOver
  <2> QED
    BY <1>1, <1>4, <2>1 DEF HandOver
<1>5. CASE GiveBack(c) /\ d /= c
  BY <1>1, <1>5 DEF GiveBack
<1> QED
  BY <1>2, <1>3, <1>4, <1>5 DEF SemaphoreStep, Release

\* The handlers use the semaphore one step at a time.
LEMMA StepOfSemaphore ==
  ASSUME NEW c \in Callers,
         BeforeChain(c) \/ Handler(c) \/ ProviderAnswers(c) \/ AbortTimer(c) \/ BreakerTimeout(c)
  PROVE  UNCHANGED vars \/ SemaphoreStep(c)
<1>1. CASE BeforeChain(c)
  BY <1>1 DEF BeforeChain, Refuse, Arrive, SlotTimeout, ScanRejects, AnswerAndRelease, SemaphoreStep
<1>2. CASE Handler(c)
  BY <1>2 DEF Handler, StartChain, Fire, FailFast, Retry, LeftoverRetries, Fails, NextModel,
              AnswerAndRelease, SemaphoreStep
<1>3. CASE ProviderAnswers(c)
  BY <1>3 DEF ProviderAnswers, Succeeds, FatalStatus, RateLimited, Fails, StreamChunk, StreamEnds,
              NextModel, AnswerAndRelease, SemaphoreStep
<1>4. CASE AbortTimer(c) \/ BreakerTimeout(c)
  BY <1>4 DEF AbortTimer, BreakerTimeout, NextModel, AnswerAndRelease, SemaphoreStep
<1> QED
  BY <1>1, <1>2, <1>3, <1>4

\* So what the router does to the semaphore is a step of the semaphore, or none.
LEMMA RouterMoves ==
  ASSUME [RouterNext]_<<vars, routerVars>> PROVE [Next]_vars
<1>1. CASE UNCHANGED <<vars, routerVars>>
  BY <1>1 DEF vars
<1>2. ASSUME NEW p \in Providers, HalfOpen(p) PROVE [Next]_vars
  BY <1>2 DEF HalfOpen
<1>3. ASSUME NEW c \in Callers, BeforeChain(c) \/ Handler(c) \/ ProviderAnswers(c)
                                \/ AbortTimer(c) \/ BreakerTimeout(c)
      PROVE  [Next]_vars
  BY <1>3, StepOfSemaphore DEF SemaphoreStep, Next
<1> QED
  BY <1>1, <1>2, <1>3 DEF RouterNext

\* And the semaphore keeps its own invariant.
LEMMA SemaphoreInv ==
  ASSUME IInv, [RouterNext]_<<vars, routerVars>> PROVE IInv'
  BY RouterMoves, NextInv

\* The next model, or an error: the request is out of its call, aborted as before.
LEMMA NextModelMoves ==
  ASSUME CallsTyped, NEW c \in Callers, NextModel(c)
  PROVE  /\ call' \in [Callers -> CallType]
         /\ \A d \in Callers : d /= c => call'[d] = call[d]
         /\ call'[c].aborted = call[c].aborted
         /\ \/ call'[c].at = "trying" /\ UNCHANGED vars
            \/ call'[c].at = "answered" /\ Release(c)
<1>1. CASE call[c].model < Len(Models)
  <2>1. call' = [call EXCEPT ![c] =
                   [call[c] EXCEPT !.at = "trying", !.model = call[c].model + 1, !.attempt = 0]]
    BY <1>1 DEF NextModel, CallsTyped
  <2>2. call[c] \in CallType
    BY DEF CallsTyped
  <2>3. [call[c] EXCEPT !.at = "trying", !.model = call[c].model + 1, !.attempt = 0] \in CallType
    <3>1. call[c].model + 1 \in Nat
      BY <2>2 DEF CallType
    <3>2. [call[c] EXCEPT !.at = "trying"] \in CallType
      BY <2>2 DEF CallType
    <3>3. [[call[c] EXCEPT !.at = "trying"] EXCEPT !.model = call[c].model + 1] \in CallType
      BY <3>1, <3>2 DEF CallType
    <3> QED
      BY <3>3 DEF CallType
  <2>4. UNCHANGED vars
    BY <1>1 DEF NextModel
  <2> QED
    BY <2>1, <2>2, <2>3, <2>4 DEF CallsTyped, CallType
<1>2. CASE ~ (call[c].model < Len(Models))
  <2>1. Answer(c, "error") /\ Release(c)
    BY <1>2 DEF NextModel, AnswerAndRelease
  <2> QED
    BY <2>1 DEF Answer, CallsTyped, CallType
<1> QED
  BY <1>1, <1>2

RequestStep(c) ==
  BeforeChain(c) \/ Handler(c) \/ ProviderAnswers(c) \/ AbortTimer(c) \/ BreakerTimeout(c)

\* Each step keeps the types, and changes no request but its own.
LEMMA CallsMove ==
  ASSUME CallsTyped, NEW c \in Callers, RequestStep(c)
  PROVE  CallsTyped' /\ \A d \in Callers : d /= c => call'[d] = call[d]
<1> USE DEF CallsTyped, CallType
<1>1. CASE Refuse(c)
  BY <1>1 DEF Refuse, Answer, routerVars
<1>2. CASE Arrive(c)
  BY <1>2 DEF Arrive, routerVars
<1>3. CASE SlotTimeout(c)
  BY <1>3 DEF SlotTimeout, Answer, routerVars
<1>4. CASE ScanRejects(c)
  BY <1>4 DEF ScanRejects, AnswerAndRelease, Answer, routerVars
<1>5. CASE StartChain(c)
  BY <1>5 DEF StartChain, routerVars
<1>6. CASE AbortTimer(c)
  BY <1>6 DEF AbortTimer, routerVars
<1>7. CASE Fire(c)
  BY <1>7 DEF Fire, Send, routerVars
<1>8. CASE FailFast(c)
  BY <1>8, NextModelMoves DEF FailFast
<1>9. CASE Succeeds(c)
  BY <1>9 DEF Succeeds, Received, AnswerAndRelease, Answer, routerVars
<1>10. CASE FatalStatus(c)
  BY <1>10 DEF FatalStatus, Received, AnswerAndRelease, Answer, routerVars
<1>11. CASE RateLimited(c)
  BY <1>11 DEF RateLimited, Received, routerVars
<1>12. CASE Retry(c)
  BY <1>12 DEF Retry, Send, routerVars
<1>13. CASE Fails(c)
  BY <1>13, NextModelMoves DEF Fails, Received
<1>14. CASE StreamChunk(c)
  BY <1>14 DEF StreamChunk, routerVars
<1>15. CASE StreamEnds(c)
  BY <1>15 DEF StreamEnds, Received, AnswerAndRelease, Answer, routerVars
<1>16. CASE BreakerTimeout(c)
 
  <2>1. call[c].model \in Nat /\ <<c, call[c].model>> \in Callers \X Nat
    OBVIOUS
  <2> QED
    BY <1>16, <2>1, NextModelMoves DEF BreakerTimeout
<1>17. CASE LeftoverRetries(c)
  BY <1>17 DEF LeftoverRetries, routerVars
<1> QED
  BY <1>1, <1>2, <1>3, <1>4, <1>5, <1>6, <1>7, <1>8, <1>9, <1>10, <1>11, <1>12, <1>13, <1>14, <1>15, <1>16, <1>17 DEF RequestStep, BeforeChain, Handler, ProviderAnswers

\* Who is in the chain after a step was in it or had got its slot, and no slot
\* moves.
LEMMA ChainMoves ==
  ASSUME CallsTyped, NEW c \in Callers, RequestStep(c), InChain(c)'
  PROVE  UNCHANGED state /\ (InChain(c) \/ state[c] = "running")
<1> USE DEF CallsTyped, CallType, InChain
<1>1. CASE Refuse(c)
  BY <1>1 DEF Refuse, Answer, vars
<1>2. CASE Arrive(c)
  BY <1>2 DEF Arrive, vars
<1>3. CASE SlotTimeout(c)
  BY <1>3 DEF SlotTimeout, Answer, vars
<1>4. CASE ScanRejects(c)
  BY <1>4 DEF ScanRejects, AnswerAndRelease, Answer, vars
<1>5. CASE StartChain(c)
  BY <1>5 DEF StartChain, vars
<1>6. CASE AbortTimer(c)
  BY <1>6 DEF AbortTimer, vars
<1>7. CASE Fire(c)
  BY <1>7 DEF Fire, Send, vars
<1>8. CASE FailFast(c)
  BY <1>8, NextModelMoves DEF FailFast, vars
<1>9. CASE Succeeds(c)
  BY <1>9 DEF Succeeds, Received, AnswerAndRelease, Answer, vars
<1>10. CASE FatalStatus(c)
  BY <1>10 DEF FatalStatus, Received, AnswerAndRelease, Answer, vars
<1>11. CASE RateLimited(c)
  BY <1>11 DEF RateLimited, Received, vars
<1>12. CASE Retry(c)
  BY <1>12 DEF Retry, Send, vars
<1>13. CASE Fails(c)
  BY <1>13, NextModelMoves DEF Fails, Received, vars
<1>14. CASE StreamChunk(c)
  BY <1>14 DEF StreamChunk, vars
<1>15. CASE StreamEnds(c)
  BY <1>15 DEF StreamEnds, Received, AnswerAndRelease, Answer, vars
<1>16. CASE BreakerTimeout(c)
  BY <1>16, NextModelMoves DEF BreakerTimeout, vars
<1>17. CASE LeftoverRetries(c)
  BY <1>17 DEF LeftoverRetries, vars
<1> QED
  BY <1>1, <1>2, <1>3, <1>4, <1>5, <1>6, <1>7, <1>8, <1>9, <1>10, <1>11, <1>12, <1>13, <1>14, <1>15, <1>16, <1>17
     DEF RequestStep, BeforeChain, Handler, ProviderAnswers

\* A provider works for the call that its handler awaits, or for one it worked
\* for before.
LEMMA UpstreamMoves ==
  ASSUME CallsTyped, IInv, Serving, Awaited, Abandoned, NEW c \in Callers, RequestStep(c), NEW u \in upstream'
  PROVE  \/ u \in upstream /\ u[1] /= c
         \/ u[1] = c /\ call'[c].at = "calling" /\ call'[c].model = u[2] /\ ~ call'[c].aborted
<1> USE DEF CallsTyped, CallType, Awaited, Abandoned
<1>1. CASE Refuse(c)
  BY <1>1 DEF Refuse, Answer
<1>2. CASE Arrive(c)
  BY <1>2 DEF Arrive
<1>3. CASE SlotTimeout(c)
  <2>1. state[c] = "waiting"
    BY <1>3 DEF SlotTimeout, Timeout, IInv, LineExact, Waiting
  <2>2. call[c].at /= "calling"
    BY <2>1 DEF Serving, InChain
  <2> QED
    BY <1>3, <2>2 DEF SlotTimeout, Answer
<1>4. CASE ScanRejects(c)
  BY <1>4 DEF ScanRejects, AnswerAndRelease, Answer
<1>5. CASE StartChain(c)
  BY <1>5 DEF StartChain
<1>6. CASE AbortTimer(c)
  BY <1>6 DEF AbortTimer
<1>7. CASE Fire(c)
  BY <1>7 DEF Fire, Send
<1>8. CASE FailFast(c)
  BY <1>8, NextModelMoves DEF FailFast
<1>9. CASE Succeeds(c)
  BY <1>9 DEF Succeeds, Received, AnswerAndRelease, Answer
<1>10. CASE FatalStatus(c)
  BY <1>10 DEF FatalStatus, Received, AnswerAndRelease, Answer
<1>11. CASE RateLimited(c)
  BY <1>11 DEF RateLimited, Received
<1>12. CASE Retry(c)
  BY <1>12 DEF Retry, Send
<1>13. CASE Fails(c)
  BY <1>13, NextModelMoves DEF Fails, Received
<1>14. CASE StreamChunk(c)
  BY <1>14 DEF StreamChunk
<1>15. CASE StreamEnds(c)
  BY <1>15 DEF StreamEnds, Received, AnswerAndRelease, Answer
<1>16. CASE BreakerTimeout(c)
  BY <1>16, NextModelMoves DEF BreakerTimeout
<1>17. CASE LeftoverRetries(c)
  BY <1>17 DEF LeftoverRetries
<1> QED
  BY <1>1, <1>2, <1>3, <1>4, <1>5, <1>6, <1>7, <1>8, <1>9, <1>10, <1>11, <1>12, <1>13, <1>14, <1>15, <1>16, <1>17
     DEF RequestStep, BeforeChain, Handler, ProviderAnswers

\* An aborted request stays aborted, and what a breaker leaves behind is.
LEMMA LeftoverMoves ==
  ASSUME CallsTyped, NEW c \in Callers, RequestStep(c)
  PROVE  /\ call[c].aborted => call'[c].aborted
         /\ \A o \in leftover' : o \in leftover \/ (o[1] = c /\ call'[c].aborted)
<1> USE DEF CallsTyped, CallType
<1>1. CASE Refuse(c)
  BY <1>1 DEF Refuse, Answer, routerVars
<1>2. CASE Arrive(c)
  BY <1>2 DEF Arrive, routerVars
<1>3. CASE SlotTimeout(c)
  BY <1>3 DEF SlotTimeout, Answer, routerVars
<1>4. CASE ScanRejects(c)
  BY <1>4 DEF ScanRejects, AnswerAndRelease, Answer, routerVars
<1>5. CASE StartChain(c)
  BY <1>5 DEF StartChain, routerVars
<1>6. CASE AbortTimer(c)
  BY <1>6 DEF AbortTimer, routerVars
<1>7. CASE Fire(c)
  BY <1>7 DEF Fire, Send, routerVars
<1>8. CASE FailFast(c)
  BY <1>8, NextModelMoves DEF FailFast, routerVars
<1>9. CASE Succeeds(c)
  BY <1>9 DEF Succeeds, Received, AnswerAndRelease, Answer, routerVars
<1>10. CASE FatalStatus(c)
  BY <1>10 DEF FatalStatus, Received, AnswerAndRelease, Answer, routerVars
<1>11. CASE RateLimited(c)
  BY <1>11 DEF RateLimited, Received, routerVars
<1>12. CASE Retry(c)
  BY <1>12 DEF Retry, Send, routerVars
<1>13. CASE Fails(c)
  BY <1>13, NextModelMoves DEF Fails, Received, routerVars
<1>14. CASE StreamChunk(c)
  BY <1>14 DEF StreamChunk, routerVars
<1>15. CASE StreamEnds(c)
  BY <1>15 DEF StreamEnds, Received, AnswerAndRelease, Answer, routerVars
<1>16. CASE BreakerTimeout(c)
  BY <1>16, NextModelMoves DEF BreakerTimeout, routerVars
<1>17. CASE LeftoverRetries(c)
  BY <1>17 DEF LeftoverRetries, routerVars
<1> QED
  BY <1>1, <1>2, <1>3, <1>4, <1>5, <1>6, <1>7, <1>8, <1>9, <1>10, <1>11, <1>12, <1>13, <1>14, <1>15, <1>16, <1>17
     DEF RequestStep, BeforeChain, Handler, ProviderAnswers

\* Who releases is outside, and nobody else that is outside comes in.
LEMMA OutsideStays ==
  ASSUME IInv, NEW c \in Callers
  PROVE  /\ Release(c) => state'[c] = "idle"
         /\ SemaphoreStep(c) => \A d \in Callers : d /= c /\ state[d] = "idle" => state'[d] = "idle"
<1>1. state \in [Callers -> {"idle", "waiting", "running"}] /\ waiters \in Seq(Callers)
  BY DEF IInv, TypeOK
<1>2. waiters /= <<>> => Head(waiters) \in Callers /\ state[Head(waiters)] = "waiting"
  BY <1>1 DEF IInv, LineExact, Waiting
<1>3. CASE HandOver(c)
  BY <1>1, <1>2, <1>3 DEF HandOver, SemaphoreStep
<1>4. CASE GiveBack(c)
  BY <1>1, <1>4 DEF GiveBack, SemaphoreStep
<1>5. CASE AcquireNow(c) \/ AcquireWait(c) \/ Timeout(c)
  BY <1>1, <1>5, <1>3, <1>4 DEF AcquireNow, AcquireWait, Timeout, SemaphoreStep, Release
<1> QED
  BY <1>3, <1>4, <1>5 DEF SemaphoreStep, Release

\* A step that answers its request leaves it without a slot.
LEMMA AnswersMove ==
  ASSUME IInv, CallsTyped, SlotsInUse, NEW c \in Callers, RequestStep(c),
         call'[c].at \in {"new", "answered"}
  PROVE  state'[c] = "idle"
<1> USE DEF CallsTyped, CallType, SlotsInUse, vars
<1>1. CASE Refuse(c) \/ LeftoverRetries(c)
  BY <1>1 DEF Refuse, Answer, LeftoverRetries
<1>2. CASE SlotTimeout(c)
  BY <1>2 DEF SlotTimeout, Timeout, IInv, TypeOK
<1>3. CASE ScanRejects(c) \/ Succeeds(c) \/ FatalStatus(c) \/ StreamEnds(c)
  BY <1>3, OutsideStays DEF ScanRejects, Succeeds, FatalStatus, StreamEnds, AnswerAndRelease
<1>4. CASE FailFast(c) \/ Fails(c) \/ BreakerTimeout(c)
  BY <1>4, OutsideStays, NextModelMoves DEF FailFast, Fails, BreakerTimeout
<1>5. CASE Arrive(c) \/ StartChain(c) \/ Fire(c) \/ RateLimited(c) \/ Retry(c)
  BY <1>5 DEF Arrive, StartChain, Fire, RateLimited, Retry
<1>6. CASE AbortTimer(c) \/ StreamChunk(c)
  BY <1>6 DEF AbortTimer, StreamChunk
<1> QED
  BY <1>1, <1>2, <1>3, <1>4, <1>5, <1>6 DEF RequestStep, BeforeChain, Handler, ProviderAnswers

\* So the slots are where the work is, after a step as before.
LEMMA SlotsInUseKept ==
  ASSUME IInv, CallsTyped, Serving', SlotsInUse, NEW c \in Callers, RequestStep(c)
  PROVE  SlotsInUse'
<1>1. \A d \in Callers : d /= c => call'[d] = call[d]
  BY CallsMove
<1>2. SUFFICES ASSUME NEW d \in Callers, call'[d].at \in {"new", "answered"}
               PROVE  state'[d] = "idle"
  BY DEF SlotsInUse, Serving, InChain
<1>3. CASE d = c
  BY <1>2, <1>3, AnswersMove
<1>4. CASE d /= c
  <2>1. state[d] = "idle"
    BY <1>1, <1>2, <1>4 DEF SlotsInUse
  <2>2. UNCHANGED vars \/ SemaphoreStep(c)
    BY StepOfSemaphore DEF RequestStep
  <2> QED
    BY <1>4, <2>1, <2>2, OutsideStays DEF vars
<1> QED
  BY <1>3, <1>4

LEMMA RequestKeeps ==
  ASSUME RouterInv, NEW c \in Callers, RequestStep(c)
  PROVE  CallsTyped' /\ Serving' /\ Awaited' /\ Abandoned'
<1> USE DEF RouterInv
<1>1. CallsTyped' /\ \A d \in Callers : d /= c => call'[d] = call[d]
  BY CallsMove
<1>2. Serving'
  <2>1. SUFFICES ASSUME NEW d \in Callers, InChain(d)' PROVE state'[d] = "running"
    BY DEF Serving
  <2>2. CASE d = c
    BY <2>1, <2>2, ChainMoves DEF Serving
  <2>3. CASE d /= c
    <3>1. state[d] = "running"
      BY <1>1, <2>1, <2>3 DEF InChain, Serving
    <3>2. UNCHANGED vars \/ SemaphoreStep(c)
      BY StepOfSemaphore DEF RequestStep
    <3> QED
      BY <2>3, <3>1, <3>2, SlotsStay DEF vars
  <2> QED
    BY <2>2, <2>3
<1>3. Awaited'
  <2>1. SUFFICES ASSUME NEW u \in upstream'
                 PROVE  call'[u[1]].at = "calling" /\ call'[u[1]].model = u[2] /\ ~ call'[u[1]].aborted
    BY DEF Awaited
  <2>2. u[1] \in Callers
    BY <1>1 DEF CallsTyped
  <2> QED
    BY <1>1, <2>2, UpstreamMoves DEF Awaited
<1>4. Abandoned'
  <2>1. SUFFICES ASSUME NEW o \in leftover' PROVE call'[o[1]].aborted
    BY DEF Abandoned
  <2>2. o[1] \in Callers
    BY <1>1 DEF CallsTyped
  <2> QED
    BY <1>1, <2>2, LeftoverMoves DEF Abandoned
<1> QED
  BY <1>1, <1>2, <1>3, <1>4

LEMMA RouterInitInv == RouterInit => RouterInv
<1> SUFFICES ASSUME RouterInit PROVE RouterInv
  OBVIOUS
<1>1. IInv
  BY InitInv DEF RouterInit
<1>2. CallsTyped
  BY DEF RouterInit, NewCall, CallsTyped, CallType
<1>3. Serving /\ Awaited /\ Abandoned
  BY DEF RouterInit, NewCall, Serving, InChain, Awaited, Abandoned
<1> QED
  BY <1>1, <1>2, <1>3 DEF RouterInv

LEMMA RouterNextInv == ASSUME RouterInv, [RouterNext]_<<vars, routerVars>> PROVE RouterInv'
<1>1. IInv'
  BY SemaphoreInv DEF RouterInv
<1>2. CASE UNCHANGED <<vars, routerVars>>
  BY <1>1, <1>2 DEF vars, routerVars, RouterInv, CallsTyped, Serving, InChain, Awaited, Abandoned
<1>3. ASSUME NEW p \in Providers, HalfOpen(p) PROVE RouterInv'
  BY <1>1, <1>3 DEF HalfOpen, vars, RouterInv, CallsTyped, Serving, InChain, Awaited, Abandoned
<1>4. ASSUME NEW c \in Callers, RequestStep(c) PROVE RouterInv'
  BY <1>1, <1>4, RequestKeeps DEF RouterInv
<1> QED
  BY <1>2, <1>3, <1>4 DEF RouterNext, RequestStep

\* The router's invariant holds in every reachable state, the semaphore's with it.
THEOREM RouterInductive == RouterSpec => []RouterInv
<1> QED
  BY RouterInitInv, RouterNextInv, PTL DEF RouterSpec

\* No more calls are under way at the providers than the semaphore has slots: a
\* provider works only for a handler inside, for each on one model.
THEOREM ProvidersBounded == RouterSpec => []UpstreamBounded
<1>1. RouterInv => UpstreamBounded
  <2> SUFFICES ASSUME RouterInv PROVE Cardinality(upstream) <= Max
    BY DEF UpstreamBounded
  <2> USE DEF RouterInv
  <2> DEFINE f == [u \in upstream |-> u[1]]
  <2>1. \A u \in upstream : u[1] \in Running
    BY DEF CallsTyped, Awaited, Serving, InChain, Running
  <2>2. \A u, v \in upstream : u[1] = v[1] => u = v
    BY DEF CallsTyped, Awaited
  <2>3. f \in Injection(upstream, Running)
    BY <2>1, <2>2 DEF Injection, IsInjective
  <2>4. IsFiniteSet(upstream) /\ Cardinality(upstream) <= Cardinality(Running)
    BY <2>3, RunningFinite, FS_Injection
  <2>5. Cardinality(Running) <= Max /\ Cardinality(Running) \in Nat
    BY RunningFinite DEF IInv, SlotAccounting
  <2> QED
    BY <2>4, <2>5, FS_CardinalityType, MaxAssumption
<1> QED
  BY <1>1, RouterInductive, PTL

\* The line and the slots agree however the chain, its timers and its breakers
\* use the semaphore.
THEOREM RouterLine == RouterSpec => []LineAndSlots
<1>1. RouterInv => LineAndSlots
  BY DEF RouterInv, IInv, LineAndSlots
<1> QED
  BY <1>1, RouterInductive, PTL

\* No exit of a handler leaks its slot or frees one it does not own, however many
\* models, retries and timers lie between.
THEOREM NoSlotLeaks == RouterSpec => []SlotsInUse
<1>1. RouterInit => SlotsInUse
  BY DEF RouterInit, Init, NewCall, SlotsInUse
<1>2. RouterInv /\ RouterInv' /\ SlotsInUse /\ [RouterNext]_<<vars, routerVars>> => SlotsInUse'
  <2> SUFFICES ASSUME RouterInv, RouterInv', SlotsInUse, [RouterNext]_<<vars, routerVars>>
               PROVE  SlotsInUse'
    OBVIOUS
  <2>1. CASE UNCHANGED <<vars, routerVars>>
    BY <2>1 DEF vars, routerVars, SlotsInUse
  <2>2. ASSUME NEW p \in Providers, HalfOpen(p) PROVE SlotsInUse'
    BY <2>2 DEF HalfOpen, vars, SlotsInUse
  <2>3. ASSUME NEW c \in Callers, RequestStep(c) PROVE SlotsInUse'
    BY <2>3, SlotsInUseKept DEF RouterInv
  <2> QED
    BY <2>1, <2>2, <2>3 DEF RouterNext, RequestStep
<1> QED
  BY <1>1, <1>2, RouterInductive, PTL DEF RouterSpec

\* The router uses its semaphore one operation at a time, so what is proved of the
\* semaphore holds of the router.
LEMMA RouterIsSemaphore == RouterSpec => Spec
<1>1. RouterInit => Init
  BY DEF RouterInit
<1>2. [RouterNext]_<<vars, routerVars>> => [Next]_vars
  BY RouterMoves
<1> QED
  BY <1>1, <1>2, PTL DEF RouterSpec, Spec

\* The router as a whole implements the abstract pool of slots: behind its chain,
\* its retries, its breakers and its timers a request only ever asks for a slot,
\* is given one, gives up or returns it.
THEOREM RouterImplementsPool == RouterSpec => PoolSpec
  BY RouterIsSemaphore, ImplementsPool

\* No newcomer overtakes the requests in the line, whoever leaves the chain and
\* on whichever path.
THEOREM RouterNeverBarges == RouterSpec => NoBarging
  BY RouterIsSemaphore, NewcomersNeverBarge
=============================================================================
