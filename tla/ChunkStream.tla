---------------------------- MODULE ChunkStream ----------------------------
(***************************************************************************)
(* callLLMStream of workflow-engine/src/temporal/activities/index.ts: the  *)
(* async generator that turns the events of a gRPC stream into a sequence. *)
(* The callbacks fill a queue and wake the generator; the generator runs   *)
(* from one yield or await to the next without interruption.               *)
(***************************************************************************)
EXTENDS Naturals, Sequences

CONSTANT MaxChunks   \* bound: chunks the router sends

VARIABLES
  router,     \* the stream as the router sees it: sending, ended, failed
  sent,       \* chunks the router has sent, the last one TRUE if it says done
  queue,      \* queue
  closed,     \* closed
  error,      \* error
  generator,  \* running, parked in the promise, yielded, or how it ended
  consumed,   \* chunks the caller was given
  cancelled   \* call.cancel() was called

chunkVars == <<router, sent, queue, closed, error, generator, consumed, cancelled>>

GeneratorEnds == {"returned", "threw", "left"}

ChunkInit ==
  /\ router = "sending" /\ sent = <<>> /\ queue = <<>>
  /\ closed = FALSE /\ error = FALSE
  /\ generator = "running" /\ consumed = <<>> /\ cancelled = FALSE

\* wake(): the resolver is taken, then called.
Wake == generator' = IF generator = "parked" THEN "running" ELSE generator

\* on("data"), the chunk being the last one or not.
Data(done) ==
  /\ router = "sending" /\ ~ cancelled /\ Len(sent) < MaxChunks
  /\ sent' = Append(sent, done) /\ queue' = Append(queue, done)
  /\ Wake
  /\ UNCHANGED <<router, closed, error, consumed, cancelled>>

\* on("end"): the router is through.
End ==
  /\ router = "sending"
  /\ router' = "ended" /\ closed' = TRUE
  /\ Wake
  /\ UNCHANGED <<sent, queue, error, consumed, cancelled>>

\* on("error"): the router failed, was lost, or saw the cancellation.
Error ==
  /\ router = "sending"
  /\ router' = "failed" /\ closed' = TRUE /\ error' = TRUE
  /\ Wake
  /\ UNCHANGED <<sent, queue, consumed, cancelled>>

Finally(how) == generator' = how /\ cancelled' = TRUE

\* queue.shift(), and yield.
Yield ==
  /\ generator = "running" /\ queue /= <<>>
  /\ queue' = Tail(queue) /\ consumed' = Append(consumed, Head(queue))
  /\ generator' = "yielded"
  /\ UNCHANGED <<router, sent, closed, error, cancelled>>

\* The caller asks for the next chunk: the generator returns after the last one.
Resume ==
  /\ generator = "yielded"
  /\ IF consumed[Len(consumed)] THEN Finally("returned")
     ELSE generator' = "running" /\ UNCHANGED cancelled
  /\ UNCHANGED <<router, sent, queue, closed, error, consumed>>

\* The caller breaks off.
Leave ==
  /\ generator = "yielded"
  /\ Finally("left")
  /\ UNCHANGED <<router, sent, queue, closed, error, consumed>>

ThrowsFirst ==
  /\ generator = "running" /\ error
  /\ Finally("threw")
  /\ UNCHANGED <<router, sent, queue, closed, error, consumed>>

Throws ==
  /\ generator = "running" /\ queue = <<>> /\ error
  /\ Finally("threw")
  /\ UNCHANGED <<router, sent, queue, closed, error, consumed>>

Returns ==
  /\ generator = "running" /\ queue = <<>> /\ ~ error /\ closed
  /\ Finally("returned")
  /\ UNCHANGED <<router, sent, queue, closed, error, consumed>>

Park ==
  /\ generator = "running" /\ queue = <<>> /\ ~ error /\ ~ closed
  /\ generator' = "parked"
  /\ UNCHANGED <<router, sent, queue, closed, error, consumed, cancelled>>

GeneratorStep == Yield \/ Resume \/ Throws \/ Returns \/ Park

ChunkNext == Data(FALSE) \/ Data(TRUE) \/ End \/ Error \/ GeneratorStep \/ Leave

\* The router's stream ends, the loop of the generator runs.
ChunkFairness == WF_chunkVars(End \/ Error) /\ WF_chunkVars(GeneratorStep)
-----------------------------------------------------------------------------
ChunkTypeOK ==
  /\ router \in {"sending", "ended", "failed"}
  /\ {sent, queue, consumed} \subseteq Seq(BOOLEAN)
  /\ {closed, error, cancelled} \subseteq BOOLEAN
  /\ generator \in {"running", "parked", "yielded"} \cup GeneratorEnds

\* The caller gets the chunks in the order they were sent, and is told of an
\* error, or that there are no more, only after all that came before it.
NothingSkipped ==
  /\ consumed \o queue = sent
  /\ generator = "threw" => consumed = sent
  /\ generator = "returned" => consumed = sent \/ consumed[Len(consumed)]

\* The generator never sleeps through the end of its stream.
Returned == generator \in GeneratorEnds
StreamReturns == <>[]Returned
=============================================================================
