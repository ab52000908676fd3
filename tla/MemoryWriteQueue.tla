-------------------------- MODULE MemoryWriteQueue --------------------------
(***************************************************************************)
(* memory-plane/src/write-queue.ts: the in-memory queue between the memory *)
(* service's Write and PostgreSQL.  Writes are numbered in the order they  *)
(* are accepted.  The flusher handles the head of the queue; while it      *)
(* awaits the database, or backs off, more writes are accepted and a full  *)
(* queue drops its head, which may be the write in flight.                 *)
(***************************************************************************)
EXTENDS Naturals, Sequences, FiniteSets

CONSTANTS
  MaxQueue,     \* maxQueueSize
  MaxAttempts,  \* maxAttempts
  MaxWrites     \* bound: how many writes are accepted

ASSUME QueueAssumption ==
  MaxQueue \in Nat \ {0} /\ MaxAttempts \in Nat \ {0} /\ MaxWrites \in Nat

VARIABLES
  queue,      \* queue
  accepted,   \* number of writes accepted
  flusher,    \* no flush running, awaiting the database, or awaiting the backoff
  op,         \* the write the flusher took last; in flight while it is writing
  attempts,   \* attempts of each write
  stored,     \* the write the database row holds (all writes have the same key)
  persisted,  \* the writes the database has applied
  logged,     \* the writes named in an error message
  drops,      \* number of writes dropped by a full queue
  disposed    \* disposed

vars == <<queue, accepted, flusher, op, attempts, stored, persisted, logged, drops,
          disposed>>

Writes == 1 .. MaxWrites

Queued == {queue[i] : i \in 1 .. Len(queue)}

Init ==
  /\ queue = <<>>
  /\ accepted = 0
  /\ flusher = "idle"
  /\ op = 0
  /\ attempts = [n \in Writes |-> 0]
  /\ stored = 0
  /\ persisted = {}
  /\ logged = {}
  /\ drops = 0
  /\ disposed = FALSE

\* Mutants of the operators below.
ContinueUntilDisposed(rest) ==
  /\ queue' = rest
  /\ IF rest = <<>> \/ disposed
     THEN flusher' = "idle" /\ UNCHANGED op
     ELSE flusher' = "writing" /\ op' = Head(rest)

\* The top of the flush loop with the queue rest: take its head, or stop.  The
\* loop only tests disposed when the queue is empty, where it stops anyway.
Continue(rest) ==
  /\ queue' = rest
  /\ IF rest = <<>>
     THEN flusher' = "idle" /\ UNCHANGED op
     ELSE flusher' = "writing" /\ op' = Head(rest)
-----------------------------------------------------------------------------
\* Write: a full queue drops and logs its oldest write, the new one joins the
\* end, and a flush starts unless one runs.
Enqueue ==
  /\ ~ disposed
  /\ accepted < MaxWrites
  /\ accepted' = accepted + 1
  /\ IF Len(queue) >= MaxQueue
     THEN logged' = logged \cup {Head(queue)} /\ drops' = drops + 1
     ELSE UNCHANGED <<logged, drops>>
  /\ LET line == Append(IF Len(queue) >= MaxQueue THEN Tail(queue) ELSE queue, accepted + 1)
     IN  IF flusher = "idle" THEN Continue(line)
                             ELSE queue' = line /\ UNCHANGED <<flusher, op>>
  /\ UNCHANGED <<attempts, stored, persisted, disposed>>

WriteSucceedsTwoShifts ==
  /\ flusher = "writing"
  /\ stored' = op
  /\ persisted' = persisted \cup {op}
  /\ Continue(IF Len(queue) > 1 THEN Tail(Tail(queue)) ELSE Tail(queue))
  /\ UNCHANGED <<accepted, attempts, logged, drops, disposed>>

\* repo.set resolves: the flusher shifts the queue, whatever its head is by now.
WriteSucceeds ==
  /\ flusher = "writing"
  /\ stored' = op
  /\ persisted' = persisted \cup {op}
  /\ Continue(Tail(queue))
  /\ UNCHANGED <<accepted, attempts, logged, drops, disposed>>

RetryAtTheEnd ==
  /\ flusher = "writing"
  /\ attempts' = [attempts EXCEPT ![op] = @ + 1]
  /\ UNCHANGED <<stored, persisted>>
  /\ IF attempts[op] + 1 >= MaxAttempts
     THEN /\ logged' = logged \cup {op}
          /\ Continue(Tail(queue))
     ELSE /\ flusher' = "backoff"
          /\ queue' = Append(Tail(queue), op)
          /\ UNCHANGED <<op, logged>>
  /\ UNCHANGED <<accepted, drops, disposed>>

\* repo.set rejects, before or after the database applied the statement: the
\* flusher backs off, or gives the write up, logs it and shifts the queue.
WriteFails ==
  /\ flusher = "writing"
  /\ attempts' = [attempts EXCEPT ![op] = @ + 1]
  /\ \/ UNCHANGED <<stored, persisted>>
     \/ stored' = op /\ persisted' = persisted \cup {op}
  /\ IF attempts[op] + 1 >= MaxAttempts
     THEN /\ logged' = logged \cup {op}
          /\ Continue(Tail(queue))
     ELSE /\ flusher' = "backoff"
          /\ UNCHANGED <<queue, op, logged>>
  /\ UNCHANGED <<accepted, drops, disposed>>

BackoffStopsFlush ==
  /\ flusher = "backoff"
  /\ flusher' = "idle"
  /\ UNCHANGED <<queue, op, accepted, attempts, stored, persisted, logged, drops, disposed>>

\* The backoff timer fires: the loop looks at the head again.
BackoffEnds ==
  /\ flusher = "backoff"
  /\ Continue(queue)
  /\ UNCHANGED <<accepted, attempts, stored, persisted, logged, drops, disposed>>

\* Shutdown: no more writes, the running flush is awaited.
Dispose ==
  /\ ~ disposed
  /\ disposed' = TRUE
  /\ UNCHANGED <<queue, accepted, flusher, op, attempts, stored, persisted, logged, drops>>

Flush == WriteSucceeds \/ WriteFails \/ BackoffEnds

Next == Enqueue \/ Flush \/ Dispose

\* The database answers every statement (the pool has timeouts) and timers fire.
Spec     == Init /\ [][Next]_vars
FairSpec == Spec /\ WF_vars(Flush)
-----------------------------------------------------------------------------
TypeOK ==
  /\ queue \in Seq(Writes)
  /\ Len(queue) <= MaxQueue
  /\ accepted \in 0 .. MaxWrites
  /\ flusher \in {"idle", "writing", "backoff"}
  /\ op \in 0 .. MaxWrites
  /\ attempts \in [Writes -> Nat]
  /\ stored \in 0 .. MaxWrites
  /\ persisted \subseteq Writes
  /\ logged \subseteq Writes
  /\ drops \in Nat
  /\ disposed \in BOOLEAN

\* Accepted writes that are in no queue, no statement, no database and no message.
Lost == {n \in 1 .. accepted :
           /\ n \notin persisted \cup logged \cup Queued
           /\ ~ (flusher = "writing" /\ op = n)}

\* The database row never goes back to an older write: statements are applied in
\* the order of acceptance, across retries, drops and lost answers.
NeverBackwards == [][stored' >= stored]_vars

\* The newest write is never lost without a trace, however often the queue
\* overflows, provided it has room for two: the last word on a key gets through
\* or its failure is logged.
NewestKept ==
  MaxQueue > 1 /\ accepted > 0 =>
    \/ accepted \in persisted \cup logged \cup Queued
    \/ flusher = "writing" /\ op = accepted

\* Each drop loses at most one other write without a trace, and without drops
\* nothing is lost so.
LossBounded == Cardinality(Lost) <= drops

\* A write never lies in the queue with nobody to flush it, although flush ends
\* on its own and enqueue starts it only when none runs.
FlusherActive == queue /= <<>> => flusher /= "idle"

\* dispose() resolves only when everything accepted has been handled: after
\* disposal the queue runs empty.
DisposeDrains == disposed ~> (queue = <<>> /\ flusher = "idle")
-----------------------------------------------------------------------------
\* docs/developer-guide.md, line 103: "memory-plane durable writes are queued;
\* check stderr JSON for `Memory durable write permanently failed` or `Memory
\* write queue full` messages": a write that does not reach the database is named
\* in one of these messages.
LossesLogged == Lost = {}
=============================================================================
