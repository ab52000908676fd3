---------------------------- MODULE MemoryPlane ----------------------------
(***************************************************************************)
(* memory-plane/src/index.ts and repository.ts over the write queue: a     *)
(* Redis cache in front of PostgreSQL rows.  Write answers once the cache  *)
(* is set and leaves the row to the queue; Read fills the cache from the   *)
(* row; Delete empties the cache and does not await the row.  A step is    *)
(* what a server does with one command, or what runs between two awaits.   *)
(*                                                                         *)
(* The cache is keyed by type and key, the row by key alone.  Read and     *)
(* Delete ask PostgreSQL for the names as they came, Write and Redis for   *)
(* the sanitized ones: where these differ, the row is not found and not    *)
(* deleted, as when the statement fails.  List changes nothing.            *)
(***************************************************************************)
EXTENDS MemoryWriteQueue

CONSTANTS
  Slots,       \* what requests name: records with a type and a key
  Readers,     \* Read requests in progress
  MaxExits     \* bound: how often the process ends and starts again

ASSUME PlaneAssumption == Slots /= {} /\ MaxExits \in Nat

VARIABLES
  cache,      \* Redis: the write each slot holds, or 0, or Failed
  row,        \* agent_memory: the write each key holds
  live,       \* agent_memory: expires_at is not past
  slotOf,     \* the slot of each accepted write
  acked,      \* slots of the writes Redis has applied, in the order of its replies
  reads,      \* each Read past its cache miss
  deleting,   \* keys with a DELETE's statement under way
  exits       \* how often the process has ended

planeVars == <<cache, row, live, slotOf, acked, reads, deleting, exits>>

Keys   == {s.key : s \in Slots}
Failed == MaxWrites + 1    \* a value whose Write was answered with an error

Idle  == [at |-> "idle", slot |-> CHOOSE s \in Slots : TRUE, value |-> 0]
Reads == [at : {"idle", "querying", "filling"}, slot : Slots, value : 0 .. MaxWrites]

MemoryInit ==
  /\ Init
  /\ cache = [s \in Slots |-> 0]
  /\ row = [k \in Keys |-> 0]
  /\ live = [k \in Keys |-> FALSE]
  /\ slotOf = [n \in Writes |-> Idle.slot]
  /\ acked = <<>>
  /\ reads = [r \in Readers |-> Idle]
  /\ deleting = {}
  /\ exits = 0
-----------------------------------------------------------------------------
\* Write.

\* redis.setex: Redis answers its commands in order.
WriteCache(s) ==
  /\ ~ disposed
  /\ accepted + Len(acked) < MaxWrites
  /\ cache' = [cache EXCEPT ![s] = accepted + Len(acked) + 1]
  /\ acked' = Append(acked, s)
  /\ UNCHANGED <<vars, row, live, slotOf, reads, deleting, exits>>

\* redis.setex applied, but its answer lost: the client is told of an error.
WriteCacheFails(s) ==
  /\ ~ disposed
  /\ cache' = [cache EXCEPT ![s] = Failed]
  /\ UNCHANGED <<vars, row, live, slotOf, acked, reads, deleting, exits>>

\* After the await: enqueue, and the answer "success".
WriteAccepted ==
  /\ acked /= <<>>
  /\ Enqueue
  /\ slotOf' = [slotOf EXCEPT ![accepted'] = Head(acked)]
  /\ acked' = Tail(acked)
  /\ UNCHANGED <<cache, row, live, reads, deleting, exits>>

\* INSERT ... ON CONFLICT DO UPDATE of the write the flusher took last.
Upsert ==
  /\ row' = [row EXCEPT ![slotOf[op].key] = op]
  /\ live' = [live EXCEPT ![slotOf[op].key] = TRUE]

FlushStep ==
  /\ \/ WriteSucceeds /\ Upsert
     \/ WriteFails /\ stored' = op /\ op \in persisted' /\ Upsert
     \/ WriteFails /\ stored' = stored /\ persisted' = persisted /\ UNCHANGED <<row, live>>
     \/ BackoffEnds /\ UNCHANGED <<row, live>>
  /\ UNCHANGED <<cache, slotOf, acked, reads, deleting, exits>>
-----------------------------------------------------------------------------
\* Read.  A hit is answered and changes nothing.

ReadMiss(r, s) ==
  /\ ~ disposed
  /\ reads[r].at = "idle"
  /\ cache[s] = 0
  /\ reads' = [reads EXCEPT ![r] = [at |-> "querying", slot |-> s, value |-> 0]]
  /\ UNCHANGED <<vars, cache, row, live, slotOf, acked, deleting, exits>>

FoundExpired(k) == row[k] > 0

\* get: the row, unless it has expired.
Found(k) == live[k]

\* memRepo.get is answered; it may fail as well, which is "not found".
QueryRow(r) ==
  LET k == reads[r].slot.key
  IN  /\ reads[r].at = "querying"
      /\ reads' = [reads EXCEPT ![r] =
                     IF Found(k) THEN [@ EXCEPT !.at = "filling", !.value = row[k]]
                                          ELSE Idle]
      /\ UNCHANGED <<vars, cache, row, live, slotOf, acked, deleting, exits>>

\* redis.setex of the value read, whatever has happened to the slot since.
Fill(r) ==
  /\ reads[r].at = "filling"
  /\ cache' = [cache EXCEPT ![reads[r].slot] = reads[r].value]
  /\ reads' = [reads EXCEPT ![r] = Idle]
  /\ UNCHANGED <<vars, row, live, slotOf, acked, deleting, exits>>

\* The query or the fill is rejected: the Read is answered all the same.
ReadGivesUp(r) ==
  /\ reads[r].at /= "idle"
  /\ reads' = [reads EXCEPT ![r] = Idle]
  /\ UNCHANGED <<vars, cache, row, live, slotOf, acked, deleting, exits>>
-----------------------------------------------------------------------------
\* Delete: redis.del, then the row's statement, which is not awaited.
DeleteCache(s) ==
  /\ ~ disposed
  /\ cache' = [cache EXCEPT ![s] = 0]
  /\ deleting' = deleting \cup {s.key}
  /\ UNCHANGED <<vars, row, live, slotOf, acked, reads, exits>>

\* UPDATE ... SET expires_at = NOW(), or its failure, which is only logged.
DeleteRow(k) ==
  /\ k \in deleting
  /\ deleting' = deleting \ {k}
  /\ \/ live' = [live EXCEPT ![k] = FALSE]
     \/ UNCHANGED live
  /\ UNCHANGED <<vars, cache, row, slotOf, acked, reads, exits>>

ExpiresUnlessFailed(s) ==
  /\ cache[s] \notin {0, Failed}
  /\ cache' = [cache EXCEPT ![s] = 0]
  /\ UNCHANGED <<vars, row, live, slotOf, acked, reads, deleting, exits>>

\* The time to live of a cache entry ends, or Redis evicts it.
CacheExpires(s) ==
  /\ cache[s] /= 0
  /\ cache' = [cache EXCEPT ![s] = 0]
  /\ UNCHANGED <<vars, row, live, slotOf, acked, reads, deleting, exits>>

\* expires_at passes.  clearExpired removes such rows, which nobody can see.
RowExpires(k) ==
  /\ live[k]
  /\ live' = [live EXCEPT ![k] = FALSE]
  /\ UNCHANGED <<vars, cache, row, slotOf, acked, reads, deleting, exits>>
-----------------------------------------------------------------------------
\* server.tryShutdown waits for the requests in progress, then disposes of the
\* queue.
Shutdown ==
  /\ acked = <<>>
  /\ \A r \in Readers : reads[r].at = "idle"
  /\ Dispose
  /\ UNCHANGED planeVars

InFlight == IF flusher = "writing" THEN {op} ELSE {}

\* The process ends, by a crash, by the 5 s limit of the shutdown or after it,
\* and a new one starts.  The write in flight may still be applied, and so may
\* the deletions, later.
Exit ==
  /\ exits < MaxExits
  /\ exits' = exits + 1
  /\ cache' = [s \in Slots |-> IF cache[s] > accepted THEN Failed ELSE cache[s]]
  /\ \/ UNCHANGED <<stored, persisted, row, live>>
     \/ /\ flusher = "writing"
        /\ stored' = op
        /\ persisted' = persisted \cup {op}
        /\ Upsert
  /\ queue' = <<>>
  /\ flusher' = "idle"
  /\ disposed' = FALSE
  /\ acked' = <<>>
  /\ reads' = [r \in Readers |-> Idle]
  /\ UNCHANGED <<accepted, op, attempts, logged, drops, slotOf, deleting>>
-----------------------------------------------------------------------------
Requests == \E s \in Slots : WriteCache(s) \/ WriteCacheFails(s) \/ DeleteCache(s)

ReadStep(r) == QueryRow(r) \/ Fill(r) \/ ReadGivesUp(r)

MemoryNext ==
  \/ Requests
  \/ WriteAccepted
  \/ FlushStep
  \/ \E r \in Readers : ReadStep(r) \/ \E s \in Slots : ReadMiss(r, s)
  \/ \E k \in Keys : DeleteRow(k) \/ RowExpires(k)
  \/ \E s \in Slots : CacheExpires(s)
  \/ Shutdown
  \/ Exit

\* Servers answer, continuations run, entries of the cache have a time to live.
\* Nobody has to ask for anything.
MemoryFairness ==
  /\ WF_<<vars, planeVars>>(WriteAccepted)
  /\ WF_<<vars, planeVars>>(FlushStep)
  /\ \A r \in Readers : WF_<<vars, planeVars>>(ReadStep(r))
  /\ \A k \in Keys : WF_<<vars, planeVars>>(DeleteRow(k))
  /\ \A s \in Slots : WF_<<vars, planeVars>>(CacheExpires(s))

MemorySpec     == MemoryInit /\ [][MemoryNext]_<<vars, planeVars>>
FairMemorySpec == MemorySpec /\ MemoryFairness
-----------------------------------------------------------------------------
MemoryTypeOK ==
  /\ cache \in [Slots -> 0 .. Failed]
  /\ row \in [Keys -> 0 .. MaxWrites]
  /\ live \in [Keys -> BOOLEAN]
  /\ slotOf \in [Writes -> Slots]
  /\ acked \in Seq(Slots)
  /\ reads \in [Readers -> Reads]
  /\ deleting \subseteq Keys
  /\ exits \in 0 .. MaxExits

\* No row goes back to an older write, across retries, lost answers, deletions,
\* expiry, crashes and restarts.
RowsForward == [][\A k \in Keys : row'[k] >= row[k]]_<<vars, planeVars>>

\* A key whose row and cache entries are gone, with no write or fill of it left
\* anywhere in the service, stays gone until somebody writes it again.
Gone(k) ==
  /\ ~ live[k]
  /\ \A s \in Slots : s.key = k => cache[s] = 0
  /\ \A n \in Queued \cup InFlight : slotOf[n].key /= k
  /\ \A i \in 1 .. Len(acked) : acked[i].key /= k
  /\ \A r \in Readers : reads[r].at = "filling" => reads[r].slot.key /= k

WritesKey(k) == \E s \in Slots : s.key = k /\ (WriteCache(s) \/ WriteCacheFails(s))

GoneStaysGone ==
  [][\A k \in Keys : Gone(k) /\ ~ WritesKey(k) => Gone(k)']_<<vars, planeVars>>

\* Once nobody writes or deletes any more, cache and database agree for ever: a
\* stale fill, a value whose write failed, or one older than the row is not
\* served for good.
Converges ==
  <>[][~ Requests]_<<vars, planeVars>> =>
    <>[](\A s \in Slots : cache[s] = 0 \/ (cache[s] = row[s.key] /\ live[s.key]))
=============================================================================
