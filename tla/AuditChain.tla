----------------------------- MODULE AuditChain -----------------------------
(***************************************************************************)
(* packages/shared/src/audit/index.ts: one hash chain per process and day  *)
(* in memory, and verifyAuditChain.  The hash of an entry is the sequence  *)
(* of what was hashed: two are equal only if everything before them is.    *)
(* It has no key, so anybody can compute it, and chainId is not hashed.    *)
(* persistToPostgres inserts into a table no migration creates: it fails,  *)
(* is caught and changes nothing.                                          *)
(***************************************************************************)
EXTENDS Naturals, Sequences, SequencesExt

CONSTANTS
  Events,       \* what an entry says
  MaxEntries,   \* entries a chain keeps, 10000
  MaxDays,      \* bound: days, and restarts of the process
  MaxMade       \* bound: entries of one chain

VARIABLES
  chain,   \* chain of today: entries, and lastHash
  made,    \* entries of today's chain that were ever made
  day      \* number of the chain

auditVars == <<chain, made, day>>

Days == 0 .. MaxDays

Hash(event, previous) == Append(previous, event)
NewChain == [entries |-> <<>>, lastHash |-> <<>>]

AuditInit == chain = NewChain /\ made = 0 /\ day = 0

Kept(entries) == SubSeq(entries, IF Len(entries) > MaxEntries
                                 THEN Len(entries) - MaxEntries + 1 ELSE 1, Len(entries))

Entry(event) == [event |-> event, hash |-> Hash(event, chain.lastHash), chainId |-> day]

CreateStale(event) ==
  /\ made < MaxMade
  /\ chain' = [chain EXCEPT !.entries = Kept(Append(@, Entry(event)))]
  /\ made' = made + 1
  /\ UNCHANGED day

\* createAuditEntry: previousHash becomes the hash of the entry itself.
CreateAuditEntry(event) ==
  /\ made < MaxMade
  /\ chain' = [entries  |-> Kept(Append(chain.entries, Entry(event))),
               lastHash |-> Entry(event).hash]
  /\ made' = made + 1
  /\ UNCHANGED day

\* Another day, another chain; a restart begins an empty one too.
NewDay ==
  /\ day < MaxDays
  /\ day' = day + 1 /\ chain' = NewChain /\ made' = 0

AuditNext == NewDay \/ \E event \in Events : CreateAuditEntry(event)

AuditSpec == AuditInit /\ [][AuditNext]_auditVars

\* verifyAuditChain.
Verifies(entries) == \A i \in DOMAIN entries :
  entries[i].hash = Hash(entries[i].event, IF i = 1 THEN <<>> ELSE entries[i - 1].hash)

\* One entry is changed, left out, put in front of its neighbour or added, at the
\* end too.
Forged(entry, event, d) == [entry EXCEPT !.event = event, !.chainId = d]
Swapped(entries, i) == [entries EXCEPT ![i] = entries[i + 1], ![i + 1] = entries[i]]

Edited(entries) ==
  {ReplaceAt(entries, i, Forged(entries[i], e, d)) : i \in DOMAIN entries, e \in Events, d \in Days}
  \cup {RemoveAt(entries, i) : i \in DOMAIN entries}
  \cup {Swapped(entries, i) : i \in DOMAIN entries \ {Len(entries)}}
  \cup {InsertAt(entries, i, Forged(entries[j], e, day)) :
          i \in 1 .. Len(entries) + 1, j \in DOMAIN entries, e \in Events}

\* Every hash is computed anew.
Said(entries, i) == [k \in 1 .. i |-> entries[k].event]
Rehashed(entries) == [i \in DOMAIN entries |-> [entries[i] EXCEPT !.hash = Said(entries, i)]]

Tampered(entries) == Edited(entries) \cup {Rehashed(e) : e \in Edited(entries)}
-----------------------------------------------------------------------------
AuditTypeOK ==
  /\ chain.entries \in Seq([event : Events, hash : Seq(Events), chainId : Days])
  /\ Len(chain.entries) <= MaxEntries /\ chain.lastHash \in Seq(Events)
  /\ made \in 0 .. MaxMade /\ day \in Days

\* A hash of the chain that is still there, at whatever place, is at its own place
\* and vouches for all events up to it.
Vouched(entries, whole) == \A i \in DOMAIN entries, j \in DOMAIN whole :
  entries[i].hash = whole[j].hash => i = j /\ Said(entries, i) = Said(whole, i)

\* A chain that was not cut verifies, whatever chains there were before it; and what
\* verifies after it was tampered with is vouched for by every hash it still has.
\* Hence an edit shows, unless all hashes from there to the end were computed anew
\* or the end was cut off.
ChainTells == made <= MaxEntries =>
  /\ Verifies(chain.entries)
  /\ \A entries \in Tampered(chain.entries) : Verifies(entries) => Vouched(entries, chain.entries)

\* Every edit shows; broken by computing the hashes of the end anew, by a cut of the
\* end, and by another chainId.
EveryEditShows ==
  \A entries \in Tampered(chain.entries) : Verifies(entries) => entries = chain.entries

\* An untouched chain always verifies; the chain of a busy day is cut at its
\* beginning and does not.
ChainAlwaysVerifies == Verifies(chain.entries)
=============================================================================
