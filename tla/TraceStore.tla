----------------------------- MODULE TraceStore -----------------------------
(***************************************************************************)
(* The spans of the executions: recordObservability of the workflow engine *)
(* exports one per attempt of a step, with an id of its own;               *)
(* observability-plane/src keeps it in the memory of its process and       *)
(* inserts it into PostgreSQL.  The INSERT says ON CONFLICT (span_id), and *)
(* the table's only unique key is (span_id, start_time): PostgreSQL        *)
(* rejects it, ExportTrace logs that and succeeds.  So no row is ever      *)
(* found, and a replay is read from memory.                                *)
(***************************************************************************)
EXTENDS Naturals, Sequences, SequencesExt

CONSTANTS
  Traced,        \* executions that are traced
  MaxSpans,      \* bound: steps of one execution
  ExportTries,   \* maximumAttempts of recordObservability, 2
  MaxRestarts    \* bound: restarts of the process

VARIABLES
  span,         \* how far the export of each attempt is
  exports,      \* attempts of each step so far
  returned,     \* what recordObservability of each step returned
  traceStore,   \* spans of each execution in memory
  replayed,     \* the last replay of each execution, and what had been exported by then
  restarts      \* restarts so far

traceVars == <<span, exports, returned, traceStore, replayed, restarts>>

Step == Traced \X (1 .. MaxSpans)
Span == Traced \X (1 .. MaxSpans) \X (1 .. ExportTries)

Of(s) == <<s[1], s[2]>>

TraceInit ==
  /\ span = [s \in Span |-> "none"]
  /\ exports = [p \in Step |-> 0]
  /\ returned = [p \in Step |-> "none"]
  /\ traceStore = [e \in Traced |-> <<>>]
  /\ replayed = [e \in Traced |-> [shown |-> <<>>, exported |-> {}]]
  /\ restarts = 0

Attempt(p) ==
  /\ exports' = [exports EXCEPT ![p] = @ + 1]
  /\ span' = [span EXCEPT ![<<p[1], p[2], exports[p] + 1>>] = "sent"]
  /\ UNCHANGED <<traceStore, replayed, restarts>>

RecordUnawaited(p) ==
  /\ returned[p] = "none"
  /\ returned' = [returned EXCEPT ![p] = "waits"]
  /\ Attempt(p)

\* The activity: its steps are awaited one after the other.
RecordObservability(p) ==
  /\ returned[p] = "none"
  /\ p[2] > 1 => returned[<<p[1], p[2] - 1>>] \in {"success", "failure"}
  /\ returned' = [returned EXCEPT ![p] = "waits"]
  /\ Attempt(p)

\* Temporal did not hear of the attempt in time, since its worker crashed or hangs:
\* another one, while the call of the first goes on.
RecordAgain(p) ==
  /\ returned[p] = "waits" /\ exports[p] < ExportTries
  /\ Attempt(p)
  /\ UNCHANGED returned

\* The call fails or its deadline passes, wherever it is, which is not a rejection;
\* or the last attempt is not heard of either.
Unanswered(p) ==
  /\ returned[p] = "waits"
  /\ returned' = [returned EXCEPT ![p] = "failure"]
  /\ UNCHANGED <<span, exports, traceStore, replayed, restarts>>

\* ExportTrace up to the await of ingestSpan.
ExportTrace(s) ==
  /\ span[s] = "sent"
  /\ span' = [span EXCEPT ![s] = "exporting"]
  /\ traceStore' = [traceStore EXCEPT ![s[1]] = Append(@, s)]
  /\ UNCHANGED <<exports, returned, replayed, restarts>>

\* The INSERT is rejected; the export succeeds.
IngestFails(s) ==
  /\ span[s] = "exporting"
  /\ span' = [span EXCEPT ![s] = "exported"]
  /\ UNCHANGED <<exports, returned, traceStore, replayed, restarts>>

\* The success reaches the worker, and Temporal from it, unless it crashed before.
Told(p) ==
  /\ returned[p] = "waits" /\ span[<<p[1], p[2], exports[p]>>] = "exported"
  /\ returned' = [returned EXCEPT ![p] = "success"]
  /\ UNCHANGED <<span, exports, traceStore, replayed, restarts>>

Exported(e) == {s \in Span : s[1] = e /\ span[s] = "exported"}

\* GetExecutionReplay: there are no rows, so what is in memory.
Replay(e) ==
  /\ replayed' = [replayed EXCEPT ![e] = [shown |-> traceStore[e], exported |-> Exported(e)]]
  /\ UNCHANGED <<span, exports, returned, traceStore, restarts>>

\* A shutdown or a crash: the memory, and the calls in it; a call that has not
\* arrived may reach the next process.
Restart ==
  /\ restarts < MaxRestarts
  /\ restarts' = restarts + 1
  /\ traceStore' = [e \in Traced |-> <<>>]
  /\ span' = [s \in Span |-> IF span[s] \in {"exporting", "exported"} THEN "lost" ELSE span[s]]
  /\ UNCHANGED <<exports, returned, replayed>>

TraceNext ==
  \/ \E p \in Step : RecordObservability(p) \/ RecordAgain(p) \/ Unanswered(p) \/ Told(p)
  \/ \E s \in Span : ExportTrace(s) \/ IngestFails(s)
  \/ \E e \in Traced : Replay(e)
  \/ Restart
-----------------------------------------------------------------------------
TraceTypeOK ==
  /\ span \in [Span -> {"none", "sent", "exporting", "exported", "lost"}]
  /\ exports \in [Step -> 0 .. ExportTries]
  /\ returned \in [Step -> {"none", "waits", "success", "failure"}]
  /\ traceStore \in [Traced -> Seq(Span)]
  /\ replayed \in [Traced -> [shown : Seq(Span), exported : SUBSET Span]]
  /\ restarts \in 0 .. MaxRestarts

\* An attempt nobody waits for any more.
GivenUp(s) == returned[Of(s)] = "failure" \/ s[3] < exports[Of(s)]

\* s comes before t.
Earlier(s, t) == s[2] < t[2] \/ (s[2] = t[2] /\ s[3] < t[3])

\* A replay shows every span that was exported since the process began, none twice,
\* so a step twice only if it was attempted twice, and in the order of the steps and
\* their attempts, but for an attempt that was given up and arrived late.
ReplayComplete == \A e \in Traced : LET shown == replayed[e].shown IN
  /\ replayed[e].exported \subseteq ToSet(shown)
  /\ IsInjective(shown)
  /\ \A i, j \in DOMAIN shown : i < j => Earlier(shown[i], shown[j]) \/ GivenUp(shown[j])

\* Every step is shown once; broken by an attempt whose worker crashed after its
\* span was exported: the next attempt exports another one.
StepShownOnce == \A e \in Traced : LET shown == replayed[e].shown IN
  \A i, j \in DOMAIN shown : Of(shown[i]) = Of(shown[j]) => i = j

\* index.ts, line 99: "Durable path: persist to PostgreSQL": a restart takes
\* nothing from a replay; broken, since no INSERT is accepted.
ReplayDurable == [][\A e \in Traced : replayed'[e] /= replayed[e] =>
  \A p \in Step : p[1] = e /\ returned[p] = "success" =>
    \E s \in ToSet(replayed'[e].shown) : Of(s) = p]_traceVars
=============================================================================
