---------------------------- MODULE ApprovalGate ----------------------------
(***************************************************************************)
(* workflow-engine/src/temporal/workflows/hitl-gate.ts: the workflow that  *)
(* asks a human.  Its signal handler overwrites the decision whenever a    *)
(* signal arrives; the workflow reads it again after each of its awaits.   *)
(* An activity retries inside Temporal; only its last failure is seen.     *)
(***************************************************************************)
EXTENDS Naturals, Sequences, SequencesExt

CONSTANT MaxSignals   \* bound: approval signals that are sent

VARIABLES
  gate,       \* the await the workflow is in, or how it closed
  decision,   \* decision
  signals,    \* the decisions that were signalled, in order
  recorded,   \* the decision sent to recordObservability
  kept        \* the decision sent to persistMemory

gateVars == <<gate, decision, signals, recorded, kept>>

Verdicts  == {"approve", "reject"}
GateEnds  == {"approved", "rejected", "failed"}
GateAwaits == {"request", "persistRequest", "condition", "record", "persist"}

GateInit ==
  /\ gate = "request"
  /\ decision = "none" /\ recorded = "none" /\ kept = "none"
  /\ signals = <<>>

SignalFirst(v) ==
  /\ gate \notin GateEnds
  /\ Len(signals) < MaxSignals
  /\ signals' = Append(signals, v)
  /\ decision' = IF decision = "none" THEN v ELSE decision
  /\ UNCHANGED <<gate, recorded, kept>>

\* setHandler(approvalSignal).
Signal(v) ==
  /\ gate \notin GateEnds
  /\ Len(signals) < MaxSignals
  /\ signals' = Append(signals, v)
  /\ decision' = v
  /\ UNCHANGED <<gate, recorded, kept>>

\* The request is recorded, then kept; keeping it may fail.
RequestRecorded ==
  /\ gate = "request"
  /\ gate' = "persistRequest"
  /\ UNCHANGED <<decision, signals, recorded, kept>>

RequestKept ==
  /\ gate = "persistRequest"
  /\ gate' = "condition"
  /\ UNCHANGED <<decision, signals, recorded, kept>>

\* condition() returns true at once if a signal came before it.
Record(v) == gate' = "record" /\ decision' = v /\ recorded' = v

Received ==
  /\ gate = "condition" /\ signals /= <<>>
  /\ Record(decision)
  /\ UNCHANGED <<signals, kept>>

TimeoutRejects ==
  /\ gate = "condition" /\ signals = <<>>
  /\ Record("reject")
  /\ UNCHANGED <<signals, kept>>

DecisionRecorded ==
  /\ gate = "record"
  /\ gate' = "persist" /\ kept' = decision
  /\ UNCHANGED <<decision, signals, recorded>>

\* recordObservability fails for good, and the workflow with it.
RecordFails ==
  /\ gate \in {"request", "record"}
  /\ gate' = "failed"
  /\ UNCHANGED <<decision, signals, recorded, kept>>

\* The decision is read for the last time.
Return ==
  /\ gate = "persist"
  /\ gate' = IF decision = "reject" THEN "rejected" ELSE "approved"
  /\ UNCHANGED <<decision, signals, recorded, kept>>

GateProgress ==
  RequestRecorded \/ RequestKept \/ Received \/ TimeoutRejects \/ DecisionRecorded
  \/ RecordFails \/ Return

GateNext == GateProgress \/ \E v \in Verdicts : Signal(v)

GateSpec     == GateInit /\ [][GateNext]_gateVars
FairGateSpec == GateSpec /\ WF_gateVars(GateProgress)
-----------------------------------------------------------------------------
GateTypeOK ==
  /\ gate \in GateEnds \cup GateAwaits
  /\ signals \in Seq(Verdicts)
  /\ {decision, recorded, kept} \subseteq Verdicts \cup {"none"}

\* An execution is let through only by a human whose word was the last one: not
\* by the timeout, and not by an approval that was withdrawn while the gate was
\* still recording it.
LastWordCounts ==
  /\ gate = "approved" => signals /= <<>> /\ Last(signals) = "approve"
  /\ gate = "rejected" => signals = <<>> \/ Last(signals) = "reject"

\* Somebody always hears an answer, whether or not a human ever gives one.
GateClosed == gate \in GateEnds
GateCloses == <>[]GateClosed

\* What was recorded is what was returned; a signal that arrives while the
\* decision is recorded breaks it.
ReturnedAsRecorded == gate \in {"approved", "rejected"} =>
  recorded = IF gate = "approved" THEN "approve" ELSE "reject"
=============================================================================
