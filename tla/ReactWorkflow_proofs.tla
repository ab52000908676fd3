------------------------ MODULE ReactWorkflow_proofs ------------------------
(***************************************************************************)
(* The safety properties of the workflow for every set of tool calls,      *)
(* every iteration limit, every budget and every number of attempts.       *)
(*                                                                         *)
(* The type invariant is inductive together with Stages, what the workflow *)
(* relies on at each await.  Each property then has its own strengthening, *)
(* inductive under these two.                                              *)
(***************************************************************************)
EXTENDS ReactWorkflow, TLAPS

USE DEF conversation, sandbox, ending

\* createSandbox has attempts left, an LLM answer belongs to an iteration, and a
\* tool call being executed is one the model asked for.
Stages ==
  /\ pc \in {"admission", "policy", "create"} => attempt < CreateAttempts
  /\ pc \in {"llm", "tool"} => iteration > 0
  /\ pc = "tool" =>
       call \in [key : ToolKeys, structured : BOOLEAN, tries : 0 .. ToolAttempts]

\* The initial state is well typed.
LEMMA InitTyped == Init => TypeOK /\ Stages
  <1> SUFFICES ASSUME Init PROVE TypeOK /\ Stages
    OBVIOUS
  <1> USE BoundsAssumption DEF Init
  <1>1. NoResult \in [status : Statuses \cup {"none"}, cost : Nat,
                      iterations : 0 .. MaxIterations, tools : Seq(ToolKeys)]
    BY DEF NoResult
  <1>2. TypeOK
    <2>1. cancelledAt \in 0 .. Never /\ iteration \in 0 .. MaxIterations
      BY DEF Never
    <2>2. toolCalls \in Seq(ToolKeys) /\ unanswered \subseteq 1 .. MaxIterations
      OBVIOUS
    <2>3. /\ call \in [key : ToolKeys, structured : BOOLEAN, tries : 0 .. ToolAttempts]
                      \cup {NoCall}
          /\ ran \in [ToolKeys -> Nat]
      OBVIOUS
    <2>4. /\ pc \in {"admission", "policy", "create", "ready", "loop", "llm", "tool",
                    "yield", "concluding", "catch", "cleanup", "report", "done"}
          /\ cost \in Nat /\ seen \subseteq ToolKeys
          /\ verdict \in Statuses \cup {"none"} /\ box \in {"none", "live", "removed"}
          /\ closed \in {"open", "returned", "failed", "timed_out"}
      OBVIOUS
    <2>6. attempt \in 0 .. CreateAttempts
      OBVIOUS
    <2>7. sandboxId \in BOOLEAN /\ terminated \in BOOLEAN
      OBVIOUS
    <2>5. result = NoResult /\ outcome = NoResult
      OBVIOUS
    <2> HIDE DEF Init
    <2> QED
      BY <1>1, <2>1, <2>2, <2>3, <2>4, <2>5, <2>6, <2>7 DEF TypeOK
  <1>3. Stages
    BY DEF Stages
  <1> QED
    BY <1>2, <1>3

\* Every step keeps the types and what the awaits rely on.
LEMMA NextTyped ==
  ASSUME TypeOK, Stages, [Next]_vars
  PROVE  TypeOK' /\ Stages'
  <1> USE BoundsAssumption DEF TypeOK, Stages
  <1>1. CASE Cancel
    BY <1>1 DEF Cancel, Never
  <1>2. CASE Admitted \/ Allowed
    BY <1>2 DEF Admitted, Allowed
  <1>3. CASE Refused
    BY <1>3 DEF Refused, ErrorResult, Statuses
  <1>4. CASE SandboxCreated
    BY <1>4 DEF SandboxCreated
  <1>5. CASE CreateAttemptFails
    BY <1>5 DEF CreateAttemptFails
  <1>6. CASE SandboxReady \/ Yield
    BY <1>6 DEF SandboxReady, Yield
  <1>7. CASE Iterate
    BY <1>7 DEF Iterate
  <1>8. CASE StopCancelled \/ Exhausted
    BY <1>8 DEF StopCancelled, Exhausted, Statuses
  <1>9. CASE LlmFails \/ ToolAborts
    BY <1>9 DEF LlmFails, ToolAborts, Statuses
  <1>10. ASSUME NEW c \in CallCosts,
        LlmOverBudget(c) \/ LlmFinal(c)
        PROVE  TypeOK' /\ Stages'
    <2>1. cost + c \in Nat
      OBVIOUS
    <2>2. CASE LlmOverBudget(c)
      BY <2>1, <2>2 DEF LlmOverBudget, Statuses
    <2>3. CASE LlmFinal(c)
      BY <2>1, <2>3 DEF LlmFinal, Statuses
    <2> QED
      BY <1>10, <2>2, <2>3
  <1>11. ASSUME NEW c \in CallCosts, NEW k \in ToolKeys, NEW s \in BOOLEAN,
        LlmToolCall(c, k, s)
        PROVE  TypeOK' /\ Stages'
    BY <1>11 DEF LlmToolCall
  <1>12. ASSUME NEW c \in CallCosts, NEW k \in ToolKeys, NEW s \in BOOLEAN,
        LlmRepeats(c, k, s)
        PROVE  TypeOK' /\ Stages'
    BY <1>12 DEF LlmRepeats
  <1>13. CASE ToolDone
    BY <1>13 DEF ToolDone
  <1>21. CASE ToolAttempt
    <2>1. call \in [key : ToolKeys, structured : BOOLEAN, tries : 0 .. ToolAttempts]
      BY <1>21 DEF ToolAttempt
    <2>2. call' \in [key : ToolKeys, structured : BOOLEAN, tries : 0 .. ToolAttempts]
      <3>1. /\ call.tries + 1 \in 0 .. ToolAttempts
            /\ call' = [call EXCEPT !.tries = call.tries + 1]
        BY <1>21, <2>1 DEF ToolAttempt
      <3> HIDE DEF TypeOK, Stages
      <3> QED
        BY <2>1, <3>1
    <2>3. ran' \in [ToolKeys -> Nat]
      BY <1>21, <2>1 DEF ToolAttempt
    <2> QED
      BY <1>21, <2>2, <2>3 DEF ToolAttempt
  <1>14. CASE Conclude
    BY <1>14 DEF Conclude
  <1>15. CASE Catch
    BY <1>15 DEF Catch, ErrorResult, Statuses
  <1>16. CASE RecordRejected
    BY <1>16 DEF RecordRejected
  <1>17. CASE Cleanup
    BY <1>17 DEF Cleanup
  <1>18. CASE Report
    BY <1>18 DEF Report
  <1>19. CASE ExecutionTimeout
    BY <1>19 DEF ExecutionTimeout
  <1>20. CASE UNCHANGED vars
    BY <1>20 DEF vars
  <1> HIDE DEF TypeOK, Stages
  <1> QED
    BY <1>1, <1>2, <1>3, <1>4, <1>5, <1>6, <1>7, <1>8, <1>9, <1>10, <1>11, <1>12,
       <1>13, <1>14, <1>15, <1>16, <1>17, <1>18, <1>19, <1>20, <1>21
       DEF Next, Progress, LlmAnswers

\* Every reachable state is well typed; in particular the iteration counter stays
\* within the limit and createSandbox within its attempts.
THEOREM Typing == Spec => [](TypeOK /\ Stages)
<1>1. Init => TypeOK /\ Stages
  BY InitTyped
<1>2. TypeOK /\ Stages /\ [Next]_vars => TypeOK' /\ Stages'
  BY NextTyped
<1> QED
  BY <1>1, <1>2, PTL DEF Spec
-----------------------------------------------------------------------------
\* Only the top of the loop counts an iteration and only the signal sets the flag.
LEMMA CountersMove ==
  ASSUME [Next]_vars
  PROVE  Cancel \/ Iterate \/ UNCHANGED <<iteration, cancelledAt>>
<1>1. ASSUME NEW c \in CallCosts,
             \/ LlmOverBudget(c)
             \/ LlmFinal(c)
             \/ \E k \in ToolKeys, s \in BOOLEAN : LlmToolCall(c, k, s) \/ LlmRepeats(c, k, s)
      PROVE  UNCHANGED <<iteration, cancelledAt>>
  BY <1>1 DEF LlmOverBudget, LlmFinal, LlmToolCall, LlmRepeats
<1>2. CASE Progress /\ ~ Iterate /\ ~ LlmAnswers
  BY <1>2 DEF Progress, Admitted, Allowed, Refused, SandboxCreated, CreateAttemptFails,
       SandboxReady, StopCancelled, Exhausted, LlmFails, ToolAttempt, ToolDone, ToolAborts,
       Yield, Conclude, Catch, RecordRejected, Cleanup, Report
<1>3. CASE ExecutionTimeout \/ UNCHANGED vars
  BY <1>3 DEF ExecutionTimeout, vars
<1> QED
  BY <1>1, <1>2, <1>3 DEF Next, LlmAnswers

\* A run that was cancelled starts no further iteration, however the loop comes
\* back to its top: after a tool, or at once after a repeated call.
THEOREM CancelledRunsStop == Spec => []CancelHonoured
<1>1. Init => CancelHonoured
  BY DEF Init, CancelHonoured, Cancelled
<1>2. CancelHonoured /\ [Next]_vars => CancelHonoured'
  <2> SUFFICES ASSUME CancelHonoured, [Next]_vars PROVE CancelHonoured'
    OBVIOUS
  <2>1. CASE Cancel
    BY <2>1 DEF Cancel, CancelHonoured, Cancelled
  <2>2. CASE Iterate
    BY <2>2 DEF Iterate, CancelHonoured, Cancelled
  <2>3. CASE UNCHANGED <<iteration, cancelledAt>>
    BY <2>3 DEF CancelHonoured, Cancelled
  <2> QED
    BY <2>1, <2>2, <2>3, CountersMove
<1> QED
  BY <1>1, <1>2, PTL DEF Spec
-----------------------------------------------------------------------------
\* BudgetHonoured is not inductive: nothing in it says that a run about to succeed
\* is still within its budget when its result is built, or starts within it.
BudgetInv ==
  /\ BudgetHonoured
  /\ pc \in {"admission", "policy", "create", "ready"} => cost = 0
  /\ Budget > 0 /\ verdict = "SUCCEEDED" => cost <= Budget
  /\ pc \in {"admission", "policy", "create", "ready", "loop", "llm", "tool", "yield"}
       => verdict = "none"

LEMMA NextBudget ==
  ASSUME TypeOK, BudgetInv, [Next]_vars
  PROVE  BudgetInv'
  <1> USE BoundsAssumption DEF BudgetInv, BudgetHonoured, TypeOK
  <1>1. CASE Cancel \/ Admitted \/ Allowed \/ ExecutionTimeout
    BY <1>1 DEF Cancel, Admitted, Allowed, ExecutionTimeout
  <1>2. CASE Refused \/ Catch
    BY <1>2 DEF Refused, Catch, ErrorResult
  <1>3. CASE SandboxCreated \/ CreateAttemptFails
    BY <1>3 DEF SandboxCreated, CreateAttemptFails
  <1>4. CASE SandboxReady \/ Iterate \/ Yield
    BY <1>4 DEF SandboxReady, Iterate, Yield
  <1>5. CASE StopCancelled \/ Exhausted \/ LlmFails \/ ToolAborts
    BY <1>5 DEF StopCancelled, Exhausted, LlmFails, ToolAborts
  <1>6. ASSUME NEW c \in CallCosts, LlmOverBudget(c)
        PROVE  BudgetInv'
    BY <1>6 DEF LlmOverBudget
  <1>7. ASSUME NEW c \in CallCosts, LlmFinal(c)
        PROVE  BudgetInv'
    BY <1>7 DEF LlmFinal, OverBudget
  <1>8. ASSUME NEW c \in CallCosts, NEW k \in ToolKeys, NEW s \in BOOLEAN,
               LlmToolCall(c, k, s) \/ LlmRepeats(c, k, s)
        PROVE  BudgetInv'
    BY <1>8 DEF LlmToolCall, LlmRepeats, OverBudget
  <1>9. CASE ToolDone \/ ToolAttempt
    BY <1>9 DEF ToolDone, ToolAttempt
  <1>10. CASE Conclude
    BY <1>10 DEF Conclude
  <1>11. CASE RecordRejected
    BY <1>11 DEF RecordRejected
  <1>12. CASE Cleanup \/ Report
    BY <1>12 DEF Cleanup, Report
  <1>13. CASE UNCHANGED vars
    BY <1>13 DEF vars
  <1> HIDE DEF BudgetInv, BudgetHonoured, TypeOK
  <1> QED
    BY <1>1, <1>2, <1>3, <1>4, <1>5, <1>6, <1>7, <1>8, <1>9, <1>10, <1>11, <1>12, <1>13
       DEF Next, Progress, LlmAnswers

\* With a budget, a run that exceeded it executes no tool, calls no model, and
\* does not succeed.
THEOREM BudgetsHold == Spec => []BudgetHonoured
<1>1. Init => BudgetInv
  BY BoundsAssumption DEF Init, BudgetInv, BudgetHonoured, NoResult
<1>2. TypeOK /\ BudgetInv /\ [Next]_vars => BudgetInv'
  BY NextBudget
<1>3. BudgetInv => BudgetHonoured
  BY DEF BudgetInv
<1> QED
  BY <1>1, <1>2, <1>3, Typing, PTL DEF Spec
-----------------------------------------------------------------------------
\* Every call that was listed or attempted was recorded as seen when the model
\* asked for it, and the attempts at the one being executed are all of this activity.
ToolsInv ==
  /\ ScheduledOnce
  /\ \A k \in ToolKeys \ seen : ran[k] = 0
  /\ \A i \in 1 .. Len(toolCalls) : toolCalls[i] \in seen
  /\ pc = "tool" =>
       /\ call.key \in seen /\ ran[call.key] = call.tries
       /\ \A i \in 1 .. Len(toolCalls) : toolCalls[i] /= call.key

\* Only an answer with a new tool call, an attempt and the end of a tool touch the
\* calls.
LEMMA CallsMove ==
  ASSUME [Next]_vars
  PROVE  \/ \E c \in CallCosts, k \in ToolKeys, s \in BOOLEAN : LlmToolCall(c, k, s)
         \/ ToolAttempt
         \/ ToolDone
         \/ UNCHANGED <<seen, toolCalls, call, ran>> /\ (pc' = "tool" => pc = "tool")
<1>1. ASSUME NEW c \in CallCosts,
             \/ LlmOverBudget(c)
             \/ LlmFinal(c)
             \/ \E k \in ToolKeys, s \in BOOLEAN : LlmRepeats(c, k, s)
      PROVE  UNCHANGED <<seen, toolCalls, call, ran>> /\ pc' /= "tool"
  BY <1>1 DEF LlmOverBudget, LlmFinal, LlmRepeats
<1>2. CASE Progress /\ ~ ToolAttempt /\ ~ ToolDone /\ ~ LlmAnswers
  BY <1>2 DEF Progress, Admitted, Allowed, Refused, SandboxCreated, CreateAttemptFails,
       SandboxReady, StopCancelled, Iterate, Exhausted, LlmFails, ToolAborts, Yield,
       Conclude, Catch, RecordRejected, Cleanup, Report
<1>3. CASE Cancel \/ ExecutionTimeout \/ UNCHANGED vars
  BY <1>3 DEF Cancel, ExecutionTimeout, vars
<1> QED
  BY <1>1, <1>2, <1>3 DEF Next, LlmAnswers

LEMMA NextTools ==
  ASSUME TypeOK, Stages, ToolsInv, [Next]_vars
  PROVE  ToolsInv'
<1>1. ASSUME NEW c \in CallCosts, NEW k \in ToolKeys, NEW s \in BOOLEAN,
             LlmToolCall(c, k, s)
      PROVE  ToolsInv'
  <2>1. /\ toolCalls' = toolCalls /\ seen' = seen \cup {k} /\ ran' = ran
        /\ call'.key = k /\ call'.tries = 0
    BY <1>1 DEF LlmToolCall
  <2>2. ran[k] = 0 /\ \A i \in 1 .. Len(toolCalls) : toolCalls[i] /= k
    BY <1>1 DEF LlmToolCall, ToolsInv
  <2> QED
    BY <2>1, <2>2 DEF ToolsInv, ScheduledOnce
<1>2. CASE ToolAttempt
  <2>1. /\ toolCalls' = toolCalls /\ seen' = seen
        /\ call.key \in ToolKeys /\ call.tries \in Nat /\ call.tries < ToolAttempts
        /\ call'.key = call.key /\ call'.tries = call.tries + 1
    BY <1>2 DEF ToolAttempt, Stages
  <2>2. ran[call.key] = call.tries /\ call.key \in seen
    BY <1>2 DEF ToolAttempt, ToolsInv
  <2>3. /\ ran'[call.key] = call.tries + 1
        /\ \A k \in ToolKeys \ {call.key} : ran'[k] = ran[k]
    BY <1>2, <2>1, <2>2 DEF ToolAttempt, TypeOK
  <2> QED
    BY <1>2, <2>1, <2>2, <2>3, BoundsAssumption DEF ToolAttempt, ToolsInv, ScheduledOnce
<1>3. CASE ToolDone
  <2>1. toolCalls \in Seq(ToolKeys) /\ Len(toolCalls) \in Nat
    BY DEF TypeOK
  <2>2. /\ toolCalls' = Append(toolCalls, call.key) /\ seen' = seen /\ ran' = ran
        /\ pc' /= "tool"
    BY <1>3 DEF ToolDone
  <2>3. /\ Len(toolCalls') = Len(toolCalls) + 1
        /\ \A i \in 1 .. Len(toolCalls) : toolCalls'[i] = toolCalls[i]
        /\ toolCalls'[Len(toolCalls) + 1] = call.key
    BY <2>1, <2>2
  <2>4. call.key \in seen /\ \A i \in 1 .. Len(toolCalls) : toolCalls[i] /= call.key
    BY <1>3 DEF ToolDone, ToolsInv
  <2>5. \A i \in 1 .. Len(toolCalls') : toolCalls'[i] \in seen'
    BY <2>1, <2>2, <2>3, <2>4 DEF ToolsInv
  <2>6. ScheduledOnce'
    BY <2>1, <2>2, <2>3, <2>4 DEF ToolsInv, ScheduledOnce
  <2> QED
    BY <2>2, <2>5, <2>6 DEF ToolsInv
<1>4. CASE UNCHANGED <<seen, toolCalls, call, ran>> /\ (pc' = "tool" => pc = "tool")
  BY <1>4 DEF ToolsInv, ScheduledOnce
<1> QED
  BY <1>1, <1>2, <1>3, <1>4, CallsMove

\* The loop detection is complete: a run schedules a tool with the same arguments
\* once, so its executions are the attempts of one activity, and lists it once.
THEOREM ToolsScheduledOnce == Spec => []ScheduledOnce
<1>1. Init => ToolsInv
  BY BoundsAssumption DEF Init, ToolsInv, ScheduledOnce
<1>2. TypeOK /\ Stages /\ ToolsInv /\ [Next]_vars => ToolsInv'
  BY NextTools
<1>3. ToolsInv => ScheduledOnce
  BY DEF ToolsInv
<1> QED
  BY <1>1, <1>2, <1>3, Typing, PTL DEF Spec
-----------------------------------------------------------------------------
\* How the run ends: before the sandbox the workflow holds no id and has made no
\* attempt, what leaves the finally block has asked for the termination, and a
\* result carries a status from the moment it exists.
EndInv ==
  /\ KnownSandboxTerminated
  /\ OutcomeReported
  /\ (closed = "open") <=> (pc /= "done")
  /\ pc \in {"admission", "policy"} => attempt = 0
  /\ pc \in {"admission", "policy", "create"} => ~ sandboxId
  /\ pc = "report" /\ sandboxId => terminated
  /\ pc = "concluding" => verdict \in Statuses
  /\ pc \in {"cleanup", "report"} /\ result /= NoResult => result.status \in Statuses
  /\ pc = "report" => result /= NoResult
  /\ pc \notin {"cleanup", "report", "done"} => result = NoResult

LEMMA NextEnd ==
  ASSUME TypeOK, EndInv, [Next]_vars
  PROVE  EndInv'
  <1> USE DEF EndInv, KnownSandboxTerminated, OutcomeReported, TypeOK
  <1>1. CASE Cancel \/ Admitted \/ Allowed \/ SandboxReady \/ Iterate \/ Yield \/ ToolDone
           \/ ToolAttempt
    BY <1>1 DEF Cancel, Admitted, Allowed, SandboxReady, Iterate, Yield, ToolDone,
                ToolAttempt
  <1>2. CASE Refused
    BY <1>2 DEF Refused
  <1>3. CASE SandboxCreated \/ CreateAttemptFails
    BY <1>3 DEF SandboxCreated, CreateAttemptFails
  <1>4. CASE StopCancelled \/ Exhausted \/ LlmFails \/ ToolAborts
    BY <1>4 DEF StopCancelled, Exhausted, LlmFails, ToolAborts, Statuses
  <1>5. ASSUME NEW c \in CallCosts, LlmOverBudget(c) \/ LlmFinal(c)
        PROVE  EndInv'
    BY <1>5 DEF LlmOverBudget, LlmFinal, Statuses
  <1>6. ASSUME NEW c \in CallCosts, NEW k \in ToolKeys, NEW s \in BOOLEAN,
               LlmToolCall(c, k, s) \/ LlmRepeats(c, k, s)
        PROVE  EndInv'
    BY <1>6 DEF LlmToolCall, LlmRepeats
  <1>7. CASE Conclude
    BY <1>7 DEF Conclude
  <1>8. CASE Catch
    BY <1>8 DEF Catch, ErrorResult, Statuses
  <1>9. CASE RecordRejected
    BY <1>9 DEF RecordRejected
  <1>10. CASE Cleanup
    BY <1>10 DEF Cleanup
  <1>11. CASE Report
    BY <1>11 DEF Report
  <1>12. CASE ExecutionTimeout
    BY <1>12 DEF ExecutionTimeout
  <1>13. CASE UNCHANGED vars
    BY <1>13 DEF vars
  <1> HIDE DEF EndInv, KnownSandboxTerminated, OutcomeReported, TypeOK
  <1> QED
    BY <1>1, <1>2, <1>3, <1>4, <1>5, <1>6, <1>7, <1>8, <1>9, <1>10, <1>11, <1>12, <1>13
       DEF Next, Progress, LlmAnswers

\* The run's end is as EndInv says in every reachable state.
LEMMA Ends == Spec => []EndInv
<1>1. Init => EndInv
  BY DEF Init, EndInv, KnownSandboxTerminated, OutcomeReported, Statuses
<1>2. TypeOK /\ EndInv /\ [Next]_vars => EndInv'
  BY NextEnd
<1> QED
  BY <1>1, <1>2, Typing, PTL DEF Spec

\* A workflow that knows its sandbox never closes by itself without having asked
\* for its termination, on every path out of the try block.
THEOREM FinallyTerminates == Spec => []KnownSandboxTerminated
<1>1. EndInv => KnownSandboxTerminated
  BY DEF EndInv
<1> QED
  BY <1>1, Ends, PTL

\* Every result returned after the sandbox step was reported as it was returned.
THEOREM OutcomesAreReported == Spec => []OutcomeReported
<1>1. EndInv => OutcomeReported
  BY DEF EndInv
<1> QED
  BY <1>1, Ends, PTL
=============================================================================
