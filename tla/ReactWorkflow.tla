---------------------------- MODULE ReactWorkflow ----------------------------
(***************************************************************************)
(* control-plane/workflow-engine/src/temporal/workflows/react-workflow.ts: *)
(* one execution of an agent as a Temporal workflow.  The workflow awaits  *)
(* one activity at a time; between two awaits it runs without interruption *)
(* and only the cancel signal reaches it while it waits.  Activities are   *)
(* retried by Temporal; what the workflow sees of one is its answer or its *)
(* final failure.                                                          *)
(***************************************************************************)
EXTENDS Naturals, Sequences

CONSTANTS
  ToolKeys,        \* tool name and arguments, as the loop detection compares them
  MaxIterations,   \* min(input.maxIterations ?? 20, 100)
  Budget,          \* input.costBudgetUsd, 0 for none
  CallCosts,       \* what one LLM call may cost
  CreateAttempts,  \* TRANSIENT_RETRY_POLICY.maximumAttempts of createSandbox
  ToolAttempts     \* TOOL_RETRY_POLICY.maximumAttempts of executeTool

ASSUME BoundsAssumption ==
  /\ MaxIterations \in Nat
  /\ Budget \in Nat
  /\ CallCosts \subseteq Nat
  /\ CreateAttempts \in Nat \ {0}
  /\ ToolAttempts \in Nat \ {0}

VARIABLES
  pc,           \* the await the workflow is at
  iteration,    \* currentIteration
  cancelledAt,  \* the iteration in which cancellationRequested was set, or Never
  cost,         \* totalCost
  seen,         \* seenToolCalls
  call,         \* the tool call being executed and its attempts so far, or NoCall
  toolCalls,    \* toolCalls: the calls that were executed, in order
  ran,          \* history: per tool call, the attempts of executeTool that were started
  unanswered,   \* ids (iterations) of retained tool calls no tool message answers
  verdict,      \* the status the run is about to end with
  result,       \* result, or NoResult
  box,          \* the container of this execution, as Docker knows it
  attempt,      \* attempts of createSandbox made
  sandboxId,    \* whether the workflow holds the id of the container
  terminated,   \* whether terminateSandbox was called
  outcome,      \* what reportOutcome was called with, or NoResult
  closed        \* how the workflow execution ended

vars == <<pc, iteration, cancelledAt, cost, seen, call, toolCalls, ran, unanswered,
          verdict, result, box, attempt, sandboxId, terminated, outcome, closed>>

Never    == MaxIterations + 1
NoCall   == [key |-> "none", structured |-> FALSE, tries |-> 0]
NoResult == [status |-> "none", cost |-> 0, iterations |-> 0, tools |-> <<>>]

\* What an activity rejection produces: nothing of the run is kept.
ErrorResult == [status |-> "ERROR", cost |-> 0, iterations |-> 0, tools |-> <<>>]

Statuses == {"SUCCEEDED", "ERROR", "CANCELLED", "MAX_ITERATIONS_REACHED"}

conversation == <<cost, seen, call, toolCalls, ran, unanswered>>
sandbox      == <<box, attempt, sandboxId, terminated>>
ending       == <<verdict, result, outcome, closed>>

Init ==
  /\ pc = "admission"
  /\ iteration = 0
  /\ cancelledAt = Never
  /\ cost = 0
  /\ seen = {}
  /\ call = NoCall
  /\ toolCalls = <<>>
  /\ ran = [k \in ToolKeys |-> 0]
  /\ unanswered = {}
  /\ verdict = "none"
  /\ result = NoResult
  /\ box = "none"
  /\ attempt = 0
  /\ sandboxId = FALSE
  /\ terminated = FALSE
  /\ outcome = NoResult
  /\ closed = "open"
-----------------------------------------------------------------------------
\* The cancel signal: it only sets a flag.
Cancel ==
  /\ closed = "open"
  /\ cancelledAt = Never
  /\ cancelledAt' = iteration
  /\ UNCHANGED <<pc, iteration, conversation, sandbox, ending>>

\* admitAgent and evaluatePolicy let the execution through ...
Admitted ==
  /\ pc = "admission"
  /\ pc' = "policy"
  /\ UNCHANGED <<iteration, cancelledAt, conversation, sandbox, ending>>

Allowed ==
  /\ pc = "policy"
  /\ pc' = "create"
  /\ UNCHANGED <<iteration, cancelledAt, conversation, sandbox, ending>>

\* ... or the workflow returns an error at once: not admitted, admission failed
\* for good, or denied.
Refused ==
  /\ pc \in {"admission", "policy"}
  /\ pc' = "done"
  /\ result' = ErrorResult
  /\ closed' = "returned"
  /\ UNCHANGED <<iteration, cancelledAt, conversation, sandbox, verdict, outcome>>

\* createSandbox answers: an attempt whose name is not taken succeeds.
SandboxCreated ==
  /\ pc = "create"
  /\ box = "none"
  /\ box' = "live"
  /\ attempt' = attempt + 1
  /\ sandboxId' = TRUE
  /\ pc' = "ready"
  /\ UNCHANGED <<iteration, cancelledAt, conversation, terminated, ending>>

\* One attempt fails: the runtime refused, or it created the container and the
\* answer was lost, after which every retry meets the container's own name.
CreateAttemptFails ==
  /\ pc = "create"
  /\ attempt' = attempt + 1
  /\ box' \in {box, "live"}
  /\ pc' = IF attempt' < CreateAttempts THEN "create" ELSE "catch"
  /\ UNCHANGED <<iteration, cancelledAt, conversation, sandboxId, terminated, ending>>

SandboxReady ==
  /\ pc = "ready"
  /\ pc' = "loop"
  /\ UNCHANGED <<iteration, cancelledAt, conversation, sandbox, ending>>
-----------------------------------------------------------------------------
\* Mutants of the loop's steps.
IterateUnchecked ==
  /\ pc = "loop"
  /\ iteration < MaxIterations
  /\ iteration' = iteration + 1
  /\ pc' = "llm"
  /\ UNCHANGED <<cancelledAt, conversation, sandbox, ending>>

Cancelled == cancelledAt /= Never

\* The top of the loop: cancelled, one more iteration, or none left.  It follows
\* the await before it without a pause; only a signal may come in between, which
\* is a signal that came before.
StopCancelled ==
  /\ pc = "loop"
  /\ iteration < MaxIterations
  /\ Cancelled
  /\ verdict' = "CANCELLED"
  /\ pc' = "concluding"
  /\ UNCHANGED <<iteration, cancelledAt, conversation, sandbox, result, outcome, closed>>

Iterate ==
  /\ pc = "loop"
  /\ iteration < MaxIterations
  /\ ~ Cancelled
  /\ iteration' = iteration + 1
  /\ pc' = "llm"
  /\ UNCHANGED <<cancelledAt, conversation, sandbox, ending>>

Exhausted ==
  /\ pc = "loop"
  /\ ~ (iteration < MaxIterations)
  /\ verdict' = "MAX_ITERATIONS_REACHED"
  /\ pc' = "concluding"
  /\ UNCHANGED <<iteration, cancelledAt, conversation, sandbox, result, outcome, closed>>

\* callLLM failed for good.
LlmFails ==
  /\ pc = "llm"
  /\ verdict' = "ERROR"
  /\ pc' = "concluding"
  /\ UNCHANGED <<iteration, cancelledAt, conversation, sandbox, result, outcome, closed>>

\* Mutants of the cost check and of the handling of an answer.
OverBudgetUnpaid(c) == Budget > 0 /\ cost > Budget

\* The cost is added first; a run over its budget ends before the answer is used.
OverBudget(c) == Budget > 0 /\ cost + c > Budget

LlmOverBudget(c) ==
  /\ pc = "llm"
  /\ OverBudget(c)
  /\ cost' = cost + c
  /\ verdict' = "ERROR"
  /\ pc' = "concluding"
  /\ UNCHANGED <<iteration, cancelledAt, seen, call, toolCalls, ran, unanswered,
                 sandbox, result, outcome, closed>>

\* The final answer is stored in memory, best effort, and ends the run.
LlmFinal(c) ==
  /\ pc = "llm"
  /\ ~ OverBudget(c)
  /\ cost' = cost + c
  /\ verdict' = "SUCCEEDED"
  /\ pc' = "concluding"
  /\ UNCHANGED <<iteration, cancelledAt, seen, call, toolCalls, ran, unanswered,
                 sandbox, result, outcome, closed>>

ToolCallTwice(c, k, structured) ==
  /\ pc = "llm"
  /\ ~ OverBudget(c)
  /\ cost' = cost + c
  /\ seen' = seen \cup {k}
  /\ call' = [key |-> k, structured |-> structured, tries |-> 0]
  /\ unanswered' = IF structured THEN unanswered \cup {iteration} ELSE unanswered
  /\ pc' = "tool"
  /\ UNCHANGED <<iteration, cancelledAt, toolCalls, ran, sandbox, ending>>

\* A tool call: its assistant message joins the conversation with the call's id,
\* when the model gave one.
LlmToolCall(c, k, structured) ==
  /\ pc = "llm"
  /\ ~ OverBudget(c)
  /\ k \notin seen
  /\ cost' = cost + c
  /\ seen' = seen \cup {k}
  /\ call' = [key |-> k, structured |-> structured, tries |-> 0]
  /\ unanswered' = IF structured THEN unanswered \cup {iteration} ELSE unanswered
  /\ pc' = "tool"
  /\ UNCHANGED <<iteration, cancelledAt, toolCalls, ran, sandbox, ending>>

RepeatsUncounted(c, k, structured) ==
  /\ pc = "llm"
  /\ ~ OverBudget(c)
  /\ k \in seen
  /\ cost' = cost + c
  /\ iteration' = iteration - 1
  /\ pc' = "loop"
  /\ UNCHANGED <<cancelledAt, seen, call, toolCalls, ran, unanswered, sandbox, ending>>

\* The same call again: the model is told so in a user message and the loop
\* continues.
LlmRepeats(c, k, structured) ==
  /\ pc = "llm"
  /\ ~ OverBudget(c)
  /\ k \in seen
  /\ cost' = cost + c
  /\ unanswered' = IF structured THEN unanswered \cup {iteration} ELSE unanswered
  /\ pc' = "loop"
  /\ UNCHANGED <<iteration, cancelledAt, seen, call, toolCalls, ran, sandbox, ending>>

\* Temporal starts an attempt of executeTool: the first, or one after an attempt
\* that failed, was lost or outlasted its timeout, which may have run the tool.
ToolAttempt ==
  /\ pc = "tool"
  /\ call.tries < ToolAttempts
  /\ call' = [call EXCEPT !.tries = @ + 1]
  /\ ran' = [ran EXCEPT ![call.key] = @ + 1]
  /\ UNCHANGED <<pc, iteration, cancelledAt, cost, seen, toolCalls, unanswered, sandbox, ending>>

\* executeTool answers, or fails in a way that only fails the tool: the call is
\* listed and its result becomes a tool message, or a user message without id.
ToolDone ==
  /\ pc = "tool"
  /\ call.tries > 0
  /\ toolCalls' = Append(toolCalls, call.key)
  /\ unanswered' = IF call.structured THEN unanswered \ {iteration} ELSE unanswered
  /\ call' = NoCall
  /\ pc' = "yield"
  /\ UNCHANGED <<iteration, cancelledAt, cost, seen, ran, sandbox, ending>>

\* PII_VIOLATION or POLICY_DENIED end the run.
ToolAborts ==
  /\ pc = "tool"
  /\ call.tries > 0
  /\ verdict' = "ERROR"
  /\ pc' = "concluding"
  /\ UNCHANGED <<iteration, cancelledAt, conversation, sandbox, result, outcome, closed>>

\* The iteration is stored in memory, best effort, recorded, and the loop yields.
Yield ==
  /\ pc = "yield"
  /\ pc' = "loop"
  /\ UNCHANGED <<iteration, cancelledAt, conversation, sandbox, ending>>
-----------------------------------------------------------------------------
\* The run's end is recorded and its result built from the run's counters.
Conclude ==
  /\ pc = "concluding"
  /\ result' = [status |-> verdict, cost |-> cost, iterations |-> iteration,
                tools |-> toolCalls]
  /\ pc' = "cleanup"
  /\ UNCHANGED <<iteration, cancelledAt, conversation, sandbox, verdict, outcome, closed>>

\* The catch block forgets the run's counters.
Catch ==
  /\ pc = "catch"
  /\ result' = ErrorResult
  /\ pc' = "cleanup"
  /\ UNCHANGED <<iteration, cancelledAt, conversation, sandbox, verdict, outcome, closed>>

\* recordObservability is rejected (Temporal timeouts): before the try block it
\* fails the workflow, as a rejected evaluatePolicy does; in the try block it ends
\* in the catch block; in the catch block it fails the workflow after the finally.
RecordRejected ==
  /\ \/ /\ pc \in {"admission", "policy", "create"}
        /\ pc = "create" => attempt = 0
        /\ pc' = "done"
        /\ closed' = "failed"
     \/ /\ pc \in {"ready", "llm", "tool", "yield", "concluding"}
        /\ pc = "tool" => call.tries = 0
        /\ pc' = "catch"
        /\ UNCHANGED closed
     \/ /\ pc = "catch"
        /\ pc' = "cleanup"
        /\ UNCHANGED closed
  /\ UNCHANGED <<iteration, cancelledAt, conversation, sandbox, verdict, result, outcome>>

CleanupAfterResult ==
  /\ pc = "cleanup"
  /\ IF sandboxId /\ result /= NoResult
     THEN /\ terminated' = TRUE
          /\ box' \in {box, "removed"}
     ELSE UNCHANGED <<terminated, box>>
  /\ IF result = NoResult THEN pc' = "done" /\ closed' = "failed"
                          ELSE pc' = "report" /\ UNCHANGED closed
  /\ UNCHANGED <<iteration, cancelledAt, conversation, attempt, sandboxId, verdict,
                 result, outcome>>

\* finally: terminateSandbox when the id is known.  Its failure, and its answer
\* that the container was not removed, are ignored.
Cleanup ==
  /\ pc = "cleanup"
  /\ IF sandboxId
     THEN /\ terminated' = TRUE
          /\ box' \in {box, "removed"}
     ELSE UNCHANGED <<terminated, box>>
  /\ IF result = NoResult THEN pc' = "done" /\ closed' = "failed"
                          ELSE pc' = "report" /\ UNCHANGED closed
  /\ UNCHANGED <<iteration, cancelledAt, conversation, attempt, sandboxId, verdict,
                 result, outcome>>

ReportCleanEndsOnly ==
  /\ pc = "report"
  /\ outcome' = IF result = ErrorResult THEN NoResult ELSE result
  /\ pc' = "done"
  /\ closed' = "returned"
  /\ UNCHANGED <<iteration, cancelledAt, conversation, sandbox, verdict, result>>

\* reportOutcome: best effort; the activity stores only errors.
Report ==
  /\ pc = "report"
  /\ outcome' = result
  /\ pc' = "done"
  /\ closed' = "returned"
  /\ UNCHANGED <<iteration, cancelledAt, conversation, sandbox, verdict, result>>

\* workflowExecutionTimeout: Temporal ends the execution, no block runs any more.
ExecutionTimeout ==
  /\ closed = "open"
  /\ pc' = "done"
  /\ closed' = "timed_out"
  /\ UNCHANGED <<iteration, cancelledAt, conversation, sandbox, verdict, result, outcome>>

LlmAnswers ==
  \E c \in CallCosts :
    \/ LlmOverBudget(c)
    \/ LlmFinal(c)
    \/ \E k \in ToolKeys, structured \in BOOLEAN :
         LlmToolCall(c, k, structured) \/ LlmRepeats(c, k, structured)

Progress ==
  \/ Admitted \/ Allowed \/ Refused
  \/ SandboxCreated \/ CreateAttemptFails \/ SandboxReady
  \/ StopCancelled \/ Iterate \/ Exhausted
  \/ LlmFails \/ LlmAnswers
  \/ ToolAttempt \/ ToolDone \/ ToolAborts \/ Yield
  \/ Conclude \/ Catch \/ RecordRejected \/ Cleanup \/ Report

Next == Progress \/ Cancel \/ ExecutionTimeout

\* Every activity has a startToCloseTimeout and a bounded number of attempts, so
\* each await ends.  Nothing is assumed about signals or the execution timeout.
Spec     == Init /\ [][Next]_vars
FairSpec == Spec /\ WF_vars(Progress)
-----------------------------------------------------------------------------
TypeOK ==
  /\ pc \in {"admission", "policy", "create", "ready", "loop", "llm", "tool", "yield",
             "concluding", "catch", "cleanup", "report", "done"}
  /\ iteration \in 0 .. MaxIterations
  /\ cancelledAt \in 0 .. Never
  /\ cost \in Nat
  /\ seen \subseteq ToolKeys
  /\ call \in [key : ToolKeys, structured : BOOLEAN, tries : 0 .. ToolAttempts] \cup {NoCall}
  /\ toolCalls \in Seq(ToolKeys)
  /\ ran \in [ToolKeys -> Nat]
  /\ unanswered \subseteq 1 .. MaxIterations
  /\ verdict \in Statuses \cup {"none"}
  /\ result \in [status : Statuses \cup {"none"}, cost : Nat,
                 iterations : 0 .. MaxIterations, tools : Seq(ToolKeys)]
  /\ box \in {"none", "live", "removed"}
  /\ attempt \in 0 .. CreateAttempts
  /\ sandboxId \in BOOLEAN
  /\ terminated \in BOOLEAN
  /\ outcome \in [status : Statuses \cup {"none"}, cost : Nat,
                  iterations : 0 .. MaxIterations, tools : Seq(ToolKeys)]
  /\ closed \in {"open", "returned", "failed", "timed_out"}

\* A cancelled run starts no further iteration: after the signal no LLM call is
\* made beyond the one that may be in flight, on whichever path the loop comes
\* back to its top.
CancelHonoured == Cancelled => iteration = cancelledAt

\* With a budget, no tool runs and no further LLM call starts once the budget is
\* exceeded, and a run that succeeded stayed within it.
BudgetHonoured ==
  Budget > 0 =>
    /\ pc \in {"loop", "llm", "tool", "yield"} => cost <= Budget
    /\ result.status = "SUCCEEDED" => result.cost <= Budget

\* However often the model asks for a tool with the same arguments, the run
\* schedules it once: executeTool is attempted no more often than one activity is,
\* and the call is listed once.  What repeats a tool is left to the attempts of
\* that activity and to the tool proxy (ToolCalls).
ScheduledOnce ==
  /\ \A k \in ToolKeys : ran[k] <= ToolAttempts
  /\ \A i, j \in 1 .. Len(toolCalls) : toolCalls[i] = toolCalls[j] => i = j

\* Once the workflow knows its sandbox it does not close by itself, well or
\* badly, without having asked for the sandbox's termination.
KnownSandboxTerminated ==
  closed \in {"returned", "failed"} /\ sandboxId => terminated

\* What is reported is what is returned, and every returned result of a run that
\* got as far as its sandbox is reported, also when the sandbox failed.
OutcomeReported ==
  closed = "returned" /\ attempt > 0 => outcome = result /\ result.status \in Statuses

\* The execution ends without the help of Temporal's execution timeout: the loop
\* is bounded although repeated tool calls return to its top without a sleep.
Closes == <>(closed /= "open")
-----------------------------------------------------------------------------
\* react-workflow.ts, lines 559-562: "When the LLM used structured tool-calling
\* (toolCallId present), use role:tool with matching tool_call_id per the
\* OpenAI/Anthropic spec": when the LLM is called, every tool call retained in
\* the conversation has been answered by a tool message.
ToolCallsAnswered == pc = "llm" => unanswered = {}

\* react-workflow.ts, line 657: "Always terminate the sandbox if one was created".
CreatedSandboxTerminated ==
  closed \in {"returned", "failed"} /\ box /= "none" => terminated
=============================================================================
