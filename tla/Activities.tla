----------------------------- MODULE Activities -----------------------------
(***************************************************************************)
(* workflow-engine/src/temporal/activities/index.ts: the attempts of       *)
(* callLLM and executeTool that share one worker process and its           *)
(* QuotaEnforcer, and the Temporal server that schedules them.  The other  *)
(* activities make one call and hold nothing; persistMemory, createSandbox *)
(* and terminateSandbox fail and are retried as a callLLM past its quota,  *)
(* evaluatePolicy and recordObservability never fail.                      *)
(***************************************************************************)
EXTENDS Naturals, FiniteSets, Sequences, SequencesExt

CONSTANTS
  LlmSteps,      \* scheduled callLLM activities
  ToolSteps,     \* scheduled executeTool activities
  Concurrent,    \* maxConcurrentExecutions
  PerMinute,     \* maxToolCallsPerMinute
  MaxAttempts,   \* maximumAttempts
  MaxCrashes     \* bound: crashes of the worker

VARIABLES
  attempts,   \* per activity, the attempts so far and where each of them is
  watched,    \* activities whose last attempt Temporal still waits for
  outcome,    \* what each activity told its workflow
  executing,  \* fallbackCounts of concurrent_executions
  called,     \* fallbackCounts of tool_calls_per_minute
  crashes     \* crashes so far

activityVars == <<attempts, watched, outcome, executing, called, crashes>>

Steps     == LlmSteps \cup ToolSteps
Places    == {"polling", "calling", "ended", "lost"}
Attempts(s) == DOMAIN attempts[s]
LastOf(s) == Len(attempts[s])
On(s, k)  == watched' = watched \ (IF k = LastOf(s) THEN {s} ELSE {})
Heard(s, k) == s \in watched /\ k = LastOf(s)
Calling   == {a \in Steps \X (1 .. MaxAttempts) :
                a[2] \in Attempts(a[1]) /\ attempts[a[1]][a[2]] = "calling"}

ActivityInit ==
  /\ attempts = [s \in Steps |-> <<>>]
  /\ watched = {} /\ executing = 0 /\ called = 0 /\ crashes = 0
  /\ outcome = [s \in Steps |-> "none"]

\* An attempt is over.  What it says counts if Temporal still waits for it; an
\* error that may be retried says something only the last time.
Ends(s, k, says) ==
  /\ attempts' = [attempts EXCEPT ![s][k] = "ended"]
  /\ On(s, k)
  /\ outcome' = IF Heard(s, k) /\ (says /= "retry" \/ k = MaxAttempts)
                THEN [outcome EXCEPT ![s] = IF says = "result" THEN says ELSE "error"]
                ELSE outcome

\* Temporal hands the first attempt, or the one after a failure, to the worker,
\* where it starts to poll the quota.
Schedule(s) ==
  /\ outcome[s] = "none" /\ s \notin watched /\ LastOf(s) < MaxAttempts
  /\ attempts' = [attempts EXCEPT ![s] = Append(@, "polling")]
  /\ watched' = watched \cup {s}
  /\ UNCHANGED <<outcome, executing, called, crashes>>

\* Arguments are missing: the tool has failed before any quota is asked for.
MissingArguments(s) ==
  /\ s \in ToolSteps /\ attempts[s] = <<>>
  /\ attempts' = [attempts EXCEPT ![s] = <<"ended">>]
  /\ outcome' = [outcome EXCEPT ![s] = "result"]
  /\ UNCHANGED <<watched, executing, called, crashes>>

\* quotaEnforcer.check lets the attempt through, and the request is sent.
Acquire(s, k) ==
  /\ attempts[s][k] = "polling"
  /\ attempts' = [attempts EXCEPT ![s][k] = "calling"]
  /\ \/ s \in LlmSteps /\ executing < Concurrent
        /\ executing' = executing + 1 /\ UNCHANGED called
     \/ s \in ToolSteps /\ called < PerMinute
        /\ called' = called + 1 /\ UNCHANGED executing
  /\ UNCHANGED <<watched, outcome, crashes>>

\* Four minutes of polling, and the last check throws QuotaExceededError, which
\* callLLM's policy does not retry and executeTool's does.
WaitExhausted(s, k) ==
  /\ attempts[s][k] = "polling"
  /\ IF s \in LlmSteps THEN executing >= Concurrent ELSE called >= PerMinute
  /\ Ends(s, k, IF s \in LlmSteps THEN "error" ELSE "retry")
  /\ UNCHANGED <<executing, called, crashes>>

Released(s) == /\ executing' = IF s \in LlmSteps THEN executing - 1 ELSE executing
               /\ UNCHANGED <<called, crashes>>

Answered(s, k) ==
  /\ attempts[s][k] = "calling"
  /\ Ends(s, k, "result")
  /\ Released(s)

CallFailsUnreleased(s, k) ==
  /\ s \in LlmSteps /\ attempts[s][k] = "calling"
  /\ Ends(s, k, "retry")
  /\ UNCHANGED <<executing, called, crashes>>

\* callLLM: any error, after 10 s at the latest, whose name no policy knows.
\* executeTool makes a result of the errors of the tool-proxy, none of which
\* says PII_VIOLATION or POLICY_DENIED.
CallFails(s, k) ==
  /\ s \in LlmSteps /\ attempts[s][k] = "calling"
  /\ Ends(s, k, "retry")
  /\ Released(s)

\* The window of the fallback starts anew.
MinuteOver ==
  /\ called > 0
  /\ called' = 0
  /\ UNCHANGED <<attempts, watched, outcome, executing, crashes>>

\* The process ends with its attempts and its counters; Temporal does not know.
WorkerCrash ==
  /\ crashes < MaxCrashes
  /\ crashes' = crashes + 1
  /\ attempts' = [s \in Steps |-> [k \in Attempts(s) |->
       IF attempts[s][k] \in {"polling", "calling"} THEN "lost" ELSE attempts[s][k]]]
  /\ executing' = 0 /\ called' = 0
  /\ UNCHANGED <<watched, outcome>>

GivesUp(s) ==
  /\ watched' = watched \ {s}
  /\ outcome' = IF LastOf(s) = MaxAttempts THEN [outcome EXCEPT ![s] = "error"] ELSE outcome
  /\ UNCHANGED <<attempts, executing, called, crashes>>

StartToCloseOfPolling(s) ==
  /\ s \in watched /\ s \in ToolSteps /\ Last(attempts[s]) = "polling"
  /\ GivesUp(s)

\* startToCloseTimeout.  The 5 minutes of callLLM outlast its polling and its
\* call, the 2 minutes of executeTool do not: that attempt goes on unwatched.
StartToClose(s) ==
  /\ s \in watched
  /\ \/ Last(attempts[s]) = "lost"
     \/ s \in ToolSteps /\ Last(attempts[s]) = "polling"
  /\ GivesUp(s)

AttemptStep(s, k) == Acquire(s, k) \/ WaitExhausted(s, k) \/ Answered(s, k) \/ CallFails(s, k)

ActivityNext ==
  \/ \E s \in Steps : Schedule(s) \/ MissingArguments(s) \/ StartToClose(s)
  \/ \E s \in Steps : \E k \in Attempts(s) : AttemptStep(s, k)
  \/ MinuteOver \/ WorkerCrash

ActivitySpec == ActivityInit /\ [][ActivityNext]_activityVars

Abandoned(s) == s \in watched /\ Last(attempts[s]) = "lost" /\ StartToClose(s)
Runs(s, k)   == k \in Attempts(s) /\ AttemptStep(s, k)

\* Temporal schedules and times out, polling is bounded by waitForQuota and
\* every request by its deadline.
ActivityFairness ==
  \A s \in Steps :
    /\ WF_activityVars(Schedule(s))
    /\ WF_activityVars(Abandoned(s))
    /\ \A k \in 1 .. MaxAttempts : WF_activityVars(Runs(s, k))
-----------------------------------------------------------------------------
ActivityTypeOK ==
  /\ DOMAIN attempts = Steps
  /\ \A s \in Steps : attempts[s] \in Seq(Places) /\ LastOf(s) <= MaxAttempts
  /\ watched \subseteq {s \in Steps : attempts[s] /= <<>> /\ outcome[s] = "none"}
  /\ outcome \in [Steps -> {"none", "result", "error"}]
  /\ executing \in Nat /\ called \in 0 .. PerMinute /\ crashes \in 0 .. MaxCrashes

\* The quota counts the LLM requests that are really under way, those of
\* attempts Temporal has given up on included, and there are never too many:
\* no failure, retry or crash leaves a place taken or given out twice.
QuotaExact ==
  LET open == Cardinality({a \in Calling : a[1] \in LlmSteps})
  IN executing = open /\ open <= Concurrent

\* Every activity tells its workflow something, however often it fails, waits
\* for its quota or loses its worker.
AllAnswered == \A s \in Steps : outcome[s] /= "none"
ActivitiesClose == <>[]AllAnswered

\* activities/index.ts, line 17: waitForQuota gives up before the activity does,
\* so nothing is sent for an activity that Temporal has given up on.
WaitFitsActivity == \A s \in Steps : \A k \in Attempts(s) :
  attempts[s][k] = "polling" => Heard(s, k)
=============================================================================
