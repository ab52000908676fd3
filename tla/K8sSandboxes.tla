---------------------------- MODULE K8sSandboxes ----------------------------
(***************************************************************************)
(* packages/shared/src/sandbox: the Kubernetes driver of the sandbox       *)
(* runtime.  A pod is named after its execution, so the API server refuses *)
(* a second one; CreateSandbox reads the pod by that name every second.    *)
(* Its caller waits 10 s, the reading lasts 30 s: a handler may go on      *)
(* while the activity's next attempt has started another one.              *)
(***************************************************************************)
EXTENDS Naturals, Sequences

CONSTANTS
  Executions,   \* executions that need a sandbox
  MaxAttempts,  \* maximumAttempts of createSandbox
  MaxGone       \* bound: pods that are evicted

VARIABLES
  pods,      \* every pod there has been, in order: its execution and phase
  handler,   \* where CreateSandbox of each attempt is
  caller,    \* per execution: attempts begun, and what its workflow knows
  gone       \* evictions so far

podVars == <<pods, handler, caller, gone>>

Handlers == Executions \X (1 .. MaxAttempts)
Phases   == {"Pending", "Running", "Succeeded", "Failed", "Unknown", "Gone"}

PodInit ==
  /\ pods = <<>> /\ gone = 0
  /\ handler = [h \in Handlers |-> "none"]
  /\ caller = [e \in Executions |-> [attempt |-> 0, knows |-> "nothing"]]

\* The pods of the name.
Named(e) == {i \in DOMAIN pods : pods[i].execution = e /\ pods[i].phase /= "Gone"}
Reads(h, phases) == /\ handler[h] = "reading"
                    /\ \E i \in Named(h[1]) : pods[i].phase \in phases

\* The handler answers; its caller hears it unless its deadline has passed.
Answer(h, what) ==
  /\ handler' = [handler EXCEPT ![h] = "ended"]
  /\ caller' = IF caller[h[1]].knows = "waits" /\ caller[h[1]].attempt = h[2]
               THEN [caller EXCEPT ![h[1]].knows = what] ELSE caller

CreateSandbox(e) ==
  /\ caller[e].knows \in {"nothing", "error"} /\ caller[e].attempt < MaxAttempts
  /\ caller' = [caller EXCEPT ![e] = [attempt |-> @.attempt + 1, knows |-> "waits"]]
  /\ handler' = [handler EXCEPT ![<<e, caller'[e].attempt>>] = "creating"]
  /\ UNCHANGED <<pods, gone>>

Deadline(e) ==
  /\ caller[e].knows = "waits"
  /\ caller' = [caller EXCEPT ![e].knows = "error"]
  /\ UNCHANGED <<pods, handler, gone>>

\* The answer of the API server may be lost when the pod is made.
Makes(h) ==
  /\ pods' = Append(pods, [execution |-> h[1], phase |-> "Pending"])
  /\ \/ handler' = [handler EXCEPT ![h] = "reading"] /\ UNCHANGED caller
     \/ Answer(h, "error")
  /\ UNCHANGED gone

\* createNamespacedPod.
PodCreated(h) == handler[h] = "creating" /\ Named(h[1]) = {} /\ Makes(h)

\* 409, whoever made the pod of that name, or another error.
CreateFails(h) ==
  /\ handler[h] = "creating"
  /\ Answer(h, "error")
  /\ UNCHANGED <<pods, gone>>

\* Running, or through its 30 readings: the sandbox is returned as Running.
Returned(h) ==
  /\ Reads(h, {"Running", "Succeeded", "Pending"})
  /\ Answer(h, "sandbox")
  /\ UNCHANGED <<pods, gone>>

\* Failed or Unknown, or the reading itself is rejected, whether the pod is gone or
\* there: an error, and the pod is left alone.
ReadFails(h) ==
  /\ handler[h] = "reading"
  /\ Answer(h, "error")
  /\ UNCHANGED <<pods, gone>>

\* The activity of the workflow's last step; Temporal runs it until it is
\* answered.
TerminateSandbox(e) ==
  /\ caller[e].knows = "sandbox"
  /\ caller' = [caller EXCEPT ![e].knows = "terminating"]
  /\ UNCHANGED <<pods, handler, gone>>

\* deleteNamespacedPod, whose errors are swallowed: "success", if it is heard.
PodDeleted(e) ==
  /\ caller[e].knows = "terminating"
  /\ pods' \in {pods, [i \in DOMAIN pods |->
                        IF i \in Named(e) THEN [pods[i] EXCEPT !.phase = "Gone"] ELSE pods[i]]}
  /\ \/ caller' = [caller EXCEPT ![e].knows = "terminated"]
     \/ UNCHANGED caller
  /\ UNCHANGED <<handler, gone>>

\* The kubelet, or the loss of its node.
PodMoves(i) ==
  \E phase \in CASE pods[i].phase = "Pending" -> {"Running", "Failed", "Unknown"}
                 [] pods[i].phase = "Running" -> {"Succeeded", "Failed", "Unknown"}
                 [] pods[i].phase = "Unknown" -> {"Running", "Succeeded", "Failed"}
                 [] OTHER -> {} :
    /\ pods' = [pods EXCEPT ![i].phase = phase]
    /\ UNCHANGED <<handler, caller, gone>>

Evict(i) ==
  /\ gone < MaxGone /\ pods[i].phase /= "Gone"
  /\ gone' = gone + 1
  /\ pods' = [pods EXCEPT ![i].phase = "Gone"]
  /\ UNCHANGED <<handler, caller>>

PodNext ==
  \/ \E e \in Executions : CreateSandbox(e) \/ Deadline(e) \/ TerminateSandbox(e) \/ PodDeleted(e)
  \/ \E h \in Handlers : PodCreated(h) \/ CreateFails(h) \/ Returned(h) \/ ReadFails(h)
  \/ \E i \in DOMAIN pods : PodMoves(i) \/ Evict(i)
-----------------------------------------------------------------------------
PodTypeOK ==
  /\ pods \in Seq([execution : Executions, phase : Phases])
  /\ handler \in [Handlers -> {"none", "creating", "reading", "ended"}]
  /\ caller \in [Executions -> [attempt : 0 .. MaxAttempts,
       knows : {"nothing", "waits", "error", "sandbox", "terminating", "terminated"}]]
  /\ gone \in 0 .. MaxGone

\* However its creation is retried, overtaken or answered too late, an execution
\* has at most one pod that was not evicted.
OnePodEach == \A i, j \in DOMAIN pods :
  pods[i].execution = pods[j].execution /\ i /= j => "Gone" \in {pods[i].phase, pods[j].phase}

\* A creation that its workflow hears to have failed for good leaves no pod;
\* broken by the deadline and by a pod that fails.
FailedLeavesNothing == \A e \in Executions :
  caller[e] = [attempt |-> MaxAttempts, knows |-> "error"] => Named(e) = {}
=============================================================================
