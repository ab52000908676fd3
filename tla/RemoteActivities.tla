-------------------------- MODULE RemoteActivities --------------------------
(***************************************************************************)
(* workflow-engine/src/temporal/activities: the activities that ask one    *)
(* service and tell their workflow what it said: admitAgent (the agent     *)
(* registry), evaluatePolicy (the policy plane) and reportOutcome (the     *)
(* dead letters in PostgreSQL), for one execution; with the administration *)
(* of the dead letters in workflow-engine/src/index.ts and the pool of     *)
(* packages/shared/src/db.ts.  An answer may be lost, and its effect not;  *)
(* then Temporal runs the activity again.  An error is only told after     *)
(* the last attempt.  Others create and delete the agent meanwhile.        *)
(***************************************************************************)
EXTENDS Naturals

CONSTANTS
  MaxAttempts,  \* maximumAttempts
  MaxReplays    \* bound: replays of the dead letter

VARIABLES
  attempt,   \* per activity: attempts begun
  at,        \* per activity: idle, asking, or what the service answers
  heard,     \* per activity: what the workflow was told
  lost,      \* per activity: attempts whose request or answer was lost
  refused,   \* attempts of admitAgent that CreateAgent answered with another error
  agent,     \* the registry has the agent
  existed,   \* it had it at some time of the last attempt of admitAgent
  allowed,   \* the policy plane allowed the attempt that is under way
  letter,    \* the row of the execution: replay_count, if there is one
  replays,   \* replays that found the row
  pool       \* the worker process has its pool

registry   == <<refused, agent, existed>>
remoteVars == <<attempt, at, heard, lost, registry, allowed, letter, replays, pool>>

Kinds    == {"admit", "policy", "report"}
NoLetter == [stored |-> FALSE, count |-> 0]

RemoteInit ==
  /\ attempt = [k \in Kinds |-> 0] /\ at = [k \in Kinds |-> "idle"]
  /\ heard = [k \in Kinds |-> "none"] /\ lost = [k \in Kinds |-> 0]
  /\ refused = 0 /\ agent \in BOOLEAN /\ existed = agent /\ allowed = FALSE
  /\ letter = NoLetter /\ replays = 0 /\ pool = FALSE

Schedule(k) ==
  /\ heard[k] = "none" /\ at[k] = "idle" /\ attempt[k] < MaxAttempts
  /\ attempt' = [attempt EXCEPT ![k] = @ + 1]
  /\ at' = [at EXCEPT ![k] = "asking"]
  /\ existed' = IF k = "admit" THEN agent ELSE existed
  /\ UNCHANGED <<heard, lost, refused, agent, allowed, letter, replays, pool>>

Tells(k, what) ==
  /\ at' = [at EXCEPT ![k] = "idle"]
  /\ heard' = [heard EXCEPT ![k] = what]
  /\ UNCHANGED <<attempt, lost>>

\* The activity throws; no policy of these activities names its error.
Throws(k) == Tells(k, IF attempt[k] = MaxAttempts THEN "error" ELSE "none")

Answers(k, what) ==
  /\ at' = [at EXCEPT ![k] = what]
  /\ UNCHANGED <<attempt, heard, lost>>

\* startToCloseTimeout, the deadline of 10 s or the end of the worker: what the
\* service was asked for may have happened.
Lost(k) ==
  /\ at[k] /= "idle" /\ k /= "policy"
  /\ at' = [at EXCEPT ![k] = "idle"]
  /\ lost' = [lost EXCEPT ![k] = @ + 1]
  /\ heard' = [heard EXCEPT ![k] = IF attempt[k] = MaxAttempts THEN "error" ELSE @]
  /\ pool' \in IF k = "report" THEN {pool, FALSE} ELSE {pool}
  /\ UNCHANGED <<attempt, registry, allowed, letter, replays>>
-----------------------------------------------------------------------------
\* admitAgent.

\* CreateAgent, by this attempt; or by somebody else, or an attempt that is lost.
AgentCreated ==
  /\ at["admit"] = "asking" /\ ~ agent
  /\ agent' = TRUE /\ existed' = TRUE
  /\ Answers("admit", "created")
  /\ UNCHANGED <<refused, allowed, letter, replays, pool>>

AgentAppears ==
  /\ ~ agent
  /\ agent' = TRUE /\ existed' = TRUE
  /\ UNCHANGED <<attempt, at, heard, lost, refused, allowed, letter, replays, pool>>

\* DeleteAgent, by somebody else.
AgentDeleted ==
  /\ agent
  /\ agent' = FALSE
  /\ UNCHANGED <<attempt, at, heard, lost, refused, existed, allowed, letter, replays, pool>>

\* Any error of the database, the name taken between SELECT and INSERT included:
\* "Internal error creating agent", though the row may be there.
RegistryFails ==
  /\ at["admit"] = "asking"
  /\ agent' \in {agent, TRUE} /\ existed' = (existed \/ agent')
  /\ refused' = refused + 1
  /\ Throws("admit")
  /\ UNCHANGED <<allowed, letter, replays, pool>>

AlreadyExists ==
  /\ at["admit"] = "asking" /\ agent
  /\ Answers("admit", "exists")
  /\ UNCHANGED <<registry, allowed, letter, replays, pool>>

AdmittedIfCreated ==
  /\ at["admit"] \in {"created", "exists"}
  /\ IF at["admit"] = "created" THEN Tells("admit", "admitted") ELSE Throws("admit")
  /\ UNCHANGED <<registry, allowed, letter, replays, pool>>

\* The phase of a new agent is Pending; "already exists" admits too.
Admitted ==
  /\ at["admit"] \in {"created", "exists"}
  /\ Tells("admit", "admitted")
  /\ UNCHANGED <<registry, allowed, letter, replays, pool>>
-----------------------------------------------------------------------------
\* evaluatePolicy.

PolicyAnswers ==
  /\ at["policy"] = "asking"
  /\ allowed' \in BOOLEAN
  /\ Answers("policy", "decided")
  /\ UNCHANGED <<registry, letter, replays, pool>>

Decided ==
  /\ at["policy"] = "decided"
  /\ Tells("policy", IF allowed THEN "allow" ELSE "deny")
  /\ UNCHANGED <<registry, allowed, letter, replays, pool>>

\* A failed request, its timeout, or a status that is not 2xx: denied at once.
Unreachable ==
  /\ at["policy"] \in {"asking", "decided"}
  /\ Tells("policy", "deny")
  /\ allowed' = FALSE
  /\ UNCHANGED <<registry, letter, replays, pool>>

\* The response is cut, or the worker ends: postJSON never settles, and Temporal
\* tries again.
PolicyCut ==
  /\ at["policy"] \in {"asking", "decided"}
  /\ at' = [at EXCEPT !["policy"] = "idle"]
  /\ lost' = [lost EXCEPT !["policy"] = @ + 1]
  /\ heard' = [heard EXCEPT !["policy"] = IF attempt["policy"] = MaxAttempts THEN "error" ELSE @]
  /\ allowed' = FALSE
  /\ UNCHANGED <<attempt, registry, letter, replays, pool>>
-----------------------------------------------------------------------------
\* reportOutcome of a result with the status ERROR.

\* getPool: the first one connects.
Connect ==
  /\ at["report"] = "asking" /\ ~ pool
  /\ pool' = TRUE
  /\ UNCHANGED <<attempt, at, heard, lost, registry, allowed, letter, replays>>

\* ON CONFLICT (execution_id) DO UPDATE keeps the replay_count.
Upsert ==
  /\ at["report"] = "asking" /\ pool
  /\ letter' = [letter EXCEPT !.stored = TRUE]
  /\ Answers("report", "stored")
  /\ UNCHANGED <<registry, allowed, replays, pool>>

Reported ==
  /\ at["report"] = "stored"
  /\ Tells("report", "reported")
  /\ UNCHANGED <<registry, allowed, letter, replays, pool>>

\* The statement is rejected: logged, and the activity succeeds.
UpsertFails ==
  /\ at["report"] = "asking" /\ pool
  /\ Tells("report", "reported")
  /\ UNCHANGED <<registry, allowed, letter, replays, pool>>

\* POST /dlq/:id/replay: the row is marked; no execution is started.
ReplayLetter ==
  /\ replays < MaxReplays /\ letter.stored
  /\ letter' = [letter EXCEPT !.count = @ + 1]
  /\ replays' = replays + 1
  /\ UNCHANGED <<attempt, at, heard, lost, registry, allowed, pool>>

Works(k) ==
  CASE k = "admit"  -> AgentCreated \/ AlreadyExists \/ RegistryFails \/ Admitted
    [] k = "policy" -> PolicyAnswers \/ Decided \/ Unreachable \/ PolicyCut
    [] k = "report" -> Connect \/ Upsert \/ Reported \/ UpsertFails

RemoteNext ==
  \/ \E k \in Kinds : Schedule(k) \/ Lost(k) \/ Works(k)
  \/ AgentAppears \/ AgentDeleted \/ ReplayLetter
-----------------------------------------------------------------------------
RemoteTypeOK ==
  /\ attempt \in [Kinds -> 0 .. MaxAttempts] /\ lost \in [Kinds -> 0 .. MaxAttempts]
  /\ at \in [Kinds -> {"idle", "asking", "created", "exists", "decided", "stored"}]
  /\ heard \in [Kinds -> {"none", "admitted", "allow", "deny", "reported", "error"}]
  /\ {agent, existed, allowed, pool} \subseteq BOOLEAN /\ refused \in 0 .. MaxAttempts
  /\ letter \in [stored : BOOLEAN, count : 0 .. MaxReplays] /\ replays \in 0 .. MaxReplays

\* What a workflow hears is true.  An agent it was told to be admitted was in the
\* registry while the attempt ran (it may be deleted since); one that an earlier
\* attempt or somebody else created is no reason to refuse it: an error means that
\* every attempt was lost or met an internal error; and the execution is allowed
\* only what the policy plane allowed, whatever was lost before.
HeardIsTrue ==
  /\ heard["admit"] = "admitted" => existed
  /\ heard["admit"] = "error" => lost["admit"] + refused = MaxAttempts
  /\ heard["policy"] = "allow" => allowed

\* A failed execution is one dead letter, and no report that is repeated, or
\* late, makes it forget a replay.
ReplaysCounted == letter.count = replays /\ (replays > 0 => letter.stored)

\* What was reported is among the dead letters; broken by a rejected INSERT.
ReportedIsKept == heard["report"] = "reported" => letter.stored
=============================================================================
