--------------------------- MODULE PolicyEvaluator ---------------------------
(***************************************************************************)
(* policy-plane/src/service.ts and the interceptor of middleware.ts that   *)
(* calls it: every guarded gRPC call asks evaluatePolicy, which answers    *)
(* from a circuit breaker, a cache, or OPA, and denies on any failure.     *)
(* A step is what runs between two awaits; OPA is external, its rules may  *)
(* change while answers are on their way.                                  *)
(*                                                                         *)
(* Time is kept as ages that stop growing where the code stops telling     *)
(* them apart, and the failure count stops at the threshold.               *)
(***************************************************************************)
EXTENDS Naturals, FiniteSets

CONSTANTS
  Requests,   \* guarded calls in progress
  Inputs,     \* what may be asked: records with a policy path, an action (and
              \* the other top-level texts) and a clearance (and the other
              \* fields of subject and claims)
  Threshold,  \* OPA_CIRCUIT_BREAKER_THRESHOLD
  Recovery,   \* OPA_CIRCUIT_BREAKER_RECOVERY_MS, in ticks
  Ttl,        \* OPA_CACHE_TTL_MS, in ticks
  MaxSize     \* OPA_CACHE_MAX_SIZE

ASSUME InputsAssumption    == Inputs /= {}
ASSUME ThresholdAssumption == Threshold \in Nat \ {0}
ASSUME TimesAssumption     == Recovery \in Nat /\ Ttl \in Nat
ASSUME MaxSizeAssumption   == MaxSize \in Nat \ {0}

VARIABLES
  circuit,       \* circuitBreaker.state
  failureCount,  \* circuitBreaker.failureCount
  sinceFailure,  \* time since circuitBreaker.lastFailureTime
  store,         \* cache.store: a decision and its age for each key it holds
  older,         \* the insertion order of the Map: <<a, b>> if a came before b
  calls,         \* each request's place in evaluatePolicy
  sinceAllow     \* history: time since OPA's last allow for each input arrived

vars == <<circuit, failureCount, sinceFailure, store, older, calls, sinceAllow>>

\* hashInput: JSON.stringify(input, keys) keeps, at every depth, only the
\* fields named like a top-level one; the path is not part of the input.
HashInput(input) == input.action

Keys    == {HashInput(i) : i \in Inputs}
Entries == [allow : BOOLEAN, age : 0 .. Ttl + 1]
Calls   == [at : {"idle", "asking", "cut", "answered"}, input : Inputs,
            verdict : {"none", "allow", "deny"}]

Idle == [at |-> "idle", input |-> CHOOSE i \in Inputs : TRUE, verdict |-> "none"]

Init ==
  /\ circuit = "closed"
  /\ failureCount = 0
  /\ sinceFailure = Recovery
  /\ store = [k \in {} |-> FALSE]
  /\ older = {}
  /\ calls = [r \in Requests |-> Idle]
  /\ sinceAllow = [i \in Inputs |-> Ttl + 1]
-----------------------------------------------------------------------------
\* The breaker.

\* canExecute: an open breaker lets requests through again, all of them, once
\* the last failure is Recovery old.
CanExecute == circuit = "open" => sinceFailure >= Recovery

EnterProbing == circuit' = IF circuit = "open" THEN "half_open" ELSE circuit

RecordFailure ==
  /\ failureCount' = IF failureCount < Threshold THEN failureCount + 1 ELSE failureCount
  /\ sinceFailure' = 0
  /\ circuit' = IF failureCount' >= Threshold THEN "open" ELSE circuit

RecordSuccessKeepsCount ==
  /\ circuit' = "closed"
  /\ UNCHANGED failureCount

RecordSuccessKeepsState ==
  /\ failureCount' = 0
  /\ UNCHANGED circuit

RecordSuccess ==
  /\ failureCount' = 0
  /\ circuit' = "closed"
-----------------------------------------------------------------------------
\* The cache: a Map.

Held     == DOMAIN store
Fresh(k) == store[k].age <= Ttl
Hit(k)   == k \in Held /\ Fresh(k)

\* Map.delete of every key but those kept.
Keep(kept) ==
  /\ store' = [k \in kept |-> store[k]]
  /\ older' = older \cap (kept \X kept)

\* get(k) that finds nothing fresh removes the expired entry of k.
Miss(k) == ~ Hit(k) /\ Keep(Held \ {k})

\* Map.set(k) on the keys kept: a Map keeps the place of a key it holds.
Put(kept, k, allow) ==
  /\ store' = [j \in kept \cup {k} |->
                 IF j = k THEN [allow |-> allow, age |-> 0] ELSE store[j]]
  /\ older' = (older \cap (kept \X kept))
                \cup (IF k \in kept THEN {} ELSE kept \X {k})

Oldest(k) == k \in Held /\ \A j \in Held : <<j, k>> \notin older

CacheSetOffByOne(k, allow) ==
  IF Cardinality(Held) > MaxSize
  THEN \E o \in Held : Oldest(o) /\ Put(Held \ {o}, k, allow)
  ELSE Put(Held, k, allow)

\* set(k, allow): a full cache drops its oldest entry first, also when it holds
\* k already.
CacheSet(k, allow) ==
  IF Cardinality(Held) >= MaxSize
  THEN \E o \in Held : Oldest(o) /\ Put(Held \ {o}, k, allow)
  ELSE Put(Held, k, allow)
-----------------------------------------------------------------------------
Answer(r, i, allow) ==
  calls' = [calls EXCEPT ![r] = [at |-> "answered", input |-> i,
                                 verdict |-> IF allow THEN "allow" ELSE "deny"]]

\* evaluatePolicy with an open breaker.
Refuse(r, i) ==
  /\ calls[r].at = "idle"
  /\ ~ CanExecute
  /\ Answer(r, i, FALSE)
  /\ UNCHANGED <<circuit, failureCount, sinceFailure, store, older, sinceAllow>>

ServeCachedRefreshes(r, i) ==
  /\ calls[r].at = "idle"
  /\ CanExecute
  /\ EnterProbing
  /\ Hit(HashInput(i))
  /\ Answer(r, i, store[HashInput(i)].allow)
  /\ store' = [store EXCEPT ![HashInput(i)].age = 0]
  /\ UNCHANGED <<failureCount, sinceFailure, older, sinceAllow>>

ServeCachedExpired(r, i) ==
  /\ calls[r].at = "idle"
  /\ CanExecute
  /\ EnterProbing
  /\ HashInput(i) \in Held
  /\ Answer(r, i, store[HashInput(i)].allow)
  /\ UNCHANGED <<failureCount, sinceFailure, store, older, sinceAllow>>

\* evaluatePolicy with a hit.
ServeCached(r, i) ==
  /\ calls[r].at = "idle"
  /\ CanExecute
  /\ EnterProbing
  /\ Hit(HashInput(i))
  /\ Answer(r, i, store[HashInput(i)].allow)
  /\ UNCHANGED <<failureCount, sinceFailure, store, older, sinceAllow>>

\* evaluatePolicy up to the await of postJSON.
AskOPA(r, i) ==
  /\ calls[r].at = "idle"
  /\ CanExecute
  /\ EnterProbing
  /\ Miss(HashInput(i))
  /\ calls' = [calls EXCEPT ![r] = [at |-> "asking", input |-> i, verdict |-> "none"]]
  /\ UNCHANGED <<failureCount, sinceFailure, sinceAllow>>

\* OPA evaluates its rules of the moment; the answer is on its way.
OPADecides(r, verdict) ==
  /\ calls[r].at = "asking"
  /\ calls[r].verdict = "none"
  /\ calls' = [calls EXCEPT ![r].verdict = verdict]
  /\ UNCHANGED <<circuit, failureCount, sinceFailure, store, older, sinceAllow>>

\* It arrives with a 2xx status.
OPAAnswers(r) ==
  LET i     == calls[r].input
      allow == calls[r].verdict = "allow"
  IN  /\ calls[r].at = "asking"
      /\ calls[r].verdict /= "none"
      /\ RecordSuccess
      /\ CacheSet(HashInput(i), allow)
      /\ Answer(r, i, allow)
      /\ sinceAllow' = IF allow THEN [sinceAllow EXCEPT ![i] = 0] ELSE sinceAllow
      /\ UNCHANGED sinceFailure

\* Refused connection, socket timeout, other status, no JSON: the catch block,
\* whether or not OPA had decided.
OPAFails(r) ==
  /\ calls[r].at = "asking"
  /\ RecordFailure
  /\ Answer(r, calls[r].input, FALSE)
  /\ UNCHANGED <<store, older, sinceAllow>>

\* The connection breaks after the headers: "end" never comes, and neither
\* "error" nor "timeout" of the request, so the promise stays pending.
ResponseCut(r) ==
  /\ calls[r].at = "asking"
  /\ calls[r].verdict /= "none"
  /\ calls' = [calls EXCEPT ![r] = [Idle EXCEPT !.at = "cut"]]
  /\ UNCHANGED <<circuit, failureCount, sinceFailure, store, older, sinceAllow>>

\* The interceptor rejects the call or passes it on.
Return(r) ==
  /\ calls[r].at = "answered"
  /\ calls' = [calls EXCEPT ![r] = Idle]
  /\ UNCHANGED <<circuit, failureCount, sinceFailure, store, older, sinceAllow>>

\* The interval timer of the cache.
EvictExpired ==
  /\ \E k \in Held : ~ Fresh(k)
  /\ Keep({k \in Held : Fresh(k)})
  /\ UNCHANGED <<circuit, failureCount, sinceFailure, calls, sinceAllow>>

Aged(age, limit) == IF age < limit THEN age + 1 ELSE age

Tick ==
  /\ sinceFailure' = Aged(sinceFailure, Recovery)
  /\ store' = [k \in Held |-> [store[k] EXCEPT !.age = Aged(store[k].age, Ttl + 1)]]
  /\ sinceAllow' = [i \in Inputs |-> Aged(sinceAllow[i], Ttl + 1)]
  /\ UNCHANGED <<circuit, failureCount, older, calls>>

Ask(r)  == \E i \in Inputs : Refuse(r, i) \/ ServeCached(r, i) \/ AskOPA(r, i)
Work(r) ==
  \/ \E verdict \in {"allow", "deny"} : OPADecides(r, verdict)
  \/ OPAAnswers(r)
  \/ OPAFails(r)
  \/ Return(r)

Next ==
  \/ \E r \in Requests : Ask(r) \/ Work(r) \/ ResponseCut(r)
  \/ EvictExpired
  \/ Tick

\* Time passes; a call to OPA is answered, refused or ended by its timeout,
\* unless its response is cut.  New requests and the timer of the cache may
\* never come.
Fairness == WF_vars(Tick) /\ \A r \in Requests : WF_vars(Work(r))

Spec     == Init /\ [][Next]_vars
FairSpec == Spec /\ Fairness
-----------------------------------------------------------------------------
TypeOK ==
  /\ circuit \in {"closed", "open", "half_open"}
  /\ failureCount \in 0 .. Threshold
  /\ sinceFailure \in 0 .. Recovery
  /\ store \in [Held -> Entries] /\ Held \subseteq Keys
  /\ older \subseteq Held \X Held
  /\ calls \in [Requests -> Calls]
  /\ sinceAllow \in [Inputs -> 0 .. Ttl + 1]

\* The breaker is closed exactly while fewer than Threshold failures followed
\* the last success, whatever the order in which concurrent answers arrive: a
\* failed probe reopens it at once, a late success closes it for everybody.
BreakerConsistent == circuit = "closed" <=> failureCount < Threshold

\* The cache stays within its size, and of any two entries exactly one is the
\* older, though several requests may miss the same key together, all store
\* their answers, and the timer removes entries between them.
CacheExact ==
  /\ Cardinality(Held) <= MaxSize
  /\ \A j, k \in Held : j /= k => (<<j, k>> \in older <=> <<k, j>> \notin older)

\* Request r is being allowed in this step.
Allows(r) ==
  /\ calls[r].at /= "answered"
  /\ calls'[r].at = "answered"
  /\ calls'[r].verdict = "allow"

\* Fail closed: a request is allowed only by an answer of OPA, for an input
\* with its key, that arrived at most Ttl ago, and never while the breaker
\* stays open.
AllowedByOPA ==
  [][ \A r \in Requests :
        Allows(r) =>
          /\ circuit' /= "open"
          /\ \E i \in Inputs :
               /\ HashInput(i) = HashInput(calls'[r].input)
               /\ sinceAllow'[i] <= Ttl ]_vars

\* An open breaker is not for ever: when OPA's failures end and requests keep
\* coming, it closes, although hits of the cache never reach OPA.
BreakerRecovers ==
  <>[][\A r \in Requests : ~ (OPAFails(r) \/ ResponseCut(r))]_vars
    /\ []<>(\E r \in Requests : calls[r].at = "answered")
  => []<>(circuit = "closed")

\* A permission that OPA no longer gives for a key stops being served: no
\* series of hits and late answers keeps it in the cache.
WithdrawalTakesEffect ==
  \A k \in Keys :
    <>[][ \A r \in Requests :
            HashInput(calls[r].input) = k => ~ OPADecides(r, "allow") ]_vars
    => <>[](Hit(k) => ~ store[k].allow)

\* "should produce different hashes for different inputs": a request is allowed
\* by what OPA answered for the input it asks about.
AllowedForItsInput ==
  [][ \A r \in Requests :
        Allows(r) => sinceAllow'[calls'[r].input] <= Ttl ]_vars
=============================================================================
