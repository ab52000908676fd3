----------------------- MODULE PolicyEvaluator_proofs -----------------------
(***************************************************************************)
(* The evaluator's breaker and cache are right for any number of requests, *)
(* any set of inputs, threshold, lifetime and cache size.  A hit is        *)
(* justified because a cached allow is never younger than OPA's last allow *)
(* for some input with its key (Recent): a late or concurrent answer       *)
(* replaces the entry and moves the history together.                      *)
(***************************************************************************)
EXTENDS PolicyEvaluator, FiniteSetTheorems, TLAPS

Recent ==
  \A k \in Held : store[k].allow =>
    \E i \in Inputs : HashInput(i) = k /\ sinceAllow[i] <= store[k].age

IInv ==
  /\ TypeOK
  /\ BreakerConsistent
  /\ CacheExact /\ IsFiniteSet(Held)
  /\ Recent

LEMMA KeysType == \A i \in Inputs : HashInput(i) \in Keys
  BY DEF Keys

LEMMA IdleType == Idle \in Calls
  BY InputsAssumption DEF Idle, Calls

\* What every entry of the cache is.
LEMMA EntryType ==
  ASSUME TypeOK, NEW k \in Held
  PROVE  store[k].allow \in BOOLEAN /\ store[k].age \in 0 .. Ttl + 1
  BY DEF TypeOK, Entries

\* What is asked of the cache after a step, without the other variables.
CacheInv ==
  /\ store \in [Held -> Entries] /\ Held \subseteq Keys
  /\ older \subseteq Held \X Held
  /\ CacheExact /\ IsFiniteSet(Held)

\* Deleting keys disturbs nothing that is said of the others.
LEMMA KeepKeeps ==
  ASSUME IInv, NEW kept \in SUBSET Held, Keep(kept), UNCHANGED sinceAllow
  PROVE  CacheInv' /\ Recent'
<1>1. /\ store' = [k \in kept |-> store[k]] /\ Held' = kept
      /\ older' = older \cap (kept \X kept)
  BY DEF Keep, Held
<1>2. \A k \in kept : store'[k] = store[k] /\ store[k] \in Entries
  BY <1>1 DEF IInv, TypeOK
<1>3. store' \in [Held' -> Entries]
  BY <1>1, <1>2
<1>4. IsFiniteSet(kept) /\ Cardinality(kept) <= Cardinality(Held)
  BY FS_Subset DEF IInv
<1>5. Cardinality(kept) \in Nat /\ Cardinality(Held) \in Nat /\ Cardinality(Held) <= MaxSize
  BY <1>4, FS_CardinalityType DEF IInv, CacheExact
<1>6. Cardinality(Held') <= MaxSize
  BY <1>1, <1>4, <1>5, MaxSizeAssumption
<1>7. CacheExact'
  BY <1>1, <1>6 DEF IInv, CacheExact
<1>8. Recent'
  BY <1>1, <1>2 DEF IInv, Recent
<1> QED
  BY <1>1, <1>3, <1>4, <1>7, <1>8 DEF CacheInv, IInv, TypeOK

\* Map.set keeps the keys in line.
LEMMA PutKeeps ==
  ASSUME IInv, NEW kept \in SUBSET Held, NEW i \in Inputs, NEW allow \in BOOLEAN,
         kept = Held => Cardinality(Held) < MaxSize,
         kept /= Held => Cardinality(kept) < MaxSize,
         Put(kept, HashInput(i), allow),
         sinceAllow' = IF allow THEN [sinceAllow EXCEPT ![i] = 0] ELSE sinceAllow
  PROVE  CacheInv' /\ Recent'
<1> DEFINE k == HashInput(i)
           e == [allow |-> allow, age |-> 0]
<1>1. /\ store' = [j \in kept \cup {k} |-> IF j = k THEN e ELSE store[j]]
      /\ Held' = kept \cup {k}
      /\ older' = (older \cap (kept \X kept))
                    \cup (IF k \in kept THEN {} ELSE kept \X {k})
  BY DEF Put, Held
<1>2. k \in Keys /\ e \in Entries
  BY KeysType, TimesAssumption DEF Entries
<1>3. e.allow = allow /\ e.age = 0
  OBVIOUS
<1> HIDE DEF k, e
<1>4. /\ store'[k] = e
      /\ \A j \in kept \ {k} : store'[j] = store[j] /\ store[j] \in Entries
  BY <1>1 DEF IInv, TypeOK
<1>5. store' \in [Held' -> Entries] /\ Held' \subseteq Keys
  BY <1>1, <1>2, <1>4 DEF IInv, TypeOK
<1>6. older' \subseteq Held' \X Held'
  BY <1>1
<1>7. IsFiniteSet(kept) /\ Cardinality(kept) \in Nat /\ Cardinality(kept) < MaxSize
  BY FS_Subset, FS_CardinalityType DEF IInv
<1>8. IsFiniteSet(Held') /\ Cardinality(Held') <= MaxSize
  <2>1. IsFiniteSet(kept \cup {k})
        /\ Cardinality(kept \cup {k}) =
              IF k \in kept THEN Cardinality(kept) ELSE Cardinality(kept) + 1
    BY <1>7, FS_AddElement
  <2>2. Cardinality(kept \cup {k}) <= MaxSize
    BY <1>7, <2>1, MaxSizeAssumption
  <2> QED
    BY <1>1, <2>1, <2>2
<1>9. \A a, b \in Held' : a /= b => (<<a, b>> \in older' <=> <<b, a>> \notin older')
  BY <1>1 DEF IInv, CacheExact
<1>10. Recent'
  <2> SUFFICES ASSUME NEW j \in Held', store'[j].allow
               PROVE  \E n \in Inputs : HashInput(n) = j /\ sinceAllow'[n] <= store'[j].age
    BY DEF Recent
  <2>1. CASE j = k
    <3>1. allow /\ store'[j].age = 0
      BY <1>3, <1>4, <2>1
    <3>2. sinceAllow'[i] = 0
      BY <3>1 DEF IInv, TypeOK
    <3> QED
      BY <2>1, <3>1, <3>2 DEF k
  <2>2. CASE j /= k
    <3>1. j \in Held /\ store'[j] = store[j]
      BY <1>1, <1>4, <2>2
    <3>2. PICK n \in Inputs : HashInput(n) = j /\ sinceAllow[n] <= store[j].age
      BY <3>1 DEF IInv, Recent
    <3>3. n /= i
      BY <2>2, <3>2 DEF k
    <3>4. sinceAllow'[n] = sinceAllow[n]
      BY <3>3 DEF IInv, TypeOK
    <3> QED
      BY <3>1, <3>2, <3>4
  <2> QED
    BY <2>1, <2>2
<1> QED
  BY <1>5, <1>6, <1>8, <1>9, <1>10 DEF CacheInv, CacheExact

\* Storing an answer of OPA, with room made for it first.
LEMMA CacheSetKeeps ==
  ASSUME IInv, NEW i \in Inputs, NEW allow \in BOOLEAN,
         CacheSet(HashInput(i), allow),
         sinceAllow' = IF allow THEN [sinceAllow EXCEPT ![i] = 0] ELSE sinceAllow
  PROVE  CacheInv' /\ Recent'
<1>1. Cardinality(Held) \in Nat /\ Cardinality(Held) <= MaxSize
  BY FS_CardinalityType DEF IInv, CacheExact
<1>2. CASE Cardinality(Held) >= MaxSize
  <2>1. PICK o \in Held : Put(Held \ {o}, HashInput(i), allow)
    BY <1>2 DEF CacheSet
  <2>2. Cardinality(Held \ {o}) = Cardinality(Held) - 1
    BY FS_RemoveElement DEF IInv
  <2>3. Cardinality(Held \ {o}) < MaxSize
    BY <1>1, <2>2, MaxSizeAssumption
  <2>4. Held \ {o} /= Held
    OBVIOUS
  <2> QED
    BY <2>1, <2>3, <2>4, PutKeeps
<1>3. CASE ~ (Cardinality(Held) >= MaxSize)
  <2>1. Put(Held, HashInput(i), allow)
    BY <1>3 DEF CacheSet
  <2>2. Cardinality(Held) < MaxSize
    BY <1>1, <1>3, MaxSizeAssumption
  <2> QED
    BY <2>1, <2>2, PutKeeps
<1> QED
  BY <1>2, <1>3
-----------------------------------------------------------------------------
LEMMA InitInv == Init => IInv
<1> SUFFICES ASSUME Init PROVE IInv
  OBVIOUS
<1>1. Held = {}
  BY DEF Init, Held
<1>2. TypeOK
  BY <1>1, IdleType, TimesAssumption, ThresholdAssumption DEF Init, TypeOK
<1>3. BreakerConsistent
  BY ThresholdAssumption DEF Init, BreakerConsistent
<1>4. IsFiniteSet(Held) /\ Cardinality(Held) = 0
  BY <1>1, FS_EmptySet
<1>5. CacheExact /\ Recent
  BY <1>1, <1>4, MaxSizeAssumption DEF CacheExact, Recent
<1> QED
  BY <1>2, <1>3, <1>4, <1>5 DEF IInv

\* A call that is answered stays within the types.
LEMMA AnswerType ==
  ASSUME TypeOK, NEW r \in Requests, NEW i \in Inputs, NEW allow, Answer(r, i, allow)
  PROVE  calls' \in [Requests -> Calls]
<1>1. [at |-> "answered", input |-> i,
       verdict |-> IF allow THEN "allow" ELSE "deny"] \in Calls
  BY DEF Calls
<1> QED
  BY <1>1 DEF TypeOK, Answer

LEMMA RefuseInv ==
  ASSUME IInv, NEW r \in Requests, NEW i \in Inputs, Refuse(r, i) PROVE IInv'
<1>1. /\ UNCHANGED <<circuit, failureCount, sinceFailure, store, older, sinceAllow>>
      /\ Answer(r, i, FALSE)
  BY DEF Refuse
<1>2. TypeOK'
  BY <1>1, AnswerType DEF IInv, TypeOK, Held
<1> QED
  BY <1>1, <1>2 DEF IInv, BreakerConsistent, CacheExact, Recent, Held

\* A probe does not change what the breaker says of its count.
LEMMA ProbingKeeps ==
  ASSUME TypeOK, BreakerConsistent, EnterProbing, UNCHANGED failureCount
  PROVE  circuit' \in {"closed", "open", "half_open"} /\ BreakerConsistent'
  BY DEF TypeOK, BreakerConsistent, EnterProbing

LEMMA ServeCachedInv ==
  ASSUME IInv, NEW r \in Requests, NEW i \in Inputs, ServeCached(r, i) PROVE IInv'
<1>1. /\ UNCHANGED <<failureCount, sinceFailure, store, older, sinceAllow>>
      /\ EnterProbing
      /\ Answer(r, i, store[HashInput(i)].allow)
  BY DEF ServeCached
<1>2. calls' \in [Requests -> Calls]
  BY <1>1, AnswerType DEF IInv
<1>3. circuit' \in {"closed", "open", "half_open"} /\ BreakerConsistent'
  BY <1>1, ProbingKeeps DEF IInv
<1>4. TypeOK'
  BY <1>1, <1>2, <1>3 DEF IInv, TypeOK, Held
<1> QED
  BY <1>1, <1>3, <1>4 DEF IInv, CacheExact, Recent, Held

LEMMA AskOPAInv ==
  ASSUME IInv, NEW r \in Requests, NEW i \in Inputs, AskOPA(r, i) PROVE IInv'
<1>1. /\ UNCHANGED <<failureCount, sinceFailure, sinceAllow>>
      /\ EnterProbing
      /\ Keep(Held \ {HashInput(i)})
  BY DEF AskOPA, Miss
<1>2. calls' \in [Requests -> Calls]
  <2>1. [at |-> "asking", input |-> i, verdict |-> "none"] \in Calls
    BY DEF Calls
  <2> QED
    BY <2>1 DEF AskOPA, IInv, TypeOK
<1>3. circuit' \in {"closed", "open", "half_open"} /\ BreakerConsistent'
  BY <1>1, ProbingKeeps DEF IInv
<1>4. CacheInv' /\ Recent'
  BY <1>1, KeepKeeps
<1> QED
  BY <1>1, <1>2, <1>3, <1>4 DEF IInv, TypeOK, CacheInv

LEMMA EvictExpiredInv == ASSUME IInv, EvictExpired PROVE IInv'
<1>1. /\ UNCHANGED <<circuit, failureCount, sinceFailure, calls, sinceAllow>>
      /\ Keep({k \in Held : Fresh(k)})
  BY DEF EvictExpired
<1>2. CacheInv' /\ Recent'
  BY <1>1, KeepKeeps
<1> QED
  BY <1>1, <1>2 DEF IInv, TypeOK, BreakerConsistent, CacheInv

LEMMA OPADecidesInv ==
  ASSUME IInv, NEW r \in Requests, NEW v \in {"allow", "deny"}, OPADecides(r, v)
  PROVE  IInv'
<1>1. UNCHANGED <<circuit, failureCount, sinceFailure, store, older, sinceAllow>>
  BY DEF OPADecides
<1>2. calls' \in [Requests -> Calls]
  BY DEF OPADecides, IInv, TypeOK, Calls
<1> QED
  BY <1>1, <1>2 DEF IInv, TypeOK, BreakerConsistent, CacheExact, Recent, Held

LEMMA OPAAnswersInv ==
  ASSUME IInv, NEW r \in Requests, OPAAnswers(r) PROVE IInv'
<1> DEFINE i     == calls[r].input
           allow == calls[r].verdict = "allow"
<1>1. i \in Inputs /\ allow \in BOOLEAN
  BY DEF IInv, TypeOK, Calls
<1>2. /\ CacheSet(HashInput(i), allow)
      /\ Answer(r, i, allow)
      /\ sinceAllow' = IF allow THEN [sinceAllow EXCEPT ![i] = 0] ELSE sinceAllow
      /\ circuit' = "closed" /\ failureCount' = 0
      /\ UNCHANGED sinceFailure
  BY DEF OPAAnswers, RecordSuccess
<1> HIDE DEF i, allow
<1>3. CacheInv' /\ Recent'
  BY <1>1, <1>2, CacheSetKeeps
<1>4. calls' \in [Requests -> Calls]
  BY <1>1, <1>2, AnswerType DEF IInv
<1>5. sinceAllow' \in [Inputs -> 0 .. Ttl + 1]
  BY <1>1, <1>2, TimesAssumption DEF IInv, TypeOK
<1> QED
  BY <1>2, <1>3, <1>4, <1>5, ThresholdAssumption
     DEF IInv, TypeOK, BreakerConsistent, CacheInv

LEMMA OPAFailsInv ==
  ASSUME IInv, NEW r \in Requests, OPAFails(r) PROVE IInv'
<1>1. /\ UNCHANGED <<store, older, sinceAllow>>
      /\ failureCount' = IF failureCount < Threshold THEN failureCount + 1 ELSE failureCount
      /\ sinceFailure' = 0
      /\ circuit' = IF failureCount' >= Threshold THEN "open" ELSE circuit
      /\ Answer(r, calls[r].input, FALSE)
  BY DEF OPAFails, RecordFailure
<1>2. calls[r].input \in Inputs
  BY DEF IInv, TypeOK, Calls
<1>3. calls' \in [Requests -> Calls]
  BY <1>1, <1>2, AnswerType DEF IInv
<1>4. failureCount' \in 0 .. Threshold /\ sinceFailure' \in 0 .. Recovery
  BY <1>1, ThresholdAssumption, TimesAssumption DEF IInv, TypeOK
<1>5. BreakerConsistent'
  BY <1>1, ThresholdAssumption DEF IInv, TypeOK, BreakerConsistent
<1>6. circuit' \in {"closed", "open", "half_open"}
  BY <1>1 DEF IInv, TypeOK
<1> QED
  BY <1>1, <1>3, <1>4, <1>5, <1>6 DEF IInv, TypeOK, CacheExact, Recent, Held

LEMMA ResponseCutInv ==
  ASSUME IInv, NEW r \in Requests, ResponseCut(r) PROVE IInv'
<1>1. UNCHANGED <<circuit, failureCount, sinceFailure, store, older, sinceAllow>>
  BY DEF ResponseCut
<1>2. calls' \in [Requests -> Calls]
  <2>1. [Idle EXCEPT !.at = "cut"] \in Calls
    BY IdleType DEF Calls
  <2> QED
    BY <2>1 DEF ResponseCut, IInv, TypeOK
<1> QED
  BY <1>1, <1>2 DEF IInv, TypeOK, BreakerConsistent, CacheExact, Recent, Held

LEMMA ReturnInv ==
  ASSUME IInv, NEW r \in Requests, Return(r) PROVE IInv'
<1>1. UNCHANGED <<circuit, failureCount, sinceFailure, store, older, sinceAllow>>
  BY DEF Return
<1>2. calls' \in [Requests -> Calls]
  BY IdleType DEF Return, IInv, TypeOK
<1> QED
  BY <1>1, <1>2 DEF IInv, TypeOK, BreakerConsistent, CacheExact, Recent, Held

LEMMA TickInv == ASSUME IInv, Tick PROVE IInv'
<1>1. UNCHANGED <<circuit, failureCount, older, calls>>
  BY DEF Tick
<1>2. sinceFailure' \in 0 .. Recovery
  BY TimesAssumption DEF Tick, Aged, IInv, TypeOK
<1>3. /\ sinceAllow' \in [Inputs -> 0 .. Ttl + 1]
      /\ \A i \in Inputs : sinceAllow'[i] = Aged(sinceAllow[i], Ttl + 1)
  BY TimesAssumption DEF Tick, Aged, IInv, TypeOK
<1> DEFINE Next1(k) == [store[k] EXCEPT !.age = Aged(store[k].age, Ttl + 1)]
<1>4. \A k \in Held :
        /\ Next1(k) \in Entries
        /\ Next1(k).allow = store[k].allow
        /\ Next1(k).age = Aged(store[k].age, Ttl + 1)
  BY TimesAssumption DEF IInv, TypeOK, Entries, Aged
<1>5. store' = [k \in Held |-> Next1(k)]
  BY DEF Tick
<1> HIDE DEF Next1
<1>6. /\ Held' = Held /\ store' \in [Held -> Entries]
      /\ \A k \in Held : store'[k] = Next1(k)
  BY <1>4, <1>5 DEF Held
<1>7. CacheExact' /\ IsFiniteSet(Held')
  BY <1>1, <1>6 DEF IInv, CacheExact
<1>8. Recent'
  <2> SUFFICES ASSUME NEW k \in Held, store'[k].allow
               PROVE  \E i \in Inputs : HashInput(i) = k /\ sinceAllow'[i] <= store'[k].age
    BY <1>6 DEF Recent
  <2>1. store[k].allow /\ store'[k].age = Aged(store[k].age, Ttl + 1)
    BY <1>4, <1>6
  <2>2. PICK i \in Inputs : HashInput(i) = k /\ sinceAllow[i] <= store[k].age
    BY <2>1 DEF IInv, Recent
  <2>3. sinceAllow[i] \in 0 .. Ttl + 1 /\ store[k].age \in 0 .. Ttl + 1
    BY EntryType DEF IInv, TypeOK
  <2>4. Aged(sinceAllow[i], Ttl + 1) <= Aged(store[k].age, Ttl + 1)
    BY <2>2, <2>3, TimesAssumption DEF Aged
  <2> QED
    BY <1>3, <2>1, <2>2, <2>4
<1> QED
  BY <1>1, <1>2, <1>3, <1>6, <1>7, <1>8 DEF IInv, TypeOK, BreakerConsistent

LEMMA NextInv == ASSUME IInv, [Next]_vars PROVE IInv'
<1>1. CASE UNCHANGED vars
  BY <1>1 DEF vars, IInv, TypeOK, BreakerConsistent, CacheExact, Recent, Held
<1>2. CASE Next
  BY <1>2, RefuseInv, ServeCachedInv, AskOPAInv, OPADecidesInv, OPAAnswersInv,
     OPAFailsInv, ResponseCutInv, ReturnInv, EvictExpiredInv, TickInv
     DEF Next, Ask, Work
<1> QED
  BY <1>1, <1>2

\* The inductive invariant holds in every reachable state.
THEOREM Inductive == Spec => []IInv
<1>1. Init => IInv
  BY InitInv
<1>2. IInv /\ [Next]_vars => IInv'
  BY NextInv
<1> QED
  BY <1>1, <1>2, PTL DEF Spec

\* The breaker is closed exactly below the threshold of consecutive failures.
THEOREM BreakerIsConsistent == Spec => []BreakerConsistent
<1>1. IInv => BreakerConsistent
  BY DEF IInv
<1> QED
  BY <1>1, Inductive, PTL

\* The cache keeps its size and holds one decision per key.
THEOREM CacheIsExact == Spec => []CacheExact
<1>1. IInv => CacheExact
  BY DEF IInv
<1> QED
  BY <1>1, Inductive, PTL

\* Fail closed: whatever fails, expires or arrives late, a request is allowed
\* only by an answer of OPA for its key that arrived at most Ttl ago.
THEOREM FailsClosed == Spec => AllowedByOPA
<1> DEFINE Justified ==
      \A r \in Requests :
        Allows(r) =>
          /\ circuit' /= "open"
          /\ \E i \in Inputs :
               /\ HashInput(i) = HashInput(calls'[r].input)
               /\ sinceAllow'[i] <= Ttl
<1>1. ASSUME IInv, NEW q \in Requests, NEW i \in Inputs, ServeCached(q, i)
      PROVE  Justified
  <2> DEFINE k == HashInput(i)
  <2>1. k \in Held /\ store[k].age <= Ttl
    BY <1>1 DEF ServeCached, Hit, Fresh
  <2>2. circuit' /= "open" /\ sinceAllow' = sinceAllow
    BY <1>1 DEF ServeCached, EnterProbing
  <2>3. calls' = [calls EXCEPT ![q] = [at |-> "answered", input |-> i,
                    verdict |-> IF store[k].allow THEN "allow" ELSE "deny"]]
    BY <1>1 DEF ServeCached, Answer
  <2> HIDE DEF k
  <2>4. ASSUME store[k].allow
        PROVE  \E j \in Inputs : HashInput(j) = k /\ sinceAllow[j] <= Ttl
    <3>1. PICK j \in Inputs : HashInput(j) = k /\ sinceAllow[j] <= store[k].age
      BY <1>1, <2>1, <2>4 DEF IInv, Recent
    <3>2. sinceAllow[j] \in 0 .. Ttl + 1 /\ store[k].age \in 0 .. Ttl + 1
      BY <1>1, <2>1, EntryType DEF IInv, TypeOK
    <3> QED
      BY <2>1, <3>1, <3>2, TimesAssumption
  <2> QED
    BY <1>1, <2>2, <2>3, <2>4 DEF IInv, TypeOK, Allows, k
<1>2. ASSUME IInv, NEW q \in Requests, OPAAnswers(q) PROVE Justified
  <2> DEFINE i == calls[q].input
  <2>1. i \in Inputs
    BY <1>2 DEF IInv, TypeOK, Calls
  <2>2. /\ circuit' = "closed"
        /\ calls' = [calls EXCEPT ![q] = [at |-> "answered", input |-> i,
                       verdict |-> IF calls[q].verdict = "allow" THEN "allow" ELSE "deny"]]
        /\ calls[q].verdict = "allow" => sinceAllow' = [sinceAllow EXCEPT ![i] = 0]
    BY <1>2 DEF OPAAnswers, RecordSuccess, Answer
  <2> HIDE DEF i
  <2>3. calls[q].verdict = "allow" => sinceAllow'[i] = 0
    BY <1>2, <2>1, <2>2 DEF IInv, TypeOK
  <2>4. 0 <= Ttl
    BY TimesAssumption
  <2> QED
    BY <1>2, <2>1, <2>2, <2>3, <2>4 DEF IInv, TypeOK, Allows
<1>3. ASSUME IInv, NEW q \in Requests,
             \/ \E i \in Inputs : Refuse(q, i) \/ AskOPA(q, i)
             \/ \E v \in {"allow", "deny"} : OPADecides(q, v)
             \/ OPAFails(q) \/ ResponseCut(q) \/ Return(q)
      PROVE  Justified
  BY <1>3 DEF Refuse, AskOPA, OPADecides, OPAFails, ResponseCut, Return, Answer,
              Allows, Idle, IInv, TypeOK, Calls
<1>4. ASSUME IInv, EvictExpired \/ Tick PROVE Justified
  BY <1>4 DEF EvictExpired, Tick, Allows
<1>5. IInv /\ [Next]_vars => [Justified]_vars
  BY <1>1, <1>2, <1>3, <1>4 DEF Next, Ask, Work
<1> QED
  BY <1>5, Inductive, PTL DEF Spec, AllowedByOPA
=============================================================================
