--------------------------- MODULE Services_proofs ---------------------------
(***************************************************************************)
(* What holds of the components around the workflow for every number of    *)
(* activities, calls, chunks, attempts, events and spans: the approval     *)
(* gate, the tool proxy, the quota of executions, the stream of a model,   *)
(* the remote activities, the pods, the traces, the audit chain, the       *)
(* counters of what is too much and the figures of an objective.  Each     *)
(* takes the steps of its own next-state relation only.                    *)
(***************************************************************************)
EXTENDS Platform, FiniteSetTheorems, SequenceTheorems, WellFoundedInduction, TLAPS

(***************************************************************************)
(* The approval gate.                                                      *)
(***************************************************************************)

\* The decision is the last signal's; without a signal there is none until the
\* timeout rejects.
Decided ==
  /\ signals /= <<>> => decision = Last(signals)
  /\ signals = <<>> /\ gate \in {"record", "persist"} => decision = "reject"

GateInv == GateTypeOK /\ Decided /\ LastWordCounts

LEMMA LastAppended ==
  ASSUME NEW s \in Seq(Verdicts), NEW v \in Verdicts
  PROVE  Append(s, v) \in Seq(Verdicts) /\ Append(s, v) /= <<>> /\ Last(Append(s, v)) = v
  BY DEF Last

LEMMA LastOfSignals ==
  ASSUME NEW s \in Seq(Verdicts), s /= <<>>
  PROVE  Last(s) \in Verdicts
  BY DEF Last

\* The handler of a signal writes what was signalled.
LEMMA SignalKeeps == ASSUME GateInv, NEW v \in Verdicts, Signal(v) PROVE GateInv'
<1> USE DEF Signal, GateInv
<1>1. GateTypeOK' /\ signals' /= <<>> /\ Last(signals') = v
  BY LastAppended DEF GateTypeOK
<1>2. Decided'
  BY <1>1 DEF Decided
<1>3. LastWordCounts'
  BY DEF LastWordCounts, GateEnds
<1> QED
  BY <1>1, <1>2, <1>3

\* The gate's own steps read the decision and write it only on the way into
\* "record", as it is or as the timeout's.
LEMMA ProgressKeeps == ASSUME GateInv, GateProgress PROVE GateInv'
<1> USE DEF GateInv, GateTypeOK, GateEnds, GateAwaits, Verdicts
<1>1. CASE RequestRecorded
  BY <1>1 DEF RequestRecorded, Decided, LastWordCounts
<1>2. CASE RequestKept
  BY <1>2 DEF RequestKept, Decided, LastWordCounts
<1>3. CASE Received
  <2>1. decision \in Verdicts
    BY <1>3, LastOfSignals DEF Received, Decided
  <2> QED
    BY <1>3, <2>1 DEF Received, Record, Decided, LastWordCounts
<1>4. CASE TimeoutRejects
  BY <1>4 DEF TimeoutRejects, Record, Decided, LastWordCounts
<1>5. CASE DecisionRecorded
  BY <1>5 DEF DecisionRecorded, Decided, LastWordCounts
<1>6. CASE RecordFails
  BY <1>6 DEF RecordFails, Decided, LastWordCounts
<1>7. CASE Return
  <2>1. signals /= <<>> => Last(signals) \in Verdicts
    BY LastOfSignals
  <2> QED
    BY <1>7, <2>1 DEF Return, Decided, LastWordCounts
<1> QED
  BY <1>1, <1>2, <1>3, <1>4, <1>5, <1>6, <1>7 DEF GateProgress

LEMMA GateMoves == [Next]_vars => [GateNext]_gateVars
  BY DEF Next, vars, ApiServerNext, ServiceNext, Rest

\* The gate's answer is the last word a human said, and without a word it is no.
THEOREM LastWordIsFinal == PlatformSpec => []LastWordCounts
<1>1. Init => GateInv
  BY DEF Init, GateInit, GateInv, GateTypeOK, GateAwaits, GateEnds, Decided, LastWordCounts, Verdicts
<1>2. GateInv /\ [Next]_vars => GateInv'
  <2> SUFFICES ASSUME GateInv, [GateNext]_gateVars PROVE GateInv'
    BY GateMoves
  <2>1. CASE UNCHANGED gateVars
    BY <2>1 DEF gateVars, GateInv, GateTypeOK, Decided, LastWordCounts
  <2> QED
    BY <2>1, SignalKeeps, ProgressKeeps DEF GateNext
<1>3. GateInv => LastWordCounts
  BY DEF GateInv
<1> QED
  BY <1>1, <1>2, <1>3, PTL DEF PlatformSpec

(***************************************************************************)
(* The tool proxy.                                                         *)
(***************************************************************************)

\* A handler fetches only for a request that passed, and sleeps only with an
\* attempt left.
Counted ==
  /\ fetches \in [Calls -> Nat] /\ DOMAIN call = Calls
  /\ \A c \in Calls :
       /\ fetches[c] <= MaxRetries + 1
       /\ fetches[c] > 0 => ~ Refused(request[c])
       /\ call[c] = "new" => fetches[c] = 0
       /\ call[c] = "sleeping" => 0 < fetches[c] /\ fetches[c] <= MaxRetries
       /\ call[c] = "fetching" => 0 < fetches[c]

\* What ToolInit lets be asked for, and nothing changes.
Shaped == \A c \in Calls :
  /\ request[c].within \in BOOLEAN /\ request[c].pii \in BOOLEAN /\ request[c].args \in BOOLEAN
  /\ request[c].tool \in {"unknown", "search", "web", "sandbox"}
  /\ request[c].url \in {"none", "private", "unlisted", "allowed"}
  /\ request[c].ip \in {"none", "private", "public"}

LEMMA AskedShaped == ASSUME ToolInit PROVE Shaped
<1>1. Plain \in Shapes
  BY DEF Plain, Shapes
<1>2. /\ [Plain EXCEPT !.within = FALSE] \in Shapes
      /\ [Plain EXCEPT !.tool = "unknown"] \in Shapes
      /\ [Plain EXCEPT !.pii = TRUE] \in Shapes
  BY DEF Plain, Shapes
<1>3. Asked \subseteq Shapes
  BY <1>1, <1>2 DEF Asked, Shapes
<1>4. \A c \in Calls : request[c] \in Shapes
  BY <1>3 DEF ToolInit
<1> QED
  BY <1>4 DEF Shaped, Shapes

LEMMA CallKeeps ==
  ASSUME Counted, NEW c \in Calls, CallStep(c)
  PROVE  Counted' /\ UNCHANGED request
<1> USE RetryAssumption DEF Counted
<1>1. CASE Refuse(c)
  BY <1>1 DEF Refuse, Answer
<1>2. CASE Begin(c)
  BY <1>2 DEF Begin, Fetch
<1>3. CASE Retry(c)
  BY <1>3 DEF Retry
<1>4. CASE Again(c)
  BY <1>4 DEF Again, Fetch
<1>5. CASE Respond(c)
  BY <1>5 DEF Respond, Answer
<1>6. CASE GiveUp(c)
  BY <1>6 DEF GiveUp, Answer
<1>7. CASE Expire(c)
  BY <1>7 DEF Expire
<1>8. CASE Deadline(c)
  BY <1>8 DEF Deadline
<1> QED
  BY <1>1, <1>2, <1>3, <1>4, <1>5, <1>6, <1>7, <1>8 DEF CallStep

LEMMA ToolsMove == [Next]_vars => [ToolNext]_toolVars
  BY DEF Next, vars, ApiServerNext, ServiceNext, Rest

\* Whatever is retried, expires or is cut off by the shutdown, what a tool was
\* sent had passed every check, and it was sent at most MaxRetries + 1 times.
THEOREM ToolsOnlyGetWhatPassed == PlatformSpec => []SentAsChecked
<1>1. Init => Counted /\ Shaped
  <2> SUFFICES ASSUME ToolInit PROVE Counted /\ Shaped
    BY DEF Init
  <2>1. Counted
    BY RetryAssumption DEF ToolInit, Counted
  <2> QED
    BY <2>1, AskedShaped
<1>2. Counted /\ Shaped /\ [Next]_vars => (Counted /\ Shaped)'
  <2> SUFFICES ASSUME Counted, Shaped, [ToolNext]_toolVars PROVE Counted' /\ Shaped'
    BY ToolsMove
  <2>1. CASE UNCHANGED toolVars
    BY <2>1 DEF toolVars, Counted, Shaped
  <2>2. CASE Drain
    BY <2>2 DEF Drain, Counted, Shaped
  <2>3. CASE Stop
    BY <2>3 DEF Stop, Counted, Shaped
  <2>4. ASSUME NEW c \in Calls, CallStep(c) PROVE Counted' /\ Shaped'
    BY <2>4, CallKeeps DEF Shaped
  <2> QED
    BY <2>1, <2>2, <2>3, <2>4 DEF ToolNext
<1>3. Counted /\ Shaped => SentAsChecked
  BY DEF Counted, Shaped, SentAsChecked, Refused, Errs, Misplaced, Stranded, Invalid
<1> QED
  BY <1>1, <1>2, <1>3, PTL DEF PlatformSpec

(***************************************************************************)
(* The quota of concurrent executions.                                     *)
(***************************************************************************)

\* The requests to a model that are under way.
LlmCalling == {a \in Work!Calling : a[1] \in LlmSteps}

LEMMA ActivityMoves == [Next]_vars => [Work!ActivityNext]_Work!activityVars
  BY DEF Next, vars, ApiServerNext, ServiceNext, Rest, activityVars, Work!activityVars

Attempted(f) ==
  f \in [Work!Steps -> Seq(Work!Places)] /\ \A s \in Work!Steps : Len(f[s]) <= MaxAttempts

\* The calls to a model that are under way when the attempts are f.
CallingIn(f) ==
  {a \in Work!Steps \X (1 .. MaxAttempts) :
     a[1] \in LlmSteps /\ a[2] \in DOMAIN f[a[1]] /\ f[a[1]][a[2]] = "calling"}

LEMMA CallingNow == LlmCalling = CallingIn(attempts) /\ LlmCalling' = CallingIn(attempts')
  BY DEF LlmCalling, CallingIn, Work!Calling, Work!Attempts

LEMMA UnderWay ==
  ASSUME NEW f, Attempted(f)
  PROVE  /\ \A a \in CallingIn(f) : a = <<a[1], a[2]>>
         /\ \A s, k : <<s, k>> \in CallingIn(f) <=>
              s \in LlmSteps /\ k \in 1 .. Len(f[s]) /\ f[s][k] = "calling"
<1>1. LlmSteps \subseteq Work!Steps
  BY DEF Work!Steps
<1>2. ASSUME NEW s \in LlmSteps
      PROVE  DOMAIN f[s] = 1 .. Len(f[s]) /\ 1 .. Len(f[s]) \subseteq 1 .. MaxAttempts
  <2>1. f[s] \in Seq(Work!Places) /\ Len(f[s]) <= MaxAttempts
    BY <1>1 DEF Attempted
  <2> QED
    BY <2>1, ActivityAssumption
<1>3. ASSUME NEW s, NEW k, <<s, k>> \in CallingIn(f)
      PROVE  s \in LlmSteps /\ k \in 1 .. Len(f[s]) /\ f[s][k] = "calling"
  <2>1. s \in LlmSteps /\ k \in DOMAIN f[s] /\ f[s][k] = "calling"
    BY <1>3 DEF CallingIn
  <2> QED
    BY <1>2, <2>1
<1>4. ASSUME NEW s \in LlmSteps, NEW k \in 1 .. Len(f[s]), f[s][k] = "calling"
      PROVE  <<s, k>> \in CallingIn(f)
  BY <1>1, <1>2, <1>4 DEF CallingIn
<1>5. \A a \in CallingIn(f) : a = <<a[1], a[2]>>
  BY DEF CallingIn
<1> QED
  BY <1>3, <1>4, <1>5

\* Two sets of pairs with the same pairs.
LEMMA SamePairs ==
  ASSUME NEW S, NEW T, \A a \in S : a = <<a[1], a[2]>>, \A a \in T : a = <<a[1], a[2]>>,
         \A t, j : <<t, j>> \in S <=> <<t, j>> \in T
  PROVE  S = T
<1>1. ASSUME NEW a \in S PROVE a \in T
  <2>1. <<a[1], a[2]>> \in T
    OBVIOUS
  <2> QED
    BY <2>1
<1>2. ASSUME NEW a \in T PROVE a \in S
  <2>1. <<a[1], a[2]>> \in S
    OBVIOUS
  <2> QED
    BY <2>1
<1> QED
  BY <1>1, <1>2

\* An attempt goes on to another place, or ends.
Puts(s, k, place) == attempts' = [attempts EXCEPT ![s][k] = place]

\* The others stay where they are.
LEMMA AttemptWritten ==
  ASSUME Attempted(attempts), NEW s \in Work!Steps, NEW k \in DOMAIN attempts[s],
         NEW place \in Work!Places, Puts(s, k, place)
  PROVE  /\ Attempted(attempts') /\ Len(attempts'[s]) = Len(attempts[s])
         /\ k \in 1 .. Len(attempts[s]) /\ attempts'[s][k] = place
         /\ \A j \in 1 .. Len(attempts[s]) : j /= k => attempts'[s][j] = attempts[s][j]
         /\ \A t \in Work!Steps : t /= s => attempts'[t] = attempts[t]
<1> DEFINE moved == [attempts[s] EXCEPT ![k] = place]
<1>1. attempts' = [attempts EXCEPT ![s] = moved]
  BY DEF Puts
<1>2. attempts[s] \in Seq(Work!Places) /\ Len(attempts[s]) <= MaxAttempts /\ k \in 1 .. Len(attempts[s])
  <2>1. attempts[s] \in Seq(Work!Places) /\ Len(attempts[s]) <= MaxAttempts
    BY DEF Attempted
  <2> QED
    BY <2>1
<1>3. moved \in Seq(Work!Places) /\ Len(moved) = Len(attempts[s]) /\ moved[k] = place
      /\ \A j \in 1 .. Len(attempts[s]) : j /= k => moved[j] = attempts[s][j]
  BY <1>2
<1> HIDE DEF moved
<1>4. /\ Attempted(attempts') /\ attempts'[s] = moved
      /\ \A t \in Work!Steps : t /= s => attempts'[t] = attempts[t]
  BY <1>1, <1>2, <1>3 DEF Attempted
<1> QED
  BY <1>2, <1>3, <1>4

\* An attempt that goes to the call, or leaves it, is the one that is counted.
LEMMA AttemptCounted ==
  ASSUME NEW f, NEW g, Attempted(f), Attempted(g), NEW s \in Work!Steps, NEW k \in 1 .. Len(f[s]),
         Len(g[s]) = Len(f[s]), \A j \in 1 .. Len(f[s]) : j /= k => g[s][j] = f[s][j],
         \A t \in Work!Steps : t /= s => g[t] = f[t]
  PROVE  CallingIn(g) = IF s \in LlmSteps /\ g[s][k] = "calling"
                        THEN CallingIn(f) \cup {<<s, k>>} ELSE CallingIn(f) \ {<<s, k>>}
<1> DEFINE place == g[s][k]
<1>5. LlmSteps \subseteq Work!Steps
  BY DEF Work!Steps
<1>6. /\ \A t, j : <<t, j>> \in CallingIn(f) <=>
             t \in LlmSteps /\ j \in 1 .. Len(f[t]) /\ f[t][j] = "calling"
      /\ \A t, j : <<t, j>> \in CallingIn(g) <=>
             t \in LlmSteps /\ j \in 1 .. Len(g[t]) /\ g[t][j] = "calling"
      /\ \A a \in CallingIn(f) : a = <<a[1], a[2]>>
      /\ \A a \in CallingIn(g) : a = <<a[1], a[2]>>
  <2>2. /\ \A t, j : <<t, j>> \in CallingIn(f) <=>
               t \in LlmSteps /\ j \in 1 .. Len(f[t]) /\ f[t][j] = "calling"
        /\ \A a \in CallingIn(f) : a = <<a[1], a[2]>>
    BY UnderWay
  <2>3. /\ \A t, j : <<t, j>> \in CallingIn(g) <=>
               t \in LlmSteps /\ j \in 1 .. Len(g[t]) /\ g[t][j] = "calling"
        /\ \A a \in CallingIn(g) : a = <<a[1], a[2]>>
    BY UnderWay
  <2> QED
    BY <2>2, <2>3
<1>7. ASSUME NEW t, NEW j
      PROVE  <<t, j>> \in CallingIn(g) <=>
               IF t = s /\ j = k THEN s \in LlmSteps /\ place = "calling"
               ELSE <<t, j>> \in CallingIn(f)
  <2>0. /\ <<t, j>> \in CallingIn(f) <=>
             t \in LlmSteps /\ j \in 1 .. Len(f[t]) /\ f[t][j] = "calling"
        /\ <<t, j>> \in CallingIn(g) <=>
             t \in LlmSteps /\ j \in 1 .. Len(g[t]) /\ g[t][j] = "calling"
    BY <1>6
  <2>1. CASE t \notin LlmSteps
    BY <2>0, <2>1
  <2>2. CASE t \in LlmSteps /\ t /= s
    <3>1. g[t] = f[t]
      BY <1>5, <2>2
    <3> QED
      BY <2>0, <2>2, <3>1
  <2>3. CASE t \in LlmSteps /\ t = s
    <3>2. CASE j = k
      BY <2>0, <2>3, <3>2
    <3>3. CASE j /= k
      BY <2>0, <2>3, <3>3
    <3> QED
      BY <3>2, <3>3
  <2> QED
    BY <2>1, <2>2, <2>3
<1>a. <<s, k>>[1] = s /\ <<s, k>>[2] = k
  OBVIOUS
<1> DEFINE T == IF s \in LlmSteps /\ place = "calling"
                THEN CallingIn(f) \cup {<<s, k>>} ELSE CallingIn(f) \ {<<s, k>>}
<1>8. \A a \in T : a = <<a[1], a[2]>>
  BY <1>6, <1>a
<1>9. \A t, j : <<t, j>> \in CallingIn(g) <=> <<t, j>> \in T
  BY <1>7
<1> HIDE DEF T
<1>10. CallingIn(g) = T
  BY <1>6, <1>8, <1>9, SamePairs
<1> QED
  BY <1>10 DEF T

LEMMA AttemptMoves ==
  ASSUME Attempted(attempts), NEW s \in Work!Steps, NEW k \in DOMAIN attempts[s],
         NEW place \in Work!Places, Puts(s, k, place)
  PROVE  /\ Attempted(attempts)'
         /\ LlmCalling' = IF s \in LlmSteps /\ place = "calling"
                          THEN LlmCalling \cup {<<s, k>>} ELSE LlmCalling \ {<<s, k>>}
<1> DEFINE g == attempts'
<1>1. /\ Attempted(g) /\ Len(g[s]) = Len(attempts[s]) /\ k \in 1 .. Len(attempts[s])
      /\ g[s][k] = place
      /\ \A j \in 1 .. Len(attempts[s]) : j /= k => g[s][j] = attempts[s][j]
      /\ \A t \in Work!Steps : t /= s => g[t] = attempts[t]
  BY AttemptWritten
<1> HIDE DEF g
<1>2. CallingIn(g) = IF s \in LlmSteps /\ g[s][k] = "calling"
                     THEN CallingIn(attempts) \cup {<<s, k>>}
                     ELSE CallingIn(attempts) \ {<<s, k>>}
  BY <1>1, AttemptCounted
<1> QED
  BY <1>1, <1>2, CallingNow DEF g, Attempted

ActivityInv ==
  /\ Attempted(attempts)
  /\ executing \in Nat /\ executing <= Concurrent
  /\ IsFiniteSet(LlmCalling) /\ executing = Cardinality(LlmCalling)

\* What takes a place in the quota is what sends a request, and what frees one is
\* what ends it.
LEMMA AttemptStepKeeps ==
  ASSUME ActivityInv, NEW s \in Work!Steps, NEW k \in Work!Attempts(s), Work!AttemptStep(s, k)
  PROVE  ActivityInv'
<1>1. /\ Attempted(attempts) /\ k \in DOMAIN attempts[s] /\ executing \in Nat
      /\ Concurrent \in Nat /\ executing <= Concurrent
      /\ IsFiniteSet(LlmCalling) /\ executing = Cardinality(LlmCalling)
  BY ActivityAssumption DEF ActivityInv, Work!Attempts
<1>2. <<s, k>> \in LlmCalling <=> s \in LlmSteps /\ attempts[s][k] = "calling"
  <2>1. k \in 1 .. Len(attempts[s])
    BY <1>1 DEF Attempted
  <2> QED
    BY <1>1, <2>1, UnderWay, CallingNow
<1>3. CASE Work!Acquire(s, k)
  <2>1. Puts(s, k, "calling") /\ attempts[s][k] /= "calling" /\ "calling" \in Work!Places
    BY <1>3 DEF Work!Acquire, Work!Places, Puts
  <2>2. /\ Attempted(attempts)'
        /\ LlmCalling' = IF s \in LlmSteps THEN LlmCalling \cup {<<s, k>>}
                         ELSE LlmCalling \ {<<s, k>>}
    BY <1>1, <2>1, AttemptMoves
  <2>3. CASE s \in LlmSteps
    <3>1. executing' = executing + 1 /\ executing < Concurrent
      BY <1>3, <2>3, ActivityAssumption DEF Work!Acquire
    <3>2. IsFiniteSet(LlmCalling') /\ Cardinality(LlmCalling') = executing + 1
      BY <1>1, <1>2, <2>1, <2>2, <2>3, FS_AddElement
    <3> QED
      BY <1>1, <2>2, <3>1, <3>2 DEF ActivityInv
  <2>4. CASE s \notin LlmSteps
    <3>1. executing' = executing
      BY <1>3, <2>4 DEF Work!Acquire
    <3>2. LlmCalling' = LlmCalling
      BY <1>2, <2>2, <2>4
    <3> QED
      BY <1>1, <2>2, <3>1, <3>2 DEF ActivityInv
  <2> QED
    BY <2>3, <2>4
<1>4. ASSUME attempts' = [attempts EXCEPT ![s][k] = "ended"],
             executing' = IF s \in LlmSteps /\ attempts[s][k] = "calling"
                          THEN executing - 1 ELSE executing
      PROVE  ActivityInv'
  <2>1. /\ Attempted(attempts)' /\ LlmCalling' = LlmCalling \ {<<s, k>>}
    <3>1. Puts(s, k, "ended") /\ "ended" \in Work!Places
      BY <1>4 DEF Work!Places, Puts
    <3> QED
      BY <1>1, <3>1, AttemptMoves
  <2>2. IsFiniteSet(LlmCalling') /\ Cardinality(LlmCalling') = executing'
    BY <1>1, <1>2, <1>4, <2>1, FS_RemoveElement
  <2>3. Cardinality(LlmCalling') \in Nat
    BY <2>2, FS_CardinalityType
  <2> QED
    BY <1>1, <1>4, <2>1, <2>2, <2>3 DEF ActivityInv
<1>5. CASE Work!WaitExhausted(s, k)
  BY <1>4, <1>5 DEF Work!WaitExhausted, Work!Ends
<1>6. CASE Work!Answered(s, k)
  BY <1>4, <1>6 DEF Work!Answered, Work!Ends, Work!Released
<1>7. CASE Work!CallFails(s, k)
  BY <1>4, <1>7 DEF Work!CallFails, Work!Ends, Work!Released
<1> QED
  BY <1>3, <1>5, <1>6, <1>7 DEF Work!AttemptStep

\* Nor does any other step of Temporal or of the worker send or end a request,
\* but for the crash that ends them all.
LEMMA ActivityStepKeeps ==
  ASSUME ActivityInv, Work!ActivityNext
  PROVE  ActivityInv'
<1>1. /\ Attempted(attempts) /\ executing \in Nat /\ executing <= Concurrent
      /\ IsFiniteSet(LlmCalling) /\ executing = Cardinality(LlmCalling)
  BY DEF ActivityInv
<1>2. LlmSteps \subseteq Work!Steps
  BY DEF Work!Steps
<1>3. ASSUME NEW s \in Work!Steps, NEW new \in Seq(Work!Places), Len(new) <= MaxAttempts,
             attempts' = [attempts EXCEPT ![s] = new], UNCHANGED executing,
             \A k : k \in 1 .. Len(new) /\ new[k] = "calling" <=>
                    k \in 1 .. Len(attempts[s]) /\ attempts[s][k] = "calling"
      PROVE  ActivityInv'
  <2>1. /\ Attempted(attempts)' /\ attempts'[s] = new
        /\ \A t \in Work!Steps : t /= s => attempts'[t] = attempts[t]
    BY <1>1, <1>3 DEF Attempted
  <2>2. Attempted(attempts')
    BY <2>1 DEF Attempted
  <2>3. /\ \A t, k : <<t, k>> \in CallingIn(attempts) <=>
             t \in LlmSteps /\ k \in 1 .. Len(attempts[t]) /\ attempts[t][k] = "calling"
        /\ \A t, k : <<t, k>> \in CallingIn(attempts') <=>
             t \in LlmSteps /\ k \in 1 .. Len(attempts'[t]) /\ attempts'[t][k] = "calling"
        /\ \A a \in CallingIn(attempts) : a = <<a[1], a[2]>>
        /\ \A a \in CallingIn(attempts') : a = <<a[1], a[2]>>
    BY <1>1, <2>2, UnderWay
  <2>4. ASSUME NEW t, NEW k
        PROVE  <<t, k>> \in CallingIn(attempts') <=> <<t, k>> \in CallingIn(attempts)
    <3>1. CASE t = s
      <4>1. k \in 1 .. Len(attempts'[t]) /\ attempts'[t][k] = "calling" <=>
            k \in 1 .. Len(attempts[t]) /\ attempts[t][k] = "calling"
        BY <1>3, <2>1, <3>1
      <4> QED
        BY <2>3, <4>1
    <3>2. CASE t /= s
      BY <1>2, <2>1, <2>3, <3>2
    <3> QED
      BY <3>1, <3>2
  <2>5. CallingIn(attempts') = CallingIn(attempts)
    BY <2>3, <2>4, SamePairs
  <2> QED
    BY <1>1, <1>3, <2>1, <2>5, CallingNow DEF ActivityInv
<1>4. ASSUME NEW s \in Work!Steps, Work!Schedule(s)
      PROVE  ActivityInv'
  <2> DEFINE new == Append(attempts[s], "polling")
  <2>1. attempts' = [attempts EXCEPT ![s] = new] /\ executing' = executing
        /\ Len(attempts[s]) < MaxAttempts /\ attempts[s] \in Seq(Work!Places)
    BY <1>1, <1>4 DEF Work!Schedule, Work!LastOf, Attempted
  <2>2. "polling" \in Work!Places
    BY DEF Work!Places
  <2>3. new \in Seq(Work!Places) /\ Len(new) = Len(attempts[s]) + 1
        /\ Len(attempts[s]) \in Nat /\ new[Len(attempts[s]) + 1] = "polling"
        /\ \A k \in 1 .. Len(attempts[s]) : new[k] = attempts[s][k]
    BY <2>1, <2>2
  <2> HIDE DEF new
  <2>4. Len(new) <= MaxAttempts
    BY <2>1, <2>3, ActivityAssumption
  <2>5. \A k : k \in 1 .. Len(new) /\ new[k] = "calling" <=>
               k \in 1 .. Len(attempts[s]) /\ attempts[s][k] = "calling"
    BY <2>3
  <2> QED
    BY <1>3, <2>1, <2>3, <2>4, <2>5
<1>5. ASSUME NEW s \in Work!Steps, Work!MissingArguments(s)
      PROVE  ActivityInv'
  <2>1. attempts' = [attempts EXCEPT ![s] = <<"ended">>] /\ executing' = executing
        /\ s \notin LlmSteps
    BY <1>5, ActivityAssumption DEF Work!MissingArguments
  <2>2. ActivityInv'
    <3>0. "ended" \in Work!Places
      BY DEF Work!Places
    <3>1. <<"ended">> \in Seq(Work!Places) /\ Len(<<"ended">>) = 1 /\ <<"ended">>[1] = "ended"
      BY <3>0
    <3>2. attempts[s] = <<>>
      BY <1>5 DEF Work!MissingArguments
    <3>3. Len(<<"ended">>) <= MaxAttempts
      BY ActivityAssumption
    <3> DEFINE new == <<"ended">>
    <3>4. \A k : k \in 1 .. Len(new) /\ new[k] = "calling" <=>
                 k \in 1 .. Len(attempts[s]) /\ attempts[s][k] = "calling"
      BY <3>1, <3>2
    <3>5. new \in Seq(Work!Places) /\ Len(new) <= MaxAttempts
      BY <3>1, <3>3
    <3> HIDE DEF new
    <3> QED
      BY <1>3, <2>1, <3>4, <3>5 DEF new
  <2> QED
    BY <2>2
<1>6. ASSUME NEW s \in Work!Steps, Work!StartToClose(s)
      PROVE  ActivityInv'
  <2>1. UNCHANGED <<attempts, executing>>
    BY <1>6 DEF Work!StartToClose, Work!GivesUp
  <2> QED
    BY <1>1, <2>1, CallingNow DEF ActivityInv
<1>7. CASE Work!MinuteOver
  <2>1. UNCHANGED <<attempts, executing>>
    BY <1>7 DEF Work!MinuteOver
  <2> QED
    BY <1>1, <2>1, CallingNow DEF ActivityInv
<1>8. CASE Work!WorkerCrash
  <2> DEFINE after(s, k) == IF attempts[s][k] \in {"polling", "calling"} THEN "lost"
                            ELSE attempts[s][k]
  <2>1. /\ attempts' = [s \in Work!Steps |-> [k \in DOMAIN attempts[s] |-> after(s, k)]]
        /\ executing' = 0
    BY <1>8 DEF Work!WorkerCrash, Work!Attempts
  <2>2. ASSUME NEW s \in Work!Steps
        PROVE  /\ attempts'[s] \in Seq(Work!Places)
               /\ Len(attempts'[s]) <= MaxAttempts
               /\ \A k \in 1 .. Len(attempts'[s]) : attempts'[s][k] /= "calling"
    <3>1. /\ attempts[s] \in Seq(Work!Places) /\ Len(attempts[s]) <= MaxAttempts
          /\ Len(attempts[s]) \in Nat /\ DOMAIN attempts[s] = 1 .. Len(attempts[s])
      BY <1>1 DEF Attempted
    <3>2. \A k \in 1 .. Len(attempts[s]) :
            after(s, k) \in Work!Places /\ after(s, k) /= "calling"
      BY <3>1 DEF Work!Places
    <3> HIDE DEF after
    <3>3. attempts'[s] = [k \in 1 .. Len(attempts[s]) |-> after(s, k)]
      BY <2>1, <3>1
    <3>4. attempts'[s] \in [1 .. Len(attempts[s]) -> Work!Places]
      BY <3>2, <3>3
    <3>5. attempts'[s] \in Seq(Work!Places) /\ Len(attempts'[s]) = Len(attempts[s])
      BY <3>1, <3>4
    <3> QED
      BY <3>1, <3>2, <3>3, <3>5
  <2>3. Attempted(attempts')
    BY <2>1, <2>2 DEF Attempted
  <2>4. CallingIn(attempts') = {}
    BY <1>2, <2>2, <2>3, UnderWay
  <2> QED
    BY <2>1, <2>3, <2>4, CallingNow, FS_EmptySet, ActivityAssumption DEF ActivityInv, Attempted
<1> QED
  BY <1>4, <1>5, <1>6, <1>7, <1>8, AttemptStepKeeps DEF Work!ActivityNext

\* For any number of activities and attempts and any limit: the quota of
\* concurrent executions is the number of requests to a model that are under way,
\* through failures, retries, timeouts and crashes.
THEOREM QuotaStaysExact == PlatformSpec => []QuotaExact
<1>1. Init => ActivityInv
  <2> SUFFICES ASSUME Work!ActivityInit
               PROVE  ActivityInv
    BY DEF Init
  <2>1. Attempted(attempts) /\ \A s \in Work!Steps : attempts[s] = <<>>
    BY ActivityAssumption DEF Work!ActivityInit, Attempted
  <2>2. CallingIn(attempts) = {}
    <3>1. LlmSteps \subseteq Work!Steps
      BY DEF Work!Steps
    <3> QED
      BY <2>1, <3>1, UnderWay
  <2> QED
    BY <2>1, <2>2, CallingNow, FS_EmptySet, ActivityAssumption DEF ActivityInv, Work!ActivityInit
<1>2. ActivityInv /\ [Next]_vars => ActivityInv'
  <2> SUFFICES ASSUME ActivityInv, [Work!ActivityNext]_Work!activityVars
               PROVE  ActivityInv'
    BY ActivityMoves
  <2>1. CASE UNCHANGED Work!activityVars
    BY <2>1, CallingNow DEF Work!activityVars, ActivityInv, Attempted
  <2> QED
    BY <2>1, ActivityStepKeeps
<1>3. ActivityInv => QuotaExact
  <2>1. QuotaExact <=> executing = Cardinality(LlmCalling) /\ Cardinality(LlmCalling) <= Concurrent
    BY DEF QuotaExact, Work!QuotaExact, LlmCalling, Work!Cardinality, Cardinality
  <2> QED
    BY <2>1 DEF ActivityInv
<1> QED
  BY <1>1, <1>2, <1>3, PTL DEF PlatformSpec

(***************************************************************************)
(* The generator over the stream of a model.                               *)
(***************************************************************************)

\* What was sent is with the caller or in the queue; a generator that ended has
\* cancelled the call, so nothing is sent any more.
ChunkInv ==
  /\ sent \in Seq(BOOLEAN) /\ queue \in Seq(BOOLEAN) /\ consumed \in Seq(BOOLEAN)
  /\ Chunk!NothingSkipped
  /\ generator \in Chunk!GeneratorEnds => cancelled
  /\ generator = "yielded" => consumed /= <<>>

LEMMA ChunkMoves == [Next]_vars => [Chunk!ChunkNext]_Chunk!chunkVars
  BY DEF Next, vars, ApiServerNext, ServiceNext, Rest, chunkVars, Chunk!chunkVars

\* A chunk that goes from the front of one sequence to the end of another.
LEMMA HeadMoves ==
  ASSUME NEW s \in Seq(BOOLEAN), NEW t \in Seq(BOOLEAN), t /= <<>>
  PROVE  /\ Append(s, Head(t)) \in Seq(BOOLEAN) /\ Tail(t) \in Seq(BOOLEAN)
         /\ Append(s, Head(t)) \o Tail(t) = s \o t
<1>1. Head(t) \in BOOLEAN /\ Tail(t) \in Seq(BOOLEAN)
  BY HeadTailProperties
<1>2. Append(s, Head(t)) = s \o <<Head(t)>> /\ Append(s, Head(t)) \in Seq(BOOLEAN)
  BY <1>1, AppendIsConcat, AppendProperties
<1>3. <<Head(t)>> \o Tail(t) = t
  BY <1>1
<1>4. <<Head(t)>> \in Seq(BOOLEAN)
  BY <1>1
<1>5. (s \o <<Head(t)>>) \o Tail(t) = s \o (<<Head(t)>> \o Tail(t))
  BY <1>1, <1>4, ConcatAssociative
<1> QED
  BY <1>1, <1>2, <1>3, <1>5

\* A chunk that joins the end of the second.
LEMMA LastJoins ==
  ASSUME NEW s \in Seq(BOOLEAN), NEW t \in Seq(BOOLEAN), NEW b \in BOOLEAN
  PROVE  s \o Append(t, b) = Append(s \o t, b)
<1>1. s \o t \in Seq(BOOLEAN) /\ <<b>> \in Seq(BOOLEAN)
  BY ConcatProperties
<1>2. Append(t, b) = t \o <<b>> /\ Append(s \o t, b) = (s \o t) \o <<b>>
  BY <1>1, AppendIsConcat
<1> QED
  BY <1>1, <1>2, ConcatAssociative

LEMMA ChunkStepKeeps ==
  ASSUME ChunkInv, Chunk!ChunkNext
  PROVE  ChunkInv'
<1> USE DEF Chunk!NothingSkipped, Chunk!GeneratorEnds
<1>1. /\ sent \in Seq(BOOLEAN) /\ queue \in Seq(BOOLEAN) /\ consumed \in Seq(BOOLEAN)
      /\ consumed \o queue = sent /\ consumed \o <<>> = consumed
  BY ConcatEmptySeq DEF ChunkInv
<1>2. ASSUME NEW done \in BOOLEAN, Chunk!Data(done)
      PROVE  ChunkInv'
  <2>1. sent' = Append(sent, done) /\ queue' = Append(queue, done)
        /\ UNCHANGED <<consumed, cancelled>> /\ ~ cancelled
        /\ generator' = IF generator = "parked" THEN "running" ELSE generator
    BY <1>2 DEF Chunk!Data, Chunk!Wake
  <2>2. sent' \in Seq(BOOLEAN) /\ queue' \in Seq(BOOLEAN)
    BY <1>1, <2>1, AppendProperties
  <2>3. consumed' \o queue' = sent'
    BY <1>1, <2>1, LastJoins
  <2> QED
    BY <1>1, <2>1, <2>2, <2>3 DEF ChunkInv
<1>3. CASE Chunk!End \/ Chunk!Error
  BY <1>3 DEF Chunk!End, Chunk!Error, Chunk!Wake, ChunkInv
<1>4. CASE Chunk!Yield
  <2>1. queue' = Tail(queue) /\ consumed' = Append(consumed, Head(queue)) /\ queue /= <<>>
        /\ generator' = "yielded" /\ UNCHANGED <<sent, cancelled>>
    BY <1>4 DEF Chunk!Yield
  <2>2. /\ consumed' \in Seq(BOOLEAN) /\ queue' \in Seq(BOOLEAN)
        /\ consumed' \o queue' = consumed \o queue
    BY <1>1, <2>1, HeadMoves
  <2>3. consumed' /= <<>>
    BY <1>1, <2>1
  <2> QED
    BY <1>1, <2>1, <2>2, <2>3 DEF ChunkInv
<1>5. CASE Chunk!Resume
  BY <1>5 DEF Chunk!Resume, Chunk!Finally, ChunkInv
<1>6. CASE Chunk!Throws
  BY <1>1, <1>6 DEF Chunk!Throws, Chunk!Finally, ChunkInv
<1>7. CASE Chunk!Returns
  BY <1>1, <1>7 DEF Chunk!Returns, Chunk!Finally, ChunkInv
<1>8. CASE Chunk!Park
  BY <1>8 DEF Chunk!Park, ChunkInv
<1>9. CASE Chunk!Leave
  BY <1>9 DEF Chunk!Leave, Chunk!Finally, ChunkInv
<1> QED
  BY <1>2, <1>3, <1>4, <1>5, <1>6, <1>7, <1>8, <1>9 DEF Chunk!ChunkNext, Chunk!GeneratorStep

\* For a stream of any length: the caller gets the chunks in the order they were
\* sent, and an error or the end only after all of them.
THEOREM StreamsSkipNothing == PlatformSpec => []NothingSkipped
<1>1. Init => ChunkInv
  <2> SUFFICES ASSUME Chunk!ChunkInit
               PROVE  ChunkInv
    BY DEF Init
  <2>1. <<>> \in Seq(BOOLEAN) /\ <<>> \o <<>> = <<>>
    BY ConcatEmptySeq
  <2> QED
    BY <2>1 DEF Chunk!ChunkInit, ChunkInv, Chunk!NothingSkipped, Chunk!GeneratorEnds
<1>2. ChunkInv /\ [Next]_vars => ChunkInv'
  <2> SUFFICES ASSUME ChunkInv, [Chunk!ChunkNext]_Chunk!chunkVars
               PROVE  ChunkInv'
    BY ChunkMoves
  <2>1. CASE UNCHANGED Chunk!chunkVars
    BY <2>1 DEF Chunk!chunkVars, ChunkInv, Chunk!NothingSkipped
  <2> QED
    BY <2>1, ChunkStepKeeps
<1>3. ChunkInv => NothingSkipped
  BY DEF ChunkInv, NothingSkipped
<1> QED
  BY <1>1, <1>2, <1>3, PTL DEF PlatformSpec

(***************************************************************************)
(* The remote activities and the pods.                                     *)
(***************************************************************************)

RemotePlaces == {"idle", "asking", "created", "exists", "decided", "stored"}
RemoteWords  == {"none", "admitted", "allow", "deny", "reported", "error"}

RemoteTyped ==
  /\ attempt \in [Remote!Kinds -> Nat] /\ lost \in [Remote!Kinds -> Nat]
  /\ at \in [Remote!Kinds -> RemotePlaces] /\ heard \in [Remote!Kinds -> RemoteWords]
  /\ refused \in Nat /\ agent \in BOOLEAN /\ existed \in BOOLEAN /\ allowed \in BOOLEAN
  /\ letter \in [stored : BOOLEAN, count : Nat] /\ replays \in Nat

\* An activity that has told its workflow something asks nobody any more.
ToldIsIdle == \A k \in Remote!Kinds : heard[k] /= "none" => at[k] = "idle"

\* The answer "created" or "exists" is about an agent that was there, and every
\* attempt of admitAgent that is over without one was lost or refused.
AdmitCounts ==
  /\ at["admit"] \in {"idle", "asking", "created", "exists"}
  /\ at["admit"] \in {"created", "exists"} => existed
  /\ agent => existed
  /\ heard["admit"] /= "admitted" =>
       attempt["admit"] = lost["admit"] + refused + (IF at["admit"] = "idle" THEN 0 ELSE 1)
  /\ heard["admit"] \in {"none", "admitted", "error"}

RemoteInv ==
  RemoteTyped /\ ToldIsIdle /\ AdmitCounts /\ Remote!HeardIsTrue /\ Remote!ReplaysCounted

LEMMA RemoteMoves == [Next]_vars => [Remote!RemoteNext]_Remote!remoteVars
  BY DEF Next, vars, ApiServerNext, ServiceNext, Rest, remoteVars, Remote!remoteVars, Remote!registry

LEMMA RemoteStepKeeps ==
  ASSUME RemoteInv, Remote!RemoteNext
  PROVE  RemoteInv'
<1> USE DEF RemoteTyped, RemotePlaces, RemoteWords, ToldIsIdle, AdmitCounts,
            Remote!HeardIsTrue, Remote!Kinds, Remote!registry
<1>0. RemoteTyped /\ ToldIsIdle /\ AdmitCounts /\ Remote!HeardIsTrue /\ Remote!ReplaysCounted
      /\ MaxAttempts \in Nat
  BY ActivityAssumption DEF RemoteInv
<1>1. ASSUME NEW k \in Remote!Kinds, Remote!Schedule(k)
      PROVE  RemoteInv'
  BY <1>0, <1>1 DEF Remote!Schedule, RemoteInv, Remote!ReplaysCounted
<1>2. ASSUME NEW k \in Remote!Kinds, Remote!Lost(k)
      PROVE  RemoteInv'
  BY <1>0, <1>2 DEF Remote!Lost, RemoteInv, Remote!ReplaysCounted
<1>3. CASE Remote!AgentCreated
  BY <1>0, <1>3 DEF Remote!AgentCreated, Remote!Answers, RemoteInv, Remote!ReplaysCounted
<1>4. CASE Remote!AgentAppears
  BY <1>0, <1>4 DEF Remote!AgentAppears, RemoteInv, Remote!ReplaysCounted
<1>5. CASE Remote!AlreadyExists
  BY <1>0, <1>5 DEF Remote!AlreadyExists, Remote!Answers, RemoteInv, Remote!ReplaysCounted
<1>6. CASE Remote!Admitted
  BY <1>0, <1>6 DEF Remote!Admitted, Remote!Tells, RemoteInv, Remote!ReplaysCounted
<1>7. CASE Remote!PolicyAnswers
  BY <1>0, <1>7 DEF Remote!PolicyAnswers, Remote!Answers, RemoteInv, Remote!ReplaysCounted
<1>8. CASE Remote!Decided
  BY <1>0, <1>8 DEF Remote!Decided, Remote!Tells, RemoteInv, Remote!ReplaysCounted
<1>9. CASE Remote!Unreachable
  BY <1>0, <1>9 DEF Remote!Unreachable, Remote!Tells, RemoteInv, Remote!ReplaysCounted
<1>10. CASE Remote!PolicyCut
  <2>1. /\ at["policy"] /= "idle" /\ heard["policy"] = "none"
        /\ at' = [at EXCEPT !["policy"] = "idle"] /\ UNCHANGED <<attempt, refused, agent, existed, letter, replays>>
        /\ allowed' = FALSE
    BY <1>0, <1>10 DEF Remote!PolicyCut
  <2>2. lost' = [lost EXCEPT !["policy"] = lost["policy"] + 1]
    BY <1>10 DEF Remote!PolicyCut
  <2> PICK word \in {"none", "error"} : heard' = [heard EXCEPT !["policy"] = word]
    BY <1>10, <2>1 DEF Remote!PolicyCut
  <2>3. /\ attempt' = attempt /\ lost' \in [Remote!Kinds -> Nat]
        /\ at' \in [Remote!Kinds -> RemotePlaces] /\ heard' \in [Remote!Kinds -> RemoteWords]
        /\ \A k \in {"admit", "report"} :
             at'[k] = at[k] /\ heard'[k] = heard[k] /\ lost'[k] = lost[k]
        /\ at'["policy"] = "idle" /\ heard'["policy"] \in {"none", "error"}
    BY <1>0, <2>1, <2>2
  <2>4. RemoteTyped' /\ ToldIsIdle'
    BY <1>0, <2>1, <2>3
  <2>5. AdmitCounts' /\ Remote!HeardIsTrue'
    BY <1>0, <2>1, <2>3
  <2> QED
    BY <1>0, <2>1, <2>4, <2>5 DEF RemoteInv, Remote!ReplaysCounted
<1>11. CASE Remote!Connect
  BY <1>0, <1>11 DEF Remote!Connect, RemoteInv, Remote!ReplaysCounted
<1>12. CASE Remote!Upsert
  <2>1. /\ letter' \in [stored : BOOLEAN, count : Nat]
        /\ letter'.stored /\ letter'.count = letter.count
    BY <1>0, <1>12 DEF Remote!Upsert
  <2>2. Remote!ReplaysCounted'
    BY <1>0, <1>12, <2>1 DEF Remote!Upsert, Remote!ReplaysCounted
  <2> QED
    BY <1>0, <1>12, <2>1, <2>2 DEF Remote!Upsert, Remote!Answers, RemoteInv
<1>13. CASE Remote!Reported
  BY <1>0, <1>13 DEF Remote!Reported, Remote!Tells, RemoteInv, Remote!ReplaysCounted
<1>14. CASE Remote!UpsertFails
  BY <1>0, <1>14 DEF Remote!UpsertFails, Remote!Tells, RemoteInv, Remote!ReplaysCounted
<1>15. CASE Remote!ReplayLetter
  <2>1. /\ letter' \in [stored : BOOLEAN, count : Nat] /\ replays' = replays + 1
        /\ letter'.stored /\ letter'.count = letter.count + 1
    BY <1>0, <1>15 DEF Remote!ReplayLetter
  <2>2. Remote!ReplaysCounted'
    BY <1>0, <2>1 DEF Remote!ReplaysCounted
  <2> QED
    BY <1>0, <1>15, <2>1, <2>2 DEF Remote!ReplayLetter, RemoteInv
<1>16. CASE Remote!AgentDeleted
  BY <1>0, <1>16 DEF Remote!AgentDeleted, RemoteInv, Remote!ReplaysCounted
<1>17. CASE Remote!RegistryFails
  <2>1. /\ at["admit"] = "asking" /\ heard["admit"] = "none"
        /\ at' = [at EXCEPT !["admit"] = "idle"]
        /\ refused' = refused + 1 /\ refused' \in Nat
        /\ UNCHANGED <<attempt, lost, allowed, letter, replays>>
    BY <1>0, <1>17 DEF Remote!RegistryFails, Remote!Throws, Remote!Tells
  <2>2. agent' \in BOOLEAN /\ existed' \in BOOLEAN /\ (agent' => existed')
    BY <1>0, <1>17 DEF Remote!RegistryFails
  <2> PICK word \in {"none", "error"} :
        /\ heard' = [heard EXCEPT !["admit"] = word]
        /\ word = "error" => attempt["admit"] = MaxAttempts
    BY <1>17 DEF Remote!RegistryFails, Remote!Throws, Remote!Tells
  <2>3. /\ at' \in [Remote!Kinds -> RemotePlaces] /\ heard' \in [Remote!Kinds -> RemoteWords]
        /\ \A k \in {"policy", "report"} : at'[k] = at[k] /\ heard'[k] = heard[k]
        /\ at'["admit"] = "idle" /\ heard'["admit"] = word
    BY <1>0, <2>1
  <2>4. RemoteTyped' /\ ToldIsIdle'
    BY <1>0, <2>1, <2>2, <2>3
  <2>5. attempt["admit"] = lost["admit"] + refused + 1
    BY <1>0, <2>1
  <2>6. attempt'["admit"] = lost'["admit"] + refused'
    BY <1>0, <2>1, <2>5
  <2>7. AdmitCounts' /\ Remote!HeardIsTrue'
    BY <1>0, <2>1, <2>2, <2>3, <2>6
  <2> QED
    BY <1>0, <2>1, <2>4, <2>7 DEF RemoteInv, Remote!ReplaysCounted
<1> QED
  BY <1>1, <1>2, <1>3, <1>4, <1>5, <1>6, <1>7, <1>8, <1>9, <1>10, <1>11, <1>12, <1>13,
     <1>14, <1>15, <1>16, <1>17 DEF Remote!RemoteNext, Remote!Works

PodRows == [execution : Executions, phase : Pods!Phases]

PodInv == pods \in Seq(PodRows) /\ Pods!OnePodEach

LEMMA PodMoves == [Next]_vars => [Pods!PodNext]_Pods!podVars
  BY DEF Next, vars, ApiServerNext, ServiceNext, Rest, podVars, Pods!podVars

\* No pod changes hands, and one that is gone stays gone.
LEMMA PodsGoOn ==
  ASSUME PodInv, pods' \in Seq(PodRows), Len(pods') = Len(pods),
         \A i \in 1 .. Len(pods) : pods'[i].execution = pods[i].execution,
         \A i \in 1 .. Len(pods) : pods[i].phase = "Gone" => pods'[i].phase = "Gone"
  PROVE  PodInv'
  BY DEF PodInv, Pods!OnePodEach

LEMMA PodStepKeeps ==
  ASSUME PodInv, Pods!PodNext
  PROVE  PodInv'
<1>1. /\ pods \in Seq(PodRows) /\ DOMAIN pods = 1 .. Len(pods)
      /\ \A i \in 1 .. Len(pods) : pods[i] \in PodRows
  BY DEF PodInv
<1>2. CASE UNCHANGED pods
  BY <1>2 DEF PodInv, Pods!OnePodEach
<1>3. ASSUME NEW h \in Pods!Handlers, Pods!PodCreated(h)
      PROVE  PodInv'
  <2> DEFINE pod == [execution |-> h[1], phase |-> "Pending"]
  <2>1. pods' = Append(pods, pod) /\ Pods!Named(h[1]) = {}
    BY <1>3 DEF Pods!PodCreated, Pods!Makes
  <2>2. pod \in PodRows
    BY DEF PodRows, Pods!Handlers, Pods!Phases
  <2>3. \A i \in 1 .. Len(pods) : pods[i].execution = pod.execution => pods[i].phase = "Gone"
    BY <1>1, <2>1 DEF Pods!Named
  <2> HIDE DEF pod
  <2>4. /\ pods' \in Seq(PodRows) /\ Len(pods') = Len(pods) + 1 /\ Len(pods) \in Nat
        /\ DOMAIN pods' = 1 .. Len(pods) + 1 /\ pods'[Len(pods) + 1] = pod
        /\ \A i \in 1 .. Len(pods) : pods'[i] = pods[i]
    BY <1>1, <2>1, <2>2
  <2>5. Pods!OnePodEach'
    BY <1>1, <2>3, <2>4 DEF PodInv, Pods!OnePodEach
  <2> QED
    BY <2>4, <2>5 DEF PodInv
<1>4. ASSUME NEW i \in 1 .. Len(pods), NEW phase \in Pods!Phases,
             pods[i].phase = "Gone" => phase = "Gone",
             pods' = [pods EXCEPT ![i].phase = phase]
      PROVE  PodInv'
  <2> DEFINE pod == [pods[i] EXCEPT !.phase = phase]
  <2>1. pods' = [pods EXCEPT ![i] = pod]
    BY <1>4
  <2>2. pod \in PodRows /\ pod.execution = pods[i].execution /\ pod.phase = phase
    BY <1>1 DEF PodRows
  <2> HIDE DEF pod
  <2>3. /\ pods' \in Seq(PodRows) /\ Len(pods') = Len(pods)
        /\ \A j \in 1 .. Len(pods) : pods'[j] = IF j = i THEN pod ELSE pods[j]
    BY <1>1, <2>1, <2>2
  <2> QED
    BY <1>4, <2>2, <2>3, PodsGoOn
<1>5. ASSUME NEW i \in DOMAIN pods, Pods!PodMoves(i)
      PROVE  PodInv'
  <2> PICK phase \in {"Running", "Failed", "Succeeded", "Unknown"} :
        pods' = [pods EXCEPT ![i].phase = phase] /\ pods[i].phase /= "Gone"
    BY <1>5 DEF Pods!PodMoves
  <2> QED
    BY <1>1, <1>4 DEF Pods!Phases
<1>6. ASSUME NEW i \in DOMAIN pods, Pods!Evict(i)
      PROVE  PodInv'
  BY <1>1, <1>4, <1>6 DEF Pods!Evict, Pods!Phases
<1>7. ASSUME NEW e \in Executions, Pods!PodDeleted(e)
      PROVE  PodInv'
  <2> DEFINE after(i) == IF i \in Pods!Named(e) THEN [pods[i] EXCEPT !.phase = "Gone"] ELSE pods[i]
  <2>1. pods' = pods \/ pods' = [i \in 1 .. Len(pods) |-> after(i)]
    BY <1>1, <1>7 DEF Pods!PodDeleted
  <2>2. ASSUME NEW i \in 1 .. Len(pods)
        PROVE  /\ after(i) \in PodRows /\ after(i).execution = pods[i].execution
               /\ pods[i].phase = "Gone" => after(i).phase = "Gone"
    <3>1. pods[i] \in PodRows
      BY <1>1
    <3> QED
      BY <3>1 DEF PodRows, Pods!Phases
  <2> HIDE DEF after
  <2>3. CASE pods' = [i \in 1 .. Len(pods) |-> after(i)]
    <3>1. pods' \in [1 .. Len(pods) -> PodRows] /\ Len(pods) \in Nat
      BY <1>1, <2>2, <2>3
    <3>2. pods' \in Seq(PodRows) /\ Len(pods') = Len(pods)
      BY <3>1
    <3> QED
      BY <2>2, <2>3, <3>2, PodsGoOn
  <2> QED
    BY <1>2, <2>1, <2>3
<1>8. \/ UNCHANGED pods
      \/ \E h \in Pods!Handlers : Pods!PodCreated(h)
      \/ \E i \in DOMAIN pods : Pods!PodMoves(i) \/ Pods!Evict(i)
      \/ \E e \in Executions : Pods!PodDeleted(e)
  BY DEF Pods!PodNext, Pods!CreateSandbox, Pods!Deadline, Pods!TerminateSandbox,
         Pods!CreateFails, Pods!Returned, Pods!ReadFails
<1> QED
  BY <1>2, <1>3, <1>5, <1>6, <1>7, <1>8

\* For any number of attempts, replays, executions and evictions: what a workflow
\* hears of a remote activity is true, a dead letter counts its replays, and an
\* execution has at most one pod, however often a call is repeated.
THEOREM RepetitionIsHarmless == PlatformSpec => []RetriesHarmless
<1> DEFINE Inv == RemoteInv /\ PodInv
<1>1. Init => Inv
  <2> SUFFICES ASSUME Remote!RemoteInit, Pods!PodInit
               PROVE  Inv
    BY DEF Init
  <2>1. RemoteInv
    <3>0. /\ letter \in [stored : BOOLEAN, count : Nat] /\ replays \in Nat
          /\ Remote!ReplaysCounted
      BY DEF Remote!RemoteInit, Remote!NoLetter, Remote!ReplaysCounted
    <3>1. RemoteTyped
      BY <3>0 DEF Remote!RemoteInit, RemoteTyped, RemotePlaces, RemoteWords
    <3>2. ToldIsIdle /\ AdmitCounts /\ Remote!HeardIsTrue
      BY DEF Remote!RemoteInit, Remote!Kinds, ToldIsIdle, AdmitCounts, Remote!HeardIsTrue
    <3> QED
      BY <3>0, <3>1, <3>2 DEF RemoteInv
  <2>2. PodInv
    BY DEF Pods!PodInit, PodInv, Pods!OnePodEach
  <2> QED
    BY <2>1, <2>2
<1>2. Inv /\ [Next]_vars => Inv'
  <2> SUFFICES ASSUME Inv, [Remote!RemoteNext]_Remote!remoteVars, [Pods!PodNext]_Pods!podVars
               PROVE  Inv'
    BY RemoteMoves, PodMoves
  <2>1. RemoteInv'
    <3>1. CASE UNCHANGED Remote!remoteVars
      BY <3>1 DEF Remote!remoteVars, Remote!registry, RemoteInv, RemoteTyped, ToldIsIdle, AdmitCounts,
                  Remote!HeardIsTrue, Remote!ReplaysCounted
    <3> QED
      BY <3>1, RemoteStepKeeps
  <2>2. PodInv'
    <3>1. CASE UNCHANGED Pods!podVars
      BY <3>1 DEF Pods!podVars, PodInv, Pods!OnePodEach
    <3> QED
      BY <3>1, PodStepKeeps
  <2> QED
    BY <2>1, <2>2
<1>3. Inv => RetriesHarmless
  BY DEF RemoteInv, PodInv, RetriesHarmless
<1> QED
  BY <1>1, <1>2, <1>3, PTL DEF PlatformSpec

(***************************************************************************)
(* Counting up: the library's induction theorems take a predicate, its     *)
(* theorem about well-founded orders takes a set, and with a set the       *)
(* provers can work.                                                       *)
(***************************************************************************)

LEMMA LeastNatural ==
  ASSUME NEW T, T \subseteq Nat, T /= {}
  PROVE  \E x \in T : \A y \in T : ~ (y < x)
<1> DEFINE R == OpToRel(<, Nat)
<1>1. R = {ss \in Nat \X Nat : ss[1] < ss[2]}
  BY DEF OpToRel
<1>2. IsWellFoundedOn(R, Nat)
  BY NatLessThanWellFounded
<1> HIDE DEF R
<1>3. \E x \in T : \A y \in T : ~ (<<y, x>> \in R)
  BY <1>2, WFMin
<1> QED
  BY <1>1, <1>3

LEMMA CountUp ==
  ASSUME NEW n \in Nat, NEW S, 0 \in S, \A i \in 1 .. n : i - 1 \in S => i \in S
  PROVE  \A i \in 0 .. n : i \in S
<1> SUFFICES ASSUME NEW j \in 0 .. n, j \notin S PROVE FALSE
  OBVIOUS
<1> DEFINE T == {i \in 0 .. n : i \notin S}
<1>1. T \subseteq Nat /\ T /= {} /\ \A i \in T : i \in 0 .. n /\ i \notin S
  OBVIOUS
<1>2. \A i \in 0 .. n : i \notin S => i \in T
  OBVIOUS
<1> HIDE DEF T
<1> PICK x \in T : \A y \in T : ~ (y < x)
  BY <1>1, LeastNatural
<1>3. x \in 1 .. n
  BY <1>1
<1>4. x - 1 \in 0 .. n /\ x - 1 < x
  BY <1>3
<1>5. x - 1 \in S
  BY <1>2, <1>4
<1> QED
  BY <1>1, <1>3, <1>5

\* A recursion over 0 .. n has a solution.
Steps(n, T) == [1 .. n -> [T -> T]]

Solved(n, T, base, step) ==
  \E f \in [0 .. n -> T] : f[0] = base /\ \A i \in 1 .. n : f[i] = step[i][f[i - 1]]

LEMMA Recursion ==
  ASSUME NEW n, NEW T, NEW base, NEW step, n \in Nat, base \in T, step \in Steps(n, T)
  PROVE  Solved(n, T, base, step)
<1> USE DEF Steps, Solved
<1> DEFINE Solves(f, m) == f[0] = base /\ \A i \in 1 .. m : f[i] = step[i][f[i - 1]]
           S == {m \in 0 .. n : \E f \in [0 .. m -> T] : Solves(f, m)}
<1>1. 0 \in S
  <2> DEFINE f == [i \in 0 .. 0 |-> base]
  <2>1. f \in [0 .. 0 -> T] /\ f[0] = base
    OBVIOUS
  <2> HIDE DEF f
  <2>2. Solves(f, 0)
    BY <2>1
  <2> HIDE DEF Solves
  <2> QED
    BY <2>1, <2>2
<1>2. ASSUME NEW m \in 1 .. n, m - 1 \in S
      PROVE  m \in S
  <2> PICK f \in [0 .. m - 1 -> T] : Solves(f, m - 1)
    BY <1>2
  <2>0. m \in Nat /\ m - 1 \in 0 .. m - 1
    OBVIOUS
  <2>1. step[m][f[m - 1]] \in T
    BY <2>0
  <2> DEFINE g == [i \in 0 .. m |-> IF i = m THEN step[m][f[m - 1]] ELSE f[i]]
  <2>2. \A i \in 0 .. m : i /= m => i \in 0 .. m - 1
    BY <2>0
  <2>3. g \in [0 .. m -> T]
    BY <2>0, <2>1, <2>2
  <2>4. g[m] = step[m][f[m - 1]] /\ \A i \in 0 .. m - 1 : g[i] = f[i]
    BY <2>0
  <2> HIDE DEF g
  <2>5. g[0] = base
    BY <2>0, <2>4
  <2>6. ASSUME NEW i \in 1 .. m PROVE g[i] = step[i][g[i - 1]]
    <3>1. i - 1 \in 0 .. m - 1 /\ g[i - 1] = f[i - 1]
      BY <2>0, <2>4
    <3>2. CASE i = m
      BY <2>4, <3>1, <3>2
    <3>3. CASE i /= m
      <4>1. i \in 1 .. m - 1 /\ i \in 0 .. m - 1
        BY <2>0, <3>3
      <4>2. f[i] = step[i][f[i - 1]]
        BY <4>1
      <4> QED
        BY <2>4, <3>1, <4>1, <4>2
    <3> QED
      BY <3>2, <3>3
  <2>7. Solves(g, m)
    BY <2>5, <2>6
  <2> HIDE DEF Solves
  <2> QED
    BY <2>3, <2>7
<1> HIDE DEF S
<1>3. \A i \in 0 .. n : i \in S
  BY <1>1, <1>2, CountUp
<1>4. n \in 0 .. n /\ n \in S
  BY <1>3
<1> QED
  BY <1>4 DEF S

(***************************************************************************)
(* The audit chain.                                                        *)
(***************************************************************************)

ChainEntries == [event : Events, hash : Seq(Events), chainId : Nat]

ChainInv ==
  /\ chain \in [entries : Seq(ChainEntries), lastHash : Seq(Events)] /\ made \in Nat /\ day \in Nat
  /\ made <= MaxEntries =>
       /\ Audit!Verifies(chain.entries) /\ Len(chain.entries) = made
       /\ chain.lastHash = IF made = 0 THEN <<>> ELSE chain.entries[made].hash

LEMMA ChainMoves == [Next]_vars => [Audit!AuditNext]_Audit!auditVars
  BY DEF Next, vars, ApiServerNext, ServiceNext, Rest, auditVars, Audit!auditVars

\* What a chain keeps of its entries: the last MaxEntries.
LEMMA KeptIsEntries ==
  ASSUME NEW entries \in Seq(ChainEntries)
  PROVE  /\ Audit!Kept(entries) \in Seq(ChainEntries)
         /\ Len(entries) <= MaxEntries => Audit!Kept(entries) = entries
<1>1. Len(entries) \in Nat /\ MaxEntries \in Nat
  BY AuditAssumption
<1>2. CASE Len(entries) > MaxEntries
  BY <1>1, <1>2, SubSeqProperties DEF Audit!Kept
<1>3. CASE Len(entries) <= MaxEntries
  <2>1. Audit!Kept(entries) = SubSeq(entries, 1, Len(entries))
    <3>1. ~ Len(entries) > MaxEntries
      BY <1>1, <1>3
    <3> QED
      BY <3>1, Zenon DEF Audit!Kept
  <2> QED
    BY <1>1, <1>3, <2>1, SubSeqProperties, SubSeqFull
<1> QED
  BY <1>1, <1>2, <1>3

LEMMA ChainStepKeeps ==
  ASSUME ChainInv, Audit!AuditNext
  PROVE  ChainInv'
<1>1. CASE Audit!NewDay
  <2>1. chain' = [entries |-> <<>>, lastHash |-> <<>>] /\ made' = 0 /\ day' \in Nat
    BY <1>1 DEF ChainInv, Audit!NewDay, Audit!NewChain
  <2>2. <<>> \in Seq(ChainEntries) /\ <<>> \in Seq(Events) /\ DOMAIN <<>> = {} /\ Len(<<>>) = 0
    OBVIOUS
  <2>3. chain' \in [entries : Seq(ChainEntries), lastHash : Seq(Events)]
    BY <2>1, <2>2
  <2> QED
    BY <2>1, <2>2, <2>3 DEF ChainInv, Audit!Verifies
<1>2. ASSUME NEW event \in Events, Audit!CreateAuditEntry(event)
      PROVE  ChainInv'
  <2> DEFINE hash  == Append(chain.lastHash, event)
             new   == [event |-> event, hash |-> hash, chainId |-> day]
             old   == chain.entries
             more  == Append(old, new)
  <2>1. /\ chain' = [entries |-> Audit!Kept(more), lastHash |-> hash] /\ made' = made + 1
        /\ UNCHANGED day
    BY <1>2 DEF Audit!CreateAuditEntry, Audit!Entry, Audit!Hash
  <2>2. /\ chain.lastHash \in Seq(Events) /\ old \in Seq(ChainEntries)
        /\ made \in Nat /\ day \in Nat
    BY DEF ChainInv
  <2>3. hash \in Seq(Events)
    BY <2>2
  <2> HIDE DEF hash
  <2>4. new \in ChainEntries /\ new.event = event /\ new.hash = hash
    BY <2>2, <2>3 DEF ChainEntries
  <2> HIDE DEF new, old
  <2>5. /\ more \in Seq(ChainEntries) /\ Len(more) = Len(old) + 1 /\ DOMAIN more = 1 .. Len(old) + 1
        /\ Len(old) \in Nat /\ DOMAIN old = 1 .. Len(old) /\ more[Len(old) + 1] = new
        /\ \A i \in 1 .. Len(old) : more[i] = old[i]
    BY <2>2, <2>4
  <2> HIDE DEF more
  <2>6. chain' \in [entries : Seq(ChainEntries), lastHash : Seq(Events)]
    BY <2>1, <2>3, <2>5, KeptIsEntries
  <2>7. ASSUME made + 1 <= MaxEntries
        PROVE  /\ Audit!Verifies(chain'.entries) /\ Len(chain'.entries) = made + 1
               /\ chain'.lastHash = chain'.entries[made + 1].hash
    <3>1. /\ Audit!Verifies(old) /\ Len(old) = made
          /\ chain.lastHash = IF made = 0 THEN <<>> ELSE old[made].hash
      BY <2>2, <2>7, AuditAssumption DEF ChainInv, old
    <3>2. chain'.entries = more /\ chain'.lastHash = hash
      BY <2>1, <2>2, <2>5, <2>7, <3>1, KeptIsEntries, AuditAssumption
    <3>4. Audit!Verifies(more)
      <4> SUFFICES ASSUME NEW i \in 1 .. made + 1
                   PROVE  more[i].hash = Append(IF i = 1 THEN <<>> ELSE more[i - 1].hash, more[i].event)
        BY <2>5, <3>1 DEF Audit!Verifies, Audit!Hash
      <4>1. CASE i = made + 1
        <5>1. (IF i = 1 THEN <<>> ELSE more[i - 1].hash) = chain.lastHash
          BY <2>2, <2>5, <3>1, <4>1
        <5> QED
          BY <2>4, <2>5, <3>1, <4>1, <5>1 DEF hash
      <4>2. CASE i \in 1 .. made
        <5>1. old[i].hash = Append(IF i = 1 THEN <<>> ELSE old[i - 1].hash, old[i].event)
          BY <2>5, <3>1, <4>2 DEF Audit!Verifies, Audit!Hash
        <5>2. more[i] = old[i] /\ (i /= 1 => more[i - 1] = old[i - 1])
          BY <2>2, <2>5, <3>1, <4>2
        <5> QED
          BY <5>1, <5>2
      <4> QED
        BY <2>2, <4>1, <4>2
    <3> QED
      BY <2>4, <2>5, <3>1, <3>2, <3>4
  <2> QED
    BY <2>1, <2>2, <2>6, <2>7 DEF ChainInv
<1> QED
  BY <1>1, <1>2 DEF Audit!AuditNext

\* The hash of an entry of a chain that verifies is all that was said up to it.
LEMMA HashSaysAll ==
  ASSUME NEW entries \in Seq(ChainEntries), Audit!Verifies(entries)
  PROVE  \A i \in 1 .. Len(entries) : entries[i].hash = Audit!Said(entries, i)
<1> DEFINE n      == Len(entries)
           vouch  == {i \in 0 .. n : i = 0 \/ entries[i].hash = Audit!Said(entries, i)}
<1>1. n \in Nat /\ 0 \in vouch
  OBVIOUS
<1>2. ASSUME NEW i \in 1 .. n, i - 1 \in vouch
      PROVE  i \in vouch
  <2>1. entries[i].hash = Append(IF i = 1 THEN <<>> ELSE entries[i - 1].hash, entries[i].event)
    BY DEF Audit!Verifies, Audit!Hash
  <2>2. \A k \in 1 .. n : entries[k].event \in Events
    <3>1. \A k \in 1 .. n : entries[k] \in ChainEntries
      OBVIOUS
    <3> QED
      BY <3>1 DEF ChainEntries
  <2>3. (IF i = 1 THEN <<>> ELSE entries[i - 1].hash) = Audit!Said(entries, i - 1)
    <3>1. CASE i = 1
      BY <3>1 DEF Audit!Said
    <3>2. CASE i /= 1
      BY <1>2, <3>2
    <3> QED
      BY <3>1, <3>2
  <2> DEFINE said == Audit!Said(entries, i - 1)
             event == entries[i].event
  <2>4. said \in [1 .. i - 1 -> Events] /\ i - 1 \in Nat /\ event \in Events
        /\ \A k \in 1 .. i - 1 : said[k] = entries[k].event
    BY <2>2 DEF Audit!Said
  <2>5. said \in Seq(Events) /\ Len(said) = i - 1
    BY <2>4
  <2> HIDE DEF said, event
  <2>6. /\ Append(said, event) \in Seq(Events) /\ Len(Append(said, event)) = i
        /\ \A k \in 1 .. i - 1 : Append(said, event)[k] = entries[k].event
        /\ Append(said, event)[i] = event
    BY <2>4, <2>5
  <2>7. Append(said, event) = [k \in 1 .. i |-> entries[k].event]
    <3> DEFINE whole == Append(said, event)
    <3>1. whole \in Seq(Events) /\ Len(whole) = i
          /\ \A k \in 1 .. i : whole[k] = entries[k].event
      BY <2>4, <2>6 DEF event
    <3> HIDE DEF whole
    <3>2. DOMAIN whole = 1 .. i /\ whole = [k \in DOMAIN whole |-> whole[k]]
      BY <3>1
    <3> QED
      BY <3>1, <3>2 DEF whole
  <2>8. entries[i].hash = Audit!Said(entries, i)
    BY <2>1, <2>3, <2>7, Zenon DEF said, event, Audit!Said
  <2> QED
    BY <1>1, <2>8
<1> HIDE DEF vouch
<1>3. \A i \in 0 .. n : i \in vouch
  BY <1>1, <1>2, CountUp
<1> QED
  BY <1>3 DEF vouch

\* Of two chains that verify, a hash they share vouches for all before it.
LEMMA HashVouches ==
  ASSUME NEW entries \in Seq(ChainEntries), Audit!Verifies(entries),
         NEW whole \in Seq(ChainEntries), Audit!Verifies(whole)
  PROVE  Audit!Vouched(entries, whole)
<1> SUFFICES ASSUME NEW i \in 1 .. Len(entries), NEW j \in 1 .. Len(whole),
                    entries[i].hash = whole[j].hash
             PROVE  i = j /\ Audit!Said(entries, i) = Audit!Said(whole, i)
  BY DEF Audit!Vouched
<1>1. Audit!Said(entries, i) = Audit!Said(whole, j)
  BY HashSaysAll
<1>2. DOMAIN Audit!Said(entries, i) = 1 .. i /\ DOMAIN Audit!Said(whole, j) = 1 .. j
  BY DEF Audit!Said
<1>3. i = j
  BY <1>1, <1>2
<1> QED
  BY <1>1, <1>3

\* However a chain is tampered with, entries are left.
LEMMA TamperedAreEntries ==
  ASSUME NEW whole \in Seq(ChainEntries), day \in Nat
  PROVE  Audit!Tampered(whole) \subseteq Seq(ChainEntries)
<1> DEFINE n == Len(whole)
<1>0. /\ n \in Nat /\ n = Len(whole) /\ DOMAIN whole = 1 .. n
      /\ whole \in Seq(ChainEntries) /\ \A i \in 1 .. n : whole[i] \in ChainEntries
      /\ Audit!Days \subseteq Nat
  BY AuditAssumption DEF Audit!Days
<1> HIDE DEF n
<1>0a. ASSUME NEW x \in ChainEntries, NEW e \in Events, NEW d \in Nat
       PROVE  Audit!Forged(x, e, d) \in ChainEntries
  BY DEF Audit!Forged, ChainEntries
<1>1. ASSUME NEW i \in 1 .. n, NEW e \in Events, NEW d \in Audit!Days
      PROVE  Audit!ReplaceAt(whole, i, Audit!Forged(whole[i], e, d)) \in Seq(ChainEntries)
  <2>1. Audit!Forged(whole[i], e, d) \in ChainEntries
    BY <1>0, <1>0a
  <2>2. [whole EXCEPT ![i] = Audit!Forged(whole[i], e, d)] \in Seq(ChainEntries)
    BY <1>0, <2>1
  <2> QED
    BY <2>2 DEF Audit!ReplaceAt
<1>2. ASSUME NEW i \in 1 .. n
      PROVE  Audit!RemoveAt(whole, i) \in Seq(ChainEntries)
  <2>1. SubSeq(whole, 1, i - 1) \in Seq(ChainEntries) /\ SubSeq(whole, i + 1, n) \in Seq(ChainEntries)
    BY <1>0
  <2> QED
    BY <1>0, <2>1, ConcatProperties DEF Audit!RemoveAt
<1>3. ASSUME NEW i \in 1 .. n \ {n}
      PROVE  Audit!Swapped(whole, i) \in Seq(ChainEntries)
  <2>1. i + 1 \in 1 .. n
    BY <1>0
  <2> QED
    BY <1>0, <2>1 DEF Audit!Swapped
<1>4. ASSUME NEW i \in 1 .. n + 1, NEW j \in 1 .. n, NEW e \in Events
      PROVE  Audit!InsertAt(whole, i, Audit!Forged(whole[j], e, day)) \in Seq(ChainEntries)
  <2> DEFINE added == Audit!Forged(whole[j], e, day)
             front == SubSeq(whole, 1, i - 1)
             back  == SubSeq(whole, i, n)
  <2>1. added \in ChainEntries
    BY <1>0, <1>0a
  <2> HIDE DEF added
  <2>2. front \in Seq(ChainEntries) /\ back \in Seq(ChainEntries) /\ <<added>> \in Seq(ChainEntries)
    BY <1>0, <2>1
  <2> HIDE DEF front, back
  <2>3. (front \o <<added>>) \o back \in Seq(ChainEntries)
    BY <2>2, ConcatProperties
  <2> QED
    BY <1>0, <2>3 DEF Audit!InsertAt, added, front, back
<1>5. Audit!Edited(whole) \subseteq Seq(ChainEntries)
  <2> HIDE DEF n
  <2>1. \A i \in DOMAIN whole, e \in Events, d \in Audit!Days :
          Audit!ReplaceAt(whole, i, Audit!Forged(whole[i], e, d)) \in Seq(ChainEntries)
    BY <1>0, <1>1, Zenon
  <2>2. \A i \in DOMAIN whole : Audit!RemoveAt(whole, i) \in Seq(ChainEntries)
    BY <1>0, <1>2, Zenon
  <2>3. \A i \in DOMAIN whole \ {Len(whole)} : Audit!Swapped(whole, i) \in Seq(ChainEntries)
    BY <1>0, <1>3, Zenon
  <2>4. \A i \in 1 .. Len(whole) + 1, j \in DOMAIN whole, e \in Events :
          Audit!InsertAt(whole, i, Audit!Forged(whole[j], e, day)) \in Seq(ChainEntries)
    BY <1>0, <1>4, Zenon
  <2> QED
    BY <2>1, <2>2, <2>3, <2>4, SMT DEF Audit!Edited
<1>6. ASSUME NEW entries \in Seq(ChainEntries)
      PROVE  Audit!Rehashed(entries) \in Seq(ChainEntries)
  <2>1. ASSUME NEW i \in 1 .. Len(entries)
        PROVE  [entries[i] EXCEPT !.hash = Audit!Said(entries, i)] \in ChainEntries
    <3>1. \A k \in 1 .. i : entries[k] \in ChainEntries
      OBVIOUS
    <3>2. Audit!Said(entries, i) \in [1 .. i -> Events] /\ i \in Nat
      BY <3>1 DEF Audit!Said, ChainEntries
    <3>3. Audit!Said(entries, i) \in Seq(Events)
      BY <3>2
    <3>4. entries[i] \in ChainEntries
      BY <3>1
    <3> QED
      BY <3>3, <3>4 DEF ChainEntries
  <2>2. Audit!Rehashed(entries) \in [1 .. Len(entries) -> ChainEntries] /\ Len(entries) \in Nat
    BY <2>1 DEF Audit!Rehashed
  <2> QED
    BY <2>2
<1> QED
  BY <1>5, <1>6 DEF Audit!Tampered

\* For any number of entries kept, days and events: a chain that was not cut
\* verifies.  Whatever else is put in its place and verifies, one of the tampered
\* chains or any other, is vouched for by each hash of the chain that it contains:
\* up to the last of them it says what the chain says.
THEOREM TamperingIsSeen ==
  PlatformSpec =>
    /\ []ChainTells
    /\ [](made <= MaxEntries =>
            \A entries \in Seq(ChainEntries) :
              Audit!Verifies(entries) => Audit!Vouched(entries, chain.entries))
<1> DEFINE AnyOther == made <= MaxEntries =>
             \A entries \in Seq(ChainEntries) :
               Audit!Verifies(entries) => Audit!Vouched(entries, chain.entries)
<1>1. Init => ChainInv
  <2> SUFFICES ASSUME Audit!AuditInit
               PROVE  ChainInv
    BY DEF Init
  <2>1. chain = [entries |-> <<>>, lastHash |-> <<>>] /\ made = 0 /\ day = 0
    BY DEF Audit!AuditInit, Audit!NewChain
  <2>2. <<>> \in Seq(ChainEntries) /\ <<>> \in Seq(Events) /\ DOMAIN <<>> = {} /\ Len(<<>>) = 0
    OBVIOUS
  <2>3. chain \in [entries : Seq(ChainEntries), lastHash : Seq(Events)]
    BY <2>1, <2>2
  <2> QED
    BY <2>1, <2>2, <2>3 DEF ChainInv, Audit!Verifies
<1>2. ChainInv /\ [Next]_vars => ChainInv'
  <2> SUFFICES ASSUME ChainInv, [Audit!AuditNext]_Audit!auditVars
               PROVE  ChainInv'
    BY ChainMoves
  <2>1. CASE UNCHANGED Audit!auditVars
    BY <2>1 DEF Audit!auditVars, ChainInv
  <2> QED
    BY <2>1, ChainStepKeeps
<1>3. ChainInv => AnyOther
  BY HashVouches DEF ChainInv
<1>4. ChainInv => ChainTells
  BY <1>3, TamperedAreEntries DEF ChainInv, ChainTells, Audit!ChainTells
<1> HIDE DEF AnyOther
<1>5. PlatformSpec => []ChainTells /\ []AnyOther
  BY <1>1, <1>2, <1>3, <1>4, PTL DEF PlatformSpec
<1> QED
  BY <1>5 DEF AnyOther


(***************************************************************************)
(* The traces.                                                             *)
(***************************************************************************)

TraceStages  == {"none", "sent", "exporting", "exported", "lost"}
TraceReturns == {"none", "waits", "success", "failure"}
Replays      == [shown : Seq(Traces!Span), exported : SUBSET Traces!Span]

TraceTyped ==
  /\ span \in [Traces!Span -> TraceStages]
  /\ exports \in [Traces!Step -> 0 .. ExportTries]
  /\ returned \in [Traces!Step -> TraceReturns]
  /\ traceStore \in [Traced -> Seq(Traces!Span)]
  /\ replayed \in [Traced -> Replays]

\* An attempt that was made is one of its step's, and a step has attempts once it
\* was begun.
AttemptsCounted ==
  /\ \A s \in Traces!Span : span[s] /= "none" <=> s[3] <= exports[Traces!Of(s)]
  /\ \A p \in Traces!Step : returned[p] /= "none" <=> exports[p] > 0

\* The steps of an execution are awaited one after the other, and one that was
\* told of a success was exported by its last attempt.
OneByOne ==
  /\ \A s \in Traces!Span : returned[Traces!Of(s)] = "success" /\ s[3] = exports[Traces!Of(s)]
                              => span[s] \in {"exported", "lost"}
  /\ \A p, q \in Traces!Step : p[1] = q[1] /\ q[2] < p[2] /\ returned[p] /= "none"
                                 => returned[q] \in {"success", "failure"}

Late(s, r, x) == r[Traces!Of(s)] = "failure" \/ s[3] < x[Traces!Of(s)]

InOrder(list, r, x) == \A i, j \in DOMAIN list :
  i < j => Traces!Earlier(list[i], list[j]) \/ Late(list[j], r, x)

Holds(list, s) == \E i \in DOMAIN list : list[i] = s

\* The memory of an execution holds what was exported to this process, once.
Stored(e) ==
  /\ \A s \in Traces!Span : Holds(traceStore[e], s) <=>
                             s[1] = e /\ span[s] \in {"exporting", "exported"}
  /\ Traces!IsInjective(traceStore[e])
  /\ InOrder(traceStore[e], returned, exports)

\* The replay that was given is as complete as the memory was.
Given(e) ==
  /\ \A s \in replayed[e].exported : Holds(replayed[e].shown, s)
  /\ Traces!IsInjective(replayed[e].shown)
  /\ InOrder(replayed[e].shown, returned, exports)

TraceInv == TraceTyped /\ AttemptsCounted /\ OneByOne /\ \A e \in Traced : Stored(e) /\ Given(e)

LEMMA TraceMoves == [Next]_vars => [Traces!TraceNext]_Traces!traceVars
  BY DEF Next, vars, ApiServerNext, ServiceNext, Rest, traceVars, Traces!traceVars

LEMMA SpanParts ==
  /\ \A s \in Traces!Span : /\ s[1] \in Traced /\ s[2] \in 1 .. MaxSpans /\ s[3] \in 1 .. ExportTries
                            /\ s = <<s[1], s[2], s[3]>>
                            /\ Traces!Of(s) \in Traces!Step
                            /\ Traces!Of(s)[1] = s[1] /\ Traces!Of(s)[2] = s[2]
  /\ \A p \in Traces!Step : p[1] \in Traced /\ p[2] \in 1 .. MaxSpans /\ p = <<p[1], p[2]>>
  /\ \A e \in Traced, k \in 1 .. MaxSpans : <<e, k>> \in Traces!Step
  /\ \A e \in Traced, k \in 1 .. MaxSpans, n \in 1 .. ExportTries :
       <<e, k, n>> \in Traces!Span /\ Traces!Of(<<e, k, n>>) = <<e, k>>
  BY DEF Traces!Span, Traces!Step, Traces!Of

\* What was given up is so for good.
GivenUpStays ==
  \A s \in Traces!Span : Late(s, returned, exports) => Late(s, returned', exports')

LEMMA OrderStays ==
  ASSUME NEW r, NEW x, NEW r2, NEW x2, NEW list \in Seq(Traces!Span),
         \A s \in Traces!Span : Late(s, r, x) => Late(s, r2, x2),
         InOrder(list, r, x)
  PROVE  InOrder(list, r2, x2)
<1>1. \A i \in DOMAIN list : list[i] \in Traces!Span
  OBVIOUS
<1> QED
  BY <1>1 DEF InOrder

LEMMA GivenStays ==
  ASSUME TraceInv, GivenUpStays, NEW e \in Traced, replayed'[e] = replayed[e]
  PROVE  Given(e)'
<1>1. replayed[e].shown \in Seq(Traces!Span) /\ Given(e)
  BY DEF TraceInv, TraceTyped, Replays
<1>2. InOrder(replayed[e].shown, returned', exports')
  BY <1>1, OrderStays DEF Given, GivenUpStays
<1> QED
  BY <1>1, <1>2 DEF Given

\* A step that leaves the memory and what it should hold alone.
LEMMA StoredStays ==
  ASSUME TraceInv, GivenUpStays, NEW e \in Traced, traceStore'[e] = traceStore[e],
         \A s \in Traces!Span : s[1] = e =>
           (span'[s] \in {"exporting", "exported"} <=> span[s] \in {"exporting", "exported"})
  PROVE  Stored(e)'
<1>1. traceStore[e] \in Seq(Traces!Span) /\ Stored(e)
  BY DEF TraceInv, TraceTyped
<1>2. InOrder(traceStore[e], returned', exports')
  BY <1>1, OrderStays DEF Stored, GivenUpStays
<1> QED
  BY <1>1, <1>2 DEF Stored

\* What an attempt changes.
LEMMA AttemptIsNew ==
  ASSUME TraceInv, NEW p \in Traces!Step, exports[p] < ExportTries, Traces!Attempt(p)
  PROVE  LET s == <<p[1], p[2], exports[p] + 1>> IN
           /\ s \in Traces!Span /\ Traces!Of(s) = p /\ s[3] = exports[p] + 1
           /\ span[s] = "none" /\ span'[s] = "sent"
           /\ \A t \in Traces!Span : t /= s => span'[t] = span[t]
           /\ \A t \in Traces!Span : Traces!Of(t) = p /\ t[3] = exports[p] + 1 => t = s
           /\ exports'[p] = exports[p] + 1 /\ \A q \in Traces!Step : q /= p => exports'[q] = exports[q]
           /\ span' \in [Traces!Span -> TraceStages] /\ exports' \in [Traces!Step -> 0 .. ExportTries]
           /\ UNCHANGED <<traceStore, replayed>>
<1> DEFINE n == exports[p] + 1
           s == <<p[1], p[2], n>>
<1>1. exports[p] \in 0 .. ExportTries /\ ExportTries \in Nat /\ n \in 1 .. ExportTries
  BY TraceAssumption DEF TraceInv, TraceTyped
<1>2. s \in Traces!Span /\ Traces!Of(s) = p /\ s[3] = n
  BY <1>1, SpanParts
<1>3. \A t \in Traces!Span : Traces!Of(t) = p /\ t[3] = n => t = s
  BY SpanParts DEF Traces!Of
<1>4. span[s] = "none"
  BY <1>1, <1>2 DEF TraceInv, AttemptsCounted
<1>5. span' = [span EXCEPT ![s] = "sent"] /\ exports' = [exports EXCEPT ![p] = n]
  BY DEF Traces!Attempt
<1>6. UNCHANGED <<traceStore, replayed>>
  BY DEF Traces!Attempt
<1> HIDE DEF s
<1>7. /\ span'[s] = "sent" /\ \A t \in Traces!Span : t /= s => span'[t] = span[t]
      /\ span' \in [Traces!Span -> TraceStages]
  BY <1>2, <1>5 DEF TraceInv, TraceTyped, TraceStages
<1>8. /\ exports'[p] = n /\ \A q \in Traces!Step : q /= p => exports'[q] = exports[q]
      /\ exports' \in [Traces!Step -> 0 .. ExportTries]
  BY <1>1, <1>5 DEF TraceInv, TraceTyped
<1> QED
  BY <1>2, <1>3, <1>4, <1>6, <1>7, <1>8 DEF s

\* What is appended is held too, and once.
LEMMA AppendHolds ==
  ASSUME NEW S, NEW list \in Seq(S), NEW s \in S
  PROVE  /\ \A t : Holds(Append(list, s), t) <=> Holds(list, t) \/ t = s
         /\ Traces!IsInjective(list) /\ ~ Holds(list, s) => Traces!IsInjective(Append(list, s))
<1> DEFINE longer == Append(list, s)
<1>1. /\ DOMAIN longer = 1 .. Len(list) + 1 /\ longer[Len(list) + 1] = s
      /\ Len(list) \in Nat /\ DOMAIN list = 1 .. Len(list)
      /\ \A i \in 1 .. Len(list) : longer[i] = list[i]
  OBVIOUS
<1> HIDE DEF longer
<1>2. \A i \in 1 .. Len(list) + 1 : i \in 1 .. Len(list) \/ i = Len(list) + 1
  BY <1>1
<1>3. \A t : Holds(longer, t) <=> Holds(list, t) \/ t = s
  <2> TAKE t
  <2>1. ASSUME Holds(longer, t) PROVE Holds(list, t) \/ t = s
    BY <1>1, <1>2, <2>1 DEF Holds
  <2>2. ASSUME Holds(list, t) \/ t = s PROVE Holds(longer, t)
    BY <1>1, <2>2 DEF Holds
  <2> QED
    BY <2>1, <2>2
<1>4. Traces!IsInjective(list) /\ ~ Holds(list, s) => Traces!IsInjective(longer)
  BY <1>1, <1>2 DEF Holds, Traces!IsInjective
<1> QED
  BY <1>3, <1>4 DEF longer

LEMMA TraceStepKeeps ==
  ASSUME TraceInv, Traces!TraceNext
  PROVE  TraceInv'
<1> USE SpanParts
<1>0. ASSUME NEW p \in Traces!Step, Traces!Attempt(p), exports[p] < ExportTries,
             returned' \in [Traces!Step -> TraceReturns], returned'[p] = "waits",
             returned[p] \in {"none", "waits"},
             \A q \in Traces!Step : q /= p => returned'[q] = returned[q],
             \A q \in Traces!Step : p[1] = q[1] /\ q[2] < p[2] => returned[q] \in {"success", "failure"}
      PROVE  TraceInv'
  <2> DEFINE s == <<p[1], p[2], exports[p] + 1>>
  <2>1. /\ s \in Traces!Span /\ Traces!Of(s) = p /\ s[3] = exports[p] + 1
        /\ span[s] = "none" /\ span'[s] = "sent"
        /\ \A t \in Traces!Span : t /= s => span'[t] = span[t]
        /\ \A t \in Traces!Span : Traces!Of(t) = p /\ t[3] = exports[p] + 1 => t = s
        /\ exports'[p] = exports[p] + 1 /\ \A q \in Traces!Step : q /= p => exports'[q] = exports[q]
        /\ span' \in [Traces!Span -> TraceStages] /\ exports' \in [Traces!Step -> 0 .. ExportTries]
        /\ UNCHANGED <<traceStore, replayed>>
    BY <1>0, AttemptIsNew
  <2> HIDE DEF s
  <2>2. exports[p] \in Nat /\ \A t \in Traces!Span : t[3] \in Nat
    BY TraceAssumption DEF TraceInv, TraceTyped
  <2>3. TraceTyped'
    BY <1>0, <2>1 DEF TraceInv, TraceTyped
  <2>4. AttemptsCounted'
    <3>1. ASSUME NEW t \in Traces!Span
          PROVE  span'[t] /= "none" <=> t[3] <= exports'[Traces!Of(t)]
      <4>1. CASE Traces!Of(t) /= p
        BY <2>1, <4>1 DEF TraceInv, AttemptsCounted
      <4>2. CASE Traces!Of(t) = p
        <5>1. CASE t = s
          BY <2>1, <2>2, <5>1
        <5>2. CASE t /= s
          <6>1. t[3] /= exports[p] + 1 /\ (span[t] /= "none" <=> t[3] <= exports[p])
            BY <2>1, <4>2, <5>2 DEF TraceInv, AttemptsCounted
          <6> QED
            BY <2>1, <2>2, <4>2, <5>2, <6>1
        <5> QED
          BY <5>1, <5>2
      <4> QED
        BY <4>1, <4>2
    <3>2. ASSUME NEW q \in Traces!Step
          PROVE  returned'[q] /= "none" <=> exports'[q] > 0
      <4>1. CASE q = p
        BY <1>0, <2>1, <2>2, <4>1
      <4>2. CASE q /= p
        BY <1>0, <2>1, <4>2 DEF TraceInv, AttemptsCounted
      <4> QED
        BY <4>1, <4>2
    <3> QED
      BY <3>1, <3>2 DEF AttemptsCounted
  <2>5. OneByOne'
    <3>1. ASSUME NEW t \in Traces!Span, returned'[Traces!Of(t)] = "success", t[3] = exports'[Traces!Of(t)]
          PROVE  span'[t] \in {"exported", "lost"}
      <4>1. Traces!Of(t) /= p
        BY <1>0, <3>1
      <4> QED
        BY <1>0, <2>1, <3>1, <4>1 DEF TraceInv, OneByOne
    <3>2. ASSUME NEW q1 \in Traces!Step, NEW q \in Traces!Step,
                 q1[1] = q[1], q[2] < q1[2], returned'[q1] /= "none"
          PROVE  returned'[q] \in {"success", "failure"}
      <4>1. returned[q] \in {"success", "failure"}
        <5>1. CASE q1 = p
          BY <1>0, <3>2, <5>1
        <5>2. CASE q1 /= p
          BY <1>0, <3>2, <5>2 DEF TraceInv, OneByOne
        <5> QED
          BY <5>1, <5>2
      <4> QED
        BY <1>0, <4>1
    <3> QED
      BY <3>1, <3>2 DEF OneByOne
  <2>6. GivenUpStays
    <3>1. ASSUME NEW t \in Traces!Span, Late(t, returned, exports)
          PROVE  Late(t, returned', exports')
      <4>1. CASE Traces!Of(t) = p
        BY <1>0, <2>1, <2>2, <3>1, <4>1 DEF Late
      <4>2. CASE Traces!Of(t) /= p
        BY <1>0, <2>1, <3>1, <4>2 DEF Late
      <4> QED
        BY <4>1, <4>2
    <3> QED
      BY <3>1 DEF GivenUpStays
  <2>7. \A e \in Traced : Stored(e)' /\ Given(e)'
    BY <2>1, <2>6, GivenStays, StoredStays
  <2> QED
    BY <2>3, <2>4, <2>5, <2>7 DEF TraceInv
<1>1. ASSUME NEW p \in Traces!Step, Traces!RecordObservability(p)
      PROVE  TraceInv'
  <2>1. /\ returned[p] = "none" /\ returned' = [returned EXCEPT ![p] = "waits"] /\ Traces!Attempt(p)
        /\ p[2] > 1 => returned[<<p[1], p[2] - 1>>] \in {"success", "failure"}
    BY <1>1 DEF Traces!RecordObservability
  <2>2. /\ returned' \in [Traces!Step -> TraceReturns] /\ returned'[p] = "waits"
        /\ \A q \in Traces!Step : q /= p => returned'[q] = returned[q]
    BY <2>1 DEF TraceInv, TraceTyped, TraceReturns
  <2>3. exports[p] < ExportTries
    <3>1. exports[p] \in 0 .. ExportTries /\ ~ (exports[p] > 0) /\ ExportTries \in Nat \ {0}
      BY <2>1, TraceAssumption DEF TraceInv, TraceTyped, AttemptsCounted
    <3> QED
      BY <3>1
  <2>4. \A q \in Traces!Step : p[1] = q[1] /\ q[2] < p[2] => returned[q] \in {"success", "failure"}
    <3> SUFFICES ASSUME NEW q \in Traces!Step, p[1] = q[1], q[2] < p[2]
                 PROVE  returned[q] \in {"success", "failure"}
      OBVIOUS
    <3> DEFINE b == <<p[1], p[2] - 1>>
    <3>0. p[2] > 1 /\ p[2] - 1 \in 1 .. MaxSpans
      BY TraceAssumption
    <3>1. b \in Traces!Step /\ b[1] = p[1] /\ b[2] = p[2] - 1
      BY <3>0
    <3>2. returned[b] \in {"success", "failure"}
      BY <2>1, <3>0
    <3>3. q[2] < b[2] \/ q = b
      BY <3>0
    <3> HIDE DEF b
    <3> QED
      BY <3>1, <3>2, <3>3 DEF TraceInv, OneByOne
  <2> QED
    BY <1>0, <2>1, <2>2, <2>3, <2>4
<1>2. ASSUME NEW p \in Traces!Step, Traces!RecordAgain(p)
      PROVE  TraceInv'
  <2>1. returned[p] = "waits" /\ exports[p] < ExportTries /\ Traces!Attempt(p) /\ returned' = returned
    BY <1>2 DEF Traces!RecordAgain
  <2>2. returned' \in [Traces!Step -> TraceReturns]
    BY <2>1 DEF TraceInv, TraceTyped
  <2>3. \A q \in Traces!Step : p[1] = q[1] /\ q[2] < p[2] => returned[q] \in {"success", "failure"}
    BY <2>1 DEF TraceInv, OneByOne
  <2> QED
    BY <1>0, <2>1, <2>2, <2>3
<1>3. ASSUME NEW p \in Traces!Step, Traces!Unanswered(p)
      PROVE  TraceInv'
  <2> USE <1>3 DEF Traces!Unanswered
  <2>1. TraceTyped' /\ AttemptsCounted'
    BY DEF TraceInv, TraceTyped, TraceReturns, AttemptsCounted
  <2>2. /\ returned'[p] = "failure" /\ returned[p] = "waits"
        /\ \A q \in Traces!Step : q /= p => returned'[q] = returned[q]
    BY DEF TraceInv, TraceTyped
  <2>3. OneByOne'
    BY <2>2 DEF TraceInv, OneByOne
  <2>4. GivenUpStays
    BY <2>2 DEF GivenUpStays, Late
  <2>5. \A e \in Traced : Stored(e)' /\ Given(e)'
    BY <2>4, GivenStays, StoredStays
  <2> QED
    BY <2>1, <2>3, <2>5 DEF TraceInv
<1>4. ASSUME NEW p \in Traces!Step, Traces!Told(p)
      PROVE  TraceInv'
  <2> USE <1>4 DEF Traces!Told
  <2>1. TraceTyped' /\ AttemptsCounted'
    BY DEF TraceInv, TraceTyped, TraceReturns, AttemptsCounted
  <2>2. /\ returned'[p] = "success" /\ returned[p] = "waits"
        /\ \A q \in Traces!Step : q /= p => returned'[q] = returned[q]
    BY DEF TraceInv, TraceTyped
  <2>3. OneByOne'
    <3>1. ASSUME NEW t \in Traces!Span, returned'[Traces!Of(t)] = "success", t[3] = exports[Traces!Of(t)]
          PROVE  span[t] \in {"exported", "lost"}
      <4>1. CASE Traces!Of(t) = p
        <5>1. t = <<p[1], p[2], exports[p]>>
          BY <3>1, <4>1
        <5> QED
          BY <5>1
      <4>2. CASE Traces!Of(t) /= p
        BY <2>2, <3>1, <4>2 DEF TraceInv, OneByOne
      <4> QED
        BY <4>1, <4>2
    <3>2. \A q1, q \in Traces!Step : q1[1] = q[1] /\ q[2] < q1[2] /\ returned'[q1] /= "none"
                                        => returned'[q] \in {"success", "failure"}
      BY <2>2 DEF TraceInv, OneByOne
    <3> QED
      BY <3>1, <3>2 DEF OneByOne
  <2>4. GivenUpStays
    BY <2>2 DEF GivenUpStays, Late
  <2>5. \A e \in Traced : Stored(e)' /\ Given(e)'
    BY <2>4, GivenStays, StoredStays
  <2> QED
    BY <2>1, <2>3, <2>5 DEF TraceInv
<1>5. ASSUME NEW s \in Traces!Span, Traces!ExportTrace(s)
      PROVE  TraceInv'
  <2> USE <1>5 DEF Traces!ExportTrace
  <2> DEFINE e == s[1]
             list == traceStore[e]
  <2>1. e \in Traced /\ list \in Seq(Traces!Span) /\ Len(list) \in Nat /\ DOMAIN list = 1 .. Len(list)
    BY DEF TraceInv, TraceTyped
  <2>2. traceStore'[e] = Append(list, s) /\ \A d \in Traced \ {e} : traceStore'[d] = traceStore[d]
    BY <2>1 DEF TraceInv, TraceTyped
  <2>3. /\ span[s] = "sent" /\ span'[s] = "exporting"
        /\ \A t \in Traces!Span : t /= s => span'[t] = span[t]
    BY DEF TraceInv, TraceTyped
  <2>4. TraceTyped' /\ AttemptsCounted' /\ OneByOne'
    <3>1. Append(list, s) \in Seq(Traces!Span)
      BY <2>1
    <3> HIDE DEF list, e
    <3>2. traceStore' \in [Traced -> Seq(Traces!Span)]
      BY <2>1, <2>2, <3>1 DEF TraceInv, TraceTyped, e
    <3> QED
      BY <2>3, <3>2 DEF TraceInv, TraceTyped, TraceStages, AttemptsCounted, OneByOne
  <2>4a. GivenUpStays
    BY DEF GivenUpStays
  <2>5. \A d \in Traced : Given(d)'
    BY <2>4a, GivenStays
  <2>6. \A d \in Traced \ {e} : Stored(d)'
    BY <2>2, <2>3, <2>4a, StoredStays
  <2>7. Stored(e)
    BY <2>1 DEF TraceInv
  <2> HIDE DEF list, e
  <2>8. Stored(e)'
    <3> DEFINE longer == Append(list, s)
    <3>1. /\ DOMAIN longer = 1 .. Len(list) + 1 /\ longer[Len(list) + 1] = s
          /\ \A i \in 1 .. Len(list) : longer[i] = list[i] /\ list[i] \in Traces!Span
      BY <2>1
    <3> HIDE DEF longer
    <3>2. \A i \in 1 .. Len(list) : list[i][1] = e /\ span[list[i]] \in {"exporting", "exported"}
      BY <2>1, <2>7, <3>1 DEF Stored, Holds, list
    <3>3. \A t \in Traces!Span : Holds(longer, t) <=>
                                 t[1] = e /\ span'[t] \in {"exporting", "exported"}
      <4>1. \A t \in Traces!Span : Holds(longer, t) <=> Holds(list, t) \/ t = s
        BY <2>1, AppendHolds DEF longer
      <4> QED
        BY <2>3, <2>7, <4>1 DEF Stored, list, e
    <3>4. Traces!IsInjective(longer)
      <4>1. Traces!IsInjective(list) /\ ~ Holds(list, s)
        BY <2>3, <2>7 DEF Stored, list
      <4> QED
        BY <2>1, <4>1, AppendHolds DEF longer
    <3>5. InOrder(longer, returned, exports)
      <4>1. ASSUME NEW i \in 1 .. Len(list), ~ Late(s, returned, exports)
            PROVE  Traces!Earlier(list[i], s)
        <5> DEFINE t == list[i]
                   p == Traces!Of(s)
        <5>1. /\ t \in Traces!Span /\ t[1] = s[1] /\ t /= s /\ span[t] /= "none"
              /\ p \in Traces!Step /\ p[1] = s[1] /\ p[2] = s[2] /\ Traces!Of(t) \in Traces!Step
              /\ Traces!Of(t)[1] = t[1] /\ Traces!Of(t)[2] = t[2]
          BY <2>3, <3>1, <3>2 DEF e
        <5> HIDE DEF t, p
        <5>2. /\ exports[p] \in 0 .. ExportTries /\ ExportTries \in Nat /\ s[3] \in Nat /\ t[3] \in Nat
              /\ s[2] \in Nat /\ t[2] \in Nat /\ exports[Traces!Of(t)] \in Nat
          BY <5>1, TraceAssumption DEF TraceInv, TraceTyped
        <5>3. s[3] = exports[p] /\ returned[p] /= "failure" /\ t[3] <= exports[Traces!Of(t)]
          <6>1. s[3] <= exports[p] /\ t[3] <= exports[Traces!Of(t)]
            BY <2>3, <5>1 DEF TraceInv, AttemptsCounted, p
          <6> QED
            BY <4>1, <5>2, <6>1 DEF Late, p
        <5>4. returned[p] /= "success"
          BY <2>3, <5>3 DEF TraceInv, OneByOne, p
        <5>5. returned[Traces!Of(t)] /= "none"
          <6>1. exports[Traces!Of(t)] > 0
            BY <5>1, <5>2, <5>3
          <6> QED
            BY <5>1, <6>1 DEF TraceInv, AttemptsCounted
        <5>6. ~ s[2] < t[2]
          BY <5>1, <5>3, <5>4, <5>5 DEF TraceInv, OneByOne
        <5>7. CASE s[2] = t[2]
          <6>1. Traces!Of(t) = p
            BY <5>1, <5>7
          <6>2. t[3] /= s[3]
            BY <5>1, <5>7
          <6> QED
            BY <5>2, <5>3, <5>7, <6>1, <6>2 DEF Traces!Earlier, t
        <5>8. CASE t[2] < s[2]
          BY <5>8 DEF Traces!Earlier, t
        <5> QED
          BY <5>2, <5>6, <5>7, <5>8
      <4>3. ASSUME NEW i \in 1 .. Len(list) + 1, NEW j \in 1 .. Len(list) + 1, i < j
            PROVE  Traces!Earlier(longer[i], longer[j]) \/ Late(longer[j], returned, exports)
        <5>1. i \in 1 .. Len(list) /\ longer[i] = list[i]
          BY <2>1, <3>1, <4>3
        <5>2. CASE j = Len(list) + 1
          <6>1. longer[j] = s
            BY <3>1, <5>2
          <6> QED
            BY <4>1, <5>1, <6>1
        <5>3. CASE j \in 1 .. Len(list)
          <6>1. InOrder(list, returned, exports) /\ longer[j] = list[j]
            BY <2>7, <3>1, <5>3 DEF Stored, list
          <6> QED
            BY <2>1, <4>3, <5>1, <5>3, <6>1 DEF InOrder
        <5> QED
          BY <2>1, <5>2, <5>3
      <4> QED
        BY <3>1, <4>3 DEF InOrder
    <3> QED
      BY <2>2, <3>3, <3>4, <3>5 DEF Stored, longer
  <2> QED
    BY <2>4, <2>5, <2>6, <2>8 DEF TraceInv
<1>6. ASSUME NEW s \in Traces!Span, Traces!IngestFails(s)
      PROVE  TraceInv'
  <2> USE <1>6 DEF Traces!IngestFails
  <2>1. /\ span[s] = "exporting" /\ span'[s] = "exported"
        /\ \A t \in Traces!Span : t /= s => span'[t] = span[t]
    BY DEF TraceInv, TraceTyped
  <2>2. TraceTyped' /\ AttemptsCounted' /\ OneByOne' /\ GivenUpStays
    BY <2>1 DEF TraceInv, TraceTyped, TraceStages, AttemptsCounted, OneByOne, GivenUpStays
  <2>3. \A e \in Traced : Stored(e)' /\ Given(e)'
    BY <2>1, <2>2, GivenStays, StoredStays
  <2> QED
    BY <2>2, <2>3 DEF TraceInv
<1>7. ASSUME NEW e \in Traced, Traces!Replay(e)
      PROVE  TraceInv'
  <2> USE <1>7 DEF Traces!Replay
  <2> DEFINE given == [shown |-> traceStore[e], exported |-> Traces!Exported(e)]
  <2>1. given \in Replays
    BY DEF TraceInv, TraceTyped, Replays, Traces!Exported
  <2>2. given.shown = traceStore[e] /\ given.exported = Traces!Exported(e)
    OBVIOUS
  <2>3. replayed' = [replayed EXCEPT ![e] = given]
    OBVIOUS
  <2> HIDE DEF given
  <2>4. TraceTyped' /\ AttemptsCounted' /\ OneByOne' /\ GivenUpStays
    BY <2>1, <2>3 DEF TraceInv, TraceTyped, AttemptsCounted, OneByOne, GivenUpStays
  <2>5. \A d \in Traced : Stored(d)'
    BY <2>4, StoredStays
  <2>6. \A d \in Traced \ {e} : Given(d)'
    BY <2>3, <2>4, GivenStays DEF TraceInv, TraceTyped
  <2>7. Given(e)'
    <3>1. replayed'[e] = given
      BY <2>3 DEF TraceInv, TraceTyped
    <3> QED
      BY <2>2, <3>1 DEF Given, TraceInv, Stored, Traces!Exported
  <2> QED
    BY <2>4, <2>5, <2>6, <2>7 DEF TraceInv
<1>8. ASSUME Traces!Restart
      PROVE  TraceInv'
  <2> USE <1>8 DEF Traces!Restart
  <2>1. \A s \in Traces!Span :
          span'[s] = IF span[s] \in {"exporting", "exported"} THEN "lost" ELSE span[s]
    BY DEF TraceInv, TraceTyped
  <2>2. TraceTyped' /\ GivenUpStays
    BY DEF TraceInv, TraceTyped, TraceStages, GivenUpStays
  <2>3. AttemptsCounted' /\ OneByOne'
    BY <2>1 DEF TraceInv, AttemptsCounted, OneByOne
  <2>4. \A e \in Traced : Given(e)'
    BY <2>2, GivenStays
  <2>5. \A e \in Traced : Stored(e)'
    BY <2>1 DEF Stored, Holds, InOrder, Traces!IsInjective
  <2> QED
    BY <2>2, <2>3, <2>4, <2>5 DEF TraceInv
<1> QED
  BY <1>1, <1>2, <1>3, <1>4, <1>5, <1>6, <1>7, <1>8 DEF Traces!TraceNext

\* ReplayComplete of Platform (observability-plane/src): for any number of
\* executions, steps, attempts and restarts, a replay shows every span exported to
\* this process, none twice, and in the order of the steps and their attempts, but
\* for an attempt that Temporal or the workflow had given up.
THEOREM ReplaysShowAll == PlatformSpec => []ReplayComplete
<1>1. Init => TraceInv
  <2> SUFFICES ASSUME Traces!TraceInit
               PROVE  TraceInv
    BY DEF Init
  <2> USE DEF Traces!TraceInit
  <2>1. TraceTyped
    BY TraceAssumption DEF TraceTyped, TraceStages, TraceReturns, Replays
  <2>2. AttemptsCounted /\ OneByOne
    BY SpanParts DEF AttemptsCounted, OneByOne
  <2>3. \A e \in Traced : Stored(e) /\ Given(e)
    BY DEF Stored, Given, Holds, InOrder, Traces!IsInjective
  <2> QED
    BY <2>1, <2>2, <2>3 DEF TraceInv
<1>2. TraceInv /\ [Next]_vars => TraceInv'
  <2> SUFFICES ASSUME TraceInv, [Traces!TraceNext]_Traces!traceVars
               PROVE  TraceInv'
    BY TraceMoves
  <2>1. CASE UNCHANGED Traces!traceVars
    BY <2>1 DEF Traces!traceVars, TraceInv, TraceTyped, AttemptsCounted, OneByOne, Stored, Given
  <2> QED
    BY <2>1, TraceStepKeeps
<1>3. TraceInv => ReplayComplete
  <2> SUFFICES ASSUME TraceInv, NEW e \in Traced
               PROVE  LET shown == replayed[e].shown IN
                        /\ replayed[e].exported \subseteq Traces!ToSet(shown)
                        /\ Traces!IsInjective(shown)
                        /\ \A i, j \in DOMAIN shown :
                             i < j => Traces!Earlier(shown[i], shown[j]) \/ Traces!GivenUp(shown[j])
    BY DEF ReplayComplete, Traces!ReplayComplete
  <2>1. Given(e)
    BY DEF TraceInv
  <2> QED
    BY <2>1 DEF Given, Holds, InOrder, Late, Traces!GivenUp, Traces!ToSet
<1> QED
  BY <1>1, <1>2, <1>3, PTL DEF PlatformSpec


(***************************************************************************)
(* What filter and reduce return.                                          *)
(***************************************************************************)

\* What filter has kept after each entry.
Filtered(grown, log, these, S) ==
  /\ grown \in [0 .. Len(log) -> Seq(S)]
  /\ Limit!Among(log, these) = grown[Len(log)]
  /\ grown[0] = <<>>
  /\ \A i \in 1 .. Len(log) :
       grown[i] = IF log[i] \in these THEN Append(grown[i - 1], log[i]) ELSE grown[i - 1]

LEMMA AmongSteps ==
  ASSUME NEW S, NEW log, NEW these, log \in Seq(S)
  PROVE  \E grown : Filtered(grown, log, these, S)
<1> DEFINE n == Len(log)
           T == Seq(S)
           more(i, k) == IF log[i] \in these THEN Append(k, log[i]) ELSE k
           step == [i \in 1 .. n |-> [k \in T |-> more(i, k)]]
<1>1. n \in Nat /\ <<>> \in T /\ \A i \in 1 .. n : \A k \in T : more(i, k) \in T
  OBVIOUS
<1> HIDE DEF T, n, more
<1>2. step \in Steps(n, T)
  BY <1>1 DEF Steps
<1>3. \A i \in 1 .. n : \A k \in T : step[i][k] = more(i, k)
  OBVIOUS
<1> HIDE DEF step
<1>3a. n \in Nat /\ <<>> \in T
  BY <1>1
<1>3b. Solved(n, T, <<>>, step)
  BY <1>2, <1>3a, Recursion
<1>4. PICK f \in [0 .. n -> T] : f[0] = <<>> /\ \A i \in 1 .. n : f[i] = step[i][f[i - 1]]
  BY <1>3b DEF Solved
<1>5. \A i \in 1 .. n : f[i] = more(i, f[i - 1])
  <2> TAKE i \in 1 .. n
  <2>1. i - 1 \in 0 .. n
    BY <1>1
  <2> QED
    BY <1>3, <1>4, <2>1
<1>6. \A i \in 0 .. n : i /= 0 => i \in 1 .. n
  BY <1>1
<1>7. f = [i \in 0 .. n |-> IF i = 0 THEN <<>> ELSE more(i, f[i - 1])]
  BY <1>4, <1>5, <1>6
<1> DEFINE grown == CHOOSE g : g = [i \in 0 .. n |-> IF i = 0 THEN <<>> ELSE more(i, g[i - 1])]
<1>8. grown = [i \in 0 .. n |-> IF i = 0 THEN <<>> ELSE more(i, grown[i - 1])]
  BY <1>7
<1>9. Limit!Among(log, these) = grown[n]
  BY Zenon DEF Limit!Among, more, n
<1> HIDE DEF grown
<1>10. grown[0] = <<>> /\ \A i \in 1 .. n : grown[i] = more(i, grown[i - 1])
  BY <1>1, <1>8
<1>11. grown \in [0 .. n -> T]
  <2> DEFINE Typed == {i \in 0 .. n : grown[i] \in T}
  <2>1. 0 \in Typed
    BY <1>1, <1>10
  <2>2. ASSUME NEW i \in 1 .. n, i - 1 \in Typed
        PROVE  i \in Typed
    BY <1>1, <1>10, <2>2
  <2> HIDE DEF Typed
  <2>3. \A i \in 0 .. n : i \in Typed
    BY <1>1, <2>1, <2>2, CountUp
  <2> QED
    BY <1>8, <2>3 DEF Typed
<1> QED
  BY <1>9, <1>10, <1>11 DEF n, T, more, Filtered

LEMMA SumSteps ==
  ASSUME NEW numbers \in Seq(Nat)
  PROVE  \E sum \in [0 .. Len(numbers) -> Nat] :
           /\ Limit!SumUp(numbers) = sum[Len(numbers)]
           /\ sum[0] = 0
           /\ \A i \in 1 .. Len(numbers) : sum[i] = sum[i - 1] + numbers[i]
<1> DEFINE n == Len(numbers)
           more(i, k) == k + numbers[i]
           step == [i \in 1 .. n |-> [k \in Nat |-> more(i, k)]]
<1>1. n \in Nat /\ 0 \in Nat /\ \A i \in 1 .. n : \A k \in Nat : more(i, k) \in Nat
  OBVIOUS
<1> HIDE DEF n, more
<1>2. step \in Steps(n, Nat)
  BY <1>1 DEF Steps
<1>3. \A i \in 1 .. n : \A k \in Nat : step[i][k] = more(i, k)
  OBVIOUS
<1> HIDE DEF step
<1>3a. n \in Nat /\ 0 \in Nat
  BY <1>1
<1>3b. Solved(n, Nat, 0, step)
  BY <1>2, <1>3a, Recursion
<1>4. PICK f \in [0 .. n -> Nat] : f[0] = 0 /\ \A i \in 1 .. n : f[i] = step[i][f[i - 1]]
  BY <1>3b DEF Solved
<1>5. \A i \in 1 .. n : f[i] = more(i, f[i - 1])
  <2> TAKE i \in 1 .. n
  <2>1. i - 1 \in 0 .. n
    BY <1>1
  <2> QED
    BY <1>3, <1>4, <2>1
<1>6. \A i \in 0 .. n : i /= 0 => i \in 1 .. n
  BY <1>1
<1>7. f = [i \in 0 .. n |-> IF i = 0 THEN 0 ELSE more(i, f[i - 1])]
  BY <1>4, <1>5, <1>6
<1> DEFINE sum == CHOOSE g : g = [i \in 0 .. n |-> IF i = 0 THEN 0 ELSE more(i, g[i - 1])]
<1>8. sum = [i \in 0 .. n |-> IF i = 0 THEN 0 ELSE more(i, sum[i - 1])]
  BY <1>7
<1>9. Limit!SumUp(numbers) = sum[n]
  BY Zenon DEF Limit!SumUp, more, n
<1> HIDE DEF sum
<1>10. sum[0] = 0 /\ \A i \in 1 .. n : sum[i] = more(i, sum[i - 1])
  <2>1. 0 \in 0 .. n /\ \A i \in 1 .. n : i \in 0 .. n /\ i /= 0
    BY <1>1
  <2>2. \A i \in 0 .. n : sum[i] = IF i = 0 THEN 0 ELSE more(i, sum[i - 1])
    BY <1>8
  <2>3. sum[0] = 0
    BY <2>1, <2>2
  <2> QED
    BY <2>1, <2>2, <2>3
<1>11. sum \in [0 .. n -> Nat]
  <2> DEFINE Typed == {i \in 0 .. n : sum[i] \in Nat}
  <2>1. 0 \in Typed
    BY <1>1, <1>10
  <2>2. ASSUME NEW i \in 1 .. n, i - 1 \in Typed
        PROVE  i \in Typed
    <3>1. i \in 0 .. n /\ sum[i - 1] \in Nat
      BY <1>1, <2>2
    <3>2. more(i, sum[i - 1]) \in Nat /\ sum[i] = more(i, sum[i - 1])
      BY <1>1, <1>10, <3>1
    <3> QED
      BY <3>1, <3>2
  <2> HIDE DEF Typed
  <2>3. \A i \in 0 .. n : i \in Typed
    BY <1>1, <2>1, <2>2, CountUp
  <2> QED
    BY <1>8, <2>3 DEF Typed
<1> QED
  BY <1>9, <1>10, <1>11 DEF n, more

IsRest(rest, log, k) ==
  Len(rest) = Len(log) - k /\ \A i \in 1 .. Len(log) - k : rest[i] = log[k + i]

\* A log whose front is not among these and whose rest is: filter drops the front.
LEMMA AmongIsTheRest ==
  ASSUME NEW S, NEW log, NEW these, NEW k, log \in Seq(S), k \in 0 .. Len(log),
         \A i \in 1 .. k : log[i] \notin these,
         \A i \in k + 1 .. Len(log) : log[i] \in these
  PROVE  Limit!Among(log, these) \in Seq(S) /\ IsRest(Limit!Among(log, these), log, k)
<1> DEFINE n == Len(log)
<1>0. n \in Nat /\ k \in 0 .. n
  OBVIOUS
<1>0a. PICK grown : Filtered(grown, log, these, S)
  BY AmongSteps
<1>1. /\ grown \in [0 .. n -> Seq(S)]
      /\ Limit!Among(log, these) = grown[n]
      /\ grown[0] = <<>>
      /\ \A i \in 1 .. n :
           grown[i] = IF log[i] \in these THEN Append(grown[i - 1], log[i]) ELSE grown[i - 1]
  BY <1>0a DEF Filtered
<1>1a. \A i \in 1 .. n : log[i] \in S
  OBVIOUS
<1> HIDE DEF n
<1> DEFINE Reached(i) == IF i <= k THEN grown[i] = <<>>
                      ELSE Len(grown[i]) = i - k /\ \A j \in 1 .. i - k : grown[i][j] = log[k + j]
           Shown == {i \in 0 .. n : Reached(i)}
<1>2. 0 \in Shown
  BY <1>0, <1>1
<1>3. ASSUME NEW i \in 1 .. n, i - 1 \in Shown
      PROVE  i \in Shown
  <2>1. i - 1 \in 0 .. n /\ grown[i - 1] \in Seq(S) /\ log[i] \in S /\ Reached(i - 1)
    BY <1>0, <1>1, <1>1a, <1>3
  <2>2. CASE i <= k
    <3>1. log[i] \notin these /\ i - 1 <= k
      BY <1>0, <2>2
    <3>2. grown[i] = <<>>
      BY <1>1, <2>1, <3>1
    <3> QED
      BY <1>0, <2>2, <3>2
  <2>3. CASE ~ (i <= k)
    <3>1. log[i] \in these
      BY <1>0, <2>3 DEF n
    <3>2. grown[i] = Append(grown[i - 1], log[i])
      BY <1>1, <3>1
    <3>3. Len(grown[i - 1]) = i - 1 - k /\ \A j \in 1 .. i - 1 - k : grown[i - 1][j] = log[k + j]
      <4>1. CASE i - 1 <= k
        <5>1. i - 1 = k /\ grown[i - 1] = <<>>
          BY <1>0, <2>1, <2>3, <4>1
        <5> QED
          BY <1>0, <5>1
      <4>2. CASE ~ (i - 1 <= k)
        BY <2>1, <4>2
      <4> QED
        BY <4>1, <4>2
    <3>4. Len(grown[i]) = i - k
      BY <1>0, <2>1, <3>2, <3>3
    <3>5. ASSUME NEW j \in 1 .. i - k PROVE grown[i][j] = log[k + j]
      <4>1. CASE j = i - k
        BY <1>0, <2>1, <3>2, <3>3, <4>1
      <4>2. CASE j /= i - k
        <5>1. j \in 1 .. i - 1 - k
          BY <1>0, <4>2
        <5> QED
          BY <2>1, <3>2, <3>3, <5>1
      <4> QED
        BY <4>1, <4>2
    <3> QED
      BY <2>3, <3>4, <3>5
  <2> QED
    BY <2>2, <2>3
<1>4. \A i \in Shown : Reached(i)
  OBVIOUS
<1> HIDE DEF Shown
<1>5. \A i \in 0 .. n : i \in Shown
  BY <1>0, <1>2, <1>3, CountUp
<1>6. n \in 0 .. n
  BY <1>0
<1>7. Reached(n)
  BY <1>4, <1>5, <1>6
<1>8. Len(grown[n]) = n - k /\ \A j \in 1 .. n - k : grown[n][j] = log[k + j]
  <2>1. CASE n <= k
    <3>1. n = k /\ grown[n] = <<>>
      BY <1>0, <1>7, <2>1
    <3> QED
      BY <1>0, <3>1
  <2>2. CASE ~ (n <= k)
    BY <1>7, <2>2
  <2> QED
    BY <2>1, <2>2
<1> QED
  BY <1>1, <1>6, <1>8 DEF n, IsRest


\* What filter keeps is among these.
LEMMA AmongAreThese ==
  ASSUME NEW S, NEW log, NEW these, log \in Seq(S)
  PROVE  /\ Limit!Among(log, these) \in Seq(S)
         /\ \A i \in 1 .. Len(Limit!Among(log, these)) : Limit!Among(log, these)[i] \in these
<1> DEFINE n == Len(log)
<1>0. n \in Nat /\ \A i \in 1 .. n : log[i] \in S
  OBVIOUS
<1>1. PICK grown : Filtered(grown, log, these, S)
  BY AmongSteps
<1>1a. /\ \A i \in 0 .. n : grown[i] \in Seq(S)
       /\ Limit!Among(log, these) = grown[n]
       /\ grown[0] = <<>>
       /\ \A i \in 1 .. n :
            grown[i] = IF log[i] \in these THEN Append(grown[i - 1], log[i]) ELSE grown[i - 1]
  BY <1>1 DEF Filtered
<1> HIDE DEF n
<1> DEFINE All(row) == \A i \in 1 .. Len(row) : row[i] \in these
           Shown == {i \in 0 .. n : All(grown[i])}
<1>2. 0 \in Shown
  BY <1>0, <1>1a
<1>3. ASSUME NEW i \in 1 .. n, i - 1 \in Shown
      PROVE  i \in Shown
  <2>1. i \in 0 .. n /\ i - 1 \in 0 .. n /\ grown[i - 1] \in Seq(S) /\ log[i] \in S /\ All(grown[i - 1])
    BY <1>0, <1>1a, <1>3
  <2>2. CASE log[i] \in these
    <3>1. grown[i] = Append(grown[i - 1], log[i])
      BY <1>1a, <2>2
    <3>2. All(Append(grown[i - 1], log[i]))
      BY <2>1, <2>2
    <3> QED
      BY <2>1, <3>1, <3>2
  <2>3. CASE log[i] \notin these
    BY <1>1a, <2>1, <2>3
  <2> QED
    BY <2>2, <2>3
<1>4. \A i \in Shown : All(grown[i])
  OBVIOUS
<1> HIDE DEF Shown
<1>5. \A i \in 0 .. n : i \in Shown
  BY <1>0, <1>2, <1>3, CountUp
<1>6. n \in 0 .. n
  BY <1>0
<1> QED
  BY <1>1a, <1>4, <1>5, <1>6

(***************************************************************************)
(* The three counters of packages/shared.                                  *)
(***************************************************************************)

\* The bucket is the end of the log of admitted requests, and what is not in
\* it any more was admitted a window ago.
RateInv ==
  /\ now \in Nat /\ bucket \in Seq(Nat) /\ admitted \in Seq(Nat) /\ retryAt \in Nat
  /\ Len(bucket) <= MaxRequests /\ Len(bucket) <= Len(admitted)
  /\ \A i, j \in DOMAIN admitted : i <= j => admitted[i] <= admitted[j]
  /\ \A i \in DOMAIN admitted : admitted[i] <= now
  /\ \A i \in 1 .. Len(bucket) : bucket[i] = admitted[Len(admitted) - Len(bucket) + i]
  /\ \A i \in 1 .. Len(admitted) - Len(bucket) : admitted[i] + Window <= now
  /\ retryAt /= 0 /\ Len(bucket) = MaxRequests => bucket[1] + Window <= retryAt
  /\ Limit!SlidingRate

\* What is active of a bucket is its end.
LEMMA ActiveIsTheRest ==
  ASSUME RateInv
  PROVE  \E k \in 0 .. Len(bucket) :
           /\ \A i \in 1 .. k : bucket[i] + Window <= now
           /\ \A i \in k + 1 .. Len(bucket) : bucket[i] + Window > now
           /\ Limit!Active \in Seq(Nat) /\ IsRest(Limit!Active, bucket, k)
<1> DEFINE n == Len(bucket)
           live == {t \in 0 .. now : t + Window > now}
           Ks == {k \in 0 .. n : \A i \in k + 1 .. n : bucket[i] \in live}
<1>0. Window \in Nat /\ now \in Nat /\ bucket \in Seq(Nat) /\ n \in Nat
     /\ admitted \in Seq(Nat) /\ Len(admitted) \in Nat /\ DOMAIN admitted = 1 .. Len(admitted) /\ n <= Len(admitted)
  BY LimitAssumption DEF RateInv
<1> HIDE DEF n
<1>0a. /\ \A i, j \in 1 .. Len(admitted) : i <= j => admitted[i] <= admitted[j]
       /\ \A i \in 1 .. Len(admitted) : admitted[i] <= now /\ admitted[i] \in Nat
       /\ \A i \in 1 .. n : bucket[i] = admitted[Len(admitted) - n + i]
  <2>1. \A i, j \in DOMAIN admitted : i <= j => admitted[i] <= admitted[j]
    BY DEF RateInv
  <2>2. \A i \in DOMAIN admitted : admitted[i] <= now
    BY DEF RateInv
  <2>3. \A i \in 1 .. Len(bucket) : bucket[i] = admitted[Len(admitted) - Len(bucket) + i]
    BY DEF RateInv
  <2>4. \A i \in 1 .. Len(admitted) : admitted[i] \in Nat
    BY <1>0
  <2> QED
    BY <1>0, <2>1, <2>2, <2>3, <2>4 DEF n
<1>1. \A i \in 1 .. n : bucket[i] \in Nat /\ bucket[i] <= now
  <2> TAKE i \in 1 .. n
  <2>1. Len(admitted) - n + i \in 1 .. Len(admitted)
    BY <1>0
  <2> QED
    BY <1>0, <1>0a, <2>1
<1>2. \A i, j \in 1 .. n : i <= j => bucket[i] <= bucket[j]
  <2> TAKE i, j \in 1 .. n
  <2>1. /\ Len(admitted) - n + i \in 1 .. Len(admitted)
        /\ Len(admitted) - n + j \in 1 .. Len(admitted)
        /\ i <= j => Len(admitted) - n + i <= Len(admitted) - n + j
    BY <1>0
  <2> QED
    BY <1>0, <1>0a, <2>1
<1>3. \A i \in 1 .. n : bucket[i] \in live <=> bucket[i] + Window > now
  BY <1>0, <1>1
<1>4. Limit!Active = Limit!Among(bucket, live)
  BY DEF Limit!Active
<1>5. n \in Ks /\ Ks \subseteq Nat /\ \A k \in Ks : k \in 0 .. n /\ \A i \in k + 1 .. n : bucket[i] \in live
  <2>1. \A i \in n + 1 .. n : FALSE
    BY <1>0
  <2> QED
    BY <1>0, <2>1
<1>6. \A k \in 0 .. n : (\A i \in k + 1 .. n : bucket[i] \in live) => k \in Ks
  OBVIOUS
<1> HIDE DEF Ks, live
<1>7. PICK k \in Ks : \A y \in Ks : ~ (y < k)
  BY <1>5, LeastNatural
<1>8. k \in 0 .. n /\ \A i \in k + 1 .. n : bucket[i] \in live
  BY <1>5, <1>7
<1>9. ASSUME k > 0 PROVE bucket[k] \notin live
  <2> SUFFICES ASSUME bucket[k] \in live PROVE FALSE
    OBVIOUS
  <2>1. k - 1 \in 0 .. n /\ k - 1 < k
    BY <1>0, <1>8, <1>9
  <2>2. \A i \in (k - 1) + 1 .. n : i = k \/ i \in k + 1 .. n
    BY <1>0, <1>8
  <2>3. \A i \in (k - 1) + 1 .. n : bucket[i] \in live
    BY <1>8, <2>2
  <2> QED
    BY <1>6, <1>7, <2>1, <2>3
<1>10. \A i \in 1 .. k : bucket[i] \notin live
  <2> TAKE i \in 1 .. k
  <2>1. k > 0 /\ i \in 1 .. n /\ k \in 1 .. n /\ i <= k
    BY <1>0, <1>8
  <2>2. ~ (bucket[k] + Window > now) /\ bucket[i] <= bucket[k] /\ bucket[i] \in Nat /\ bucket[k] \in Nat
    BY <1>1, <1>2, <1>3, <1>9, <2>1
  <2> QED
    BY <1>0, <1>3, <2>1, <2>2
<1>10a. k \in 0 .. Len(bucket) /\ \A i \in k + 1 .. Len(bucket) : bucket[i] \in live
  BY <1>8 DEF n
<1>11. Limit!Among(bucket, live) \in Seq(Nat) /\ IsRest(Limit!Among(bucket, live), bucket, k)
  BY <1>0, <1>10, <1>10a, AmongIsTheRest
<1>12. /\ \A i \in 1 .. k : bucket[i] + Window <= now
       /\ \A i \in k + 1 .. n : bucket[i] + Window > now
  <2>1. \A i \in 1 .. k : i \in 1 .. n
    BY <1>0, <1>8
  <2>2. \A i \in k + 1 .. n : i \in 1 .. n
    BY <1>0, <1>8
  <2> QED
    BY <1>0, <1>1, <1>3, <1>8, <1>10, <2>1, <2>2
<1> QED
  BY <1>4, <1>8, <1>11, <1>12 DEF n

LEMMA RateHonest == RateInv => Limit!RetryHonest
<1> SUFFICES ASSUME RateInv, retryAt /= 0, now >= retryAt
             PROVE  Len(Limit!Active) < MaxRequests
  BY DEF Limit!RetryHonest
<1>1. PICK k \in 0 .. Len(bucket) :
        /\ \A i \in k + 1 .. Len(bucket) : bucket[i] + Window > now
        /\ Len(Limit!Active) = Len(bucket) - k
  BY ActiveIsTheRest DEF IsRest
<1>2. /\ now \in Nat /\ retryAt \in Nat /\ Window \in Nat /\ MaxRequests \in Nat \ {0}
      /\ Len(bucket) \in Nat /\ Len(bucket) <= MaxRequests
      /\ bucket \in Seq(Nat)
  BY LimitAssumption DEF RateInv
<1>3. CASE Len(bucket) < MaxRequests
  BY <1>1, <1>2, <1>3
<1>4. CASE Len(bucket) = MaxRequests
  <2>1. bucket[1] + Window <= retryAt /\ bucket[1] \in Nat
    BY <1>2, <1>4 DEF RateInv
  <2>2. ~ (bucket[1] + Window > now)
    BY <1>2, <2>1
  <2>3. k /= 0
    BY <1>1, <1>2, <1>4, <2>2
  <2> QED
    BY <1>1, <1>2, <2>3
<1> QED
  BY <1>2, <1>3, <1>4

\* The bucket shrinks to what is active in it.
LEMMA CleanedKeeps ==
  ASSUME RateInv, bucket' = Limit!Active, admitted' = admitted, now' = now,
         retryAt' = retryAt \/ (retryAt' = Head(Limit!Active) + Window /\ Len(Limit!Active) >= MaxRequests)
  PROVE  RateInv'
<1>1. PICK k \in 0 .. Len(bucket) :
        /\ \A i \in 1 .. k : bucket[i] + Window <= now
        /\ Limit!Active \in Seq(Nat)
        /\ Len(Limit!Active) = Len(bucket) - k
        /\ \A i \in 1 .. Len(bucket) - k : Limit!Active[i] = bucket[k + i]
  BY ActiveIsTheRest DEF IsRest
<1> DEFINE a == Limit!Active
           n == Len(admitted)
           b == Len(bucket)
<1>2. /\ now \in Nat /\ retryAt \in Nat /\ Window \in Nat /\ MaxRequests \in Nat \ {0}
      /\ n \in Nat /\ b \in Nat /\ b <= MaxRequests /\ b <= n /\ k \in 0 .. b
      /\ bucket \in Seq(Nat) /\ a \in Seq(Nat) /\ admitted \in Seq(Nat) /\ Len(a) = b - k
  BY <1>1, LimitAssumption DEF RateInv
<1>3. /\ \A i \in 1 .. b : bucket[i] = admitted[n - b + i]
      /\ \A i \in 1 .. n - b : admitted[i] + Window <= now
  BY DEF RateInv
<1>4. (\A i \in 1 .. k : bucket[i] + Window <= now) /\ (\A i \in 1 .. b - k : a[i] = bucket[k + i])
  BY <1>1
<1> HIDE DEF a, n, b
<1>5. ASSUME NEW i \in 1 .. Len(a) PROVE a[i] = admitted[n - Len(a) + i]
  <2>1. i \in 1 .. b - k /\ k + i \in 1 .. b /\ n - b + (k + i) = n - Len(a) + i
    BY <1>2
  <2> QED
    BY <1>3, <1>4, <2>1
<1>6. ASSUME NEW i \in 1 .. n - Len(a) PROVE admitted[i] + Window <= now
  <2>1. CASE i <= n - b
    BY <1>2, <1>3, <2>1
  <2>2. CASE i > n - b
    <3>1. i - (n - b) \in 1 .. k /\ i - (n - b) \in 1 .. b /\ n - b + (i - (n - b)) = i
      BY <1>2, <2>2
    <3> QED
      BY <1>3, <1>4, <3>1
  <2> QED
    BY <1>2, <2>1, <2>2
<1>7. ASSUME Len(a) = MaxRequests PROVE a[1] = bucket[1] /\ a[1] \in Nat /\ Head(a) = a[1] /\ b = MaxRequests
  <2>1. k = 0 /\ 1 \in 1 .. b - k /\ b = MaxRequests
    BY <1>2, <1>7
  <2> QED
    BY <1>2, <1>4, <1>7, <2>1
<1>8. retryAt' \in Nat /\ (retryAt' /= 0 /\ Len(a) = MaxRequests => a[1] + Window <= retryAt')
  <2>1. CASE retryAt' = retryAt
    <3>1. retryAt /= 0 /\ b = MaxRequests => bucket[1] + Window <= retryAt
      BY DEF RateInv, b
    <3> QED
      BY <1>2, <1>7, <2>1, <3>1
  <2>2. CASE retryAt' = Head(a) + Window /\ Len(a) >= MaxRequests
    <3>1. Len(a) = MaxRequests
      BY <1>2, <2>2
    <3> QED
      BY <1>2, <1>7, <2>2, <3>1
  <2> QED
    BY <2>1, <2>2 DEF a
<1>9. /\ \A i, j \in DOMAIN admitted : i <= j => admitted[i] <= admitted[j]
      /\ \A i \in DOMAIN admitted : admitted[i] <= now
      /\ Limit!SlidingRate
  BY DEF RateInv
<1>10. bucket' = a /\ Len(admitted) = n
  BY DEF a, n
<1>11. Limit!SlidingRate'
  BY <1>9 DEF Limit!SlidingRate, Limit!AtMost
<1>12. /\ now' \in Nat /\ bucket' \in Seq(Nat) /\ admitted' \in Seq(Nat) /\ retryAt' \in Nat
       /\ Len(bucket') <= MaxRequests /\ Len(bucket') <= Len(admitted')
  BY <1>2, <1>8, <1>10
<1>13. (/\ \A i, j \in DOMAIN admitted : i <= j => admitted[i] <= admitted[j]
        /\ \A i \in DOMAIN admitted : admitted[i] <= now)'
  BY <1>9
<1>14. (/\ \A i \in 1 .. Len(bucket) : bucket[i] = admitted[Len(admitted) - Len(bucket) + i]
        /\ \A i \in 1 .. Len(admitted) - Len(bucket) : admitted[i] + Window <= now)'
  BY <1>5, <1>6, <1>10
<1>15. (retryAt /= 0 /\ Len(bucket) = MaxRequests => bucket[1] + Window <= retryAt)'
  BY <1>8, <1>10
<1> QED
  BY <1>11, <1>12, <1>13, <1>14, <1>15 DEF RateInv

\* A request is let through: the one maxRequests before it has left the bucket.
LEMMA AdmittedKeeps == ASSUME RateInv, Limit!RateAdmits PROVE RateInv'
<1>1. PICK k \in 0 .. Len(bucket) :
        /\ \A i \in 1 .. k : bucket[i] + Window <= now
        /\ Limit!Active \in Seq(Nat)
        /\ Len(Limit!Active) = Len(bucket) - k
        /\ \A i \in 1 .. Len(bucket) - k : Limit!Active[i] = bucket[k + i]
  BY ActiveIsTheRest DEF IsRest
<1> DEFINE a == Limit!Active
           n == Len(admitted)
           b == Len(bucket)
<1>2. /\ now \in Nat /\ retryAt \in Nat /\ Window \in Nat /\ MaxRequests \in Nat \ {0}
      /\ n \in Nat /\ b \in Nat /\ b <= MaxRequests /\ b <= n /\ k \in 0 .. b
      /\ bucket \in Seq(Nat) /\ a \in Seq(Nat) /\ admitted \in Seq(Nat) /\ Len(a) = b - k
      /\ DOMAIN admitted = 1 .. n
  BY <1>1, LimitAssumption DEF RateInv
<1>3. /\ \A i \in 1 .. b : bucket[i] = admitted[n - b + i]
      /\ \A i \in 1 .. n - b : admitted[i] + Window <= now
  BY DEF RateInv
<1>4. (\A i \in 1 .. k : bucket[i] + Window <= now) /\ (\A i \in 1 .. b - k : a[i] = bucket[k + i])
  BY <1>1
<1>4a. /\ Len(a) < MaxRequests /\ bucket' = Append(a, now) /\ admitted' = Append(admitted, now)
       /\ now' = now /\ retryAt' = 0
  BY DEF Limit!RateAdmits
<1>4b. /\ \A i, j \in DOMAIN admitted : i <= j => admitted[i] <= admitted[j]
       /\ \A i \in DOMAIN admitted : admitted[i] <= now
  BY DEF RateInv
<1>4c. \A i \in DOMAIN admitted : i + MaxRequests \in DOMAIN admitted =>
         admitted[i + MaxRequests] >= admitted[i] + Window
  BY DEF RateInv, Limit!SlidingRate, Limit!AtMost
<1> HIDE DEF a, n, b
<1>5. ASSUME NEW i \in 1 .. Len(a) PROVE a[i] = admitted[n - Len(a) + i]
  <2>1. i \in 1 .. b - k /\ k + i \in 1 .. b /\ n - b + (k + i) = n - Len(a) + i
    BY <1>2
  <2> QED
    BY <1>3, <1>4, <2>1
<1>6. ASSUME NEW i \in 1 .. n - Len(a) PROVE admitted[i] + Window <= now
  <2>1. CASE i <= n - b
    BY <1>2, <1>3, <2>1
  <2>2. CASE i > n - b
    <3>1. i - (n - b) \in 1 .. k /\ i - (n - b) \in 1 .. b /\ n - b + (i - (n - b)) = i
      BY <1>2, <2>2
    <3> QED
      BY <1>3, <1>4, <3>1
  <2> QED
    BY <1>2, <2>1, <2>2
<1>7. /\ Len(admitted') = n + 1 /\ DOMAIN admitted' = 1 .. n + 1 /\ Len(bucket') = Len(a) + 1
      /\ admitted'[n + 1] = now /\ bucket'[Len(a) + 1] = now
      /\ admitted' \in Seq(Nat) /\ bucket' \in Seq(Nat)
  BY <1>2, <1>4a DEF n
<1>8. (\A i \in 1 .. n : admitted'[i] = admitted[i]) /\ (\A i \in 1 .. Len(a) : bucket'[i] = a[i])
  BY <1>2, <1>4a DEF n
<1>9. \A i \in 1 .. n + 1 : i = n + 1 \/ i \in 1 .. n
  BY <1>2
<1>10. /\ now' \in Nat /\ bucket' \in Seq(Nat) /\ admitted' \in Seq(Nat) /\ retryAt' \in Nat
       /\ Len(bucket') <= MaxRequests /\ Len(bucket') <= Len(admitted')
  BY <1>2, <1>4a, <1>7
<1>11. (\A i \in DOMAIN admitted : admitted[i] <= now)'
  BY <1>2, <1>4a, <1>4b, <1>7, <1>8, <1>9
<1>12. (\A i, j \in DOMAIN admitted : i <= j => admitted[i] <= admitted[j])'
  <2> SUFFICES ASSUME NEW i \in 1 .. n + 1, NEW j \in 1 .. n + 1, i <= j
               PROVE  admitted'[i] <= admitted'[j]
    BY <1>7
  <2>1. CASE j = n + 1
    BY <1>4a, <1>7, <1>11, <2>1
  <2>2. CASE j \in 1 .. n
    <3>1. i \in 1 .. n
      BY <1>2, <2>2
    <3> QED
      BY <1>2, <1>4b, <1>8, <2>2, <3>1
  <2> QED
    BY <1>9, <2>1, <2>2
<1>13. (\A i \in 1 .. Len(bucket) : bucket[i] = admitted[Len(admitted) - Len(bucket) + i])'
  <2> SUFFICES ASSUME NEW i \in 1 .. Len(a) + 1
               PROVE  bucket'[i] = admitted'[n - Len(a) + i]
    BY <1>2, <1>7
  <2>1. CASE i = Len(a) + 1
    BY <1>2, <1>7, <2>1
  <2>2. CASE i /= Len(a) + 1
    <3>1. i \in 1 .. Len(a) /\ n - Len(a) + i \in 1 .. n
      BY <1>2, <2>2
    <3> QED
      BY <1>5, <1>8, <3>1
  <2> QED
    BY <2>1, <2>2
<1>14. (\A i \in 1 .. Len(admitted) - Len(bucket) : admitted[i] + Window <= now)'
  <2> SUFFICES ASSUME NEW i \in 1 .. n - Len(a) PROVE admitted'[i] + Window <= now
    BY <1>2, <1>4a, <1>7
  <2>1. i \in 1 .. n
    BY <1>2
  <2> QED
    BY <1>6, <1>8, <2>1
<1>15. (\A i \in DOMAIN admitted : i + MaxRequests \in DOMAIN admitted =>
          admitted[i + MaxRequests] >= admitted[i] + Window)'
  <2> SUFFICES ASSUME NEW i \in 1 .. n + 1, i + MaxRequests \in 1 .. n + 1
               PROVE  admitted'[i + MaxRequests] >= admitted'[i] + Window
    BY <1>7
  <2>0. i \in 1 .. n
    BY <1>2
  <2>1. CASE i + MaxRequests = n + 1
    <3>1. i \in 1 .. n - Len(a)
      BY <1>2, <1>4a, <2>1
    <3>2. admitted[i] + Window <= now /\ admitted[i] \in Nat
      BY <1>2, <1>6, <2>0, <3>1
    <3> QED
      BY <1>2, <1>7, <1>8, <2>0, <2>1, <3>2
  <2>2. CASE i + MaxRequests \in 1 .. n
    <3>1. admitted[i + MaxRequests] >= admitted[i] + Window
      BY <1>2, <1>4c, <2>0, <2>2
    <3> QED
      BY <1>8, <2>0, <2>2, <3>1
  <2> QED
    BY <1>9, <2>1, <2>2
<1>16. Limit!SlidingRate'
  BY <1>15 DEF Limit!SlidingRate, Limit!AtMost
<1> QED
  BY <1>4a, <1>10, <1>11, <1>12, <1>13, <1>14, <1>16 DEF RateInv


RateVars == <<now, bucket, retryAt, admitted>>

LEMMA RateTypes ==
  ASSUME RateInv
  PROVE  now \in Nat /\ Window \in Nat /\ admitted \in Seq(Nat) /\ Len(admitted) \in Nat
         /\ Len(bucket) \in Nat /\ Len(bucket) <= Len(admitted)
  BY LimitAssumption DEF RateInv

\* Time passes for the three.
LEMMA RateKeeps ==
  ASSUME RateInv,
         \/ now' = now + 1 /\ UNCHANGED <<bucket, retryAt, admitted>>
         \/ Limit!RateNext
         \/ UNCHANGED RateVars
  PROVE  RateInv'
<1>1. CASE now' = now + 1 /\ UNCHANGED <<bucket, retryAt, admitted>>
  <2>1. \A i \in 1 .. Len(admitted) : admitted[i] \in Nat
    BY RateTypes
  <2>2. (\A i \in 1 .. Len(admitted) - Len(bucket) : admitted[i] + Window <= now)'
    <3> SUFFICES ASSUME NEW i \in 1 .. Len(admitted) - Len(bucket) PROVE admitted[i] + Window <= now + 1
      BY <1>1
    <3>1. i \in 1 .. Len(admitted)
      BY RateTypes
    <3>2. admitted[i] + Window <= now
      BY DEF RateInv
    <3> QED
      BY <2>1, <3>1, <3>2, RateTypes
  <2>3. (\A i \in DOMAIN admitted : admitted[i] <= now)'
    <3>1. \A i \in DOMAIN admitted : admitted[i] <= now /\ admitted[i] \in Nat
      BY <2>1, RateTypes DEF RateInv
    <3> QED
      BY <1>1, <3>1, RateTypes
  <2>4. Limit!SlidingRate'
    BY <1>1 DEF RateInv, Limit!SlidingRate, Limit!AtMost
  <2>5. now' \in Nat
    BY <1>1, RateTypes
  <2> QED
    BY <1>1, <2>2, <2>3, <2>4, <2>5 DEF RateInv
<1>2. CASE Limit!RateNext
  <2>1. CASE Limit!RateAdmits
    BY <2>1, AdmittedKeeps
  <2>2. CASE Limit!RateRefuses
    BY <2>2, CleanedKeeps DEF Limit!RateRefuses
  <2>3. CASE Limit!Cleanup
    BY <2>3, CleanedKeeps DEF Limit!Cleanup
  <2> QED
    BY <1>2, <2>1, <2>2, <2>3 DEF Limit!RateNext
<1>3. CASE UNCHANGED RateVars
  BY <1>3 DEF RateInv, RateVars, Limit!SlidingRate, Limit!AtMost
<1> QED
  BY <1>1, <1>2, <1>3

\* The last requests let through were counted in the entry, within its window;
\* the maxRequests before them in earlier ones, and the rest a window ago.
QuotaInv ==
  /\ now \in Nat /\ granted \in Seq(Nat) /\ entry \in [count : Nat, start : Nat]
  /\ entry.start <= now /\ entry.count <= MaxRequests /\ entry.count <= Len(granted)
  /\ \A i \in DOMAIN granted : granted[i] <= entry.start + Window /\ granted[i] <= now
  /\ \A i \in DOMAIN granted : i > Len(granted) - entry.count => entry.start <= granted[i]
  /\ \A i \in DOMAIN granted : i <= Len(granted) - entry.count => granted[i] < entry.start
  /\ \A i \in DOMAIN granted : i <= Len(granted) - entry.count - MaxRequests =>
       granted[i] + Window < entry.start
  /\ Limit!TwoWindows

QuotaVars == <<now, entry, granted>>

LEMMA GrantKeeps == ASSUME QuotaInv, Limit!QuotaAdmits PROVE QuotaInv'
<1> DEFINE n == Len(granted)
           c == entry.count
           s == entry.start
           d == entry'.count
           t == entry'.start
<1>1. /\ now \in Nat /\ Window \in Nat /\ MaxRequests \in Nat \ {0} /\ n \in Nat /\ c \in Nat /\ s \in Nat
      /\ s <= now /\ c <= MaxRequests /\ c <= n
      /\ granted \in Seq(Nat) /\ DOMAIN granted = 1 .. n
  BY LimitAssumption DEF QuotaInv
<1>2. /\ \A i \in 1 .. n : granted[i] \in Nat /\ granted[i] <= s + Window /\ granted[i] <= now
      /\ \A i \in 1 .. n : i <= n - c => granted[i] < s
      /\ \A i \in 1 .. n : i <= n - c - MaxRequests => granted[i] + Window < s
  <2>1. \A i \in DOMAIN granted : granted[i] <= s + Window /\ granted[i] <= now
    BY DEF QuotaInv
  <2>2. \A i \in DOMAIN granted : i <= n - c => granted[i] < s
    BY DEF QuotaInv
  <2>3. \A i \in DOMAIN granted : i <= n - c - MaxRequests => granted[i] + Window < s
    BY DEF QuotaInv
  <2>4. \A i \in 1 .. n : granted[i] \in Nat
    BY <1>1
  <2> HIDE DEF n, c, s
  <2> QED
    BY <1>1, <2>1, <2>2, <2>3, <2>4
<1>3. \A i \in 1 .. n : i > n - c => s <= granted[i]
  BY <1>1 DEF QuotaInv
<1>4. \A i \in 1 .. n : i + 2 * MaxRequests \in 1 .. n =>
        granted[i + 2 * MaxRequests] >= granted[i] + Window
  BY <1>1 DEF QuotaInv, Limit!TwoWindows, Limit!AtMost
<1>5. granted' = Append(granted, now) /\ now' = now
  BY DEF Limit!QuotaAdmits
<1>6. /\ entry' \in [count : Nat, start : Nat]
      /\ \/ s + Window < now /\ t = now /\ d = 1
         \/ s + Window >= now /\ t = s /\ d = c + 1 /\ c + 1 <= MaxRequests
  <2>1. entry \in [count : Nat, start : Nat]
    BY DEF QuotaInv
  <2>2. CASE s + Window < now
    <3>1. Limit!Current = [count |-> 0, start |-> now]
      BY <2>2 DEF Limit!Current
    <3> QED
      BY <1>1, <2>2, <3>1 DEF Limit!QuotaAdmits
  <2>3. CASE ~ (s + Window < now)
    <3>1. Limit!Current = entry
      BY <2>3 DEF Limit!Current
    <3>2. entry.count + 1 <= MaxRequests /\ entry' = [entry EXCEPT !.count = @ + 1]
      BY <3>1 DEF Limit!QuotaAdmits
    <3>3. d = c + 1 /\ t = s /\ entry' \in [count : Nat, start : Nat]
      BY <2>1, <3>2
    <3> QED
      BY <1>1, <2>3, <3>2, <3>3
  <2> QED
    BY <2>2, <2>3
<1>7. Len(granted') = n + 1 /\ DOMAIN granted' = 1 .. n + 1 /\ granted' \in Seq(Nat) /\ granted'[n + 1] = now
  BY <1>1, <1>5
<1>8. \A i \in 1 .. n : granted'[i] = granted[i]
  BY <1>1, <1>5
<1> HIDE DEF n, c, s, d, t
<1>9. t \in Nat /\ d \in Nat /\ t <= now /\ d <= MaxRequests /\ d <= n + 1 /\ now <= t + Window /\ s <= t
  BY <1>1, <1>6
<1>10. \A i \in 1 .. n + 1 : i = n + 1 \/ i \in 1 .. n
  BY <1>1
<1>11. \A i \in 1 .. n + 1 : granted'[i] <= t + Window /\ granted'[i] <= now
  <2> TAKE i \in 1 .. n + 1
  <2>1. CASE i = n + 1
    BY <1>1, <1>7, <1>9, <2>1
  <2>2. CASE i \in 1 .. n
    BY <1>1, <1>2, <1>8, <1>9, <2>2
  <2> QED
    BY <1>10, <2>1, <2>2
<1>12. ASSUME NEW i \in 1 .. n + 1, i > n + 1 - d PROVE t <= granted'[i]
  <2>1. CASE i = n + 1
    BY <1>7, <1>9, <2>1
  <2>2. CASE i \in 1 .. n
    <3>1. d = c + 1 /\ t = s /\ i > n - c
      BY <1>1, <1>6, <1>12, <2>2
    <3> QED
      BY <1>3, <1>8, <2>2, <3>1
  <2> QED
    BY <1>10, <2>1, <2>2
<1>13. ASSUME NEW i \in 1 .. n + 1, i <= n + 1 - d PROVE granted'[i] < t
  <2>1. i \in 1 .. n
    BY <1>1, <1>6, <1>10, <1>13
  <2>2. granted[i] < t
    BY <1>1, <1>2, <1>6, <1>13, <2>1
  <2> QED
    BY <1>8, <2>1, <2>2
<1>14. ASSUME NEW i \in 1 .. n + 1, i <= n + 1 - d - MaxRequests PROVE granted'[i] + Window < t
  <2>1. i \in 1 .. n
    BY <1>1, <1>6, <1>10, <1>14
  <2>2. granted[i] + Window < t
    <3>1. CASE s + Window < now /\ t = now /\ d = 1
      <4>1. i <= n - c
        BY <1>1, <1>14, <3>1
      <4> QED
        BY <1>1, <1>2, <2>1, <3>1, <4>1
    <3>2. CASE t = s /\ d = c + 1
      <4>1. i <= n - c - MaxRequests
        BY <1>1, <1>14, <3>2
      <4> QED
        BY <1>2, <2>1, <3>2, <4>1
    <3> QED
      BY <1>6, <3>1, <3>2
  <2> QED
    BY <1>8, <2>1, <2>2
<1>15. ASSUME NEW i \in 1 .. n + 1, i + 2 * MaxRequests \in 1 .. n + 1
       PROVE  granted'[i + 2 * MaxRequests] >= granted'[i] + Window
  <2>0. i \in 1 .. n /\ 2 * MaxRequests \in Nat
    BY <1>1, <1>15
  <2>1. CASE i + 2 * MaxRequests = n + 1
    <3>1. granted[i] + Window <= now
      <4>1. CASE s + Window < now
        <5>1. i <= n - c
          BY <1>1, <2>0, <2>1
        <5> QED
          BY <1>1, <1>2, <2>0, <4>1, <5>1
      <4>2. CASE c + 1 <= MaxRequests
        <5>1. i <= n - c - MaxRequests
          BY <1>1, <2>0, <2>1, <4>2
        <5> QED
          BY <1>1, <1>2, <2>0, <5>1
      <4> QED
        BY <1>6, <4>1, <4>2
    <3>2. granted[i] \in Nat
      BY <1>2, <2>0
    <3> QED
      BY <1>1, <1>7, <1>8, <2>0, <2>1, <3>1, <3>2
  <2>2. CASE i + 2 * MaxRequests \in 1 .. n
    BY <1>4, <1>8, <2>0, <2>2
  <2> QED
    BY <1>10, <1>15, <2>1, <2>2
<1>16. Limit!TwoWindows'
  <2>1. \A i \in DOMAIN granted' : i + 2 * MaxRequests \in DOMAIN granted' =>
          granted'[i + 2 * MaxRequests] >= granted'[i] + Window
    BY <1>7, <1>15
  <2> QED
    BY <2>1 DEF Limit!TwoWindows, Limit!AtMost
<1>17. /\ now' \in Nat /\ granted' \in Seq(Nat) /\ entry' \in [count : Nat, start : Nat]
       /\ entry'.start <= now' /\ entry'.count <= MaxRequests /\ entry'.count <= Len(granted')
  BY <1>1, <1>5, <1>6, <1>7, <1>9 DEF d, t
<1>18. Len(granted') = n + 1 /\ DOMAIN granted' = 1 .. n + 1
  BY <1>7
<1>19. \A i \in DOMAIN granted' : granted'[i] <= t + Window /\ granted'[i] <= now'
  BY <1>5, <1>11, <1>18
<1>20. \A i \in DOMAIN granted' : i > Len(granted') - d => t <= granted'[i]
  BY <1>1, <1>9, <1>12, <1>18
<1>21. \A i \in DOMAIN granted' : i <= Len(granted') - d => granted'[i] < t
  BY <1>1, <1>9, <1>13, <1>18
<1>22. \A i \in DOMAIN granted' : i <= Len(granted') - d - MaxRequests => granted'[i] + Window < t
  BY <1>1, <1>9, <1>14, <1>18
<1> QED
  BY <1>16, <1>17, <1>19, <1>20, <1>21, <1>22 DEF QuotaInv, d, t

LEMMA QuotaKeeps ==
  ASSUME QuotaInv,
         \/ now' = now + 1 /\ UNCHANGED <<entry, granted>>
         \/ Limit!QuotaNext
         \/ UNCHANGED QuotaVars
  PROVE  QuotaInv'
<1>0. now \in Nat /\ Window \in Nat /\ MaxRequests \in Nat \ {0}
      /\ entry.count \in Nat /\ entry.start \in Nat /\ entry.start <= now
      /\ granted \in Seq(Nat) /\ \A i \in DOMAIN granted : granted[i] <= now
  BY LimitAssumption DEF QuotaInv
<1>1. ASSUME UNCHANGED <<entry, granted>>, now' \in {now, now + 1}
      PROVE  QuotaInv'
  <2>1. now' \in Nat /\ entry'.start <= now'
    BY <1>0, <1>1
  <2>2. \A i \in DOMAIN granted' : granted'[i] <= now'
    BY <1>0, <1>1
  <2>3. Limit!TwoWindows'
    BY <1>1 DEF QuotaInv, Limit!TwoWindows, Limit!AtMost
  <2> QED
    BY <1>1, <2>1, <2>2, <2>3 DEF QuotaInv
<1>2. CASE Limit!QuotaRefuses
  <2>1. Limit!Current = entry
    BY <1>0, <1>2 DEF Limit!QuotaRefuses, Limit!Current
  <2> QED
    BY <1>1, <1>2, <2>1 DEF Limit!QuotaRefuses
<1> QED
  BY <1>1, <1>2, GrantKeeps DEF Limit!QuotaNext, QuotaVars


Receipts == [at : Nat, tokens : Nat]

\* What the first requests were given, for each number of them.
Adds(p) ==
  /\ p \in [0 .. Len(spent) -> Nat] /\ p[0] = 0
  /\ \A i \in 1 .. Len(spent) : p[i] = p[i - 1] + spent[i].tokens

Grows(p) == \A i, j \in 0 .. Len(spent) : i <= j => p[i] <= p[j]

\* With d requests before the day that began at start, and e before the day
\* before it, the day's were given tokens.
Days(p, d, e, given, start) ==
  /\ d \in 0 .. Len(spent) /\ e \in 0 .. d
  /\ p[Len(spent)] = p[d] + given /\ p[d] <= p[e] + MaxTokens
  /\ \A i \in 1 .. Len(spent) : spent[i].at < start + Limit!Day
  /\ \A i \in 1 .. d : spent[i].at < start
  /\ \A i \in 1 .. e : spent[i].at + Limit!Day <= start

Spares(p) == \A i, j \in 1 .. Len(spent) :
  i <= j /\ spent[j].at < spent[i].at + Limit!Day => p[j] <= p[i - 1] + 2 * MaxTokens

BudgetTyped ==
  /\ now \in Nat /\ spent \in Seq(Receipts)
  /\ state \in [tokens : Nat, requests : Nat, minute : Nat, day : Nat]
  /\ state.tokens <= MaxTokens /\ state.day <= now

BudgetInv ==
  /\ BudgetTyped
  /\ \E p : Adds(p) /\ Grows(p) /\ Spares(p) /\ \E d, e \in Nat : Days(p, d, e, state.tokens, state.day)

\* The tokens of some requests in a row.
LEMMA SumIsDifference ==
  ASSUME spent \in Seq(Receipts), NEW p, Adds(p),
         NEW i \in 1 .. Len(spent), NEW j \in i .. Len(spent)
  PROVE  Limit!SumOf(SubSeq(spent, i, j)) = p[j] - p[i - 1]
<1> DEFINE row == SubSeq(spent, i, j)
           m == j - i + 1
           numbers == [k \in 1 .. Len(row) |-> row[k].tokens]
<1>1. Len(spent) \in Nat /\ m \in Nat /\ i + m - 1 = j
  OBVIOUS
<1>2. Len(row) = m /\ \A k \in 1 .. m : row[k] = spent[i + k - 1] /\ row[k] \in Receipts
  OBVIOUS
<1>3. Limit!SumOf(row) = Limit!SumUp(numbers)
  BY DEF Limit!SumOf
<1> HIDE DEF row, m
<1>4. /\ numbers \in Seq(Nat) /\ Len(numbers) = m
      /\ \A k \in 1 .. m : numbers[k] = spent[i - 1 + k].tokens
  <2>1. \A k \in 1 .. m : row[k].tokens \in Nat
    BY <1>2 DEF Receipts
  <2>2. \A k \in 1 .. m : i + k - 1 = i - 1 + k
    BY <1>1
  <2>3. \A k \in 1 .. m : row[k] = spent[i - 1 + k]
    BY <1>2, <2>2
  <2> QED
    BY <1>1, <1>2, <2>1, <2>3
<1> HIDE DEF numbers
<1>5. PICK sum \in [0 .. m -> Nat] :
        /\ Limit!SumUp(numbers) = sum[m] /\ sum[0] = 0
        /\ \A k \in 1 .. m : sum[k] = sum[k - 1] + numbers[k]
  BY <1>4, SumSteps
<1>6. p \in [0 .. Len(spent) -> Nat] /\ \A k \in 1 .. Len(spent) : p[k] = p[k - 1] + spent[k].tokens
  BY DEF Adds
<1> DEFINE Same == {k \in 0 .. m : sum[k] = p[i - 1 + k] - p[i - 1]}
<1>7. 0 \in Same
  <2>1. i - 1 \in 0 .. Len(spent) /\ i - 1 + 0 = i - 1 /\ 0 \in 0 .. m
    BY <1>1
  <2>2. p[i - 1] \in Nat
    BY <1>6, <2>1
  <2>3. sum[0] = p[i - 1 + 0] - p[i - 1]
    BY <1>5, <2>1, <2>2
  <2> QED
    BY <2>1, <2>3
<1>8. ASSUME NEW k \in 1 .. m, k - 1 \in Same
      PROVE  k \in Same
  <2>1. /\ i - 1 + k \in 1 .. Len(spent) /\ i - 1 + k - 1 \in 0 .. Len(spent) /\ i - 1 \in 0 .. Len(spent)
        /\ i - 1 + (k - 1) = i - 1 + k - 1 /\ i + k - 1 = i - 1 + k /\ k - 1 \in 0 .. m
    BY <1>1
  <2>2. sum[k - 1] = p[i - 1 + k - 1] - p[i - 1]
    BY <1>8, <2>1
  <2>3. sum[k] = sum[k - 1] + spent[i - 1 + k].tokens
    <3>1. sum[k] = sum[k - 1] + numbers[k] /\ numbers[k] = spent[i - 1 + k].tokens
      BY <1>4, <1>5
    <3> QED
      BY <3>1
  <2>4. p[i - 1 + k] = p[i - 1 + k - 1] + spent[i - 1 + k].tokens
    <3> PICK x \in 1 .. Len(spent) : x = i - 1 + k
      BY <2>1
    <3>1. p[x] = p[x - 1] + spent[x].tokens
      BY <1>6
    <3> QED
      BY <3>1
  <2>5. spent[i - 1 + k] \in Receipts
    BY <2>1
  <2>5a. spent[i - 1 + k].tokens \in Nat
    BY <2>5 DEF Receipts
  <2>6. p[i - 1 + k - 1] \in Nat /\ p[i - 1] \in Nat
    BY <1>6, <2>1
  <2> QED
    BY <2>2, <2>3, <2>4, <2>5a, <2>6
<1>9. \A k \in Same : sum[k] = p[i - 1 + k] - p[i - 1]
  OBVIOUS
<1> HIDE DEF Same
<1>10. \A k \in 0 .. m : k \in Same
  BY <1>1, <1>7, <1>8, CountUp
<1>11. m \in 0 .. m /\ i - 1 + m = j
  BY <1>1
<1>12. sum[m] = p[j] - p[i - 1]
  BY <1>9, <1>10, <1>11
<1> QED
  BY <1>3, <1>5, <1>12 DEF row

LEMMA BudgetIsKept == BudgetInv => Limit!BudgetKept
<1> SUFFICES ASSUME BudgetInv, NEW i \in DOMAIN spent, NEW j \in DOMAIN spent,
                    spent[j].at < spent[i].at + Limit!Day
             PROVE  Limit!SumOf(SubSeq(spent, i, j)) <= 2 * MaxTokens
  BY DEF Limit!BudgetKept
<1>1. spent \in Seq(Receipts) /\ MaxTokens \in Nat /\ i \in 1 .. Len(spent) /\ j \in 1 .. Len(spent)
      /\ Len(spent) \in Nat
  BY LimitAssumption DEF BudgetInv, BudgetTyped
<1>2. PICK p : Adds(p) /\ Spares(p)
  BY DEF BudgetInv
<1>3. CASE i <= j
  <2>1. j \in i .. Len(spent)
    BY <1>1, <1>3
  <2>2. Limit!SumOf(SubSeq(spent, i, j)) = p[j] - p[i - 1]
    BY <1>1, <1>2, <2>1, SumIsDifference
  <2>3. p[j] <= p[i - 1] + 2 * MaxTokens
    BY <1>1, <1>2, <1>3 DEF Spares
  <2>4. p[j] \in Nat /\ p[i - 1] \in Nat
    <3>1. j \in 0 .. Len(spent) /\ i - 1 \in 0 .. Len(spent)
      BY <1>1
    <3> QED
      BY <1>2, <3>1 DEF Adds
  <2> QED
    BY <1>1, <2>2, <2>3, <2>4
<1>4. CASE ~ (i <= j)
  <2> DEFINE numbers == [k \in 1 .. 0 |-> SubSeq(spent, i, j)[k].tokens]
  <2>1. Len(SubSeq(spent, i, j)) = 0
    BY <1>1, <1>4
  <2>2. Limit!SumOf(SubSeq(spent, i, j)) = Limit!SumUp(numbers)
    BY <2>1 DEF Limit!SumOf
  <2>3. numbers \in Seq(Nat) /\ Len(numbers) = 0
    OBVIOUS
  <2> HIDE DEF numbers
  <2>4. Limit!SumUp(numbers) = 0
    BY <2>3, SumSteps
  <2> QED
    BY <1>1, <2>2, <2>4
<1> QED
  BY <1>3, <1>4

\* The windows roll: a day that is over becomes the day before.
LEMMA RollKeeps ==
  ASSUME BudgetInv
  PROVE  /\ Limit!Rolled \in [tokens : Nat, requests : Nat, minute : Nat, day : Nat]
         /\ \/ Limit!Rolled.day = state.day /\ Limit!Rolled.tokens = state.tokens
               /\ now < state.day + Limit!Day
            \/ Limit!Rolled.day = now /\ Limit!Rolled.tokens = 0 /\ now >= state.day + Limit!Day
<1> DEFINE today == IF now >= state.day + Limit!Day THEN [state EXCEPT !.tokens = 0, !.day = now]
                    ELSE state
<1>1. /\ now \in Nat /\ Limit!Day \in Nat
      /\ state \in [tokens : Nat, requests : Nat, minute : Nat, day : Nat]
  BY LimitAssumption DEF BudgetInv, BudgetTyped, Limit!Day
<1>2. /\ today \in [tokens : Nat, requests : Nat, minute : Nat, day : Nat]
      /\ \/ today.day = state.day /\ today.tokens = state.tokens /\ now < state.day + Limit!Day
         \/ today.day = now /\ today.tokens = 0 /\ now >= state.day + Limit!Day
  <2>1. CASE now >= state.day + Limit!Day
    <3>1. today = [state EXCEPT !.tokens = 0, !.day = now]
      BY <2>1
    <3> HIDE DEF today
    <3> QED
      BY <1>1, <2>1, <3>1
  <2>2. CASE ~ (now >= state.day + Limit!Day)
    <3>1. today = state
      BY <2>2
    <3>2. now < state.day + Limit!Day
      BY <1>1, <2>2
    <3> HIDE DEF today
    <3> QED
      BY <1>1, <3>1, <3>2
  <2> QED
    BY <2>1, <2>2
<1>3. Limit!Rolled = IF now >= today.minute + Window
                     THEN [today EXCEPT !.requests = 0, !.minute = now] ELSE today
  BY DEF Limit!Rolled
<1> HIDE DEF today
<1>4. /\ Limit!Rolled \in [tokens : Nat, requests : Nat, minute : Nat, day : Nat]
      /\ Limit!Rolled.day = today.day /\ Limit!Rolled.tokens = today.tokens
  BY <1>1, <1>2, <1>3
<1> QED
  BY <1>2, <1>4

LEMMA DaysRoll ==
  ASSUME BudgetTyped, NEW p, Adds(p), NEW d \in Nat, NEW e \in Nat,
         Days(p, d, e, state.tokens, state.day),
         NEW given \in Nat, NEW start \in Nat,
         \/ start = state.day /\ given = state.tokens /\ now < state.day + Limit!Day
         \/ start = now /\ given = 0 /\ now >= state.day + Limit!Day
  PROVE  /\ start <= now /\ now < start + Limit!Day /\ given <= MaxTokens
         /\ \E f, g \in Nat : Days(p, f, g, given, start)
<1> DEFINE n == Len(spent)
           begun == state.day
           had == state.tokens
<1>1. /\ now \in Nat /\ Limit!Day \in Nat \ {0} /\ MaxTokens \in Nat /\ begun \in Nat /\ had \in Nat
      /\ had <= MaxTokens /\ begun <= now /\ spent \in Seq(Receipts) /\ n \in Nat
  <2>1. Window \in Nat \ {0} /\ MaxTokens \in Nat
    BY LimitAssumption
  <2>2. Limit!Day \in Nat \ {0}
    BY <2>1 DEF Limit!Day
  <2> QED
    BY <2>1, <2>2 DEF BudgetTyped
<1>2. \/ start = begun /\ given = had /\ now < begun + Limit!Day
      \/ start = now /\ given = 0 /\ now >= begun + Limit!Day
  OBVIOUS
<1>3. /\ d \in 0 .. n /\ e \in 0 .. d
      /\ p[n] = p[d] + had /\ p[d] <= p[e] + MaxTokens
      /\ \A i \in 1 .. n : spent[i].at < begun + Limit!Day
      /\ \A i \in 1 .. d : spent[i].at < begun
      /\ \A i \in 1 .. e : spent[i].at + Limit!Day <= begun
  BY DEF Days
<1>4. \A i \in 1 .. n : spent[i].at \in Nat
  <2>1. \A i \in 1 .. n : spent[i] \in Receipts
    BY <1>1
  <2> QED
    BY <2>1 DEF Receipts
<1>5. p[n] \in Nat /\ p[d] \in Nat
  <2>1. n \in 0 .. n
    BY <1>1
  <2> QED
    BY <1>3, <2>1 DEF Adds
<1>6. CASE start = begun /\ given = had /\ now < begun + Limit!Day
  BY <1>1, <1>6
<1>7. CASE start = now /\ given = 0 /\ now >= begun + Limit!Day
  <2> HIDE DEF n, begun, had
  <2>1. start <= now /\ now < start + Limit!Day /\ given <= MaxTokens
    BY <1>1, <1>7
  <2>2. n \in 0 .. n /\ d \in 0 .. n /\ p[n] = p[n] + given /\ p[n] <= p[d] + MaxTokens
    BY <1>1, <1>3, <1>5, <1>7
  <2>3. \A i \in 1 .. n : spent[i].at < start + Limit!Day /\ spent[i].at < start
    BY <1>1, <1>3, <1>4, <1>7
  <2>4. \A i \in 1 .. d : spent[i].at + Limit!Day <= start
    <3> TAKE i \in 1 .. d
    <3>1. i \in 1 .. n /\ spent[i].at < begun
      BY <1>1, <1>3
    <3> QED
      BY <1>1, <1>4, <1>7, <3>1
  <2>5. Days(p, n, d, given, start)
    BY <2>2, <2>3, <2>4 DEF Days, n
  <2> QED
    BY <1>1, <2>1, <2>5
<1> QED
  BY <1>2, <1>6, <1>7

\* Nothing is spent, and the day is what getState made of it.
LEMMA ConsultKeeps == ASSUME BudgetInv, Limit!Consult PROVE BudgetInv'
<1>0. state' = Limit!Rolled /\ spent' = spent /\ now' = now
  BY DEF Limit!Consult
<1>1. PICK p : Adds(p) /\ Grows(p) /\ Spares(p) /\ \E d, e \in Nat : Days(p, d, e, state.tokens, state.day)
  BY DEF BudgetInv
<1>2. PICK d \in Nat, e \in Nat : Days(p, d, e, state.tokens, state.day)
  BY <1>1
<1>3. BudgetTyped
  BY DEF BudgetInv
<1>4. /\ state' \in [tokens : Nat, requests : Nat, minute : Nat, day : Nat]
      /\ \/ state'.day = state.day /\ state'.tokens = state.tokens /\ now < state.day + Limit!Day
         \/ state'.day = now /\ state'.tokens = 0 /\ now >= state.day + Limit!Day
  BY <1>0, RollKeeps
<1>5. state'.tokens \in Nat /\ state'.day \in Nat
  BY <1>4
<1>6. /\ state'.day <= now /\ state'.tokens <= MaxTokens
      /\ \E f, g \in Nat : Days(p, f, g, state'.tokens, state'.day)
  BY <1>1, <1>2, <1>3, <1>4, <1>5, DaysRoll
<1>7. PICK f \in Nat, g \in Nat : Days(p, f, g, state'.tokens, state'.day)
  BY <1>6
<1>8. BudgetTyped'
  BY <1>0, <1>3, <1>4, <1>6 DEF BudgetTyped
<1>9. Adds(p)' /\ Grows(p)' /\ Spares(p)'
  BY <1>0, <1>1 DEF Adds, Grows, Spares
<1>10. Days(p, f, g, state.tokens, state.day)'
  BY <1>0, <1>7 DEF Days
<1> QED
  BY <1>8, <1>9, <1>10 DEF BudgetInv

LEMMA Charged ==
  ASSUME NEW r \in [tokens : Nat, requests : Nat, minute : Nat, day : Nat], NEW t \in Nat
  PROVE  LET s == [r EXCEPT !.requests = @ + 1, !.tokens = @ + t]
         IN /\ s \in [tokens : Nat, requests : Nat, minute : Nat, day : Nat]
            /\ s.tokens = r.tokens + t /\ s.day = r.day
<1> DEFINE s == [r EXCEPT !.requests = @ + 1, !.tokens = @ + t]
           count == r.requests + 1
           sum == r.tokens + t
<1>1. count \in Nat /\ sum \in Nat /\ s = [[r EXCEPT !.requests = count] EXCEPT !.tokens = sum]
  OBVIOUS
<1> HIDE DEF s, count, sum
<1>2. s \in [tokens : Nat, requests : Nat, minute : Nat, day : Nat] /\ s.tokens = sum /\ s.day = r.day
  BY <1>1
<1> QED
  BY <1>2 DEF s, sum

\* A request's tokens are added to the day's.
LEMMA ConsumeKeeps == ASSUME BudgetInv, NEW t \in Nat, Limit!Consume(t) PROVE BudgetInv'
<1> DEFINE n == Len(spent)
           given == Limit!Rolled.tokens
           start == Limit!Rolled.day
           receipt == [at |-> now, tokens |-> t]
<1>0. /\ state' = [Limit!Rolled EXCEPT !.requests = @ + 1, !.tokens = @ + t]
      /\ given + t <= MaxTokens
      /\ spent' = Append(spent, receipt) /\ now' = now
  BY DEF Limit!Consume, Limit!Affordable
<1>1. PICK p : Adds(p) /\ Grows(p) /\ Spares(p) /\ \E d, e \in Nat : Days(p, d, e, state.tokens, state.day)
  BY DEF BudgetInv
<1>2. PICK d \in Nat, e \in Nat : Days(p, d, e, state.tokens, state.day)
  BY <1>1
<1>3. BudgetTyped
  BY DEF BudgetInv
<1>3a. now \in Nat /\ spent \in Seq(Receipts) /\ receipt \in Receipts /\ n \in Nat /\ MaxTokens \in Nat
       /\ Limit!Day \in Nat \ {0}
  <2>1. Window \in Nat \ {0} /\ MaxTokens \in Nat
    BY LimitAssumption
  <2>2. Limit!Day \in Nat \ {0}
    BY <2>1 DEF Limit!Day
  <2> QED
    BY <1>3, <2>1, <2>2 DEF BudgetTyped, Receipts
<1>4. /\ Limit!Rolled \in [tokens : Nat, requests : Nat, minute : Nat, day : Nat]
      /\ \/ start = state.day /\ given = state.tokens /\ now < state.day + Limit!Day
         \/ start = now /\ given = 0 /\ now >= state.day + Limit!Day
  BY RollKeeps
<1>5. given \in Nat /\ start \in Nat
  BY <1>4
<1>6. /\ start <= now /\ now < start + Limit!Day /\ given <= MaxTokens
      /\ \E f, g \in Nat : Days(p, f, g, given, start)
  BY <1>1, <1>2, <1>3, <1>4, <1>5, DaysRoll
<1>7. PICK f \in Nat, g \in Nat : Days(p, f, g, given, start)
  BY <1>6
<1>8. /\ state' \in [tokens : Nat, requests : Nat, minute : Nat, day : Nat]
      /\ state'.tokens = given + t /\ state'.day = start
  BY <1>0, <1>4, Charged
<1>9. /\ Len(spent') = n + 1 /\ spent' \in Seq(Receipts) /\ spent'[n + 1] = receipt
      /\ \A i \in 1 .. n : spent'[i] = spent[i]
  BY <1>0, <1>3a
<1>10. receipt.at = now /\ receipt.tokens = t
  OBVIOUS
<1>11. \A i \in 1 .. n : spent[i].at \in Nat
  <2>1. \A i \in 1 .. n : spent[i] \in Receipts
    BY <1>3a
  <2> QED
    BY <2>1 DEF Receipts
<1> HIDE DEF n, given, start, receipt
<1>9a. Len(spent') = n + 1
  BY <1>9
<1>9b. given + t <= MaxTokens
  BY <1>0
<1>12. /\ p \in [0 .. n -> Nat] /\ p[0] = 0
       /\ \A i \in 1 .. n : p[i] = p[i - 1] + spent[i].tokens
  BY <1>1 DEF Adds, n
<1>13. /\ \A i, j \in 0 .. n : i <= j => p[i] <= p[j]
       /\ \A i, j \in 1 .. n : i <= j /\ spent[j].at < spent[i].at + Limit!Day =>
            p[j] <= p[i - 1] + 2 * MaxTokens
  BY <1>1 DEF Grows, Spares, n
<1>14. /\ f \in 0 .. n /\ g \in 0 .. f
       /\ p[n] = p[f] + given /\ p[f] <= p[g] + MaxTokens
       /\ \A i \in 1 .. n : spent[i].at < start + Limit!Day
       /\ \A i \in 1 .. f : spent[i].at < start
       /\ \A i \in 1 .. g : spent[i].at + Limit!Day <= start
  BY <1>7 DEF Days, n
<1>14a. p[n] = p[f] + given /\ p[f] <= p[g] + MaxTokens /\ f \in 0 .. n /\ g \in 0 .. n
  BY <1>3a, <1>14
<1>14b. p[n] \in Nat /\ p[f] \in Nat /\ p[g] \in Nat /\ given \in Nat /\ MaxTokens \in Nat
  <2>1. n \in 0 .. n
    BY <1>3a
  <2> QED
    BY <1>3a, <1>5, <1>12, <1>14a, <2>1
<1>15. \A i \in 0 .. n + 1 : i = n + 1 \/ (i \in 0 .. n /\ i /= n + 1)
  BY <1>3a
<1>16. /\ n \in 0 .. n /\ n + 1 \in 0 .. n + 1 /\ p[n] \in Nat
       /\ \A i \in 0 .. n : i \in 0 .. n + 1 /\ i /= n + 1 /\ p[i] \in Nat
  BY <1>3a, <1>12
<1>17. PICK q \in [0 .. n + 1 -> Nat] : q[n + 1] = p[n] + t /\ \A i \in 0 .. n : q[i] = p[i]
  <2> DEFINE longer == [i \in 0 .. n + 1 |-> IF i = n + 1 THEN p[n] + t ELSE p[i]]
  <2>1. longer \in [0 .. n + 1 -> Nat]
    BY <1>15, <1>16
  <2>2. longer[n + 1] = p[n] + t /\ \A i \in 0 .. n : longer[i] = p[i]
    BY <1>16
  <2> HIDE DEF longer
  <2> QED
    BY <2>1, <2>2
<1>18. q[n + 1] = p[n] + t /\ \A i \in 0 .. n : q[i] = p[i]
  BY <1>17
<1>19. \A i \in 1 .. n + 1 : i = n + 1 \/ i \in 1 .. n
  BY <1>3a
<1>20. Adds(q)'
  <2>1. q[0] = 0
    BY <1>3a, <1>12, <1>18
  <2>2. ASSUME NEW i \in 1 .. n + 1 PROVE q[i] = q[i - 1] + spent'[i].tokens
    <3>1. CASE i = n + 1
      <4>1. i - 1 = n /\ q[n] = p[n]
        BY <1>3a, <1>18, <3>1
      <4> QED
        BY <1>9, <1>10, <1>18, <3>1, <4>1
    <3>2. CASE i \in 1 .. n
      <4>1. i \in 0 .. n /\ i - 1 \in 0 .. n
        BY <1>3a, <3>2
      <4> QED
        BY <1>9, <1>12, <1>18, <3>2, <4>1
    <3> QED
      BY <1>19, <3>1, <3>2
  <2> QED
    BY <1>9, <1>17, <2>1, <2>2 DEF Adds
<1>21. Grows(q)'
  <2> SUFFICES ASSUME NEW i \in 0 .. n + 1, NEW j \in 0 .. n + 1, i <= j PROVE q[i] <= q[j]
    BY <1>9a DEF Grows
  <2>1. CASE j \in 0 .. n
    <3>1. i \in 0 .. n
      BY <1>3a, <2>1
    <3> QED
      BY <1>13, <1>18, <2>1, <3>1
  <2>2. CASE j = n + 1 /\ i \in 0 .. n
    <3>1. p[i] <= p[n] /\ p[i] \in Nat
      BY <1>3a, <1>13, <1>16, <2>2
    <3> QED
      BY <1>16, <1>18, <2>2, <3>1
  <2>3. CASE j = n + 1 /\ i = n + 1
    BY <1>16, <1>18, <2>3
  <2> QED
    BY <1>15, <2>1, <2>2, <2>3
<1>22. Spares(q)'
  <2> SUFFICES ASSUME NEW i \in 1 .. n + 1, NEW j \in 1 .. n + 1, i <= j,
                      spent'[j].at < spent'[i].at + Limit!Day
               PROVE  q[j] <= q[i - 1] + 2 * MaxTokens
    BY <1>9a DEF Spares
  <2>0. i - 1 \in 0 .. n /\ q[i - 1] = p[i - 1] /\ p[i - 1] \in Nat
    BY <1>3a, <1>16, <1>18
  <2>1. CASE j \in 1 .. n
    <3>1. i \in 1 .. n /\ j \in 0 .. n
      BY <1>3a, <2>1
    <3>2. p[j] <= p[i - 1] + 2 * MaxTokens
      BY <1>9, <1>13, <2>1, <3>1
    <3> QED
      BY <1>18, <2>0, <3>1, <3>2
  <2>2. CASE j = n + 1
    <3>1. g <= i - 1
      <4> SUFFICES ASSUME ~ (g <= i - 1) PROVE FALSE
        OBVIOUS
      <4>1. i \in 1 .. g /\ i \in 1 .. n
        BY <1>3a, <1>14
      <4>2. spent[i].at + Limit!Day <= start /\ spent[i].at \in Nat /\ spent'[i] = spent[i]
        BY <1>9, <1>11, <1>14, <4>1
      <4>3. spent'[j].at = now
        BY <1>9, <1>10, <2>2
      <4>4. now < spent[i].at + Limit!Day
        BY <4>2, <4>3
      <4>5. start <= now
        BY <1>6
      <4>6. PICK a \in Nat : a = spent[i].at
        BY <4>2
      <4>7. a + Limit!Day <= start /\ now < a + Limit!Day
        BY <4>2, <4>4, <4>6
      <4> QED
        BY <1>3a, <1>5, <4>5, <4>7
    <3>2. p[g] <= p[i - 1] /\ g \in 0 .. n /\ p[g] \in Nat /\ p[f] \in Nat
      BY <1>3a, <1>13, <1>14, <1>16, <2>0, <3>1
    <3>3. p[n] <= p[g] + MaxTokens + given
      BY <1>14a, <1>14b
    <3> QED
      <4>1. q[j] = p[n] + t
        BY <1>18, <2>2
      <4>2. p[n] + t <= p[i - 1] + 2 * MaxTokens
        <5>1. p[n] <= p[i - 1] + MaxTokens + given
          BY <1>14b, <2>0, <3>2, <3>3
        <5> QED
          BY <1>9b, <1>14b, <2>0, <5>1
      <4> QED
        BY <2>0, <4>1, <4>2
  <2> QED
    BY <1>19, <2>1, <2>2
<1>23. Days(q, f, g, state.tokens, state.day)'
  <2>1. f \in 0 .. n + 1 /\ g \in 0 .. n /\ f \in 0 .. n /\ g \in 0 .. f
    BY <1>3a, <1>14
  <2>2. q[n + 1] = q[f] + (given + t) /\ q[f] <= q[g] + MaxTokens
    <3>1. q[n + 1] = p[n] + t /\ q[f] = p[f] /\ q[g] = p[g]
      BY <1>18, <2>1
    <3> QED
      BY <1>14a, <1>14b, <3>1
  <2>3. \A i \in 1 .. n + 1 : spent'[i].at < start + Limit!Day
    BY <1>6, <1>9, <1>10, <1>14, <1>19
  <2>4. (\A i \in 1 .. f : i \in 1 .. n) /\ (\A i \in 1 .. g : i \in 1 .. n)
    BY <1>3a, <1>14
  <2>5. (\A i \in 1 .. f : spent'[i].at < start) /\ (\A i \in 1 .. g : spent'[i].at + Limit!Day <= start)
    BY <1>9, <1>14, <2>4
  <2> QED
    BY <1>8, <1>9a, <2>1, <2>2, <2>3, <2>5 DEF Days
<1>24. BudgetTyped'
  BY <1>0, <1>3a, <1>6, <1>8, <1>9 DEF BudgetTyped
<1> QED
  BY <1>20, <1>21, <1>22, <1>23, <1>24 DEF BudgetInv

BudgetVars == <<now, state, spent>>

LEMMA BudgetKeeps ==
  ASSUME BudgetInv,
         \/ now' = now + 1 /\ UNCHANGED <<state, spent>>
         \/ Limit!BudgetNext
         \/ UNCHANGED BudgetVars
  PROVE  BudgetInv'
<1>1. ASSUME UNCHANGED <<state, spent>>, now' \in {now, now + 1}
      PROVE  BudgetInv'
  <2>1. PICK p : Adds(p) /\ Grows(p) /\ Spares(p) /\ \E d, e \in Nat : Days(p, d, e, state.tokens, state.day)
    BY DEF BudgetInv
  <2>2. PICK d \in Nat, e \in Nat : Days(p, d, e, state.tokens, state.day)
    BY <2>1
  <2>3. BudgetTyped'
    BY <1>1 DEF BudgetInv, BudgetTyped
  <2>4. Adds(p)' /\ Grows(p)' /\ Spares(p)'
    BY <1>1, <2>1 DEF Adds, Grows, Spares
  <2>5. Days(p, d, e, state.tokens, state.day)'
    BY <1>1, <2>2 DEF Days
  <2> QED
    BY <2>3, <2>4, <2>5 DEF BudgetInv
<1>2. ASSUME NEW t \in 0 .. MaxTokenAsk PROVE t \in Nat
  BY LimitAssumption
<1> QED
  BY <1>1, <1>2, ConsultKeeps, ConsumeKeeps DEF Limit!BudgetNext, BudgetVars

(***************************************************************************)
(* The three together.                                                     *)
(***************************************************************************)

LimitsInv == RateInv /\ QuotaInv /\ BudgetInv

LEMMA LimitMoves ==
  [Next]_vars => [Limit!Tick \/ Limit!RateNext \/ Limit!QuotaNext \/ Limit!BudgetNext]_limitVars
  BY DEF Next, vars, ApiServerNext, ServiceNext, Rest

LEMMA LimitsKeep ==
  ASSUME LimitsInv,
         [Limit!Tick \/ Limit!RateNext \/ Limit!QuotaNext \/ Limit!BudgetNext]_limitVars
  PROVE  LimitsInv'
<1>1. CASE Limit!Tick
  BY <1>1, RateKeeps, QuotaKeeps, BudgetKeeps DEF LimitsInv, Limit!Tick
<1>2. CASE Limit!RateNext
  <2>1. UNCHANGED QuotaVars /\ UNCHANGED BudgetVars
    BY <1>2 DEF Limit!RateNext, Limit!RateAdmits, Limit!RateRefuses, Limit!Cleanup, QuotaVars, BudgetVars
  <2> QED
    BY <1>2, <2>1, RateKeeps, QuotaKeeps, BudgetKeeps DEF LimitsInv
<1>3. CASE Limit!QuotaNext
  <2>1. UNCHANGED RateVars /\ UNCHANGED BudgetVars
    BY <1>3 DEF Limit!QuotaNext, Limit!QuotaAdmits, Limit!QuotaRefuses, RateVars, BudgetVars
  <2> QED
    BY <1>3, <2>1, RateKeeps, QuotaKeeps, BudgetKeeps DEF LimitsInv
<1>4. CASE Limit!BudgetNext
  <2>1. UNCHANGED RateVars /\ UNCHANGED QuotaVars
    BY <1>4 DEF Limit!BudgetNext, Limit!Consult, Limit!Consume, RateVars, QuotaVars
  <2> QED
    BY <1>4, <2>1, RateKeeps, QuotaKeeps, BudgetKeeps DEF LimitsInv
<1>5. CASE UNCHANGED limitVars
  <2>1. UNCHANGED RateVars /\ UNCHANGED QuotaVars /\ UNCHANGED BudgetVars
    BY <1>5 DEF limitVars, RateVars, QuotaVars, BudgetVars
  <2> QED
    BY <2>1, RateKeeps, QuotaKeeps, BudgetKeeps DEF LimitsInv
<1> QED
  BY <1>1, <1>2, <1>3, <1>4, <1>5

LEMMA LimitsBegin == Limit!LimitInit => LimitsInv
<1> SUFFICES ASSUME Limit!LimitInit PROVE LimitsInv
  OBVIOUS
<1>1. /\ now = Window + 1 /\ bucket = <<>> /\ retryAt = 0 /\ admitted = <<>>
      /\ entry = [count |-> 0, start |-> 0] /\ granted = <<>> /\ spent = <<>>
      /\ state = [tokens |-> 0, requests |-> 0, minute |-> now, day |-> now]
  BY DEF Limit!LimitInit
<1>2. Window \in Nat \ {0} /\ MaxTokens \in Nat /\ MaxRequests \in Nat \ {0} /\ now \in Nat
  BY <1>1, LimitAssumption
<1>3. RateInv
  BY <1>1, <1>2 DEF RateInv, Limit!SlidingRate, Limit!AtMost
<1>4. QuotaInv
  BY <1>1, <1>2 DEF QuotaInv, Limit!TwoWindows, Limit!AtMost
<1>5. BudgetInv
  <2>1. PICK p \in [0 .. 0 -> Nat] : p[0] = 0
    <3> DEFINE none == [i \in 0 .. 0 |-> 0]
    <3>1. none \in [0 .. 0 -> Nat] /\ none[0] = 0
      OBVIOUS
    <3> HIDE DEF none
    <3> QED
      BY <3>1
  <2>2. Len(spent) = 0
    BY <1>1
  <2>3. Adds(p) /\ Grows(p) /\ Spares(p)
    BY <2>1, <2>2 DEF Adds, Grows, Spares
  <2>4. state.tokens = 0 /\ state.day = now
    BY <1>1
  <2>5. Days(p, 0, 0, state.tokens, state.day)
    BY <1>2, <2>1, <2>2, <2>4 DEF Days
  <2>6. BudgetTyped
    BY <1>1, <1>2 DEF BudgetTyped
  <2> QED
    BY <2>3, <2>5, <2>6 DEF BudgetInv
<1> QED
  BY <1>3, <1>4, <1>5 DEF LimitsInv

LEMMA LimitsHold == LimitsInv => NeverTooMuch
  BY RateHonest, BudgetIsKept DEF LimitsInv, RateInv, QuotaInv, NeverTooMuch

\* NeverTooMuch of Platform: whatever the clock, the cleanup timer and the
\* callers do, no stretch of a window's length holds more than maxRequests
\* requests the rate limiter let through (rate-limiter.ts), nor more than twice
\* the limit of the quota enforcer (quotas/enforcer.ts); a caller that waits for its
\* retryAfterMs is let through if nobody else of its key was meanwhile; and any
\* stretch shorter than a day was given at most two days' tokens
\* (budget/tracker.ts).
THEOREM NothingTooMuch == PlatformSpec => []NeverTooMuch
<1>1. Init => LimitsInv
  BY LimitsBegin DEF Init
<1>2. LimitsInv /\ [Next]_vars => LimitsInv'
  BY LimitMoves, LimitsKeep
<1> QED
  BY <1>1, <1>2, LimitsHold, PTL DEF PlatformSpec

(***************************************************************************)
(* The figures of an objective.                                            *)
(***************************************************************************)

LEMMA SameLogs ==
  /\ \A log, these : Slo!Among(log, these) = Limit!Among(log, these)
  /\ \A numbers : Slo!SumUp(numbers) = Limit!SumUp(numbers)
  BY DEF Slo!Among, Limit!Among, Slo!SumUp, Limit!SumUp

Measured == [at : Nat, sample : Samples]

SloInv == minute \in Nat /\ history \in Seq(Measured)

\* What is within a window is measured.
LEMMA WindowIsMeasured ==
  ASSUME NEW h \in Seq(Measured), NEW window, NEW later
  PROVE  Slo!Within(h, window, later) \in Seq(Measured)
<1> DEFINE old == {r \in Slo!ToSet(h) : r.at + window >= later}
<1>1. Slo!Within(h, window, later) = Limit!Among(h, old)
  BY SameLogs DEF Slo!Within
<1> HIDE DEF old
<1> QED
  BY <1>1, AmongAreThese

\* The figures are numbers, and the buckets are.
LEMMA FiguresAreNumbers ==
  ASSUME NEW h \in Seq(Measured)
  PROVE  /\ Slo!Total(h) \in Nat /\ Slo!Failed(h) \in Nat
         /\ Slo!Buckets(h) \subseteq Nat
         /\ \A b \in Slo!Buckets(h) : Slo!UpTo(h, b) \in Nat
<1> DEFINE totals == [k \in 1 .. Len(h) |-> h[k].sample.total]
           fails  == [k \in 1 .. Len(h) |-> h[k].sample.failed]
           ups(b) == [k \in 1 .. Len(h) |-> Slo!Counted(h[k].sample, b)]
<1>1. Len(h) \in Nat /\ \A k \in 1 .. Len(h) : h[k].sample \in Samples
  <2>1. \A k \in 1 .. Len(h) : h[k] \in Measured
    OBVIOUS
  <2> QED
    BY <2>1 DEF Measured
<1>2. \A numbers \in Seq(Nat) : Slo!SumUp(numbers) \in Nat
  <2> TAKE numbers \in Seq(Nat)
  <2>1. PICK sum \in [0 .. Len(numbers) -> Nat] : Limit!SumUp(numbers) = sum[Len(numbers)]
    BY SumSteps
  <2>2. Len(numbers) \in 0 .. Len(numbers)
    OBVIOUS
  <2> QED
    BY <2>1, <2>2, SameLogs
<1>3. totals \in Seq(Nat) /\ fails \in Seq(Nat)
  <2>1. \A k \in 1 .. Len(h) : h[k].sample.total \in Nat /\ h[k].sample.failed \in Nat
    BY <1>1, ObjectiveAssumption
  <2> QED
    BY <1>1, <2>1
<1>4. Slo!Total(h) = Slo!SumUp(totals) /\ Slo!Failed(h) = Slo!SumUp(fails)
  <2>1. Slo!Total(h) = Slo!SumUp(totals)
    BY Zenon DEF Slo!Total
  <2>2. Slo!Failed(h) = Slo!SumUp(fails)
    BY Zenon DEF Slo!Failed
  <2> QED
    BY <2>1, <2>2
<1>5. \A b : Slo!UpTo(h, b) = Slo!SumUp(ups(b))
  BY Zenon DEF Slo!UpTo
<1>6. Slo!Buckets(h) \subseteq Nat
  <2>1. DOMAIN h = 1 .. Len(h)
    OBVIOUS
  <2>2. \A k \in DOMAIN h : DOMAIN h[k].sample.histogram \subseteq Nat
    BY <1>1, <2>1, ObjectiveAssumption
  <2> QED
    BY <2>2 DEF Slo!Buckets
<1>7. ASSUME NEW b \in Slo!Buckets(h) PROVE ups(b) \in Seq(Nat)
  <2>1. \A s \in Samples : Slo!Counted(s, b) \in Nat
    <3> TAKE s \in Samples
    <3> DEFINE counts == [x \in 1 .. b |-> IF x \in DOMAIN s.histogram THEN s.histogram[x] ELSE 0]
    <3>0. Slo!Counted(s, b) = Slo!SumUp(counts)
      BY Zenon DEF Slo!Counted
    <3>1. b \in Nat /\ \A x \in DOMAIN s.histogram : s.histogram[x] \in Nat
      BY <1>6, ObjectiveAssumption
    <3>2. counts \in Seq(Nat)
      BY <3>1
    <3> HIDE DEF counts
    <3>3. Slo!SumUp(counts) \in Nat
      BY <1>2, <3>2
    <3> QED
      BY <3>0, <3>3
  <2> QED
    BY <1>1, <2>1
<1> HIDE DEF totals, fails, ups
<1> QED
  BY <1>2, <1>3, <1>4, <1>5, <1>6, <1>7

\* ceil is the least number that is as much.
LEMMA CeilIsLeast ==
  ASSUME NEW x \in Nat, NEW u \in Nat
  PROVE  u >= (x + 99) \div 100 <=> 100 * u >= x
  OBVIOUS

LEMMA FloorIsLess ==
  ASSUME NEW x \in Int, NEW f \in Nat, 1000 * f >= x
  PROVE  f >= x \div 1000 /\ x \div 1000 \in Int
  OBVIOUS

LEMMA FiguresHold ==
  ASSUME SloInv, NEW asked0, NEW window, NEW later
  PROVE  LET h == Slo!Within(history, asked0, minute) IN
           /\ \A within \in Slo!Allowed(h) :
                \/ FALSE \in Slo!Compliant(h)
                \/ Slo!Within(h, window, later) = h /\ TRUE \in Slo!Burning(h, window, later)
                => Slo!Consumed(h, within) /\ Slo!Remaining(h, within) = 0
           /\ Slo!Total(h) > 0 =>
                LET fits(b) == 100 * Slo!UpTo(h, b) >= Slo!Percentile * Slo!Total(h)
                IN (\E b \in Slo!Buckets(h) : fits(b)) =>
                     /\ Slo!Latency(h) \in Slo!Buckets(h) /\ fits(Slo!Latency(h))
                     /\ \A b \in Slo!Buckets(h) : b < Slo!Latency(h) => ~ fits(b)
<1> DEFINE h == Slo!Within(history, asked0, minute)
           total == Slo!Total(h)
           fail == Slo!Failed(h)
           up(b) == Slo!UpTo(h, b)
           buckets == Slo!Buckets(h)
           budget == Slo!Budget(h)
           floor == budget \div 1000
<1>1. h \in Seq(Measured)
  BY WindowIsMeasured DEF SloInv
<1> HIDE DEF h
<1>2. /\ total \in Nat /\ fail \in Nat
      /\ buckets \subseteq Nat /\ \A b \in buckets : up(b) \in Nat
  BY <1>1, FiguresAreNumbers
<1>3. Slo!Percentile = 95 /\ budget \in Int
  BY <1>2, ObjectiveAssumption DEF Slo!Percentile, Slo!Budget
<1>3a. Slo!Edge(h) \/ Slo!Over(h) => fail * 1000 >= budget
  BY <1>2, <1>3 DEF Slo!Over, Slo!Edge
<1>4. FALSE \in Slo!Compliant(h) => fail * 1000 >= budget
  <2>1. FALSE \in Slo!Compliant(h) => Slo!Edge(h) \/ Slo!Over(h)
    BY Zenon DEF Slo!Compliant
  <2> QED
    BY <1>3a, <2>1, Zenon
<1>5. Slo!Within(h, window, later) = h /\ TRUE \in Slo!Burning(h, window, later) => fail * 1000 >= budget
  <2>1. Slo!Within(h, window, later) = h /\ TRUE \in Slo!Burning(h, window, later)
          => Slo!Edge(h) \/ Slo!Over(h)
    <3>1. Slo!Within(h, window, later) = h => Slo!Burning(h, window, later) = IF Slo!Edge(h) THEN BOOLEAN ELSE {Slo!Over(h)}
      BY Zenon DEF Slo!Burning
    <3>2. TRUE \in (IF Slo!Edge(h) THEN BOOLEAN ELSE {Slo!Over(h)}) => Slo!Edge(h) \/ Slo!Over(h)
      BY Zenon
    <3> QED
      BY <3>1, <3>2, Zenon
  <2> QED
    BY <1>3a, <2>1, Zenon
<1>6. \A within \in Slo!Allowed(h) : within = floor \/ within = floor - 1
  BY DEF Slo!Allowed
<1>6a. \A within : /\ Slo!Consumed(h, within) <=> fail >= within
                   /\ Slo!Remaining(h, within) = IF within > fail THEN within - fail ELSE 0
  BY DEF Slo!Consumed, Slo!Remaining
<1>7. total > 0 /\ buckets /= {} => Slo!Latency(h) =
        LET reached == {b \in buckets : up(b) >= (Slo!Percentile * total + 99) \div 100}
        IN IF reached = {} THEN Slo!Max(buckets) ELSE Slo!Min(reached)
  BY <1>2 DEF Slo!Latency, Slo!TargetCount
<1> HIDE DEF total, fail, up, buckets, budget
<1>8. fail * 1000 >= budget => fail >= floor /\ floor \in Int
  BY <1>2, <1>3, FloorIsLess
<1>9. ASSUME NEW within \in Slo!Allowed(h), fail * 1000 >= budget
      PROVE  Slo!Consumed(h, within) /\ Slo!Remaining(h, within) = 0
  <2>1. within \in Int /\ fail >= within /\ ~ (within > fail)
    <3> HIDE DEF floor
    <3> QED
      BY <1>2, <1>6, <1>8, <1>9
  <2> QED
    BY <1>6a, <2>1
<1>10. ASSUME total > 0, NEW top \in buckets, 100 * up(top) >= Slo!Percentile * total
       PROVE  /\ Slo!Latency(h) \in buckets
              /\ 100 * up(Slo!Latency(h)) >= Slo!Percentile * total
              /\ \A b \in buckets : b < Slo!Latency(h) => ~ (100 * up(b) >= Slo!Percentile * total)
  <2> DEFINE x == Slo!Percentile * total
             goal == (x + 99) \div 100
             reached == {b \in buckets : up(b) >= goal}
  <2>1. x \in Nat
    BY <1>2, <1>3
  <2>2. Slo!Latency(h) = IF reached = {} THEN Slo!Max(buckets) ELSE Slo!Min(reached)
    BY <1>7, <1>10
  <2>3. 100 * up(top) >= x
    BY <1>10
  <2> HIDE DEF x
  <2>4. \A b \in buckets : up(b) >= goal <=> 100 * up(b) >= x
    BY <1>2, <2>1, CeilIsLeast
  <2> HIDE DEF goal
  <2>5. top \in reached
    BY <1>10, <2>3, <2>4
  <2>6. reached \subseteq Nat /\ reached /= {}
    BY <1>2, <2>5
  <2>7. PICK least \in reached : \A y \in reached : ~ (y < least)
    BY <2>6, LeastNatural
  <2>8. least \in reached /\ \A y \in reached : least <= y
    BY <2>6, <2>7
  <2>9. Slo!Min(reached) \in reached /\ \A y \in reached : Slo!Min(reached) <= y
    <3> HIDE DEF reached
    <3> QED
      BY <2>8 DEF Slo!Min
  <2>10. Slo!Latency(h) \in reached /\ \A y \in reached : Slo!Latency(h) <= y
    BY <2>2, <2>6, <2>9
  <2>11. Slo!Latency(h) \in buckets /\ 100 * up(Slo!Latency(h)) >= x
    BY <2>4, <2>10
  <2>12. ASSUME NEW b \in buckets, b < Slo!Latency(h) PROVE ~ (100 * up(b) >= x)
    <3>1. b \notin reached
      <4>1. Slo!Latency(h) \in Nat /\ b \in Nat
        BY <1>2, <2>6, <2>10
      <4> HIDE DEF reached
      <4> QED
        BY <2>10, <2>12, <4>1
    <3> QED
      BY <2>4, <3>1
  <2> QED
    BY <2>11, <2>12 DEF x
<1> QED
  BY <1>4, <1>5, <1>9, <1>10 DEF h, total, up, buckets

LEMMA SloMoves == [Next]_vars => [Slo!SloNext]_Slo!sloVars
  BY DEF Next, vars, ApiServerNext, ServiceNext, Rest, sloVars, Slo!sloVars

LEMMA SloKeeps == ASSUME SloInv, [Slo!SloNext]_Slo!sloVars PROVE SloInv'
<1>1. CASE Slo!MinutePasses
  BY <1>1 DEF SloInv, Slo!MinutePasses
<1>2. CASE Slo!Clear
  BY <1>2 DEF SloInv, Slo!Clear
<1>3. ASSUME NEW sample \in Samples, Slo!Record(sample) PROVE SloInv'
  <2> DEFINE receipt == [at |-> minute, sample |-> sample]
             all == Append(history, receipt)
  <2>1. minute \in Nat /\ history \in Seq(Measured) /\ receipt \in Measured
    BY DEF SloInv, Measured
  <2>2. history' = SubSeq(all, IF Len(all) > MaxHistory THEN 2 ELSE 1, Len(all)) /\ minute' = minute
    BY <1>3 DEF Slo!Record
  <2> HIDE DEF receipt
  <2>3. all \in Seq(Measured)
    BY <2>1
  <2> HIDE DEF all
  <2>4. SubSeq(all, 1, Len(all)) \in Seq(Measured) /\ SubSeq(all, 2, Len(all)) \in Seq(Measured)
    BY <2>3
  <2> QED
    BY <2>1, <2>2, <2>4 DEF SloInv
<1>4. CASE UNCHANGED Slo!sloVars
  BY <1>4 DEF SloInv, Slo!sloVars
<1> QED
  BY <1>1, <1>2, <1>3, <1>4 DEF Slo!SloNext

\* SloAgrees of Platform (packages/shared/src/slo): for any history of samples, any
\* windows and any target, however the doubles of the figures are rounded where
\* fractions are equal, an objective that is missed, or whose budget burns too fast
\* over the same samples, has no budget left, and the latency is the least bucket
\* that so many percent of the requests kept, if one did.
THEOREM FiguresNeverContradict == PlatformSpec => []SloAgrees
<1>1. Init => SloInv
  BY DEF Init, Slo!SloInit, SloInv
<1>2. SloInv /\ [Next]_vars => SloInv'
  BY SloMoves, SloKeeps
<1>3. SloInv => SloAgrees
  BY FiguresHold DEF SloAgrees, Slo!SloAgrees
<1> QED
  BY <1>1, <1>2, <1>3, PTL DEF PlatformSpec
=============================================================================
