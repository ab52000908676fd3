----------------------------- MODULE SloTracker -----------------------------
(***************************************************************************)
(* packages/shared/src/slo/index.ts: the history of one objective and the  *)
(* figures computed from it.  The code divides doubles: away from equality *)
(* they compare as the fractions do, for counts far below 2^53; where two  *)
(* fractions are equal they may compare either way, and a product that is  *)
(* a whole number may lie just below it.  A figure is the set of the       *)
(* values it may take.  Display rounding is left out.                      *)
(***************************************************************************)
EXTENDS Logs, SequencesExt

CONSTANTS
  Samples,      \* samples: total, failed, and histogram, a count per bucket, if any
  Target,       \* availability target, in thousandths
  MaxHistory,   \* maxHistoryPerSLO
  BurnWindows,  \* BURN_RATE_WINDOWS
  MaxMinutes    \* bound: minutes that pass

VARIABLES
  minute,    \* Date.now()
  history    \* history of the objective

sloVars == <<minute, history>>

SloInit == minute = 0 /\ history = <<>>

\* record.
Record(sample) ==
  LET all == Append(history, [at |-> minute, sample |-> sample])
  IN /\ history' = SubSeq(all, IF Len(all) > MaxHistory THEN 2 ELSE 1, Len(all))
     /\ UNCHANGED minute

MinutePasses ==
  /\ minute < MaxMinutes
  /\ minute' = minute + 1
  /\ UNCHANGED history

\* clear.
Clear ==
  /\ history' = <<>>
  /\ UNCHANGED minute

SloNext == MinutePasses \/ Clear \/ \E sample \in Samples : Record(sample)

SloSpec == SloInit /\ [][SloNext]_sloVars
-----------------------------------------------------------------------------
\* snapshot and what it is made of.

Within(h, window, now) == Among(h, {r \in ToSet(h) : r.at + window >= now})

Total(h)   == SumUp([k \in 1 .. Len(h) |-> h[k].sample.total])
Failed(h)  == SumUp([k \in 1 .. Len(h) |-> h[k].sample.failed])
Buckets(h) == UNION {DOMAIN h[k].sample.histogram : k \in DOMAIN h}

\* cumulative: the requests of a sample up to a bucket, and those of many.
Counted(s, b) == SumUp([x \in 1 .. b |-> IF x \in DOMAIN s.histogram THEN s.histogram[x] ELSE 0])
UpTo(h, b)    == SumUp([k \in 1 .. Len(h) |-> Counted(h[k].sample, b)])

\* ceil(percentile / 100 * total), which doubles give exactly for 95.
Percentile == 95
TargetCount(h) == (Percentile * Total(h) + 99) \div 100

\* computePercentileFromBuckets: the first bucket that reaches the count, the
\* last one if none does, and none of no samples or no histograms.
Latency(h) ==
  IF Total(h) = 0 \/ Buckets(h) = {} THEN 0
  ELSE LET reached == {b \in Buckets(h) : UpTo(h, b) >= TargetCount(h)}
       IN IF reached = {} THEN Max(Buckets(h)) ELSE Min(reached)

\* The failures the target allows, times 1000; more of them, and exactly as many,
\* where neither rate is 0 or 1, which doubles represent.
Budget(h) == (1000 - Target) * Total(h)
Over(h)   == Failed(h) * 1000 > Budget(h)
Edge(h)   == Failed(h) * 1000 = Budget(h) /\ Failed(h) \in 1 .. Total(h) - 1

\* 1 - errorRate >= target
Compliant(h) == IF Edge(h) THEN BOOLEAN ELSE {~ Over(h)}

\* computeErrorBudget: floor of (1 - target) * total.
Allowed(h) == {Budget(h) \div 1000}
              \cup {a \in {Budget(h) \div 1000 - 1} : Budget(h) % 1000 = 0 /\ Budget(h) > 0}
Remaining(h, allowed) == IF allowed > Failed(h) THEN allowed - Failed(h) ELSE 0
Consumed(h, allowed)  == Failed(h) >= allowed

BurningShort(h, window, now) ==
  LET w == Among(h, {r \in ToSet(h) : r.at + window > now})
  IN IF Edge(w) THEN BOOLEAN ELSE {Over(w)}

\* computeBurnRates: errorRate / allowedErrorRate > 1 of the samples it is given,
\* in a window that ends when the clock is read again.
Burning(h, window, now) ==
  LET w == Within(h, window, now) IN IF Edge(w) THEN BOOLEAN ELSE {Over(w)}
-----------------------------------------------------------------------------
SloTypeOK ==
  /\ minute \in 0 .. MaxMinutes
  /\ history \in Seq([at : 0 .. MaxMinutes, sample : Samples]) /\ Len(history) <= MaxHistory

\* The status, the budget and the burn rate of one snapshot are computed apart and
\* rounded apart; however each is rounded, an objective that is missed, or whose
\* budget burns too fast over the same samples, has no budget left.  The latency is
\* the least that so many percent of the requests kept, where the histograms count
\* so many.
SloAgrees == \A asked, window \in BurnWindows, now \in {minute, minute + 1} :
  LET h == Within(history, asked, minute) IN
  /\ \A allowed \in Allowed(h) :
       FALSE \in Compliant(h) \/ (Within(h, window, now) = h /\ TRUE \in Burning(h, window, now)) =>
         Consumed(h, allowed) /\ Remaining(h, allowed) = 0
  /\ Total(h) > 0 =>
       LET fits(b) == 100 * UpTo(h, b) >= Percentile * Total(h)
       IN (\E b \in Buckets(h) : fits(b)) =>
            /\ Latency(h) \in Buckets(h) /\ fits(Latency(h))
            /\ \A b \in Buckets(h) : b < Latency(h) => ~ fits(b)

\* An objective is missed exactly when its budget burns too fast over the same
\* samples; broken where doubles meet equality: of a target of 0.9 and 1 failure of
\* 10 the code says that it is met, and that it burns.
StatusIsBurn == LET h == Within(history, 1, minute) IN
  \A met \in Compliant(h), burns \in Burning(h, 1, minute) : met <=> ~ burns

\* CHANGELOG.md, line 38: burn rates across windows of 5, 30 and 60 minutes.  A
\* snapshot of fewer minutes computes them from its own samples only.
BurnRatesAcross == \A window, asked \in BurnWindows :
  Burning(Within(history, asked, minute), window, minute) = Burning(history, window, minute)
=============================================================================
