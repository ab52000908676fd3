------------------------------- MODULE Limits -------------------------------
(***************************************************************************)
(* The three counters of packages/shared that say how much is too much, at *)
(* one clock: RateLimiter (rate-limiter.ts, a log of times),               *)
(* QuotaEnforcer (quotas/enforcer.ts) and TokenBudget (budget/tracker.ts,  *)
(* counts of a window that starts with its first request).  getRedis of    *)
(* the enforcer never yields a client, the default export of "redis" being *)
(* an object: every check is the one of the map in the process.  One key   *)
(* each; the day of a budget is as long as two of its minutes.             *)
(***************************************************************************)
EXTENDS Logs

CONSTANTS
  MaxRequests,   \* maxRequests, limit, maxRequestsPerMinute
  MaxTokens,     \* maxTokensPerDay
  Window,        \* windowMs, windowSeconds, MINUTE_MS
  MaxTime,       \* bound: time that passes
  MaxTokenAsk    \* bound: tokens of one request

VARIABLES
  now,        \* Date.now()
  bucket,     \* RateLimiter: the times in the bucket of the key
  retryAt,    \* RateLimiter: when the last refused caller may come back
  admitted,   \* RateLimiter: when it let a request through
  entry,      \* QuotaEnforcer: fallbackCounts of the key; start 0 is absent
  granted,    \* QuotaEnforcer: when it let a request through
  state,      \* TokenBudget: states of the namespace
  spent       \* TokenBudget: tokens and time of each request let through

limitVars == <<now, bucket, retryAt, admitted, entry, granted, state, spent>>

Day == 2 * Window

\* Time starts where no window of an absent entry can be open.
LimitInit ==
  /\ now = Window + 1
  /\ bucket = <<>> /\ retryAt = 0 /\ admitted = <<>>
  /\ entry = [count |-> 0, start |-> 0] /\ granted = <<>>
  /\ state = [tokens |-> 0, requests |-> 0, minute |-> now, day |-> now]
  /\ spent = <<>>

Tick ==
  /\ now < Window + 1 + MaxTime
  /\ now' = now + 1
  /\ UNCHANGED <<bucket, retryAt, admitted, entry, granted, state, spent>>
-----------------------------------------------------------------------------
\* RateLimiter.

Active == Among(bucket, {t \in 0 .. now : t + Window > now})

RateAdmits ==
  /\ Len(Active) < MaxRequests
  /\ bucket' = Append(Active, now) /\ admitted' = Append(admitted, now)
  /\ retryAt' = 0
  /\ UNCHANGED <<now, entry, granted, state, spent>>

\* retryAfterMs = oldest + windowMs - now.
RateRefuses ==
  /\ Len(Active) >= MaxRequests
  /\ bucket' = Active /\ retryAt' = Head(Active) + Window
  /\ UNCHANGED <<now, admitted, entry, granted, state, spent>>

CleanupDropsBucket ==
  /\ bucket /= <<>> /\ bucket' = <<>>
  /\ UNCHANGED <<now, retryAt, admitted, entry, granted, state, spent>>

\* cleanup(): a bucket with nothing active in it is deleted.
Cleanup ==
  /\ bucket /= Active /\ bucket' = Active
  /\ UNCHANGED <<now, retryAt, admitted, entry, granted, state, spent>>

RateNext == RateAdmits \/ RateRefuses \/ Cleanup
-----------------------------------------------------------------------------
\* QuotaEnforcer, a resource with a rate.

\* The entry a check counts in: a new one if the window is over.
Current == IF entry.start + Window < now THEN [count |-> 0, start |-> now] ELSE entry

QuotaAdmits ==
  /\ Current.count + 1 <= MaxRequests
  /\ entry' = [Current EXCEPT !.count = @ + 1]
  /\ granted' = Append(granted, now)
  /\ UNCHANGED <<now, bucket, retryAt, admitted, state, spent>>

\* Counted, and undone.
QuotaRefuses ==
  /\ Current.count + 1 > MaxRequests
  /\ entry' = Current
  /\ UNCHANGED <<now, bucket, retryAt, admitted, granted, state, spent>>

QuotaNext == QuotaAdmits \/ QuotaRefuses
-----------------------------------------------------------------------------
\* TokenBudget.

\* getState: the day first, then the minute.
Rolled ==
  LET day == IF now >= state.day + Day THEN [state EXCEPT !.tokens = 0, !.day = now]
             ELSE state
  IN IF now >= day.minute + Window THEN [day EXCEPT !.requests = 0, !.minute = now]
     ELSE day

Affordable(tokens) == /\ Rolled.requests < MaxRequests
                      /\ Rolled.tokens + tokens <= MaxTokens

Consume(tokens) ==
  /\ Affordable(tokens)
  /\ state' = [Rolled EXCEPT !.requests = @ + 1, !.tokens = @ + tokens]
  /\ spent' = Append(spent, [at |-> now, tokens |-> tokens])
  /\ UNCHANGED <<now, bucket, retryAt, admitted, entry, granted>>

\* A refusal, getUsage and isExhausted roll the windows and no more.
Consult ==
  /\ state' = Rolled
  /\ UNCHANGED <<now, bucket, retryAt, admitted, entry, granted, spent>>

BudgetNext == Consult \/ \E tokens \in 0 .. MaxTokenAsk : Consume(tokens)

LimitSpec == LimitInit /\ [][Tick \/ RateNext \/ QuotaNext \/ BudgetNext]_limitVars
-----------------------------------------------------------------------------
LimitTypeOK ==
  /\ now \in Nat /\ retryAt \in Nat
  /\ {bucket, admitted, granted} \subseteq Seq(Nat) /\ Len(bucket) <= MaxRequests
  /\ entry \in [count : 0 .. MaxRequests, start : Nat]
  /\ state \in [tokens : 0 .. MaxTokens, requests : 0 .. MaxRequests, minute : Nat, day : Nat]
  /\ spent \in Seq([at : Nat, tokens : 0 .. MaxTokenAsk])

\* No n + 1 of these times fall into a stretch shorter than w.
AtMost(n, times, w) == \A i \in DOMAIN times :
  i + n \in DOMAIN times => times[i + n] >= times[i] + w

\* No stretch of the window's length, wherever it starts, holds more than
\* maxRequests admitted requests, whatever the cleanup timer removed meanwhile.
SlidingRate == AtMost(MaxRequests, admitted, Window)

\* A caller that was refused and waits as long as it was told to is let through, if
\* nobody else of its key was in the meantime.
RetryHonest == retryAt /= 0 /\ now >= retryAt => Len(Active) < MaxRequests

\* The window of a quota starts with a request, so two of them meet: twice the
\* limit is what a stretch of the window's length can hold, and never more.
TwoWindows == AtMost(2 * MaxRequests, granted, Window)

\* quotas/enforcer.ts, line 69: the window of a rate slides.
QuotaSlides == AtMost(MaxRequests, granted, Window)

SumOf(s) == SumUp([k \in 1 .. Len(s) |-> s[k].tokens])

\* However minutes and days overlap, what any stretch shorter than a day was
\* given is at most two days' tokens.
BudgetKept == \A i, j \in DOMAIN spent :
  spent[j].at < spent[i].at + Day => SumOf(SubSeq(spent, i, j)) <= 2 * MaxTokens
=============================================================================
