----------------------------- MODULE ToolCalls ------------------------------
(***************************************************************************)
(* execution-plane/tool-proxy/src/index.ts: CallTool for requests of every *)
(* shape, the fetch with its retries, the caller's deadline of 10 s, the   *)
(* proxy's own of 30 s, and the shutdown.                                  *)
(***************************************************************************)
EXTENDS Naturals, FiniteSets

CONSTANTS
  Calls,        \* concurrent calls
  MaxRetries    \* maxRetries of fetchWithRetry

ASSUME RetryAssumption == MaxRetries \in Nat

VARIABLES
  request,    \* what each call asks for
  call,       \* where the handler of each call is, or what it answered
  fetches,    \* requests each call has sent to its tool
  expired,    \* calls whose AbortSignal has fired
  caller,     \* what each caller has heard
  proxy       \* serving, draining or stopped

toolVars == <<request, call, fetches, expired, caller, proxy>>

\* url: the argument that stands for __URL__, ip: the address of the sandbox,
\* args: validateSandboxArgs, within: the rate limiter.
Shapes == [tool : {"unknown", "search", "web", "sandbox"}, within : BOOLEAN, pii : BOOLEAN,
           url : {"none", "private", "unlisted", "allowed"},
           ip : {"none", "private", "public"}, args : BOOLEAN]

\* The one request that meets a check and passes the ones before it.
Plain == [tool |-> "search", within |-> TRUE, pii |-> FALSE, url |-> "none",
          ip |-> "none", args |-> TRUE]
Asked == {Plain, [Plain EXCEPT !.within = FALSE], [Plain EXCEPT !.tool = "unknown"],
          [Plain EXCEPT !.pii = TRUE]}
  \cup [tool : {"web"}, within : {TRUE}, pii : {FALSE}, url : {"none", "private", "unlisted", "allowed"},
        ip : {"none"}, args : {TRUE}]
  \cup [tool : {"sandbox"}, within : {TRUE}, pii : {FALSE}, url : {"none"},
        ip : {"none", "private", "public"}, args : BOOLEAN]

Answers == {"succeeded", "failed", "error"}
Done    == Answers \cup {"lost"}

ToolInit ==
  /\ request \in [Calls -> Asked]
  /\ call = [c \in Calls |-> "new"]
  /\ fetches = [c \in Calls |-> 0]
  /\ expired = {}
  /\ caller = [c \in Calls |-> "waiting"]
  /\ proxy = "serving"

Answer(c, status) ==
  /\ call' = [call EXCEPT ![c] = status]
  /\ caller' = [caller EXCEPT ![c] = IF @ = "waiting" THEN status ELSE @]
  /\ UNCHANGED <<request, expired, proxy>>

\* Over the rate, or PII: a gRPC error; every other refusal is an answer.
Errs(r)    == ~ r.within \/ (r.tool /= "unknown" /\ r.pii)
Misplaced(r) == r.tool = "web" /\ r.url \in {"private", "unlisted"}
Stranded(r)  == r.tool = "sandbox" /\ r.ip \in {"none", "private"}
Invalid(r)   == r.tool = "sandbox" /\ ~ r.args

RefusedWithoutArgs(r) == Errs(r) \/ r.tool = "unknown" \/ Misplaced(r) \/ Stranded(r)

Refused(r) == Errs(r) \/ r.tool = "unknown" \/ Misplaced(r) \/ Stranded(r) \/ Invalid(r)

Refuse(c) ==
  /\ call[c] = "new" /\ proxy = "serving"
  /\ Refused(request[c])
  /\ Answer(c, IF Errs(request[c]) THEN "error" ELSE "failed")
  /\ UNCHANGED fetches

\* The tool has the request from now on, whatever becomes of the answer.
Fetch(c) ==
  /\ call' = [call EXCEPT ![c] = "fetching"]
  /\ fetches' = [fetches EXCEPT ![c] = @ + 1]
  /\ UNCHANGED <<request, expired, caller, proxy>>

Begin(c) ==
  /\ call[c] = "new" /\ proxy = "serving"
  /\ ~ Refused(request[c])
  /\ Fetch(c)

\* A 5xx, or a network error: what the tool did with the request is not known.
Retry(c) ==
  /\ call[c] = "fetching" /\ fetches[c] <= MaxRetries
  /\ call' = [call EXCEPT ![c] = "sleeping"]
  /\ UNCHANGED <<request, fetches, expired, caller, proxy>>

\* fetch throws at once when its signal has fired.
Again(c) ==
  /\ call[c] = "sleeping" /\ c \notin expired
  /\ Fetch(c)

\* Any response is "succeeded": a 4xx, and the 5xx of the last attempt.
Respond(c) ==
  /\ call[c] = "fetching" /\ c \notin expired
  /\ Answer(c, "succeeded")
  /\ UNCHANGED fetches

\* The last network error, or the signal.  A TimeoutError is not an AbortError:
\* the attempts that are left pass without a request.  Or the body of a response
\* that is ok breaks off, whichever attempt it is of: fetchWithRetry is over.
GiveUp(c) ==
  /\ \/ call[c] = "fetching"
     \/ call[c] = "sleeping" /\ c \in expired
  /\ Answer(c, "failed")
  /\ UNCHANGED fetches

\* 30 s after the first request.
Expire(c) ==
  /\ call[c] \in {"fetching", "sleeping"} /\ c \notin expired
  /\ expired' = expired \cup {c}
  /\ UNCHANGED <<request, call, fetches, caller, proxy>>

\* The caller's 10 s are over; a tool is called before it is answered.
Deadline(c) ==
  /\ caller[c] = "waiting"
  /\ caller' = [caller EXCEPT ![c] = "late"]
  /\ UNCHANGED <<request, call, fetches, expired, proxy>>

\* tryShutdown: no new calls; it ends when the last one is answered.
Drain ==
  /\ proxy = "serving"
  /\ proxy' = "draining"
  /\ UNCHANGED <<request, call, fetches, expired, caller>>

\* Drained, or 5 s later by force.
Stop ==
  /\ proxy = "draining"
  /\ proxy' = "stopped"
  /\ call' = [c \in Calls |-> IF call[c] \in {"fetching", "sleeping"} THEN "lost" ELSE call[c]]
  /\ caller' = [c \in Calls |-> IF call'[c] = "lost" /\ caller[c] = "waiting" THEN "error"
                                ELSE caller[c]]
  /\ UNCHANGED <<request, fetches, expired>>

CallStep(c) ==
  Refuse(c) \/ Begin(c) \/ Retry(c) \/ Again(c) \/ Respond(c) \/ GiveUp(c) \/ Expire(c)
  \/ Deadline(c)

ToolNext == Drain \/ Stop \/ \E c \in Calls : CallStep(c)

Handles(c) == Retry(c) \/ Again(c) \/ Respond(c) \/ GiveUp(c)

\* Tools and timers answer.
ToolFairness == \A c \in Calls : WF_toolVars(Handles(c))
-----------------------------------------------------------------------------
ToolTypeOK ==
  /\ request \in [Calls -> Shapes]
  /\ call \in [Calls -> {"new", "fetching", "sleeping"} \cup Done]
  /\ fetches \in [Calls -> Nat] /\ expired \subseteq Calls
  /\ caller \in [Calls -> {"waiting", "late"} \cup Answers]
  /\ proxy \in {"serving", "draining", "stopped"}

\* A tool is only ever sent a known tool's clean, well-placed and valid request,
\* and the same request at most once more than it may be retried.
SentAsChecked == \A c \in Calls : LET r == request[c] IN
  /\ fetches[c] <= MaxRetries + 1
  /\ fetches[c] > 0 =>
       /\ r.within /\ ~ r.pii
       /\ r.tool \in {"search", "web", "sandbox"}
       /\ r.tool = "web" => r.url \in {"none", "allowed"}
       /\ r.tool = "sandbox" => r.ip = "public" /\ r.args

\* A handler that has called its tool comes to an end by itself.
NoneUnderWay == \A c \in Calls : call[c] \notin {"fetching", "sleeping"}
HandlersEnd == <>[]NoneUnderWay

\* What a caller is told to have failed was not done; broken by the retries, the
\* deadline and the shutdown.
FailedIsUndone == \A c \in Calls : caller[c] \in {"failed", "error", "late"} => fetches[c] = 0
=============================================================================
