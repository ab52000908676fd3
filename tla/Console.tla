------------------------------- MODULE Console -------------------------------
(***************************************************************************)
(* admin-console/src/lib: the requests of one URL that are made together   *)
(* (api/client.ts) and the server-sent events of a page (realtime.ts) with *)
(* the route /api/events of the api-server.  A GET that finds a young one  *)
(* of its URL shares its promise; every 5xx is tried again.  An effect of  *)
(* the page opens an EventSource and opens another some time after an      *)
(* error, unless it was cleaned up.                                        *)
(***************************************************************************)
EXTENDS Naturals, FiniteSets

CONSTANTS
  Readers,      \* calls of apiRequest with GET
  Window,       \* DEDUP_WINDOW_MS
  MaxTime,      \* bound: time that passes
  MaxTries,     \* maxAttempts
  Effects,      \* effects of useSSE, 1 .. n: one page after the other
  MaxErrors     \* bound: connections that fail

VARIABLES
  now,         \* Date.now()
  asked,       \* when each reader called, its promise, and what it was told
  promise,     \* per reader that fetches: when it began, attempt and outcome
  dedup,       \* dedupCache: the reader whose promise it holds, and when
  page,        \* the effect that is mounted; those before it are cleaned up
  source,      \* EventSource of each effect
  timer,       \* effects with a reconnection timer
  heartbeats,  \* intervals of the server: one per connection of an effect
  errors       \* connections that failed

consoleVars == <<now, asked, promise, dedup, page, source, timer, heartbeats, errors>>
readVars    == <<asked, promise, dedup>>
eventVars   == <<page, source, timer, heartbeats, errors>>

Nobody == [at |-> 0, of |-> "none", told |-> "none"]
Empty  == [of |-> "none", at |-> 0]
Idle   == [at |-> 0, attempt |-> 0, state |-> "none"]

ConsoleInit ==
  /\ now = 1
  /\ asked = [r \in Readers |-> Nobody]
  /\ promise = [r \in Readers |-> Idle]
  /\ dedup = Empty
  /\ page = 1
  /\ source = [e \in Effects |-> "none"] /\ timer = {} /\ heartbeats = {} /\ errors = 0

TimePasses ==
  /\ now < MaxTime
  /\ now' = now + 1
  /\ UNCHANGED <<readVars, eventVars>>
-----------------------------------------------------------------------------
\* api/client.ts.

\* cleanupDedup, then the lookup.
Cached  == IF dedup.of /= "none" /\ now - dedup.at > 2 * Window THEN Empty ELSE dedup
Young   == Cached.of /= "none" /\ now - Cached.at < Window

Join(r) ==
  /\ asked[r] = Nobody /\ Young
  /\ asked' = [asked EXCEPT ![r] = [at |-> now, of |-> Cached.of, told |-> "none"]]
  /\ dedup' = Cached
  /\ UNCHANGED <<now, promise, eventVars>>

Request(r) ==
  /\ asked[r] = Nobody /\ ~ Young
  /\ asked' = [asked EXCEPT ![r] = [at |-> now, of |-> r, told |-> "none"]]
  /\ promise' = [promise EXCEPT ![r] = [at |-> now, attempt |-> 1, state |-> "fetching"]]
  /\ dedup' = [of |-> r, at |-> now]
  /\ UNCHANGED <<now, eventVars>>

\* Everybody who holds the promise is told; the one who made it deletes the
\* entry of the URL, whoever has made that one by now.
Settle(r, outcome) ==
  /\ promise' = [promise EXCEPT ![r].state = outcome]
  /\ asked' = [q \in Readers |-> IF asked[q].of = r THEN [asked[q] EXCEPT !.told = outcome]
                                 ELSE asked[q]]
  /\ dedup' = Empty
  /\ UNCHANGED <<now, eventVars>>

Loaded(r) == promise[r].state = "fetching" /\ Settle(r, "data")

\* 401, another 4xx, a fetch that throws, or a 5xx of the last attempt.
Rejected(r) == promise[r].state = "fetching" /\ Settle(r, "error")

\* A 5xx, and the backoff.
ServerError(r) ==
  /\ promise[r].state = "fetching" /\ promise[r].attempt < MaxTries
  /\ promise' = [promise EXCEPT ![r].state = "sleeping"]
  /\ UNCHANGED <<now, asked, dedup, eventVars>>

FetchAgain(r) ==
  /\ promise[r].state = "sleeping"
  /\ promise' = [promise EXCEPT ![r].state = "fetching", ![r].attempt = @ + 1]
  /\ UNCHANGED <<now, asked, dedup, eventVars>>

ReadNext == \E r \in Readers :
  Join(r) \/ Request(r) \/ Loaded(r) \/ Rejected(r) \/ ServerError(r) \/ FetchAgain(r)
-----------------------------------------------------------------------------
\* realtime.ts and /api/events.

\* connect of the effect that is mounted first.
Open(e) ==
  /\ e = page /\ source[e] = "none"
  /\ source' = [source EXCEPT ![e] = "open"]
  /\ heartbeats' = heartbeats \cup {<<e, errors>>}
  /\ UNCHANGED <<now, readVars, page, timer, errors>>

\* The connection breaks: onerror closes it and starts a timer.
Breaks(e) ==
  /\ source[e] = "open" /\ errors < MaxErrors
  /\ errors' = errors + 1
  /\ source' = [source EXCEPT ![e] = "closed"]
  /\ timer' = timer \cup {e}
  /\ UNCHANGED <<now, readVars, page, heartbeats>>

ReconnectAnyway(e) ==
  /\ e \in timer
  /\ timer' = timer \ {e}
  /\ source' = [source EXCEPT ![e] = "open"]
  /\ heartbeats' = heartbeats \cup {<<e, errors>>}
  /\ UNCHANGED <<now, readVars, page, errors>>

\* The timer: connect, which returns if the effect was cleaned up.
Reconnect(e) ==
  /\ e \in timer
  /\ timer' = timer \ {e}
  /\ IF e = page
     THEN /\ source' = [source EXCEPT ![e] = "open"]
          /\ heartbeats' = heartbeats \cup {<<e, errors>>}
     ELSE UNCHANGED <<source, heartbeats>>
  /\ UNCHANGED <<now, readVars, page, errors>>

\* The filter changes or the page is left: the clean-up of the effect, and the
\* effect of the next render.
Leave ==
  /\ page \in Effects
  /\ page' = page + 1
  /\ source' = [source EXCEPT ![page] = IF @ = "open" THEN "closed" ELSE @]
  /\ UNCHANGED <<now, readVars, timer, heartbeats, errors>>

Live(h) == source[h[1]] = "open" /\ \A g \in heartbeats : g[1] = h[1] => g[2] <= h[2]

\* "close" of the request: the server clears its interval.
Closed(h) ==
  /\ h \in heartbeats /\ ~ Live(h)
  /\ heartbeats' = heartbeats \ {h}
  /\ UNCHANGED <<now, readVars, page, source, timer, errors>>

EventNext ==
  Leave \/ (\E e \in Effects : Open(e) \/ Breaks(e) \/ Reconnect(e)) \/ \E h \in heartbeats : Closed(h)
-----------------------------------------------------------------------------
\* A reader is never shown what was fetched for somebody who asked longer than
\* the window before it, nobody is answered by a promise that was given up, and
\* no URL is fetched more than maxAttempts times for one promise.
FreshEnough == \A r \in Readers : asked[r].of /= "none" =>
  LET p == promise[asked[r].of]
  IN /\ asked[r].at < p.at + Window
     /\ asked[r].told = (IF p.state \in {"data", "error"} THEN p.state ELSE "none")
     /\ p.attempt <= MaxTries

\* A page has one source at a time and none when it is left, however errors,
\* timers and renders follow each other.
OneSource == \A e \in Effects : source[e] = "open" => e = page
=============================================================================
