SPECIFICATION PlatformSpec
CONSTANTS
  Requests = {r1, r2, r3}
  Failing = {r1, r2, r3}
  Keys = {ka, kb}
  AgentIds = {1, 2, 3, 4}
  Slugs = {n1, n2, n3}
  PageSize = 2
  MaxPages = 3
  Clients = {c1, c2, c3}
  LockAfter = 2
  Readers = {q1, q2, q3}
  DedupWindow = 2
  MaxClock = 5
  MaxTries = 2
  Effects = {1, 2}
  MaxErrors = 2
  MaxSignals = 3
  MaxRequests = 2
  MaxTokens = 2
  Window = 3
  MaxTime = 6
  MaxTokenAsk = 1
  LlmSteps = {l1, l2}
  ToolSteps = {t1}
  Concurrent = 1
  PerMinute = 1
  MaxAttempts = 2
  MaxCrashes = 1
  MaxChunks = 3
  Calls = {c1}
  MaxRetries = 2
  Events = {e1, e2}
  MaxEntries = 3
  MaxDays = 1
  MaxMade = 5
  Samples <- PlatformSamples
  Target = 950
  MaxHistory = 3
  BurnWindows = {1, 2, 3}
  MaxMinutes = 4
  MaxReplays = 2
  Executions = {x1}
  MaxGone = 2
  Traced = {y1}
  MaxSpans = 2
  ExportTries = 2
  MaxRestarts = 1
INVARIANTS
  VersionsFaithful
  WalkComplete
  LimitLocks
  ConsoleSound
  LastWordCounts
  NeverTooMuch
  QuotaExact
  NothingSkipped
  SentAsChecked
  ChainTells
  SloAgrees
  RetriesHarmless
  ReplayComplete
PROPERTY AllEnds
CHECK_DEADLOCK FALSE
