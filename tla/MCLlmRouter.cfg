SPECIFICATION FairRouterSpec
CONSTANTS
  c1 = c1
  c2 = c2
  c3 = c3
  Callers <- MCCallers
  Timed <- MCCallers
  Max = 1
  Streaming <- MCStreaming
  Models <- MCModels
  ProviderOf <- MCProviders
  MaxRetries = 1
INVARIANTS
  UpstreamBounded
  LineAndSlots
PROPERTIES
  RequestAnswered
  PoolSpec
CHECK_DEADLOCK FALSE
