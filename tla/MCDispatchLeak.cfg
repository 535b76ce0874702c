\* A probe whose request is refused by the upstream as the caller's own fault.
SPECIFICATION Spec
CONSTANTS
  a = a
  b = b
  p = p
  q = q
  k1 = k1
  k2 = k2
  Candidates <- TwoCandidates
  Providers <- TwoProviders
  Keys <- TwoKeys
  ProviderOf <- OwnProvider
  Threshold = 1
  Window = 1
  OpenFor = 1
  Requests = {r1, r2}
  Pool <- OneKeyEach
  RoundRobin <- NoProvider
  Chains <- OnlyA
  Waits <- NoWait
  Streams <- Buffered
  Replies <- ReplyKinds
  Switchable <- NoProvider
INVARIANT ProbingMeansInFlight
