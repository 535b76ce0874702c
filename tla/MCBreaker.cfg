\* Three failures within a tick open a breaker, so a trip can be missed by one failure
\* or by one tick.  No answer blames the request and no provider is disabled: the two
\* ways in which a probe ends without a report are left out.
SPECIFICATION HSpec
CONSTANTS
  a = a
  b = b
  p = p
  q = q
  k1 = k1
  k2 = k2
  Candidates <- TwoCandidates
  Providers <- TwoProviders
  Keys <- TwoKeys
  ProviderOf <- OwnProvider
  Threshold = 3
  Window = 1
  OpenFor = 1
  Requests = {r1, r2}
  Pool <- OneKeyEach
  RoundRobin <- NoProvider
  Chains <- AThenB
  Waits <- NoWait
  Streams <- Buffered
  Replies <- NotRequestCaused
  Switchable <- NoProvider
PROPERTIES UsesBreaker TripsExactlyOnThreshold HalfOpenResolves BufferedAnswered
