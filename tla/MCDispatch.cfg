\* Two requests cascade over two models of one provider and share its pool of two
\* keys, the cursor and the cool-downs; a breaker opens on its first failure, and the
\* provider can be disabled under a request that is on its way to it.
SPECIFICATION Spec
CONSTANTS
  a = a
  b = b
  p = p
  q = q
  k1 = k1
  k2 = k2
  Candidates <- TwoCandidates
  Providers <- OnlyP
  Keys <- TwoKeys
  ProviderOf <- SameProvider
  Threshold = 1
  Window = 1
  OpenFor = 1
  Requests = {r1, r2}
  Pool <- SharedPool
  RoundRobin <- OnlyP
  Chains <- AThenB
  Waits <- SomeWaits
  Streams <- Buffered
  Replies <- ReplyKinds
  Switchable <- OnlyP
INVARIANT CascadeInv
PROPERTIES KeepsPromise 
SYMMETRY AnyOrder
