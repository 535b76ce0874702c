\* The two days of one month, so that a day resets and the month does not; a soft threshold that one
\* request of a cap of two reaches.
SPECIFICATION Spec
CONSTANTS
  k1 = k1
  k2 = k2
  h1 = h1
  h2 = h2
  None = None
  Tenant = Tenant
  Keys = {k1, k2}
  Handlers = {h1, h2}
  Configured <- AtFirst
  Offers <- OfferedQuotas
  Enforcement = TRUE
  SoftPct = 50
  TTL = 2
  DaysPerMonth = 2
  MaxDay = 1
  MaxUse = 2
  MaxChanges = 1
INVARIANTS SettlesWithinTTL ChangeTakesEffect  
SYMMETRY AnyOrder
