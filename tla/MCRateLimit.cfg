\* Half-second ticks, so that a bucket holds parts of a token; a minute of three
\* seconds, so that the bucket and the window refuse in either order.
SPECIFICATION RateSpec
CONSTANTS
  t1 = t1
  t2 = t2
  None = None
  Tenants = {t1, t2}
  Deployment <- Ceilings
  Override <- SameBuckets
  SweepAbove = 1
  Second = 2
  Minute = 6
  MaxAge = 6
INVARIANTS  RetryAfterSuffices
