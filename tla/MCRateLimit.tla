------------------------------ MODULE MCRateLimit ------------------------------
(***************************************************************************)
(* Two tenants and a limiter that sweeps at the second bucket.             *)
(***************************************************************************)
EXTENDS RateLimit, TLC

CONSTANTS t1, t2

Ceilings == [rps |-> 1, burst |-> 2, rpm |-> 3]
Own(rps, burst, rpm) == [rps |-> rps, burst |-> burst, rpm |-> rpm]

\* An override of the minute only: both buckets fill up in the same time.
SameBuckets == (t1 :> Own(0, 0, 0)) @@ (t2 :> Own(0, 0, 2))
=============================================================================
