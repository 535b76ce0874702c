------------------------------ MODULE ChatProofs ------------------------------
(***************************************************************************)
(* What a request of a key passes and leaves.  First the rate limiter, for *)
(* every ceiling, override, tick and number of tenants: Retry-After is     *)
(* long enough, and forgetting changes nothing.  Then the slots, the usage *)
(* records and the endings of Chat, for every limit, idle timeout and      *)
(* finite set of requests.                                                 *)
(***************************************************************************)
EXTENDS Chat, RateLimit, TLAPS

Limits == [rps : Nat, burst : Nat, rpm : Nat]
Full(l) == l.burst * Second

\* A bucket that limits l can have led to.
Bucket(b, l) ==
  /\ b \in BucketType
  /\ b.tokens <= Full(l) /\ b.idle <= MaxAge /\ b.window <= MaxAge /\ b.count <= l.rpm

Buckets ==
  /\ buckets = [t \in Tenants |-> buckets[t]]
  /\ \A t \in Tenants : buckets[t] = None \/ Bucket(buckets[t], LimitsFor(t))

-----------------------------------------------------------------------------
(* Arithmetic *)

LEMMA Division ==
  ASSUME NEW n \in Nat, NEW d \in Nat \ {0}
  PROVE  n \div d \in Nat /\ n % d \in 0..(d - 1) /\ n = d * (n \div d) + (n % d)
OBVIOUS

\* Rounding up covers what was divided.
LEMMA RoundUp ==
  ASSUME NEW n \in Nat, NEW d \in Nat \ {0}
  PROVE  (n + d - 1) \div d \in Nat /\ ((n + d - 1) \div d) * d >= n
<1>1. n + d - 1 \in Nat
  OBVIOUS
<1>2. /\ (n + d - 1) \div d \in Nat /\ (n + d - 1) % d \in 0..(d - 1)
      /\ n + d - 1 = d * ((n + d - 1) \div d) + ((n + d - 1) % d)
  BY <1>1, Division, Zenon
<1> QED BY <1>2

LEMMA Monotone ==
  ASSUME NEW a \in Nat, NEW b \in Nat, NEW c \in Nat, a >= b
  PROVE  a * c \in Nat /\ b * c \in Nat /\ a * c >= b * c
OBVIOUS

LEMMA WholeSeconds == ASSUME NEW n \in Nat PROVE UpToSeconds(n) \in Nat /\ UpToSeconds(n) >= n
<1>1. Second \in Nat \ {0}
  BY RateSettings, Zenon
<1>2. /\ (n + Second - 1) \div Second \in Nat
      /\ ((n + Second - 1) \div Second) * Second >= n
  BY <1>1, RoundUp, Zenon
<1> QED BY <1>1, <1>2 DEF UpToSeconds

-----------------------------------------------------------------------------
(* Buckets *)

\* limitsFor: an override can only lower a ceiling.
LEMMA LimitsTyped ==
  ASSUME NEW t \in Tenants
  PROVE  /\ LimitsFor(t) \in Limits /\ LimitsFor(t).burst <= Deployment.burst
         /\ Full(LimitsFor(t)) \in Nat /\ Full(LimitsFor(t)) <= MaxAge
<1>1. \A f \in {"rps", "burst", "rpm"} : Deployment[f] \in Nat /\ Override[t][f] \in 0..Deployment[f]
  BY RateSettings, Zenon DEF ValidLimits
<1>2. \A f \in {"rps", "burst", "rpm"} :
        Lower(Deployment[f], Override[t][f]) \in Nat /\ Lower(Deployment[f], Override[t][f]) <= Deployment[f]
  BY <1>1 DEF Lower
<1>3. LimitsFor(t) \in Limits /\ LimitsFor(t).burst <= Deployment.burst
  BY <1>2, Zenon DEF LimitsFor, Limits
<1>4. LimitsFor(t).burst \in Nat /\ Deployment.burst \in Nat /\ Second \in Nat
  BY <1>3, RateSettings, Zenon DEF Limits
<1>5. /\ Deployment.burst * Second \in Nat /\ LimitsFor(t).burst * Second \in Nat
      /\ Deployment.burst * Second >= LimitsFor(t).burst * Second
  BY <1>3, <1>4, Monotone, Zenon
<1>6. MaxAge \in Nat /\ MaxAge >= Deployment.burst * Second
  BY RateSettings, Zenon
<1> QED BY <1>3, <1>5, <1>6 DEF Full

LEMMA NewTyped == ASSUME NEW l \in Limits, Full(l) \in Nat PROVE Bucket(NewBucket(l), l)
BY RateSettings DEF Limits, Full, Bucket, BucketType, NewBucket

LEMMA RefilledTyped ==
  ASSUME NEW l \in Limits, Full(l) \in Nat, NEW b, Bucket(b, l)
  PROVE  /\ Bucket(Refilled(b, l), l)
         /\ Refilled(b, l).idle = 0 /\ Refilled(b, l).window = b.window /\ Refilled(b, l).count = b.count
         /\ Refilled(b, l).tokens =
              IF BucketOn(l) THEN AtMost(Full(l), b.tokens + b.idle * l.rps) ELSE b.tokens
<1>1. b.tokens \in Nat /\ b.idle \in Nat /\ l.rps \in Nat
  BY Zenon DEF Bucket, BucketType, Limits
<1>2. b.idle * l.rps \in Nat
  BY <1>1
<1>3. AtMost(Full(l), b.tokens + b.idle * l.rps) \in Nat /\ AtMost(Full(l), b.tokens + b.idle * l.rps) <= Full(l)
  BY <1>1, <1>2 DEF AtMost
<1>4. CASE BucketOn(l)
  <2>1. Refilled(b, l) = [b EXCEPT !.tokens = AtMost(Full(l), b.tokens + b.idle * l.rps), !.idle = 0]
    BY <1>4, Zenon DEF Refilled, Full, Bucket, BucketType
  <2>2. PICK n \in Nat : n = AtMost(Full(l), b.tokens + b.idle * l.rps) /\ n <= Full(l)
    BY <1>3, Zenon
  <2>3. [b EXCEPT !.tokens = n, !.idle = 0] \in BucketType
    BY Zenon DEF Bucket, BucketType
  <2>4. /\ [b EXCEPT !.tokens = n, !.idle = 0].tokens = n
        /\ [b EXCEPT !.tokens = n, !.idle = 0].idle = 0
        /\ [b EXCEPT !.tokens = n, !.idle = 0].window = b.window
        /\ [b EXCEPT !.tokens = n, !.idle = 0].count = b.count
    BY Zenon DEF Bucket, BucketType
  <2>5. 0 <= MaxAge
    BY RateSettings
  <2> QED BY <1>4, <2>1, <2>2, <2>3, <2>4, <2>5, Zenon DEF Bucket
<1>5. CASE ~BucketOn(l)
  <2>1. Refilled(b, l) = [b EXCEPT !.idle = 0]
    BY <1>5, Zenon DEF Refilled
  <2> QED BY <1>5, <2>1, RateSettings DEF Bucket, BucketType
<1> QED BY <1>4, <1>5, Zenon

LEMMA RolledTyped ==
  ASSUME NEW l \in Limits, NEW b, Bucket(b, l)
  PROVE  /\ Bucket(Rolled(b), l) /\ Rolled(b).tokens = b.tokens /\ Rolled(b).idle = b.idle
         /\ Rolled(b).window < Minute
         /\ Rolled(b).window = (IF b.window >= Minute THEN 0 ELSE b.window)
         /\ Rolled(b).count = (IF b.window >= Minute THEN 0 ELSE b.count)
<1>1. 0 < Minute /\ 0 <= MaxAge /\ Minute \in Nat /\ b.window \in Nat /\ 0 <= l.rpm
  BY RateSettings DEF Bucket, BucketType, Limits
<1>2. CASE b.window >= Minute
  <2>1. Rolled(b) = [b EXCEPT !.window = 0, !.count = 0]
    BY <1>2, Zenon DEF Rolled
  <2>2. [b EXCEPT !.window = 0, !.count = 0] \in BucketType
    BY Zenon DEF Bucket, BucketType
  <2>3. /\ [b EXCEPT !.window = 0, !.count = 0].tokens = b.tokens
        /\ [b EXCEPT !.window = 0, !.count = 0].idle = b.idle
        /\ [b EXCEPT !.window = 0, !.count = 0].window = 0
        /\ [b EXCEPT !.window = 0, !.count = 0].count = 0
    BY Zenon DEF Bucket, BucketType
  <2> QED BY <1>1, <1>2, <2>1, <2>2, <2>3, Zenon DEF Bucket
<1>3. CASE ~(b.window >= Minute)
  BY <1>1, <1>3 DEF Rolled
<1> QED BY <1>2, <1>3, Zenon

\* The bucket that take measures.
LEMMA MeasuredTyped ==
  ASSUME Buckets, NEW t \in Tenants
  PROVE  Bucket(Measured(t), LimitsFor(t)) /\ Measured(t).window < Minute /\ Measured(t).idle = 0
<1>1. LimitsFor(t) \in Limits /\ Full(LimitsFor(t)) \in Nat
  BY LimitsTyped, Zenon
<1>2. CASE buckets[t] = None
  <2>1. Bucket(NewBucket(LimitsFor(t)), LimitsFor(t))
    BY <1>1, NewTyped, Zenon
  <2>2. NewBucket(LimitsFor(t)).window = 0 /\ NewBucket(LimitsFor(t)).idle = 0
    BY Zenon DEF NewBucket
  <2> QED BY <1>2, <2>1, <2>2, RateSettings DEF Measured
<1>3. CASE buckets[t] # None
  <2>1. PICK b : b = Refilled(buckets[t], LimitsFor(t))
    BY Zenon
  <2>2. Bucket(b, LimitsFor(t)) /\ b.idle = 0
    BY <1>1, <1>3, <2>1, RefilledTyped, Zenon DEF Buckets
  <2>3. Bucket(Rolled(b), LimitsFor(t)) /\ Rolled(b).idle = 0 /\ Rolled(b).window < Minute
    BY <1>1, <2>2, RolledTyped, Zenon
  <2> QED BY <1>3, <2>1, <2>3, Zenon DEF Measured
<1> QED BY <1>2, <1>3, Zenon

LEMMA ChargedTyped ==
  ASSUME NEW l \in Limits, NEW b, Bucket(b, l), ~Denied(b, l)
  PROVE  /\ Bucket(Charged(b, l), l) /\ Charged(b, l).idle = b.idle /\ Charged(b, l).window = b.window
         /\ Charged(b, l).tokens = (IF BucketOn(l) THEN b.tokens - Second ELSE b.tokens)
         /\ Charged(b, l).count = (IF MinuteOn(l) THEN b.count + 1 ELSE b.count)
<1>1. PICK n, m : /\ n = (IF BucketOn(l) THEN b.tokens - Second ELSE b.tokens)
                  /\ m = (IF MinuteOn(l) THEN b.count + 1 ELSE b.count)
  BY Zenon
<1>2. n \in Nat /\ m \in Nat /\ n <= b.tokens /\ m <= l.rpm
  BY <1>1, RateSettings DEF Denied, NoToken, NoMinute, Bucket, BucketType, Limits, MinuteOn
<1>3. Charged(b, l) = [b EXCEPT !.tokens = n, !.count = m]
  BY <1>1, Zenon DEF Charged, Bucket, BucketType
<1>4. /\ [b EXCEPT !.tokens = n, !.count = m] \in BucketType
      /\ [b EXCEPT !.tokens = n, !.count = m].tokens = n
      /\ [b EXCEPT !.tokens = n, !.count = m].idle = b.idle
      /\ [b EXCEPT !.tokens = n, !.count = m].window = b.window
      /\ [b EXCEPT !.tokens = n, !.count = m].count = m
  BY <1>2, Zenon DEF Bucket, BucketType
<1>5. b.tokens \in Nat /\ b.tokens <= Full(l) /\ n <= Full(l)
  <2>1. b.tokens \in Nat /\ b.tokens <= Full(l) /\ Full(l) \in Int
    BY RateSettings DEF Bucket, BucketType, Full, Limits
  <2> QED BY <1>2, <2>1
<1> QED BY <1>1, <1>2, <1>3, <1>4, <1>5, Zenon DEF Bucket

LEMMA OlderTyped ==
  ASSUME NEW l \in Limits, NEW b, Bucket(b, l)
  PROVE  /\ Bucket(Older(b), l) /\ Older(b).tokens = b.tokens /\ Older(b).count = b.count
         /\ Older(b).idle = AtMost(MaxAge, b.idle + 1) /\ Older(b).window = AtMost(MaxAge, b.window + 1)
<1>1. PICK i, w : i = AtMost(MaxAge, b.idle + 1) /\ w = AtMost(MaxAge, b.window + 1)
  BY Zenon
<1>2. i \in Nat /\ w \in Nat /\ i <= MaxAge /\ w <= MaxAge
  BY <1>1, RateSettings DEF AtMost, Bucket, BucketType
<1>3. Older(b) = [b EXCEPT !.idle = i, !.window = w]
  BY <1>1, Zenon DEF Older, Bucket, BucketType
<1>4. /\ [b EXCEPT !.idle = i, !.window = w] \in BucketType
      /\ [b EXCEPT !.idle = i, !.window = w].tokens = b.tokens
      /\ [b EXCEPT !.idle = i, !.window = w].idle = i
      /\ [b EXCEPT !.idle = i, !.window = w].window = w
      /\ [b EXCEPT !.idle = i, !.window = w].count = b.count
  BY <1>2, Zenon DEF Bucket, BucketType
<1> QED BY <1>1, <1>2, <1>3, <1>4, Zenon DEF Bucket

-----------------------------------------------------------------------------
(* Steps *)

\* How long an empty bucket takes to fill, as sweep reckons it.
Fills(l) == IF BucketOn(l) THEN (l.burst * Second + l.rps - 1) \div l.rps ELSE 0

\* take puts the caller's bucket back, charged or not, and forgets others only if they
\* have been idle for as long as the caller's bucket takes to fill.
LEMMA TakeShape ==
  ASSUME Buckets, NEW t \in Tenants, Take(t)
  PROVE  /\ buckets' = [u \in Tenants |-> buckets'[u]]
         /\ \A u \in Tenants \ {t} :
              \/ buckets'[u] = buckets[u]
              \/ /\ buckets'[u] = None /\ buckets[u] # None
                 /\ buckets[u].idle >= Fills(LimitsFor(t)) /\ buckets[u].window >= Minute
         /\ buckets'[t] = IF Denied(Measured(t), LimitsFor(t)) THEN Measured(t)
                          ELSE Charged(Measured(t), LimitsFor(t))
         /\ owed' = Owes(t)
<1>1. PICK b, l : b = Measured(t) /\ l = LimitsFor(t)
  BY Zenon
<1>2. PICK present : present = [buckets EXCEPT ![t] = b]
  BY Zenon
<1>3. PICK kept : /\ kept \in {present, Swept(present, l)}
                  /\ buckets' = IF Denied(b, l) THEN kept ELSE [kept EXCEPT ![t] = Charged(b, l)]
  BY <1>1, <1>2, Zenon DEF Take
<1>4. ~(b.window >= Minute)
  <2>1. b.window < Minute /\ b.window \in Nat /\ Minute \in Nat
    BY <1>1, MeasuredTyped, RateSettings, Zenon DEF Bucket, BucketType
  <2> QED BY <2>1
<1>5. present = [u \in Tenants |-> present[u]] /\ present[t] = b /\ \A u \in Tenants \ {t} : present[u] = buckets[u]
  BY <1>2, Zenon DEF Buckets
<1>6. /\ kept = [u \in Tenants |-> kept[u]] /\ kept[t] = b
      /\ \A u \in Tenants \ {t} :
           \/ kept[u] = buckets[u]
           \/ /\ kept[u] = None /\ buckets[u] # None
              /\ buckets[u].idle >= Fills(l) /\ buckets[u].window >= Minute
  <2>1. CASE kept = present
    BY <1>5, <2>1, Zenon
  <2>2. CASE kept = Swept(present, l)
    BY <1>4, <1>5, <2>2, Zenon DEF Swept, Fills
  <2> QED BY <1>3, <2>1, <2>2, Zenon
<1>7. /\ buckets' = [u \in Tenants |-> buckets'[u]]
      /\ \A u \in Tenants \ {t} : buckets'[u] = kept[u]
      /\ buckets'[t] = IF Denied(b, l) THEN b ELSE Charged(b, l)
  BY <1>3, <1>6, Zenon
<1>8. owed' = Owes(t)
  BY Zenon DEF Take
<1> QED BY <1>1, <1>6, <1>7, <1>8, Zenon

\* Every bucket stays within what its tenant's limits allow.
LEMMA BucketsStep == Buckets /\ [RateNext]_rateVars => Buckets'
<1> SUFFICES ASSUME Buckets, [RateNext]_rateVars PROVE Buckets'
  BY Zenon
<1>1. ASSUME NEW t \in Tenants, Take(t) PROVE Buckets'
  <2>1. Bucket(buckets'[t], LimitsFor(t))
    <3>1. Bucket(Measured(t), LimitsFor(t)) /\ LimitsFor(t) \in Limits
      BY MeasuredTyped, LimitsTyped, Zenon
    <3> QED BY <1>1, <3>1, TakeShape, ChargedTyped
  <2>2. \A u \in Tenants : buckets'[u] = None \/ Bucket(buckets'[u], LimitsFor(u))
    BY <1>1, <2>1, TakeShape, Zenon DEF Buckets
  <2>3. buckets' = [u \in Tenants |-> buckets'[u]]
    BY <1>1, TakeShape, Zenon
  <2> QED BY <2>2, <2>3, Zenon DEF Buckets
<1>2. CASE RateTick
  <2>1. ASSUME NEW u \in Tenants PROVE buckets'[u] = None \/ Bucket(buckets'[u], LimitsFor(u))
    BY <1>2, OlderTyped, LimitsTyped, Zenon DEF RateTick, Buckets
  <2>2. buckets' = [u \in Tenants |-> buckets'[u]]
    BY <1>2, Zenon DEF RateTick
  <2> QED BY <2>1, <2>2, Zenon DEF Buckets
<1>3. CASE UNCHANGED rateVars
  BY <1>3, Zenon DEF rateVars, Buckets
<1> QED BY <1>1, <1>2, <1>3, Zenon DEF RateNext

-----------------------------------------------------------------------------
(* The specification of the limiter *)

\* The types of the buckets, for every setting.
THEOREM RateInvariance == RateSpec => []Buckets
<1>1. RateInit => Buckets
  BY Zenon DEF RateInit, Buckets
<1> QED BY <1>1, BucketsStep, PTL DEF RateSpec

\* Waiting Retry-After is enough: by then the bucket holds a token if it was the bucket
\* that refused, and the minute is over if it was the minute.
LEMMA WaitIsEnough ==
  ASSUME NEW l \in Limits, Full(l) \in Nat, NEW b, Bucket(b, l), b.window < Minute, Denied(b, l),
         NEW w, w = RetryAfter(b, l),
         NEW later, later = [b EXCEPT !.idle = w, !.window = @ + w]
  PROVE  w > 0 /\ ~Denied(Rolled(Refilled(later, l)), l)
<1>1. /\ Second \in Nat \ {0} /\ Minute \in Nat \ {0} /\ l.rps \in Nat /\ l.burst \in Nat /\ l.rpm \in Nat
      /\ b.tokens \in Nat /\ b.window \in Nat /\ b.count \in Nat /\ b.idle \in Nat
  BY RateSettings, Zenon DEF Limits, Bucket, BucketType
<1>2. PICK token, minute :
        /\ token = IF NoToken(b, l) THEN (Second - b.tokens + l.rps - 1) \div l.rps ELSE 0
        /\ minute = IF NoMinute(b, l) THEN Minute - b.window ELSE 0
        /\ w = UpToSeconds(IF minute > token THEN minute ELSE token)
  BY Zenon DEF RetryAfter
<1>3. token \in Nat /\ (NoToken(b, l) => token * l.rps >= Second - b.tokens /\ token > 0)
  <2>1. CASE NoToken(b, l)
    <3>1. l.rps \in Nat \ {0} /\ Second - b.tokens \in Nat /\ Second - b.tokens > 0
      BY <1>1, <2>1 DEF NoToken, BucketOn
    <3>2. token = (Second - b.tokens + l.rps - 1) \div l.rps
      BY <1>2, <2>1, Zenon
    <3>3. token \in Nat /\ token * l.rps >= Second - b.tokens
      BY <3>1, <3>2, RoundUp, Zenon
    <3> QED BY <3>1, <3>3
  <2> QED BY <1>2, <2>1, Zenon
<1>4. minute \in Nat /\ (NoMinute(b, l) => minute > 0 /\ minute = Minute - b.window)
  BY <1>1, <1>2
<1>5. w \in Nat /\ w >= token /\ w >= minute
  <2>1. PICK m \in Nat : m = (IF minute > token THEN minute ELSE token) /\ m >= token /\ m >= minute
    BY <1>3, <1>4
  <2> QED BY <1>2, <1>3, <1>4, <2>1, WholeSeconds
<1>6. w > 0
  BY <1>3, <1>4, <1>5 DEF Denied
<1>7. /\ later \in BucketType /\ later.tokens = b.tokens /\ later.idle = w
      /\ later.window = b.window + w /\ later.count = b.count
  <2>1. PICK x \in Nat : x = b.window + w
    BY <1>1, <1>5
  <2>2. later = [b EXCEPT !.idle = w, !.window = x]
    BY <2>1, Zenon
  <2> QED BY <1>5, <2>1, <2>2, Zenon DEF Bucket, BucketType
<1>8. PICK r : r = Refilled(later, l)
  BY Zenon
<1>9. w * l.rps \in Nat /\ token * l.rps \in Nat /\ w * l.rps >= token * l.rps
  BY <1>1, <1>3, <1>5, Monotone, Zenon
<1>10. r.window = b.window + w /\ r.count = b.count /\ r \in BucketType /\ (BucketOn(l) => r.tokens >= Second)
  <2>1. CASE BucketOn(l)
    <3>1. PICK n : n = AtMost(Full(l), b.tokens + w * l.rps)
      BY Zenon
    <3>2. b.tokens + w * l.rps >= Second
      BY <1>1, <1>3, <1>9, <2>1 DEF NoToken
    <3>3. Full(l) >= Second
      <4>1. l.burst >= 1
        BY <2>1, Zenon DEF BucketOn
      <4>2. l.burst * Second >= 1 * Second
        BY <1>1, <4>1, Monotone, Zenon
      <4> QED BY <1>1, <4>2 DEF Full
    <3>4. n \in Nat /\ n >= Second
      BY <1>1, <1>9, <3>1, <3>2, <3>3 DEF AtMost
    <3>5. r = [later EXCEPT !.tokens = n, !.idle = 0]
      BY <1>7, <1>8, <2>1, <3>1, Zenon DEF Refilled, Full, BucketType
    <3> QED BY <1>7, <3>4, <3>5, Zenon DEF BucketType
  <2>2. CASE ~BucketOn(l)
    <3>1. r = [later EXCEPT !.idle = 0]
      BY <1>8, <2>2, Zenon DEF Refilled
    <3> QED BY <1>7, <2>2, <3>1, Zenon DEF BucketType
  <2> QED BY <2>1, <2>2, Zenon
<1>11. ~NoToken(Rolled(r), l)
  <2>1. Rolled(r).tokens = r.tokens /\ r.tokens \in Nat
    BY <1>10, Zenon DEF Rolled, BucketType
  <2> QED BY <1>1, <1>10, <2>1 DEF NoToken
<1>12. ~NoMinute(Rolled(r), l)
  <2>1. CASE r.window >= Minute
    <3>1. Rolled(r).count = 0
      BY <1>10, <2>1, Zenon DEF Rolled, BucketType
    <3> QED BY <1>1, <3>1 DEF NoMinute, MinuteOn
  <2>2. CASE ~(r.window >= Minute)
    <3>1. Rolled(r) = r
      BY <2>2, Zenon DEF Rolled
    <3>2. ~NoMinute(b, l)
      BY <1>1, <1>4, <1>5, <1>10, <2>2
    <3> QED BY <1>10, <3>1, <3>2, Zenon DEF NoMinute
  <2> QED BY <2>1, <2>2, Zenon
<1> QED BY <1>6, <1>8, <1>11, <1>12, Zenon DEF Denied

\* The Retry-After header of a 429 is long enough, whatever the rate, the burst, the
\* minute's allowance and the moment of the refusal.
THEOREM RetryAfterLongEnough == RateSpec => []RetryAfterSuffices
<1>1. Buckets => RetryAfterSuffices
  <2> SUFFICES ASSUME Buckets, NEW t \in Tenants, Denied(Measured(t), LimitsFor(t)),
                      NEW w, w = RetryAfter(Measured(t), LimitsFor(t)),
                      NEW later, later = [Measured(t) EXCEPT !.idle = w, !.window = @ + w]
               PROVE  w > 0 /\ ~Denied(Rolled(Refilled(later, LimitsFor(t))), LimitsFor(t))
    BY Zenon DEF RetryAfterSuffices
  <2>1. LimitsFor(t) \in Limits /\ Full(LimitsFor(t)) \in Nat
    BY LimitsTyped, Zenon
  <2>2. Bucket(Measured(t), LimitsFor(t)) /\ Measured(t).window < Minute
    BY MeasuredTyped, Zenon
  <2> QED BY <2>1, <2>2, WaitIsEnough, Zenon
<1> QED BY <1>1, RateInvariance, PTL

-----------------------------------------------------------------------------
(* Beside the limiter that refills at every tick and forgets nobody *)

\* All buckets fill at the same rate up to the same burst.
Alike == \A t, u \in Tenants : LimitsFor(t).rps = LimitsFor(u).rps /\ LimitsFor(t).burst = LimitsFor(u).burst

\* What the tokens of a bucket have come to by now.
Caught(b, l) == IF BucketOn(l) THEN AtMost(Full(l), b.tokens + b.idle * l.rps) ELSE b.tokens

\* A bucket b is owed what o says; one that is forgotten is owed a full one.
Same(b, o, l) ==
  /\ Bucket(o, l) /\ o.idle = 0 /\ (~BucketOn(l) => o.tokens = Full(l))
  /\ b = None => o.tokens = Full(l) /\ o.window >= Minute
  /\ b # None => /\ Bucket(b, l) /\ o.tokens = Caught(b, l)
                 /\ o.window = b.window /\ o.count = b.count

\* The inductive invariant.
RateInv ==
  /\ Buckets
  /\ owed = [t \in Tenants |-> owed[t]]
  /\ \A t \in Tenants : Same(buckets[t], owed[t], LimitsFor(t))

LEMMA SameFields ==
  ASSUME NEW x \in BucketType, NEW y \in BucketType, x.tokens = y.tokens, x.idle = y.idle,
         x.window = y.window, x.count = y.count
  PROVE  x = y
BY DEF BucketType

\* take measures the same bucket.
LEMMA SameMeasured ==
  ASSUME NEW l \in Limits, Full(l) \in Nat, NEW b, NEW o, Same(b, o, l)
  PROVE  (IF b = None THEN NewBucket(l) ELSE Rolled(Refilled(b, l))) = Rolled(o)
<1>1. /\ Bucket(Rolled(o), l) /\ Rolled(o).tokens = o.tokens /\ Rolled(o).idle = 0
      /\ Rolled(o).window = (IF o.window >= Minute THEN 0 ELSE o.window)
      /\ Rolled(o).count = (IF o.window >= Minute THEN 0 ELSE o.count)
  BY RolledTyped, Zenon DEF Same
<1>2. CASE b = None
  <2>1. /\ Bucket(NewBucket(l), l) /\ NewBucket(l).tokens = Full(l) /\ NewBucket(l).idle = 0
        /\ NewBucket(l).window = 0 /\ NewBucket(l).count = 0
    BY NewTyped, Zenon DEF NewBucket, Full
  <2>2. NewBucket(l) = Rolled(o)
    BY <1>1, <1>2, <2>1, SameFields, Zenon DEF Same, Bucket
  <2> QED BY <1>2, <2>2, Zenon
<1>3. CASE b # None
  <2>1. PICK r : r = Refilled(b, l)
    BY Zenon
  <2>2. /\ Bucket(r, l) /\ r.tokens = Caught(b, l) /\ r.idle = 0
        /\ r.window = b.window /\ r.count = b.count
    BY <1>3, <2>1, RefilledTyped, Zenon DEF Same, Caught
  <2>3. /\ Bucket(Rolled(r), l) /\ Rolled(r).tokens = r.tokens /\ Rolled(r).idle = r.idle
        /\ Rolled(r).window = (IF r.window >= Minute THEN 0 ELSE r.window)
        /\ Rolled(r).count = (IF r.window >= Minute THEN 0 ELSE r.count)
    BY <2>2, RolledTyped, Zenon
  <2>4. Rolled(r) = Rolled(o)
    BY <1>1, <1>3, <2>2, <2>3, SameFields DEF Same, Bucket
  <2> QED BY <1>3, <2>1, <2>4, Zenon
<1> QED BY <1>2, <1>3, Zenon

\* A bucket just measured is owed what it holds.
LEMMA SameFresh ==
  ASSUME NEW l \in Limits, Full(l) \in Nat, NEW b, Bucket(b, l), b.idle = 0, b # None,
         ~BucketOn(l) => b.tokens = Full(l)
  PROVE  Same(b, b, l)
<1>1. b.tokens \in Nat /\ b.tokens <= Full(l) /\ l.rps \in Nat
  BY Zenon DEF Bucket, BucketType, Limits
<1>2. 0 * l.rps = 0
  BY <1>1
<1>3. Caught(b, l) = b.tokens
  BY <1>1, <1>2 DEF Caught, AtMost
<1> QED BY <1>3, Zenon DEF Same

\* Time passes for both alike.
LEMMA SameTick ==
  ASSUME NEW l \in Limits, Full(l) \in Nat, Full(l) <= MaxAge, NEW b, NEW o, Same(b, o, l)
  PROVE  Same(IF b = None THEN None ELSE Older(b), Refilled(Older(o), l), l)
<1>0. /\ MaxAge \in Nat /\ Minute \in Nat \ {0} /\ MaxAge >= Minute /\ l.rps \in Nat
      /\ o.tokens \in Nat /\ o.window \in Nat /\ o.tokens <= Full(l) /\ o.window <= MaxAge
  BY RateSettings, Zenon DEF Limits, Same, Bucket, BucketType
<1>1. PICK p : p = Refilled(Older(o), l)
  BY Zenon
<1>2. /\ Bucket(Older(o), l) /\ Older(o).tokens = o.tokens /\ Older(o).count = o.count
      /\ Older(o).idle = 1 /\ Older(o).window = AtMost(MaxAge, o.window + 1)
  <2>1. AtMost(MaxAge, 0 + 1) = 1
    BY <1>0 DEF AtMost
  <2> QED BY <2>1, OlderTyped, Zenon DEF Same
<1>3. /\ Bucket(p, l) /\ p.idle = 0 /\ p.window = AtMost(MaxAge, o.window + 1) /\ p.count = o.count
      /\ p.tokens = IF BucketOn(l) THEN AtMost(Full(l), o.tokens + 1 * l.rps) ELSE o.tokens
  BY <1>1, <1>2, RefilledTyped
<1>4. ~BucketOn(l) => p.tokens = Full(l)
  BY <1>3, Zenon DEF Same
<1>5. CASE b = None
  <2>1. p.tokens = Full(l)
    BY <1>0, <1>3, <1>5 DEF Same, AtMost
  <2>2. p.window >= Minute
    BY <1>0, <1>3, <1>5 DEF Same, AtMost
  <2> QED BY <1>1, <1>3, <1>4, <1>5, <2>1, <2>2, Zenon DEF Same
<1>6. CASE b # None
  <2>1. PICK c : c = Older(b)
    BY Zenon
  <2>2. /\ Bucket(c, l) /\ c.tokens = b.tokens /\ c.count = b.count
        /\ c.idle = AtMost(MaxAge, b.idle + 1) /\ c.window = AtMost(MaxAge, b.window + 1)
    BY <1>6, <2>1, OlderTyped, Zenon DEF Same
  <2>3. c # None
    BY <2>2, RateSettings, Zenon DEF Bucket
  <2>4. b.tokens \in Nat /\ b.idle \in Nat /\ b.idle <= MaxAge
    BY <1>6, Zenon DEF Same, Bucket, BucketType
  <2>5. p.tokens = Caught(c, l)
    <3>1. CASE ~BucketOn(l)
      BY <1>3, <1>6, <2>2, <3>1, Zenon DEF Same, Caught
    <3>2. CASE BucketOn(l) /\ b.idle < MaxAge
      <4>1. c.idle = b.idle + 1 /\ (b.idle + 1) * l.rps = b.idle * l.rps + l.rps /\ b.idle * l.rps \in Nat
        <5>1. \A n, r \in Nat : (n + 1) * r = n * r + r /\ n * r \in Nat
          OBVIOUS
        <5>2. c.idle = b.idle + 1
          BY <1>0, <2>2, <2>4, <3>2 DEF AtMost
        <5> QED BY <1>0, <2>4, <5>1, <5>2, Zenon
      <4>2. o.tokens = AtMost(Full(l), b.tokens + b.idle * l.rps)
        BY <1>6, <3>2, Zenon DEF Same, Caught
      <4>3. p.tokens = AtMost(Full(l), o.tokens + l.rps)
        BY <1>0, <1>3, <3>2
      <4>4. Caught(c, l) = AtMost(Full(l), b.tokens + (b.idle * l.rps + l.rps))
        BY <2>2, <3>2, <4>1, Zenon DEF Caught
      <4> HIDE DEF Full
      <4> QED BY <1>0, <2>4, <4>1, <4>2, <4>3, <4>4 DEF AtMost
    <3>3. CASE BucketOn(l) /\ b.idle = MaxAge
      <4>1. c.idle = MaxAge
        BY <1>0, <2>2, <3>3 DEF AtMost
      <4>2. l.rps >= 1
        BY <3>3, Zenon DEF BucketOn
      <4>3. MaxAge * l.rps \in Nat /\ MaxAge * l.rps >= MaxAge
        <5>1. l.rps * MaxAge >= 1 * MaxAge
          BY <1>0, <4>2, Monotone, Zenon
        <5> QED BY <1>0, <5>1
      <4>4. Caught(c, l) = Full(l) /\ o.tokens = Full(l)
        BY <1>0, <1>6, <2>2, <2>4, <3>3, <4>1, <4>3 DEF Caught, AtMost, Same
      <4> QED BY <1>0, <1>3, <3>3, <4>4 DEF AtMost
    <3> QED BY <1>0, <2>4, <3>1, <3>2, <3>3
  <2>6. p.window = c.window /\ p.count = c.count
    BY <1>3, <1>6, <2>2, Zenon DEF Same
  <2> QED BY <1>1, <1>3, <1>4, <1>6, <2>1, <2>2, <2>3, <2>5, <2>6, Zenon DEF Same
<1> QED BY <1>5, <1>6, Zenon

\* A bucket idle for as long as it takes to fill is owed a full one.
LEMMA SameForgotten ==
  ASSUME NEW l \in Limits, Full(l) \in Nat, NEW b, NEW o, Same(b, o, l), b # None,
         b.idle >= Fills(l), b.window >= Minute
  PROVE  Same(None, o, l)
<1>1. b.tokens \in Nat /\ b.idle \in Nat /\ l.rps \in Nat
  BY Zenon DEF Same, Bucket, BucketType, Limits
<1>2. o.tokens = Full(l)
  <2>1. CASE BucketOn(l)
    <3>1. l.rps \in Nat \ {0}
      BY <1>1, <2>1 DEF BucketOn
    <3>2. Fills(l) = (Full(l) + l.rps - 1) \div l.rps
      BY <2>1, Zenon DEF Fills, Full
    <3>3. Fills(l) \in Nat /\ Fills(l) * l.rps >= Full(l)
      BY <3>1, <3>2, RoundUp, Zenon
    <3>4. b.idle * l.rps \in Nat /\ Fills(l) * l.rps \in Nat /\ b.idle * l.rps >= Fills(l) * l.rps
      BY <1>1, <3>3, Monotone, Zenon
    <3>5. o.tokens = AtMost(Full(l), b.tokens + b.idle * l.rps)
      BY <2>1, Zenon DEF Same, Caught
    <3> HIDE DEF Full, Fills
    <3> QED BY <1>1, <3>3, <3>4, <3>5 DEF AtMost
  <2>2. CASE ~BucketOn(l)
    BY <2>2, Zenon DEF Same
  <2> QED BY <2>1, <2>2, Zenon
<1> QED BY <1>2, Zenon DEF Same

LEMMA SameStep == Alike /\ RateInv /\ [RateNext]_rateVars => RateInv'
<1> SUFFICES ASSUME Alike, RateInv, [RateNext]_rateVars PROVE RateInv'
  BY Zenon
<1>1. Buckets'
  BY BucketsStep, Zenon DEF RateInv
<1>2. \A u \in Tenants : LimitsFor(u) \in Limits /\ Full(LimitsFor(u)) \in Nat /\ Full(LimitsFor(u)) <= MaxAge
  BY LimitsTyped, Zenon
<1>3. ASSUME NEW t \in Tenants, Take(t) PROVE RateInv'
  <2>1. PICK l : l = LimitsFor(t)
    BY Zenon
  <2>2. PICK b : b = Measured(t)
    BY Zenon
  <2>3. b = Rolled(owed[t])
    BY <1>2, <2>1, <2>2, SameMeasured, Zenon DEF RateInv, Measured
  <2>4. Bucket(b, l) /\ b.idle = 0 /\ b # None
    BY <2>1, <2>2, MeasuredTyped, RateSettings, Zenon DEF RateInv, Bucket
  <2>5. ~BucketOn(l) => b.tokens = Full(l)
    BY <1>2, <2>1, <2>3, RolledTyped, Zenon DEF RateInv, Same
  <2>6. PICK x : x = IF Denied(b, l) THEN b ELSE Charged(b, l)
    BY Zenon
  <2>7. Bucket(x, l) /\ x.idle = 0 /\ x # None /\ (~BucketOn(l) => x.tokens = Full(l))
    BY <1>2, <2>1, <2>4, <2>5, <2>6, ChargedTyped, RateSettings DEF Bucket
  <2>8. Same(x, x, l)
    BY <1>2, <2>1, <2>7, SameFresh, Zenon
  <2>9. buckets'[t] = x
    BY <1>3, <2>1, <2>2, <2>6, TakeShape, Zenon DEF RateInv
  <2>10. owed' = [owed EXCEPT ![t] = x]
    BY <1>3, <2>1, <2>3, <2>6, TakeShape, Zenon DEF RateInv, Owes
  <2>11. /\ owed' = [u \in Tenants |-> owed'[u]] /\ owed'[t] = x
         /\ \A u \in Tenants \ {t} : owed'[u] = owed[u]
    BY <2>10, Zenon DEF RateInv
  <2>12. ASSUME NEW u \in Tenants \ {t} PROVE Same(buckets'[u], owed'[u], LimitsFor(u))
    <3>1. Same(buckets[u], owed[u], LimitsFor(u)) /\ owed'[u] = owed[u]
      BY <2>11, Zenon DEF RateInv
    <3>2. Fills(LimitsFor(u)) = Fills(l)
      BY <2>1, Zenon DEF Alike, Fills, BucketOn
    <3>3. CASE buckets'[u] = buckets[u]
      BY <3>1, <3>3, Zenon
    <3>4. CASE /\ buckets'[u] = None /\ buckets[u] # None
               /\ buckets[u].idle >= Fills(l) /\ buckets[u].window >= Minute
      <4>1. Same(None, owed[u], LimitsFor(u))
        BY <1>2, <3>1, <3>2, <3>4, SameForgotten, Zenon
      <4> QED BY <3>1, <3>4, <4>1, Zenon
    <3> QED BY <1>3, <2>1, <3>3, <3>4, TakeShape, Zenon DEF RateInv
  <2>13. \A u \in Tenants : Same(buckets'[u], owed'[u], LimitsFor(u))
    BY <2>1, <2>8, <2>9, <2>11, <2>12, Zenon
  <2> QED BY <1>1, <2>11, <2>13, Zenon DEF RateInv
<1>4. CASE RateTick
  <2>1. ASSUME NEW u \in Tenants PROVE Same(buckets'[u], owed'[u], LimitsFor(u))
    <3>1. /\ buckets'[u] = IF buckets[u] = None THEN None ELSE Older(buckets[u])
          /\ owed'[u] = Refilled(Older(owed[u]), LimitsFor(u))
      BY <1>4, Zenon DEF RateTick
    <3>2. Same(buckets[u], owed[u], LimitsFor(u))
      BY Zenon DEF RateInv
    <3>3. Same(IF buckets[u] = None THEN None ELSE Older(buckets[u]),
               Refilled(Older(owed[u]), LimitsFor(u)), LimitsFor(u))
      BY <1>2, <3>2, SameTick, Zenon
    <3> QED BY <3>1, <3>3, Zenon
  <2>2. owed' = [u \in Tenants |-> owed'[u]]
    BY <1>4, Zenon DEF RateTick
  <2> QED BY <1>1, <2>1, <2>2, Zenon DEF RateInv
<1>5. CASE UNCHANGED rateVars
  BY <1>1, <1>5, Zenon DEF rateVars, RateInv
<1> QED BY <1>3, <1>4, <1>5, Zenon DEF RateNext

\* Where all tenants' buckets are alike, the limiter answers like one that refills at
\* every tick and forgets nobody: sweep may then measure everybody by the caller's limits.
THEOREM ForgettingIsSafe ==
  ASSUME Alike
  PROVE  RateSpec => []ForgettingChangesNothing
<1>1. RateInit => RateInv
  <2> SUFFICES ASSUME RateInit PROVE RateInv
    BY Zenon
  <2>1. Buckets /\ owed = [t \in Tenants |-> owed[t]]
    BY Zenon DEF RateInit, Buckets
  <2>2. ASSUME NEW t \in Tenants PROVE Same(buckets[t], owed[t], LimitsFor(t))
    <3>1. PICK n : n = NewBucket(LimitsFor(t))
      BY Zenon
    <3>2. /\ Bucket(n, LimitsFor(t)) /\ n.tokens = Full(LimitsFor(t)) /\ n.idle = 0
          /\ MaxAge \in Nat /\ MaxAge >= Minute /\ Minute \in Nat
      BY <3>1, LimitsTyped, NewTyped, RateSettings, Zenon DEF NewBucket, Full
    <3>3. buckets[t] = None /\ owed[t] = [n EXCEPT !.window = MaxAge]
      BY <3>1, Zenon DEF RateInit
    <3>4. /\ Bucket(owed[t], LimitsFor(t)) /\ owed[t].tokens = Full(LimitsFor(t)) /\ owed[t].idle = 0
          /\ owed[t].window = MaxAge
      BY <3>2, <3>3 DEF Bucket, BucketType
    <3> QED BY <3>2, <3>3, <3>4, Zenon DEF Same
  <2> QED BY <2>1, <2>2, Zenon DEF RateInv
<1>2. RateInv => ForgettingChangesNothing
  <2> SUFFICES ASSUME RateInv PROVE ForgettingChangesNothing
    BY Zenon
  <2>1. RateTypeOK
    <3> SUFFICES ASSUME NEW t \in Tenants, buckets[t] # None
                 PROVE  /\ buckets[t].tokens \in 0..(LimitsFor(t).burst * Second)
                        /\ buckets[t].idle \in 0..MaxAge /\ buckets[t].window \in 0..MaxAge
                        /\ buckets[t].count \in 0..LimitsFor(t).rpm
      BY Zenon DEF RateTypeOK
    <3>1. Bucket(buckets[t], LimitsFor(t)) /\ Full(LimitsFor(t)) \in Nat /\ LimitsFor(t).rpm \in Nat /\ MaxAge \in Nat
      BY LimitsTyped, RateSettings, Zenon DEF RateInv, Buckets, Limits
    <3> QED BY <3>1 DEF Bucket, BucketType, Full
  <2>2. ASSUME NEW t \in Tenants PROVE Measured(t) = Rolled(owed[t])
    <3>1. LimitsFor(t) \in Limits /\ Full(LimitsFor(t)) \in Nat
      BY LimitsTyped, Zenon
    <3> QED BY <3>1, SameMeasured, Zenon DEF RateInv, Measured
  <2> QED BY <2>1, <2>2, Zenon DEF ForgettingChangesNothing
<1>3. RateInv /\ [RateNext]_rateVars => RateInv'
  BY SameStep, Zenon
<1> QED BY <1>1, <1>2, <1>3, PTL DEF RateSpec

-----------------------------------------------------------------------------
(* The requests of a key: finite sets are met from here on *)

INSTANCE FiniteSetTheorems

\* Who owns what is left of a request: nobody before it was served, the handler of a
\* buffered one, the writer of a streamed one.
Owned(r) ==
  /\ handler[r].pc \in {"new", "handler"} => ~handler[r].served
  /\ handler[r].adopted => handler[r].served
  /\ handler[r].adopted <=> relay[r].pc # "none"
  /\ records[r] = IF handler[r].served /\ (handler[r].adopted => relay[r].pc = "done") THEN 1 ELSE 0

\* What a relay knows of its upstream once it has stopped reading.
Told(r) ==
  /\ up[r].closed /\ relay[r].pc # "done" => relay[r].stalled
  /\ relay[r].pc = "end" /\ relay[r].why = "eof" => up[r].state = "complete" /\ up[r].unread = 0
  /\ relay[r].pc \in {"meter", "done"} =>
       /\ client[r].ending = "complete" => up[r].state = "complete" /\ up[r].unread = 0
       /\ client[r].ending = "lost" => client[r].state = "gone"
       /\ client[r].ending # "none"

Holders == {r \in Requests : Holding(r)}

\* The inductive invariant.
IInv ==
  /\ TypeOK
  /\ SlotsCounted
  /\ inUse <= Limit
  /\ \A r \in Requests : Owned(r) /\ Told(r)

-----------------------------------------------------------------------------
(* One lemma per part of the invariant *)

\* The two ends of the watchdog's range.
LEMMA FullTimer == Idle \in 0..Idle /\ 0 \in 0..Idle
BY ChatSettings

\* The steps that set several fields of a relay at once leave a relay.
LEMMA RelayTyped ==
  ASSUME TypeOK, NEW r \in Requests,
         Start(r) \/ ReadLine(r) \/ WriteFails(r) \/ ReadFails(r) \/ Fire(r)
  PROVE  relay' \in [Requests -> RelayType]
<1>1. relay[r] \in RelayType
  BY Zenon DEF TypeOK
<1>2. \A x \in RelayType : relay' = [relay EXCEPT ![r] = x] => relay' \in [Requests -> RelayType]
  BY Zenon DEF TypeOK
<1>3. CASE Start(r)
  <2>1. relay' = [relay EXCEPT ![r] = [relay[r] EXCEPT !.pc = "read", !.left = Idle, !.armed = TRUE]]
    BY <1>3, Zenon DEF Start, TypeOK
  <2>2. [relay[r] EXCEPT !.pc = "read", !.left = Idle, !.armed = TRUE] \in RelayType
    BY <1>1, FullTimer, Zenon DEF RelayType
  <2> QED BY <1>2, <2>1, <2>2, Zenon
<1>4. CASE ReadLine(r)
  <2>1. relay' = [relay EXCEPT ![r] = [relay[r] EXCEPT !.pc = "write", !.left = Idle, !.armed = TRUE]]
    BY <1>4, Zenon DEF ReadLine, TypeOK
  <2>2. [relay[r] EXCEPT !.pc = "write", !.left = Idle, !.armed = TRUE] \in RelayType
    BY <1>1, FullTimer, Zenon DEF RelayType
  <2> QED BY <1>2, <2>1, <2>2, Zenon
<1>5. CASE WriteFails(r)
  <2>1. relay' = [relay EXCEPT ![r] = [relay[r] EXCEPT !.pc = "end", !.armed = FALSE, !.why = "broken"]]
    BY <1>5, Zenon DEF WriteFails, TypeOK
  <2>2. [relay[r] EXCEPT !.pc = "end", !.armed = FALSE, !.why = "broken"] \in RelayType
    BY <1>1, Zenon DEF RelayType
  <2> QED BY <1>2, <2>1, <2>2, Zenon
<1>6. CASE ReadFails(r)
  <2>1. relay' = [relay EXCEPT ![r] = [relay[r] EXCEPT !.pc = "end", !.armed = FALSE, !.why = Why(r)]]
    BY <1>6, Zenon DEF ReadFails, TypeOK
  <2>2. Why(r) \in {"none", "eof", "broken", "stalled"}
    BY Zenon DEF Why
  <2>3. [relay[r] EXCEPT !.pc = "end", !.armed = FALSE, !.why = Why(r)] \in RelayType
    BY <1>1, <2>2, Zenon DEF RelayType
  <2> QED BY <1>2, <2>1, <2>3, Zenon
<1>7. CASE Fire(r)
  <2>1. relay' = [relay EXCEPT ![r] = [relay[r] EXCEPT !.armed = FALSE, !.stalled = TRUE]]
    BY <1>7, Zenon DEF Fire, TypeOK
  <2>2. [relay[r] EXCEPT !.armed = FALSE, !.stalled = TRUE] \in RelayType
    BY <1>1, Zenon DEF RelayType
  <2> QED BY <1>2, <2>1, <2>2, Zenon
<1> QED
  BY <1>3, <1>4, <1>5, <1>6, <1>7, Zenon

\* Every handler, relay, upstream and client stays a record of its kind.
LEMMA TypeStep ==
  ASSUME TypeOK, \A r \in Requests : Holding(r) => inUse > 0,
         \A r \in Requests : relay[r].pc = "meter" => Holding(r), [Next]_vars
  PROVE  TypeOK'
<1> USE FullTimer
<1>1. ASSUME NEW r \in Requests, Acquire(r) PROVE TypeOK'
  <2>1. handler' \in [Requests -> HandlerType]
    <3>1. PICK pc \in {"handler", "done"} : handler' = [handler EXCEPT ![r].pc = pc]
      BY <1>1, Zenon DEF Acquire
    <3> QED BY <3>1, Zenon DEF TypeOK, HandlerType
  <2> QED BY <1>1, <2>1 DEF Acquire, TypeOK
<1>2. ASSUME NEW r \in Requests, Rejected(r) PROVE TypeOK'
  BY <1>2, Zenon DEF Rejected, TypeOK, HandlerType
<1>3. ASSUME NEW r \in Requests, Completed(r) PROVE TypeOK'
  <2>1. handler' \in [Requests -> HandlerType]
    BY <1>3, Zenon DEF Completed, TypeOK, HandlerType
  <2> QED BY <1>3, <2>1 DEF Completed, TypeOK
<1>4. ASSUME NEW r \in Requests, StreamOpened(r) PROVE TypeOK'
  <2>1. handler' \in [Requests -> HandlerType]
    BY <1>4, ZenonT(30) DEF StreamOpened, TypeOK, HandlerType
  <2>2. relay' \in [Requests -> RelayType]
    BY <1>4, Zenon DEF StreamOpened, TypeOK, RelayType, NoRelay
  <2>3. up' \in [Requests -> StreamType]
    BY <1>4, Zenon DEF StreamOpened, TypeOK, StreamType
  <2> QED BY <1>4, <2>1, <2>2, <2>3, Zenon DEF StreamOpened, TypeOK
<1>5. ASSUME NEW r \in Requests, Return(r) PROVE TypeOK'
  <2>1. handler' \in [Requests -> HandlerType]
    BY <1>5, Zenon DEF Return, TypeOK, HandlerType
  <2>2. inUse' \in Nat
    BY <1>5 DEF Return, TypeOK, Holding
  <2> QED BY <1>5, <2>1, <2>2, Zenon DEF Return, TypeOK
<1>6. ASSUME NEW r \in Requests, Start(r) PROVE TypeOK'
  BY <1>6, RelayTyped, Zenon DEF Start, TypeOK
<1>7. ASSUME NEW r \in Requests, ReadLine(r) PROVE TypeOK'
  <2>1. up[r] \in StreamType
    BY Zenon DEF TypeOK
  <2>2. up[r].unread - 1 \in 0..MaxLines
    BY <1>7, <2>1, ChatSettings DEF StreamType, ReadLine
  <2>3. [up[r] EXCEPT !.unread = up[r].unread - 1] \in StreamType
    BY <2>1, <2>2, Zenon DEF StreamType
  <2> QED BY <1>7, <2>3, RelayTyped, Zenon DEF TypeOK, ReadLine
<1>8. ASSUME NEW r \in Requests, WriteLine(r) PROVE TypeOK'
  BY <1>8, Zenon DEF WriteLine, TypeOK, RelayType
<1>9. ASSUME NEW r \in Requests, WriteFails(r) PROVE TypeOK'
  BY <1>9, RelayTyped, Zenon DEF WriteFails, TypeOK
<1>10. ASSUME NEW r \in Requests, ReadFails(r) PROVE TypeOK'
  BY <1>10, RelayTyped, Zenon DEF ReadFails, TypeOK
<1>11. ASSUME NEW r \in Requests, Announce(r) PROVE TypeOK'
  <2>1. relay' \in [Requests -> RelayType]
    BY <1>11 DEF Announce, TypeOK, RelayType
  <2>2. client' \in [Requests -> ClientType]
    BY <1>11 DEF Announce, TypeOK, ClientType
  <2> QED BY <1>11, <2>1, <2>2, Zenon DEF Announce, TypeOK
<1>12. ASSUME NEW r \in Requests, MeterStream(r) PROVE TypeOK'
  <2>1. relay' \in [Requests -> RelayType]
    BY <1>12 DEF MeterStream, TypeOK, RelayType
  <2>2. up' \in [Requests -> StreamType]
    BY <1>12, Zenon DEF MeterStream, TypeOK, StreamType
  <2>3. inUse' \in Nat
    BY <1>12 DEF MeterStream, TypeOK
  <2> QED BY <1>12, <2>1, <2>2, <2>3 DEF MeterStream, TypeOK
<1>13. ASSUME NEW r \in Requests, Fire(r) PROVE TypeOK'
  <2>1. up' \in [Requests -> StreamType]
    BY <1>13, ZenonT(30) DEF Fire, TypeOK, StreamType
  <2> QED BY <1>13, <2>1, RelayTyped, Zenon DEF Fire, TypeOK
<1>14. ASSUME NEW r \in Requests, UpstreamLine(r) PROVE TypeOK'
  BY <1>14 DEF UpstreamLine, TypeOK, StreamType, Flowing
<1>15. ASSUME NEW r \in Requests, NEW how \in {"complete", "broken"}, UpstreamEnds(r, how) PROVE TypeOK'
  BY <1>15 DEF UpstreamEnds, TypeOK, StreamType
<1>16. ASSUME NEW r \in Requests, NEW how \in Clients, ClientTurns(r, how) PROVE TypeOK'
  <2>1. client[r] \in ClientType
    BY Zenon DEF TypeOK
  <2>2. client' = [client EXCEPT ![r] = [client[r] EXCEPT !.state = how, !.fell = client[r].fell \/ how = "slow"]]
    BY <1>16, Zenon DEF ClientTurns, TypeOK
  <2>3. how \in {"reading", "slow", "gone"} /\ (client[r].fell \/ how = "slow") \in BOOLEAN
    BY ChatSettings, Zenon
  <2>4. [client[r] EXCEPT !.state = how, !.fell = client[r].fell \/ how = "slow"] \in ClientType
    BY <2>1, <2>3, Zenon DEF ClientType
  <2> QED BY <1>16, <2>2, <2>4 DEF TypeOK, ClientTurns
<1>17. ASSUME NEW r \in Requests, ClientCatchesUp(r) PROVE TypeOK'
  BY <1>17, Zenon DEF ClientCatchesUp, TypeOK, ClientType
<1>18. CASE Tick
  <2>1. ASSUME NEW s \in Requests, Running(s) PROVE [relay[s] EXCEPT !.left = relay[s].left - 1] \in RelayType
    <3>1. relay[s] \in RelayType
      BY Zenon DEF TypeOK
    <3>2. relay[s].left - 1 \in 0..Idle
      BY <2>1, <3>1, ChatSettings DEF RelayType, Running
    <3> QED BY <3>1, <3>2, Zenon DEF RelayType
  <2> QED BY <1>18, <2>1, Zenon DEF TypeOK, Tick
<1>19. CASE UNCHANGED vars
  BY <1>19, Zenon DEF vars, TypeOK
<1> QED
  BY Zenon, <1>1, <1>2, <1>3, <1>4, <1>5, <1>6, <1>7, <1>8, <1>9, <1>10,
     <1>11, <1>12, <1>13, <1>14, <1>15, <1>16, <1>17, <1>18, <1>19
  DEF Next, Handle, Relay

\* A step of one request leaves the others as they are, and leaves its own request with
\* one owner and an ending that tells the truth.
LEMMA RequestStep ==
  ASSUME TypeOK, \A r \in Requests : Owned(r) /\ Told(r), [Next]_vars
  PROVE  \A r \in Requests : Owned(r)' /\ Told(r)'
<1> DEFINE Goal == \A s \in Requests : Owned(s)' /\ Told(s)'
<1> SUFFICES Goal
  BY Zenon
<1> USE DEF TypeOK, HandlerType, RelayType, StreamType, ClientType, Owned, Told
<1>1. ASSUME NEW r \in Requests, Acquire(r) PROVE Goal
  <2>1. PICK pc \in {"handler", "done"} : handler' = [handler EXCEPT ![r].pc = pc]
    BY <1>1, Zenon DEF Acquire
  <2>2. handler[r].pc = "new" /\ UNCHANGED <<relay, up, client, records>>
    BY <1>1, Zenon DEF Acquire
  <2> QED BY <2>1, <2>2
<1>2. ASSUME NEW r \in Requests, Rejected(r) PROVE Goal
  BY <1>2 DEF Rejected
<1>3. ASSUME NEW r \in Requests, Completed(r) PROVE Goal
  BY <1>3 DEF Completed
<1>4. ASSUME NEW r \in Requests, StreamOpened(r) PROVE Goal
  BY <1>4 DEF StreamOpened, NoRelay
<1>5. ASSUME NEW r \in Requests, Return(r) PROVE Goal
  BY <1>5 DEF Return
<1>6. ASSUME NEW r \in Requests, Start(r) PROVE Goal
  BY <1>6 DEF Start
<1>7. ASSUME NEW r \in Requests, ReadLine(r) PROVE Goal
  BY <1>7 DEF ReadLine
<1>8. ASSUME NEW r \in Requests, WriteLine(r) PROVE Goal
  BY <1>8 DEF WriteLine
<1>9. ASSUME NEW r \in Requests, WriteFails(r) PROVE Goal
  BY <1>9 DEF WriteFails
<1>10. ASSUME NEW r \in Requests, ReadFails(r) PROVE Goal
  BY <1>10 DEF ReadFails, Why
<1>11. ASSUME NEW r \in Requests, Announce(r) PROVE Goal
  BY <1>11 DEF Announce
<1>12. ASSUME NEW r \in Requests, MeterStream(r) PROVE Goal
  BY <1>12 DEF MeterStream
<1>13. ASSUME NEW r \in Requests, Fire(r) PROVE Goal
  BY <1>13 DEF Fire
<1>14. ASSUME NEW r \in Requests, UpstreamLine(r) PROVE Goal
  BY <1>14 DEF UpstreamLine, Flowing
<1>15. ASSUME NEW r \in Requests, NEW how \in {"complete", "broken"}, UpstreamEnds(r, how) PROVE Goal
  BY <1>15 DEF UpstreamEnds, Flowing
<1>16. ASSUME NEW r \in Requests, NEW how \in Clients, ClientTurns(r, how) PROVE Goal
  BY <1>16 DEF ClientTurns
<1>17. ASSUME NEW r \in Requests, ClientCatchesUp(r) PROVE Goal
  BY <1>17 DEF ClientCatchesUp
<1>18. CASE Tick
  BY <1>18 DEF Tick, Running
<1>19. CASE UNCHANGED vars
  BY <1>19, Zenon DEF vars
<1> HIDE DEF TypeOK, HandlerType, RelayType, StreamType, ClientType, Owned, Told, Goal
<1> QED
  BY Zenon, <1>1, <1>2, <1>3, <1>4, <1>5, <1>6, <1>7, <1>8, <1>9, <1>10,
     <1>11, <1>12, <1>13, <1>14, <1>15, <1>16, <1>17, <1>18, <1>19
  DEF Next, Handle, Relay

\* The counter moves with the set of holders: one in with Acquire, one out with the
\* Return of a handler that still has its slot or with the end of the writer that took
\* it over, and every other step leaves both alone.
LEMMA CountStep ==
  ASSUME TypeOK, SlotsCounted, inUse <= Limit, \A r \in Requests : Owned(r), [Next]_vars
  PROVE  SlotsCounted' /\ inUse' <= Limit
<1> DEFINE Goal == SlotsCounted' /\ inUse' <= Limit
<1> SUFFICES Goal
  BY Zenon
<1>0. /\ IsFiniteSet(Holders) /\ inUse = Cardinality(Holders) /\ Holders \subseteq Requests
      /\ inUse \in Nat /\ Limit \in Nat
  BY ChatSettings, FS_Subset, Zenon DEF Holders, SlotsCounted, TypeOK
<1>a. ASSUME Holders' = Holders, inUse' = inUse PROVE Goal
  BY <1>a, <1>0, Zenon DEF SlotsCounted, Holders
<1>b. ASSUME NEW r \in Holders, Holders' = Holders \ {r}, inUse' = inUse - 1 PROVE Goal
  <2>1. Cardinality(Holders \ {r}) = Cardinality(Holders) - 1
    BY <1>0, FS_RemoveElement, Zenon
  <2> QED BY <1>b, <2>1, <1>0 DEF SlotsCounted, Holders
<1>1. ASSUME NEW r \in Requests, Acquire(r) PROVE Goal
  <2>1. CASE inUse >= Limit
    <3>1. \A s \in Requests : Holding(s)' = Holding(s)
      BY <1>1, <2>1 DEF Acquire, Holding, TypeOK, HandlerType, Owned
    <3> QED BY <1>1, <1>a, <2>1, <3>1, Zenon DEF Acquire, Holders
  <2>2. CASE ~(inUse >= Limit)
    <3>1. /\ \A s \in Requests \ {r} : Holding(s)' = Holding(s)
          /\ ~Holding(r) /\ Holding(r)'
      BY <1>1, <2>2, Zenon DEF Acquire, Holding, TypeOK, HandlerType, Owned
    <3>2. Holders' = Holders \cup {r} /\ r \notin Holders
      BY <3>1, Zenon DEF Holders
    <3>3. Cardinality(Holders \cup {r}) = Cardinality(Holders) + 1
      BY <1>0, <3>2, FS_AddElement, Zenon
    <3>4. inUse' = inUse + 1
      BY <1>1, <2>2, Zenon DEF Acquire
    <3>5. inUse' = Cardinality(Holders')
      BY <1>0, <3>2, <3>3, <3>4, Zenon
    <3>6. inUse' <= Limit
      BY <1>0, <2>2, <3>4
    <3> QED BY <3>5, <3>6, Zenon DEF SlotsCounted, Holders
  <2> QED BY <2>1, <2>2, Zenon
<1>2. ASSUME NEW r \in Requests, Return(r) PROVE Goal
  <2>1. CASE handler[r].adopted
    <3>1. \A s \in Requests : Holding(s)' = Holding(s)
      BY <1>2, <2>1, Zenon DEF Return, Holding, TypeOK, HandlerType
    <3> QED BY <1>2, <1>a, <2>1, <3>1, Zenon DEF Return, Holders
  <2>2. CASE ~handler[r].adopted
    <3>1. /\ \A s \in Requests \ {r} : Holding(s)' = Holding(s)
          /\ Holding(r) /\ ~Holding(r)'
      BY <1>2, <2>2, Zenon DEF Return, Holding, TypeOK, HandlerType
    <3>2. Holders' = Holders \ {r} /\ r \in Holders
      BY <3>1, Zenon DEF Holders
    <3> QED BY <1>2, <1>b, <2>2, <3>2, Zenon DEF Return
  <2> QED BY <2>1, <2>2, Zenon
<1>3. ASSUME NEW r \in Requests, MeterStream(r) PROVE Goal
  <2>1. /\ \A s \in Requests \ {r} : Holding(s)' = Holding(s)
        /\ Holding(r) /\ ~Holding(r)'
    BY <1>3 DEF MeterStream, Holding, TypeOK, HandlerType, RelayType, Owned
  <2>2. Holders' = Holders \ {r} /\ r \in Holders
    BY <2>1, Zenon DEF Holders
  <2> QED BY <1>3, <1>b, <2>2, Zenon DEF MeterStream
<1>4. ASSUME NEW r \in Requests, Rejected(r) PROVE Goal
  <2>1. \A s \in Requests : Holding(s)' = Holding(s)
    BY <1>4, Zenon DEF Rejected, Holding, TypeOK, HandlerType, Owned
  <2> QED BY <1>4, <1>a, <2>1, Zenon DEF Rejected, Holders
<1>5. ASSUME NEW r \in Requests, Completed(r) PROVE Goal
  <2>1. \A s \in Requests : Holding(s)' = Holding(s)
    BY <1>5, Zenon DEF Completed, Holding, TypeOK, HandlerType, Owned
  <2> QED BY <1>5, <1>a, <2>1, Zenon DEF Completed, Holders
<1>6. ASSUME NEW r \in Requests, StreamOpened(r) PROVE Goal
  <2>1. \A s \in Requests : Holding(s)' = Holding(s)
    BY <1>6 DEF StreamOpened, Holding, TypeOK, HandlerType, RelayType, NoRelay, Owned
  <2> QED BY <1>6, <1>a, <2>1, Zenon DEF StreamOpened, Holders
<1>7. ASSUME NEW r \in Requests, Start(r) PROVE Goal
  <2>1. \A s \in Requests : Holding(s)' = Holding(s)
    BY <1>7, Zenon DEF Start, Holding, TypeOK, RelayType
  <2> QED BY <1>7, <1>a, <2>1, Zenon DEF Start, Holders
<1>8. ASSUME NEW r \in Requests, ReadLine(r) PROVE Goal
  <2>1. \A s \in Requests : Holding(s)' = Holding(s)
    BY <1>8 DEF ReadLine, Holding, TypeOK, RelayType
  <2> QED BY <1>8, <1>a, <2>1, Zenon DEF ReadLine, Holders
<1>9. ASSUME NEW r \in Requests, WriteLine(r) PROVE Goal
  <2>1. \A s \in Requests : Holding(s)' = Holding(s)
    BY <1>9, Zenon DEF WriteLine, Holding, TypeOK, RelayType
  <2> QED BY <1>9, <1>a, <2>1, Zenon DEF WriteLine, Holders
<1>10. ASSUME NEW r \in Requests, WriteFails(r) PROVE Goal
  <2>1. \A s \in Requests : Holding(s)' = Holding(s)
    BY <1>10, Zenon DEF WriteFails, Holding, TypeOK, RelayType
  <2> QED BY <1>10, <1>a, <2>1, Zenon DEF WriteFails, Holders
<1>11. ASSUME NEW r \in Requests, ReadFails(r) PROVE Goal
  <2>1. \A s \in Requests : Holding(s)' = Holding(s)
    BY <1>11 DEF ReadFails, Holding, TypeOK, RelayType
  <2> QED BY <1>11, <1>a, <2>1, Zenon DEF ReadFails, Holders
<1>12. ASSUME NEW r \in Requests, Announce(r) PROVE Goal
  <2>1. \A s \in Requests : Holding(s)' = Holding(s)
    BY <1>12, Zenon DEF Announce, Holding, TypeOK, RelayType
  <2> QED BY <1>12, <1>a, <2>1, Zenon DEF Announce, Holders
<1>13. ASSUME NEW r \in Requests, Fire(r) PROVE Goal
  <2>1. \A s \in Requests : Holding(s)' = Holding(s)
    BY <1>13 DEF Fire, Holding, TypeOK, RelayType
  <2> QED BY <1>13, <1>a, <2>1, Zenon DEF Fire, Holders
<1>14. ASSUME UNCHANGED <<inUse, handler, relay>> PROVE Goal
  BY <1>14, <1>a, Zenon DEF Holders, Holding
<1>15. CASE Tick
  <2>1. \A s \in Requests : relay'[s].pc = relay[s].pc
    BY <1>15, Zenon DEF Tick, TypeOK, RelayType
  <2>2. \A s \in Requests : Holding(s)' = Holding(s)
    BY <1>15, <2>1, Zenon DEF Tick, Holding
  <2> QED BY <1>15, <1>a, <2>2, Zenon DEF Tick, Holders
<1> HIDE DEF Goal
<1>16. ASSUME NEW r \in Requests, NEW how,
             UpstreamLine(r) \/ UpstreamEnds(r, how) \/ ClientTurns(r, how) \/ ClientCatchesUp(r)
       PROVE Goal
  BY <1>16, <1>14, Zenon DEF UpstreamLine, UpstreamEnds, ClientTurns, ClientCatchesUp
<1>17. CASE UNCHANGED vars
  BY <1>17, <1>14, Zenon DEF vars
<1> QED
  BY Zenon, <1>1, <1>2, <1>3, <1>4, <1>5, <1>6, <1>7, <1>8, <1>9, <1>10,
     <1>11, <1>12, <1>13, <1>15, <1>16, <1>17
  DEF Next, Handle, Relay

-----------------------------------------------------------------------------
(* The specification *)

\* The slots are counted exactly and within the limit, every request has one owner and
\* every ending is told as it was, for every limit and every finite set of requests.
THEOREM Invariance == Spec => []IInv
<1>1. Init => IInv
  <2> SUFFICES ASSUME Init PROVE IInv
    BY Zenon
  <2>1. TypeOK
    BY ChatSettings, FullTimer
    DEF Init, TypeOK, HandlerType, RelayType, StreamType, ClientType, NoRelay, NoStream, NewClient
  <2>2. {r \in Requests : Holding(r)} = {}
    BY Zenon DEF Init, Holding
  <2>3. SlotsCounted /\ inUse <= Limit
    <3>1. inUse = 0 /\ 0 <= Limit
      BY ChatSettings DEF Init
    <3>2. Cardinality({r \in Requests : Holding(r)}) = 0
      BY <2>2, FS_EmptySet, Zenon
    <3> QED BY <3>1, <3>2, Zenon DEF SlotsCounted
  <2>4. \A r \in Requests : Owned(r) /\ Told(r)
    BY Zenon DEF Init, Owned, Told, NoRelay, NoStream, NewClient
  <2> QED BY <2>1, <2>3, <2>4, Zenon DEF IInv
<1>2. IInv /\ [Next]_vars => IInv'
  <2> SUFFICES ASSUME IInv, [Next]_vars PROVE IInv'
    BY Zenon
  <2>1. ASSUME NEW r \in Requests, Holding(r) PROVE inUse > 0
    <3>1. IsFiniteSet(Holders) /\ r \in Holders
      BY <2>1, ChatSettings, FS_Subset, Zenon DEF Holders
    <3>2. Cardinality(Holders) # 0
      BY <3>1, FS_EmptySet, Zenon
    <3> QED BY <3>2 DEF IInv, SlotsCounted, TypeOK, Holders
  <2>2. \A r \in Requests : relay[r].pc = "meter" => Holding(r)
    BY Zenon DEF IInv, Owned, Holding
  <2>3. TypeOK'
    BY <2>1, <2>2, TypeStep, Zenon DEF IInv
  <2>4. SlotsCounted' /\ inUse' <= Limit
    BY CountStep, Zenon DEF IInv
  <2>5. \A r \in Requests : Owned(r)' /\ Told(r)'
    BY RequestStep, Zenon DEF IInv
  <2> QED BY <2>3, <2>4, <2>5, Zenon DEF IInv
<1> QED
  BY <1>1, <1>2, PTL DEF Spec

\* acquire and adopt never let more requests of a key work at once than
\* max_concurrent_per_key, whatever the handlers and the writers do.
THEOREM SlotsBound == Spec => []InFlightBounded
<1>1. IInv => InFlightBounded
  <2> SUFFICES ASSUME IInv PROVE InFlightBounded
    BY Zenon
  <2> DEFINE Workers == {r \in Requests : Working(r)}
  <2>1. Workers \subseteq Holders
    BY Zenon DEF IInv, Owned, Working, Holding, Holders, TypeOK, HandlerType
  <2>2. IsFiniteSet(Holders)
    BY ChatSettings, FS_Subset, Zenon DEF Holders
  <2>3. /\ Cardinality(Workers) <= Cardinality(Holders)
        /\ Cardinality(Workers) \in Nat /\ Cardinality(Holders) \in Nat
    BY <2>1, <2>2, FS_Subset, FS_CardinalityType, Zenon
  <2> QED BY <2>3, ChatSettings DEF IInv, InFlightBounded, SlotsCounted, Holders
<1> QED
  BY <1>1, Invariance, PTL

\* A served request is metered once, by its handler or by the writer of its stream.
THEOREM Metered == Spec => []MeteredOnce
<1>1. IInv => MeteredOnce
  BY DEF IInv, MeteredOnce, Owned, Holding, TypeOK, HandlerType
<1> QED
  BY <1>1, Invariance, PTL

\* A stream that looks complete to its client is complete to the last line.
THEOREM Truthful == Spec => []EndingTruthful
<1>1. IInv => EndingTruthful
  BY Zenon DEF IInv, Told, EndingTruthful
<1> QED
  BY <1>1, Invariance, PTL
=============================================================================
