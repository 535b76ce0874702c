------------------------------ MODULE RateLimit -------------------------------
(***************************************************************************)
(* The per-tenant rate limiter of gateway/internal/server/limits.go: a     *)
(* token bucket that is refilled when it is next used, a fixed minute      *)
(* window over the top of it, and the sweep that forgets idle tenants.     *)
(*                                                                         *)
(* Time is kept as ages in ticks, and tokens in shares: Second ticks make  *)
(* a second and Second shares a token, so a tick refills rps shares.       *)
(***************************************************************************)
EXTENDS Integers, FiniteSets

CONSTANTS Tenants,
          Deployment,  \* the ceilings: rps, burst and rpm
          Override,    \* each tenant's own limits, 0 where it has none
          SweepAbove,  \* the number of buckets past which take sweeps
          Second, Minute,
          MaxAge,      \* bound on the ages that are told apart
          None

\* What the admin API lets a tenant be given.
ValidLimits(o) == \A f \in {"rps", "burst", "rpm"} : o[f] \in 0..Deployment[f]

BucketType == [tokens : Nat, idle : Nat, window : Nat, count : Nat]

ASSUME RateSettings ==
  /\ Deployment \in [rps : Nat, burst : Nat, rpm : Nat] /\ MaxAge \in Nat /\ None \notin BucketType
  /\ Second \in Nat \ {0} /\ Minute \in Nat \ {0} /\ SweepAbove \in Nat
  /\ \A t \in Tenants : ValidLimits(Override[t])
  /\ MaxAge >= Minute /\ MaxAge >= Deployment.burst * Second

VARIABLES buckets,  \* rateLimiter.buckets
          owed      \* the limiter that refills at every tick and forgets nobody

rateVars == <<buckets, owed>>

Lower(ceiling, override) ==
  IF override <= 0 \/ override > ceiling THEN ceiling ELSE override

LimitsFor(t) == [f \in {"rps", "burst", "rpm"} |-> Lower(Deployment[f], Override[t][f])]

AtMost(bound, n) == IF n > bound THEN bound ELSE n

BucketOn(l) == l.rps >= 1 /\ l.burst >= 1
MinuteOn(l) == l.rpm >= 1

\* A tenant that was not seen before, or that was forgotten.
NewBucket(l) == [tokens |-> l.burst * Second, idle |-> 0, window |-> 0, count |-> 0]

Refilled(b, l) ==
  IF BucketOn(l)
  THEN [b EXCEPT !.tokens = AtMost(l.burst * Second, @ + b.idle * l.rps), !.idle = 0]
  ELSE [b EXCEPT !.idle = 0]

Rolled(b) == IF b.window >= Minute THEN [b EXCEPT !.window = 0, !.count = 0] ELSE b

\* The bucket take measures: brought up to date, or new.
Measured(t) ==
  IF buckets[t] = None THEN NewBucket(LimitsFor(t))
  ELSE Rolled(Refilled(buckets[t], LimitsFor(t)))

NoToken(b, l) == BucketOn(l) /\ b.tokens < Second
NoMinute(b, l) == MinuteOn(l) /\ b.count >= l.rpm
Denied(b, l) == NoToken(b, l) \/ NoMinute(b, l)

Charged(b, l) ==
  [b EXCEPT !.tokens = IF BucketOn(l) THEN @ - Second ELSE @,
            !.count = IF MinuteOn(l) THEN @ + 1 ELSE @]

UpToSeconds(ticks) == Second * ((ticks + Second - 1) \div Second)

RetryAfterFirst(b, l) ==
  UpToSeconds(IF NoToken(b, l) THEN (Second - b.tokens + l.rps - 1) \div l.rps
              ELSE Minute - b.window)

\* The cooldown a refusal reports, in whole seconds: the longer of the two.
RetryAfter(b, l) ==
  LET token == IF NoToken(b, l) THEN (Second - b.tokens + l.rps - 1) \div l.rps ELSE 0
      minute == IF NoMinute(b, l) THEN Minute - b.window ELSE 0
  IN  UpToSeconds(IF minute > token THEN minute ELSE token)

SweptAnyMinute(all, l) ==
  LET full == IF BucketOn(l) THEN (l.burst * Second + l.rps - 1) \div l.rps ELSE 0
  IN  [t \in Tenants |->
         IF all[t] # None /\ all[t].idle >= full THEN None ELSE all[t]]

\* sweep, with the limits of the tenant whose request caused it.
Swept(all, l) ==
  LET full == IF BucketOn(l) THEN (l.burst * Second + l.rps - 1) \div l.rps ELSE 0
  IN  [t \in Tenants |->
         IF all[t] # None /\ all[t].idle >= full /\ all[t].window >= Minute
         THEN None ELSE all[t]]

-----------------------------------------------------------------------------
RateInit ==
  /\ buckets = [t \in Tenants |-> None]
  /\ owed = [t \in Tenants |-> [NewBucket(LimitsFor(t)) EXCEPT !.window = MaxAge]]

\* What the limiter that forgets nobody makes of one request.
Owes(t) ==
  LET l == LimitsFor(t)
      b == Rolled(owed[t])
  IN  [owed EXCEPT ![t] = IF Denied(b, l) THEN b ELSE Charged(b, l)]

\* rateLimiter.take on a request of tenant t.  A tenant with both ceilings off is
\* let in and leaves no trace.
Take(t) ==
  LET l == LimitsFor(t)
      b == Measured(t)
      present == [buckets EXCEPT ![t] = b]
      kept == IF /\ buckets[t] = None
                 /\ Cardinality({u \in Tenants : present[u] # None}) > SweepAbove
              THEN Swept(present, l) ELSE present
  IN  /\ BucketOn(l) \/ MinuteOn(l)
      /\ buckets' = IF Denied(b, l) THEN kept ELSE [kept EXCEPT ![t] = Charged(b, l)]
      /\ owed' = Owes(t)

Older(b) == [b EXCEPT !.idle = AtMost(MaxAge, @ + 1), !.window = AtMost(MaxAge, @ + 1)]

RateTick ==
  /\ buckets' = [t \in Tenants |-> IF buckets[t] = None THEN None ELSE Older(buckets[t])]
  /\ owed' = [t \in Tenants |-> Refilled(Older(owed[t]), LimitsFor(t))]

RateNext ==
  \/ \E t \in Tenants : Take(t)
  \/ RateTick

RateSpec == RateInit /\ [][RateNext]_rateVars

-----------------------------------------------------------------------------
(* Properties *)

\* A bucket holds between nothing and its burst, and a minute counts no more
\* requests than its tenant is allowed.
RateTypeOK ==
  \A t \in Tenants : buckets[t] # None =>
    /\ buckets[t].tokens \in 0..(LimitsFor(t).burst * Second)
    /\ buckets[t].idle \in 0..MaxAge /\ buckets[t].window \in 0..MaxAge
    /\ buckets[t].count \in 0..LimitsFor(t).rpm

\* Refilling late, sharing one sweep and forgetting idle tenants change no answer:
\* take sees the tokens, and the use of the current minute, that a limiter would
\* see that refills at every tick and forgets nobody, and no bucket overfills.
ForgettingChangesNothing ==
  RateTypeOK /\ \A t \in Tenants :
    LET b == Measured(t)
        o == Rolled(owed[t])
    IN  b.tokens = o.tokens /\ b.count = o.count

\* A client that waits as long as Retry-After told it, with no other request of its
\* tenant in between, is let in.
RetryAfterSuffices ==
  \A t \in Tenants :
    LET l == LimitsFor(t)
        b == Measured(t)
        w == RetryAfter(b, l)
        later == [b EXCEPT !.idle = w, !.window = @ + w]
    IN  Denied(b, l) => w > 0 /\ ~Denied(Rolled(Refilled(later, l)), l)
=============================================================================
