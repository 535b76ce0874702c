---------------------------- MODULE DispatchProofs ----------------------------
(***************************************************************************)
(* What each method of the breaker does to one entry, what follows for the *)
(* breaker, and what holds of the dispatcher that uses one breaker for     *)
(* each candidate, for every number of requests, candidates, providers and *)
(* keys, and for all breaker settings.                                     *)
(***************************************************************************)
EXTENDS Failures, WellFoundedInduction, TLAPS

CONSTANT Calls
VARIABLES entry, inside

\* The breaker with its callers.
One == INSTANCE Breaker

-----------------------------------------------------------------------------
(* Lists *)

\* A set of naturals that has an element has a least one: a proof by induction takes
\* it as the least counterexample.
LEMMA Least ==
  ASSUME NEW T, T \subseteq Nat, T # {}
  PROVE  \E x \in T : \A y \in T : x <= y
<1> DEFINE R == OpToRel(<, Nat)
<1>1. IsWellFoundedOn(R, Nat)
  BY NatLessThanWellFounded, Zenon
<1>2. PICK x \in T : \A y \in T : ~(<<y, x>> \in R)
  <2> HIDE DEF R
  <2> QED BY <1>1, WFMin, Zenon
<1>3. \A y \in T : ~(y < x)
  BY <1>2, Zenon DEF OpToRel
<1> QED BY <1>3

\* One pass of the loop of Picked, after f has the lists of the passes before it.
Pass(s, K, f, i) ==
  IF i = 0 THEN <<>> ELSE IF i \in K THEN Append(f[i - 1], s[i]) ELSE f[i - 1]
Fits(s, K, f, n) == f = [i \in 0..n |-> Pass(s, K, f, i)]

\* The lists of the first n passes exist, for every n: the recursion is well-founded.
LEMMA PassesExist ==
  ASSUME NEW s, NEW K, NEW N \in Nat
  PROVE  \E f : Fits(s, K, f, N)
<1> DEFINE T == {n \in 0..N : \A f : ~Fits(s, K, f, n)}
<1>1. T \subseteq Nat
  OBVIOUS
<1>2. SUFFICES ASSUME T # {} PROVE FALSE
  OBVIOUS
<1>3. PICK n \in T : \A m \in T : n <= m
  <2> HIDE DEF T
  <2> QED BY <1>1, <1>2, Least, Zenon
<1>4. n \in 0..N /\ \A f : ~Fits(s, K, f, n)
  BY <1>3, Zenon
<1>5. n # 0
  <2> DEFINE g == [i \in 0..0 |-> <<>>]
  <2>1. \A i \in 0..0 : Pass(s, K, g, i) = <<>>
    BY DEF Pass
  <2>2. Fits(s, K, g, 0)
    BY <2>1, Zenon DEF Fits
  <2> QED BY <1>4, <2>2, Zenon
<1>6. n - 1 \in 0..N /\ n - 1 \notin T
  <2> HIDE DEF T
  <2> QED BY <1>3, <1>4, <1>5
<1>7. PICK f : Fits(s, K, f, n - 1)
  BY <1>6, Zenon
<1> DEFINE g == [i \in 0..n |-> IF i = n THEN Pass(s, K, f, n) ELSE f[i]]
<1>8. ASSUME NEW i \in 0..n PROVE g[i] = Pass(s, K, g, i)
  <2>1. i # 0 => g[i - 1] = f[i - 1]
    BY <1>4
  <2>2. Pass(s, K, g, i) = Pass(s, K, f, i)
    <3> HIDE DEF g
    <3> QED BY <2>1, Zenon DEF Pass
  <2>3. i # n => f[i] = Pass(s, K, f, i)
    BY <1>4, <1>7 DEF Fits
  <2>4. g[i] = IF i = n THEN Pass(s, K, f, n) ELSE f[i]
    BY Zenon
  <2> HIDE DEF g
  <2> QED BY <2>2, <2>3, <2>4, Zenon
<1>9. g = [i \in 0..n |-> g[i]]
  BY Zenon
<1> HIDE DEF g
<1>10. Fits(s, K, g, n)
  BY <1>8, <1>9, Zenon DEF Fits
<1> QED BY <1>4, <1>10, Zenon

\* What Picked keeps is in the order of s and from positions of K, each taken once.
Follows(s, K, t, n) ==
  \E h \in [1..Len(t) -> 1..n] :
    /\ \A j \in 1..Len(t) : h[j] \in K /\ t[j] = s[h[j]]
    /\ \A i, j \in 1..Len(t) : i < j => h[i] < h[j]

\* One pass keeps that.
LEMMA PassFollows ==
  ASSUME NEW S, NEW s \in Seq(S), NEW K, NEW t \in Seq(S), NEW n \in 1..Len(s),
         Follows(s, K, t, n - 1)
  PROVE  /\ Follows(s, K, t, n)
         /\ n \in K => Append(t, s[n]) \in Seq(S) /\ Follows(s, K, Append(t, s[n]), n)
<1>1. PICK h \in [1..Len(t) -> 1..(n - 1)] :
        /\ \A j \in 1..Len(t) : h[j] \in K /\ t[j] = s[h[j]]
        /\ \A i, j \in 1..Len(t) : i < j => h[i] < h[j]
  BY Zenon DEF Follows
<1>2. h \in [1..Len(t) -> 1..n]
  OBVIOUS
<1>3. Follows(s, K, t, n)
  BY <1>1, <1>2, Zenon DEF Follows
<1>4. ASSUME n \in K PROVE Append(t, s[n]) \in Seq(S) /\ Follows(s, K, Append(t, s[n]), n)
  <2>1. PICK L \in Nat : L = Len(t)
    OBVIOUS
  <2>2. PICK u : u = Append(t, s[n])
    BY Zenon
  <2>3. /\ u \in Seq(S) /\ Len(u) = L + 1 /\ u[L + 1] = s[n]
        /\ \A j \in 1..L : u[j] = t[j]
    BY <2>1, <2>2
  <2>4. /\ h \in [1..L -> 1..(n - 1)]
        /\ \A j \in 1..L : h[j] \in K /\ t[j] = s[h[j]]
        /\ \A i, j \in 1..L : i < j => h[i] < h[j]
    BY <1>1, <2>1, Zenon
  <2>a. n \in Nat /\ n >= 1
    OBVIOUS
  <2> DEFINE g == [j \in 1..(L + 1) |-> IF j = L + 1 THEN n ELSE h[j]]
  <2>5. /\ g \in [1..(L + 1) -> 1..n] /\ g[L + 1] = n
        /\ \A j \in 1..L : g[j] = h[j] /\ h[j] \in 1..(n - 1)
    BY <2>4, <2>a
  <2> HIDE DEF g
  <2>6. ASSUME NEW j \in 1..(L + 1) PROVE g[j] \in K /\ u[j] = s[g[j]]
    <3>1. CASE j = L + 1
      BY <1>4, <2>3, <2>5, <3>1, Zenon
    <3>2. CASE j \in 1..L
      BY <2>3, <2>4, <2>5, <3>2, Zenon
    <3>3. j = L + 1 \/ j \in 1..L
      BY <2>6
    <3> QED BY <3>1, <3>2, <3>3, Zenon
  <2>7. ASSUME NEW i \in 1..(L + 1), NEW j \in 1..(L + 1), i < j PROVE g[i] < g[j]
    <3>1. i \in 1..L
      BY <2>7
    <3>2. CASE j = L + 1
      BY <2>5, <2>a, <3>1, <3>2
    <3>3. CASE j # L + 1
      BY <2>4, <2>5, <2>7, <3>1, <3>3
    <3> QED BY <3>2, <3>3, Zenon
  <2>8. Follows(s, K, u, n)
    BY <2>3, <2>5, <2>6, <2>7, Zenon DEF Follows
  <2> QED BY <2>2, <2>3, <2>8, Zenon
<1> QED BY <1>3, <1>4, Zenon

LEMMA PickedFollows ==
  ASSUME NEW S, NEW s \in Seq(S), NEW K
  PROVE  Picked(s, K) \in Seq(S) /\ Follows(s, K, Picked(s, K), Len(s))
<1> DEFINE N == Len(s)
           f == CHOOSE f : Fits(s, K, f, N)
           T == {n \in 0..N : ~(f[n] \in Seq(S) /\ Follows(s, K, f[n], n))}
<1>0. N \in Nat
  OBVIOUS
<1>1. Fits(s, K, f, N)
  BY <1>0, PassesExist, Zenon
<1>2. Picked(s, K) = f[N]
  BY Zenon DEF Picked, Fits, Pass
<1> HIDE DEF f, N
<1>3. \A i \in 0..N : f[i] = Pass(s, K, f, i)
  BY <1>0, <1>1, Zenon DEF Fits
<1>4. T = {}
  <2>1. SUFFICES ASSUME T # {} PROVE FALSE
    BY Zenon
  <2>2. T \subseteq Nat
    BY <1>0
  <2>3. PICK n \in T : \A m \in T : n <= m
    <3> HIDE DEF T
    <3> QED BY <2>1, <2>2, Least, Zenon
  <2>4. n \in 0..N /\ ~(f[n] \in Seq(S) /\ Follows(s, K, f[n], n))
    BY <2>3, Zenon
  <2>5. n # 0
    <3>1. f[0] = <<>>
      BY <1>0, <1>3 DEF Pass
    <3>2. <<>> \in Seq(S) /\ Len(<<>>) = 0
      OBVIOUS
    <3>3. Follows(s, K, <<>>, 0)
      <4>1. [j \in 1..0 |-> 0] \in [1..0 -> 1..0] /\ 1..0 = {}
        OBVIOUS
      <4> QED BY <3>2, <4>1, Zenon DEF Follows
    <3> QED BY <2>4, <3>1, <3>2, <3>3, Zenon
  <2>6. n - 1 \in 0..N /\ n - 1 \notin T /\ n \in 1..N
    <3> HIDE DEF T
    <3> QED BY <1>0, <2>3, <2>4, <2>5
  <2>7. f[n - 1] \in Seq(S) /\ Follows(s, K, f[n - 1], n - 1)
    BY <2>6, Zenon
  <2>8. f[n] = IF n \in K THEN Append(f[n - 1], s[n]) ELSE f[n - 1]
    BY <1>3, <2>4, <2>5, Zenon DEF Pass
  <2>9. /\ Follows(s, K, f[n - 1], n)
        /\ n \in K => Append(f[n - 1], s[n]) \in Seq(S) /\ Follows(s, K, Append(f[n - 1], s[n]), n)
    BY <2>6, <2>7, PassFollows, Zenon DEF N
  <2> QED BY <2>4, <2>7, <2>8, <2>9, Zenon
<1>5. f[N] \in Seq(S) /\ Follows(s, K, f[N], N)
  <2>1. N \in 0..N
    BY <1>0
  <2> QED BY <1>4, <2>1, Zenon
<1> QED BY <1>2, <1>5, Zenon DEF N

-----------------------------------------------------------------------------
(* The operators on an entry *)

\* An ordered list stays ordered when it is pruned and a new failure, of age
\* zero, is put at its end.
LEMMA OrderKept ==
  ASSUME NEW f \in Seq(0..Window),
         \A i, j \in DOMAIN f : i <= j => f[i] >= f[j]
  PROVE  LET kept == Append(Live(f), 0)
         IN  /\ kept \in Seq(0..Window)
             /\ Len(kept) \in Nat
             /\ \A i, j \in DOMAIN kept : i <= j => kept[i] >= kept[j]
<1> DEFINE g == Live(f)
           kept == Append(g, 0)
<1>1. /\ g \in Seq(0..Window)
      /\ \E h \in [1..Len(g) -> 1..Len(f)] :
           /\ \A j \in 1..Len(g) : g[j] = f[h[j]]
           /\ \A i, j \in 1..Len(g) : i < j => h[i] < h[j]
  <2>1. PICK K : Live(f) = Picked(f, K)
    BY Zenon DEF Live
  <2>2. g \in Seq(0..Window) /\ Follows(f, K, g, Len(f))
    BY <2>1, PickedFollows, Zenon
  <2> QED BY <2>2, Zenon DEF Follows
<1> HIDE DEF g
<1>2. kept \in Seq(0..Window) /\ Len(kept) = Len(g) + 1 /\ Len(g) \in Nat
  BY <1>1, BreakerSettings
<1>3. ASSUME NEW i \in DOMAIN kept, NEW j \in DOMAIN kept, i <= j
      PROVE  kept[i] >= kept[j]
  <2>1. CASE j = Len(g) + 1
    <3>1. kept[j] = 0
      BY <1>1, <2>1
    <3>2. kept[i] \in 0..Window
      BY <1>2, BreakerSettings
    <3> QED
      BY <3>1, <3>2, BreakerSettings
  <2>2. CASE j # Len(g) + 1
    <3>1. i \in DOMAIN g /\ j \in DOMAIN g /\ kept[i] = g[i] /\ kept[j] = g[j]
      BY <1>1, <1>2, <1>3, <2>2
    <3>2. CASE i = j
      <4>1. kept[i] \in 0..Window
        BY <1>2, BreakerSettings
      <4> QED
        BY <3>2, <4>1, BreakerSettings
    <3>3. CASE i # j
      <4>1. PICK h \in [1..Len(g) -> 1..Len(f)] :
              /\ \A k \in 1..Len(g) : g[k] = f[h[k]]
              /\ \A k, l \in 1..Len(g) : k < l => h[k] < h[l]
        BY <1>1, Zenon
      <4>2. i \in 1..Len(g) /\ j \in 1..Len(g) /\ i < j
        BY <1>1, <1>2, <1>3, <3>1, <3>3
      <4>3. /\ g[i] = f[h[i]] /\ g[j] = f[h[j]]
            /\ h[i] \in DOMAIN f /\ h[j] \in DOMAIN f /\ h[i] <= h[j]
        BY <4>1, <4>2
      <4> QED
        BY <3>1, <4>3, Zenon
    <3> QED
      BY <3>2, <3>3, Zenon
  <2> QED
    BY <2>1, <2>2, Zenon
<1>4. Len(kept) \in Nat
  BY <1>2
<1> HIDE DEF kept
<1>5. \A i, j \in DOMAIN kept : i <= j => kept[i] >= kept[j]
  BY <1>3, Zenon
<1> QED
  BY <1>2, <1>4, <1>5, Zenon DEF kept, g

-----------------------------------------------------------------------------
(* The inductive invariant, one operator at a time *)

\* An entry that is well-formed: closed only below the threshold, half-open exactly
\* while probing, and with its failures in time order.
Sound(e) ==
  /\ e \in Entry
  /\ e.state = "closed" => Len(e.failures) < Threshold
  /\ (e.state = "half_open") <=> e.probing
  /\ \A i, j \in DOMAIN e.failures : i <= j => e.failures[i] >= e.failures[j]

\* Allow, granted or refused, leaves a sound entry sound.
LEMMA AllowSound == ASSUME NEW e, Sound(e) PROVE Sound(AfterAllow(e))
BY Zenon DEF Sound, AfterAllow, Allows, Entry, States

\* Success leaves a sound entry closed with no history.
LEMMA SuccessSound == ASSUME NEW e, Sound(e) PROVE Sound(AfterSuccess(e))
<1> DEFINE d == AfterSuccess(e)
<1>0. e \in Entry /\ <<>> \in Seq(0..Window)
  BY DEF Sound
<1>1. /\ d \in Entry
      /\ d.state = "closed" /\ d.probing = FALSE /\ d.failures = <<>>
  <2>1. d \in Entry
    BY <1>0, Zenon DEF AfterSuccess, Entry, States
  <2>2. d.state = "closed" /\ d.probing = FALSE /\ d.failures = <<>>
    BY <1>0, Zenon DEF AfterSuccess, Entry
  <2> QED
    BY <2>1, <2>2, Zenon
<1>2. Len(<<>>) < Threshold
  BY BreakerSettings
<1> HIDE DEF d
<1>3. Sound(d)
  BY <1>1, <1>2 DEF Sound
<1> QED
  BY <1>3, Zenon DEF d

\* Failure leaves a sound entry sound, whichever state it finds.
LEMMA FailureSound == ASSUME NEW e, Sound(e) PROVE Sound(AfterFailure(e))
<1> DEFINE kept == Append(Live(e.failures), 0)
<1>1. /\ kept \in Seq(0..Window)
      /\ Len(kept) \in Nat
      /\ \A i, j \in DOMAIN kept : i <= j => kept[i] >= kept[j]
  BY OrderKept, Zenon DEF Sound, Entry
<1>2. CASE e.state = "half_open"
  <2>1. AfterFailure(e) = Reopened(e)
    BY <1>2, Zenon DEF AfterFailure
  <2>2. /\ Reopened(e) \in Entry
        /\ Reopened(e).state = "open" /\ Reopened(e).probing = FALSE
        /\ Reopened(e).failures = e.failures
    <3>1. e \in Entry /\ 0 \in 0..OpenFor
      BY BreakerSettings DEF Sound
    <3>2. Reopened(e) \in Entry
      BY <3>1, Zenon DEF Reopened, Entry, States
    <3>3. /\ Reopened(e).state = "open" /\ Reopened(e).probing = FALSE
          /\ Reopened(e).failures = e.failures
      BY <3>1, Zenon DEF Reopened, Entry
    <3> QED
      BY <3>2, <3>3, Zenon
  <2> QED
    BY <2>1, <2>2, Zenon DEF Sound
<1>3. CASE e.state # "half_open"
  <2>1. AfterFailure(e) =
          IF Len(kept) >= Threshold /\ e.state = "closed"
          THEN [e EXCEPT !.failures = kept, !.state = "open", !.openAge = 0]
          ELSE [e EXCEPT !.failures = kept]
    BY <1>3, Zenon DEF AfterFailure, Counted
  <2> HIDE DEF kept
  <2>2. CASE Len(kept) >= Threshold /\ e.state = "closed"
    <3> DEFINE d == [e EXCEPT !.failures = kept, !.state = "open", !.openAge = 0]
    <3>1. /\ d \in Entry /\ d.state = "open" /\ d.failures = kept
          /\ d.probing = e.probing
      <4>1. e \in Entry /\ 0 \in 0..OpenFor
        BY BreakerSettings DEF Sound
      <4>2. d \in Entry
        BY <1>1, <4>1, Zenon DEF Entry, States
      <4>3. d.state = "open" /\ d.failures = kept /\ d.probing = e.probing
        BY <4>1, Zenon DEF Entry
      <4> QED
        BY <4>2, <4>3, Zenon
    <3>2. ~e.probing
      BY <2>2, Zenon DEF Sound
    <3> HIDE DEF d
    <3>3. Sound(d)
      BY <1>1, <3>1, <3>2, Zenon DEF Sound
    <3> QED
      BY <2>1, <2>2, <3>3, Zenon DEF d
  <2>3. CASE ~(Len(kept) >= Threshold /\ e.state = "closed")
    <3> DEFINE d == [e EXCEPT !.failures = kept]
    <3>1. /\ d \in Entry /\ d.state = e.state /\ d.failures = kept
          /\ d.probing = e.probing
      BY <1>1, BreakerSettings, Zenon DEF Sound, Entry, States
    <3>2. e.state = "closed" => Len(kept) < Threshold
      BY <1>1, <2>3, BreakerSettings
    <3> HIDE DEF d
    <3>3. Sound(d)
      BY <1>1, <3>1, <3>2, Zenon DEF Sound
    <3> QED
      BY <2>1, <2>3, <3>3, Zenon DEF d
  <2> QED
    BY <2>2, <2>3, Zenon
<1> QED
  BY <1>2, <1>3, Zenon

\* The clock makes every age older by at most one and keeps their order.
LEMMA AgedSound == ASSUME NEW e, Sound(e) PROVE Sound(Aged(e))
<1> DEFINE g == [i \in DOMAIN e.failures |-> Older(e.failures[i], Window)]
<1>1. /\ g \in Seq(0..Window)
      /\ DOMAIN g = DOMAIN e.failures
      /\ Len(g) = Len(e.failures)
  BY BreakerSettings DEF Sound, Entry, Older
<1>2. \A i, j \in DOMAIN g : i <= j => g[i] >= g[j]
  BY BreakerSettings DEF Sound, Entry, Older
<1>3. Aged(e) = [e EXCEPT !.failures = g, !.openAge = Older(e.openAge, OpenFor)]
  BY Zenon DEF Aged, Sound, Entry
<1>4. Older(e.openAge, OpenFor) \in 0..OpenFor
  BY BreakerSettings DEF Older, Sound, Entry
<1> HIDE DEF g
<1> QED
  BY <1>1, <1>2, <1>3, <1>4, Zenon DEF Sound, Entry

-----------------------------------------------------------------------------
(* What a caller sees of a method: the state and the time since it opened *)

\* Allow lets a caller in without a trace, or turns an open breaker that has
\* cooled off into a half-open one.
LEMMA AllowStep ==
  ASSUME NEW e, Sound(e), Allows(e)
  PROVE  \/ e.state = "closed" /\ AfterAllow(e) = e
         \/ /\ e.state = "open" /\ e.openAge = OpenFor
            /\ AfterAllow(e).state = "half_open" /\ AfterAllow(e).openAge = e.openAge
<1>1. e \in Entry /\ ((e.state = "half_open") <=> e.probing)
  BY Zenon DEF Sound
<1>2. CASE e.state = "closed"
  BY <1>2, Zenon DEF AfterAllow
<1>3. CASE e.state # "closed"
  <2>1. e.state = "open" /\ ~CoolingOff(e)
    BY <1>1, <1>3, Zenon DEF Allows
  <2>2. e.openAge = OpenFor
    BY <1>1, <2>1, BreakerSettings DEF CoolingOff, Entry
  <2>3. AfterAllow(e).state = "half_open" /\ AfterAllow(e).openAge = e.openAge
    BY <1>1, <1>3, Zenon DEF AfterAllow, Entry
  <2> QED
    BY <2>1, <2>2, <2>3, Zenon
<1> QED
  BY <1>2, <1>3, Zenon

\* Success closes the breaker and leaves its clock alone.
LEMMA SuccessStep ==
  ASSUME NEW e, Sound(e)
  PROVE  AfterSuccess(e).state = "closed" /\ AfterSuccess(e).openAge = e.openAge
<1>1. e \in Entry
  BY Zenon DEF Sound
<1> QED
  BY <1>1, Zenon DEF AfterSuccess, Entry

\* Failure opens a closed or half-open breaker and restarts its clock, or changes
\* neither.
LEMMA FailureStep ==
  ASSUME NEW e, Sound(e)
  PROVE  \/ /\ e.state \in {"closed", "half_open"}
            /\ AfterFailure(e).state = "open" /\ AfterFailure(e).openAge = 0
         \/ AfterFailure(e).state = e.state /\ AfterFailure(e).openAge = e.openAge
<1>0. e \in Entry
  BY Zenon DEF Sound
<1>1. CASE e.state = "half_open"
  <2>1. AfterFailure(e) = Reopened(e)
    BY <1>1, Zenon DEF AfterFailure
  <2> QED
    BY <1>0, <1>1, <2>1, Zenon DEF Reopened, Entry
<1>2. CASE e.state # "half_open"
  <2>1. AfterFailure(e) = Counted(e)
    BY <1>2, Zenon DEF AfterFailure
  <2> DEFINE kept == Append(Live(e.failures), 0)
  <2>2. CASE Len(kept) >= Threshold /\ e.state = "closed"
    BY <1>0, <2>1, <2>2, Zenon DEF Counted, Entry
  <2>3. CASE ~(Len(kept) >= Threshold /\ e.state = "closed")
    BY <1>0, <2>1, <2>3, Zenon DEF Counted, Entry
  <2> QED
    BY <2>2, <2>3, Zenon
<1> QED
  BY <1>1, <1>2, Zenon

\* The clock keeps the state and counts up to the cool-off.
LEMMA AgedStep ==
  ASSUME NEW e, Sound(e)
  PROVE  /\ Aged(e).state = e.state
         /\ \/ e.openAge < OpenFor /\ Aged(e).openAge = e.openAge + 1
            \/ Aged(e).openAge = e.openAge
<1>0. e \in Entry
  BY Zenon DEF Sound
<1>1. Aged(e).state = e.state /\ Aged(e).openAge = Older(e.openAge, OpenFor)
  BY <1>0, Zenon DEF Aged, Entry
<1> QED
  BY <1>0, <1>1, BreakerSettings DEF Older, Entry

-----------------------------------------------------------------------------
(* The specification *)

\* The breaker with callers has these methods.
LEMMA OneBreaker ==
  /\ One!Entry = Entry /\ One!Fresh = Fresh
  /\ \A e : /\ One!Allows(e) <=> Allows(e)
            /\ One!AfterAllow(e) = AfterAllow(e)
            /\ One!AfterSuccess(e) = AfterSuccess(e)
            /\ One!AfterFailure(e) = AfterFailure(e)
            /\ One!Aged(e) = Aged(e)
            /\ One!Reported(e) = Reported(e)
<1>1. One!Entry = Entry /\ One!Fresh = Fresh
  BY Zenon DEF One!Entry, One!States, One!Fresh, Entry, States, Fresh
<1> SUFFICES ASSUME NEW e
             PROVE  /\ One!Allows(e) <=> Allows(e)
                    /\ One!AfterAllow(e) = AfterAllow(e)
                    /\ One!AfterSuccess(e) = AfterSuccess(e)
                    /\ One!AfterFailure(e) = AfterFailure(e)
                    /\ One!Aged(e) = Aged(e)
                    /\ One!Reported(e) = Reported(e)
  BY <1>1, Zenon
<1>2. One!Allows(e) <=> Allows(e)
  BY Zenon DEF One!Allows, One!CoolingOff, Allows, CoolingOff
<1>3. One!AfterAllow(e) = AfterAllow(e)
  BY <1>2, Zenon DEF One!AfterAllow, AfterAllow
<1>4. One!AfterSuccess(e) = AfterSuccess(e)
  BY Zenon DEF One!AfterSuccess, AfterSuccess
<1>5. One!Live(e.failures) = Live(e.failures)
  BY Zenon DEF One!Live, One!Picked, Live, Picked
<1>6. One!AfterFailure(e) = AfterFailure(e)
  BY <1>5, Zenon DEF One!AfterFailure, One!Counted, One!Reopened, AfterFailure, Counted, Reopened
<1>7. One!Aged(e) = Aged(e)
  BY Zenon DEF One!Aged, One!Older, Aged, Older
<1>8. One!Reported(e) = Reported(e)
  BY Zenon DEF One!Reported, One!CoolingOff, Reported, CoolingOff
<1> QED
  BY <1>2, <1>3, <1>4, <1>6, <1>7, <1>8, Zenon

\* Whatever the callers do, a closed breaker is below its threshold, half-open
\* means probing, and the failure list is ordered.  TypeOK is needed for the
\* ages to be comparable; the order is needed for pruning to be a filter.
THEOREM Invariance == One!Spec => []One!IInv
<1>1. One!IInv <=> Sound(entry) /\ inside \subseteq Calls
  BY Zenon, OneBreaker DEF One!IInv, One!TypeOK, One!BreakerInv, One!ClosedBelowThreshold,
         One!HalfOpenIffProbing, One!OldestFirst, Sound
<1>2. One!Init => One!IInv
  BY OneBreaker, BreakerSettings
  DEF One!Init, Fresh, One!IInv, One!TypeOK, One!BreakerInv, One!ClosedBelowThreshold,
      One!HalfOpenIffProbing, One!OldestFirst, Entry, States
<1>3. One!IInv /\ [One!Next]_(One!vars) => One!IInv'
  <2> DEFINE Goal == Sound(entry') /\ inside' \subseteq Calls
  <2> SUFFICES ASSUME Sound(entry), inside \subseteq Calls,
                      [One!Next]_(One!vars)
               PROVE  Goal
    BY Zenon, <1>1, OneBreaker DEF One!IInv, One!TypeOK, One!BreakerInv, One!ClosedBelowThreshold,
         One!HalfOpenIffProbing, One!OldestFirst, Sound
  <2>1. ASSUME NEW c \in Calls, One!Admit(c) PROVE Goal
    BY <2>1, OneBreaker, AllowSound, Zenon DEF One!Admit
  <2>2. ASSUME NEW c \in Calls, One!Succeed(c) PROVE Goal
    BY <2>2, OneBreaker, SuccessSound, Zenon DEF One!Succeed
  <2>3. ASSUME NEW c \in Calls, One!Fail(c) PROVE Goal
    BY <2>3, OneBreaker, FailureSound, Zenon DEF One!Fail
  <2>4. ASSUME NEW c \in Calls, One!Abandon(c) PROVE Goal
    BY <2>4, Zenon DEF One!Abandon
  <2>5. CASE One!Tick
    BY <2>5, OneBreaker, AgedSound, Zenon DEF One!Tick
  <2>6. CASE UNCHANGED One!vars
    BY <2>6, Zenon DEF One!vars
  <2> QED
    BY <2>1, <2>2, <2>3, <2>4, <2>5, <2>6, Zenon DEF One!Next
<1> QED
  BY <1>2, <1>3, PTL DEF One!Spec

\* The type of the breaker's state, for every setting.
COROLLARY Types == One!Spec => []One!TypeOK
BY Invariance, PTL DEF One!IInv

\* A closed breaker is below its threshold and half-open means probing, so the
\* half-open branch of Allow that admits a caller is unreachable.
COROLLARY Soundness == One!Spec => []One!BreakerInv
BY Invariance, PTL DEF One!IInv

\* The health report agrees with what Allow would answer.
THEOREM Truthful == One!Spec => []One!HealthIsTruthful
<1>1. One!IInv => One!HealthIsTruthful
  BY OneBreaker, Zenon
  DEF One!IInv, One!TypeOK, Entry, States, One!HealthIsTruthful, Reported, Allows, CoolingOff
<1> QED
  BY <1>1, Invariance, PTL

-----------------------------------------------------------------------------
(* Refinement *)

\* The breaker implements Circuit.  An admission is Enter or Probe according to
\* the state Allow found; half-open admits nobody, by the invariant, so the
\* probing flag needs no counterpart.  A report is one of the ways of leaving.
THEOREM Refinement == One!Spec => One!KeepsPromise
<1>1. One!Init => One!Promise!Init
  BY OneBreaker DEF One!Init, Fresh, One!Promise!Init
<1>2. One!IInv /\ [One!Next]_(One!vars) => [One!Promise!Next]_(One!Promise!vars)
  <2> SUFFICES ASSUME One!IInv, [One!Next]_(One!vars) PROVE [One!Promise!Next]_(One!Promise!vars)
    BY Zenon
  <2>0. Sound(entry) /\ inside \subseteq Calls
    BY Zenon, OneBreaker DEF One!IInv, One!TypeOK, One!BreakerInv, One!ClosedBelowThreshold,
                       One!HalfOpenIffProbing, One!OldestFirst, Sound
  <2>1. ASSUME NEW c \in Calls, One!Admit(c) PROVE One!Promise!Next
    <3>1. One!Promise!Enter(c) \/ One!Promise!Probe(c)
      BY <2>0, <2>1, OneBreaker, AllowStep, Zenon DEF One!Admit, One!Promise!Enter, One!Promise!Probe
    <3> QED
      BY <3>1, Zenon DEF One!Promise!Next
  <2>2. ASSUME NEW c \in Calls, One!Succeed(c) PROVE One!Promise!Next
    <3>1. One!Promise!LeaveWell(c)
      BY <2>0, <2>2, OneBreaker, SuccessStep, Zenon
      DEF One!Succeed, One!Promise!LeaveWell, One!Promise!Leave
    <3> QED
      BY <3>1, Zenon DEF One!Promise!Next
  <2>3. ASSUME NEW c \in Calls, One!Fail(c) PROVE One!Promise!Next
    <3>1. One!Promise!LeaveAndOpen(c) \/ One!Promise!LeaveQuietly(c)
      BY <2>0, <2>3, OneBreaker, FailureStep, Zenon
      DEF One!Fail, One!Promise!LeaveAndOpen, One!Promise!LeaveQuietly, One!Promise!Leave
    <3> QED
      BY <3>1, Zenon DEF One!Promise!Next
  <2>4. ASSUME NEW c \in Calls, One!Abandon(c) PROVE One!Promise!Next
    <3>1. One!Promise!LeaveQuietly(c)
      BY <2>4, Zenon DEF One!Abandon, One!Promise!LeaveQuietly, One!Promise!Leave
    <3> QED
      BY <3>1, Zenon DEF One!Promise!Next
  <2>5. CASE One!Tick
    <3>1. One!Promise!Tick \/ UNCHANGED One!Promise!vars
      BY <2>0, <2>5, OneBreaker, AgedStep, Zenon DEF One!Tick, One!Promise!Tick, One!Promise!vars
    <3> QED
      BY <3>1, Zenon DEF One!Promise!Next
  <2>6. CASE UNCHANGED One!vars
    BY <2>6, Zenon DEF One!vars, One!Promise!vars
  <2> QED
    BY <2>1, <2>2, <2>3, <2>4, <2>5, <2>6, Zenon DEF One!Next
<1> QED
  BY <1>1, <1>2, Invariance, PTL DEF One!Spec, One!KeepsPromise, One!Promise!Spec

-----------------------------------------------------------------------------
(* The breakers *)

AllSound ==
  /\ entries \in [Candidates -> Entry]
  /\ \A c \in Candidates : Sound(entries[c])

\* Every breaker method, applied to one candidate's entry, leaves all the
\* entries sound.
LEMMA UpdateSound ==
  ASSUME AllSound, NEW d,
         entries' = [entries EXCEPT ![d] = AfterAllow(@)]
           \/ entries' = [entries EXCEPT ![d] = AfterSuccess(@)]
           \/ entries' = [entries EXCEPT ![d] = AfterFailure(@)]
  PROVE  AllSound'
<1>1. ASSUME NEW c \in Candidates PROVE Sound(entries'[c])
  BY <1>1, AllowSound, SuccessSound, FailureSound, Zenon DEF AllSound
<1>2. \A c \in Candidates : entries'[c] \in Entry
  BY <1>1, Zenon DEF Sound
<1>3. entries' \in [Candidates -> Entry]
  BY <1>2, Zenon DEF AllSound
<1> QED
  BY <1>1, <1>3, Zenon DEF AllSound

\* No step of any request, of the clock or of an admin breaks an entry.
LEMMA BreakersStaySound == Spec => []AllSound
<1>1. Init => AllSound
  <2>1. Sound(Fresh)
    BY BreakerSettings DEF Sound, Fresh, Entry, States
  <2> QED
    BY <2>1 DEF Init, AllSound, Sound
<1>2. AllSound /\ [Next]_vars => AllSound'
  <2> SUFFICES ASSUME AllSound, [Next]_vars PROVE AllSound'
    BY Zenon
  <2>1. CASE UNCHANGED entries
    BY <2>1, Zenon DEF AllSound
  <2>2. ASSUME NEW r \in Requests, Admit(r) PROVE AllSound'
    BY <2>2, UpdateSound, Zenon DEF Admit
  <2>3. ASSUME NEW r \in Requests, Serve(r) PROVE AllSound'
    BY <2>3, UpdateSound, Zenon DEF Serve
  <2>4. ASSUME NEW r \in Requests, Break(r) PROVE AllSound'
    BY <2>4, UpdateSound, Zenon DEF Break
  <2>5. ASSUME NEW r \in Requests, RateLimited(r) PROVE AllSound'
    BY <2>1, <2>5, UpdateSound, Zenon DEF RateLimited
  <2>6. CASE Tick
    <3>1. \A c \in Candidates : Sound(entries'[c])
      BY <2>6, AgedSound, Zenon DEF Tick, AllSound
    <3>2. entries' \in [Candidates -> Entry]
      BY <2>6, <3>1, Zenon DEF Tick, Sound
    <3> QED
      BY <3>1, <3>2, Zenon DEF AllSound
  <2>7. \/ UNCHANGED entries \/ Tick
        \/ \E r \in Requests : Admit(r) \/ Serve(r) \/ Break(r) \/ RateLimited(r)
    BY Zenon DEF Next, Start, Skip, Unusable, Walk, Reject, Expire, Switch, vars
  <2> QED
    BY <2>1, <2>2, <2>3, <2>4, <2>5, <2>6, <2>7, Zenon
<1> QED
  BY <1>1, <1>2, PTL DEF Spec

\* Under the real callers every breaker is closed only below its threshold and
\* half-open exactly while probing.
THEOREM Breakers == Spec => []EntriesSound
<1>1. AllSound => EntriesSound
  BY Zenon DEF AllSound, Sound, EntriesSound
<1> QED
  BY <1>1, BreakersStaySound, PTL

-----------------------------------------------------------------------------
(* The cool-downs *)

CoolingType == cooling \in [Providers \X Keys -> Nat]

\* A cool-down is always a length of time.
LEMMA CoolingTyped == Spec => []CoolingType
<1>1. Init => CoolingType
  BY DEF Init, CoolingType
<1>2. CoolingType /\ [Next]_vars => CoolingType'
  <2> SUFFICES ASSUME CoolingType, [Next]_vars PROVE CoolingType'
    BY Zenon
  <2>1. CASE UNCHANGED cooling
    BY <2>1, Zenon DEF CoolingType
  <2>2. ASSUME NEW r \in Requests, RateLimited(r) PROVE CoolingType'
    BY <2>2, DispatchInputs, Zenon DEF RateLimited, CoolKey, CoolingType
  <2>3. CASE Tick
    BY <2>3 DEF Tick, CoolingType
  <2>4. UNCHANGED cooling \/ Tick \/ \E r \in Requests : RateLimited(r)
    BY Zenon DEF Next, Start, Skip, Admit, Unusable, Walk, Serve, Reject, Break, Expire,
           Switch, vars
  <2> QED
    BY <2>1, <2>2, <2>3, <2>4, Zenon
<1> QED
  BY <1>1, <1>2, PTL DEF Spec

\* Only time shortens a cool-down: a 429 with a shorter Retry-After, from however
\* many concurrent requests, leaves the longer window standing.
THEOREM CoolDowns == Spec => CoolDownOnlyEndsByTime
<1> DEFINE Step == \A pk \in DOMAIN cooling :
                     cooling'[pk] < cooling[pk] =>
                       cooling'[pk] = cooling[pk] - 1 /\ UNCHANGED req
<1>1. CoolingType /\ [Next]_vars => [Step]_vars
  <2> SUFFICES ASSUME CoolingType, [Next]_vars PROVE [Step]_vars
    BY Zenon
  <2>1. CASE UNCHANGED cooling
    BY <2>1 DEF CoolingType
  <2>2. ASSUME NEW r \in Requests, RateLimited(r) PROVE Step
    <3> DEFINE k == <<Prov(r), Head(req[r].keys)>>
    <3>1. PICK wait \in Nat :
            cooling' = [cooling EXCEPT ![k] = IF wait > @ THEN wait ELSE @]
      BY <2>2, DispatchInputs, Zenon DEF RateLimited, CoolKey
    <3> HIDE DEF k
    <3>2. \A pk \in Providers \X Keys : cooling'[pk] >= cooling[pk]
      BY <3>1 DEF CoolingType
    <3>3. \A pk \in Providers \X Keys : cooling[pk] \in Nat /\ cooling'[pk] \in Nat
      BY <3>1, Zenon DEF CoolingType
    <3> QED
      BY <3>2, <3>3 DEF CoolingType
  <2>3. CASE Tick
    BY <2>3, Zenon DEF Tick, CoolingType
  <2>4. UNCHANGED cooling \/ Tick \/ \E r \in Requests : RateLimited(r)
    BY Zenon DEF Next, Start, Skip, Admit, Unusable, Walk, Serve, Reject, Break, Expire,
           Switch, vars
  <2> QED
    BY <2>1, <2>2, <2>3, <2>4, Zenon
<1> QED
  BY <1>1, CoolingTyped, PTL DEF Spec, CoolDownOnlyEndsByTime

-----------------------------------------------------------------------------
(* The walks over the keys *)

Placed ==
  /\ cursors \in [Providers -> Nat]
  /\ \A p \in Providers : cursors[p] < Len(Pool[p])

\* The cursor of a pool is always a place in it.
LEMMA CursorsPlaced == Spec => []Placed
<1>0. \A p \in Providers : Len(Pool[p]) \in Nat /\ Len(Pool[p]) > 0
  BY DispatchInputs
<1>1. Init => Placed
  BY <1>0 DEF Init, Placed
<1>2. Placed /\ [Next]_vars => Placed'
  <2> SUFFICES ASSUME Placed, [Next]_vars PROVE Placed'
    BY Zenon
  <2>1. CASE UNCHANGED cursors
    BY <2>1, Zenon DEF Placed
  <2>2. ASSUME NEW p, cursors' = AdvanceCursor(p) PROVE Placed'
    BY <1>0, <2>1, <2>2 DEF AdvanceCursor, Placed
  <2>3. UNCHANGED cursors \/ \E r \in Requests : cursors' = AdvanceCursor(Prov(r))
    BY Zenon DEF Next, Start, Skip, Admit, Unusable, Walk, Serve, Reject, Break, RateLimited,
                 Expire, Switch, Tick, vars
  <2> QED
    BY <2>1, <2>2, <2>3, Zenon
<1> QED
  BY <1>1, <1>2, PTL DEF Spec

\* Indices wrap around the end of a pool.
LEMMA Wraps ==
  ASSUME NEW n \in Nat \ {0}, NEW x \in Nat, x < n + n
  PROVE  x % n = IF x < n THEN x ELSE x - n
OBVIOUS

\* A pool rotated to any of its places is one pass over it.
LEMMA RotatedOnce ==
  ASSUME NEW s \in Seq(Keys), NEW o \in Nat, o < Len(s)
  PROVE  /\ Rotated(s, o) \in Seq(Keys) /\ Rotated(s, o) # <<>>
         /\ OnePass(Rotated(s, o), s)
<1>1. PICK n \in Nat \ {0} : n = Len(s)
  OBVIOUS
<1> DEFINE t == Rotated(s, o)
           at == [i \in 1..n |-> 1 + ((o + i - 1) % n)]
<1>2. \A i \in 1..n : (o + i - 1) % n \in 0..(n - 1)
  BY <1>1
<1>3. at \in [1..n -> 1..n]
  BY <1>2
<1>4. t = [i \in 1..n |-> s[at[i]]]
  BY <1>1, Zenon DEF Rotated
<1>5. \A i \in 1..n : s[at[i]] \in Keys
  BY <1>1, <1>3
<1>6. \A i, j \in 1..n : at[i] = at[j] => i = j
  <2> SUFFICES ASSUME NEW i \in 1..n, NEW j \in 1..n, at[i] = at[j] PROVE i = j
    BY Zenon
  <2>1. PICK x \in Nat, y \in Nat : x = o + i - 1 /\ y = o + j - 1
    OBVIOUS
  <2>2. /\ x < n + n /\ y < n + n
        /\ at[i] = 1 + (x % n) /\ at[j] = 1 + (y % n)
    BY <1>1, <2>1
  <2>3. /\ x % n = IF x < n THEN x ELSE x - n
        /\ y % n = IF y < n THEN y ELSE y - n
    BY <1>1, <2>1, <2>2, Wraps, Zenon
  <2> HIDE DEF at
  <2>4. 1 + (IF x < n THEN x ELSE x - n) = 1 + (IF y < n THEN y ELSE y - n)
    BY <2>2, <2>3, Zenon
  <2> QED
    BY <1>1, <2>1, <2>4
<1> HIDE DEF at, t
<1>7. t \in Seq(Keys) /\ DOMAIN t = 1..n /\ t # <<>>
  BY <1>4, <1>5
<1>8. DOMAIN s = 1..n
  BY <1>1
<1>9. \A i \in 1..n : t[i] = s[at[i]]
  BY <1>4, Zenon
<1>10. OnePass(t, s)
  BY <1>3, <1>6, <1>7, <1>8, <1>9, ZenonT(30) DEF OnePass
<1> QED
  BY <1>7, <1>10, Zenon DEF t

\* keyOrder is one pass over the pool, rotated or not.
LEMMA KeyOrderOnce ==
  ASSUME Placed, NEW p \in Providers
  PROVE  /\ KeyOrder(p) \in Seq(Keys) /\ KeyOrder(p) # <<>>
         /\ OnePass(KeyOrder(p), Pool[p])
<1>1. Pool[p] \in Seq(Keys) /\ Pool[p] # <<>>
  BY DispatchInputs, Zenon
<1>2. OnePass(Pool[p], Pool[p])
  <2>1. PICK D : D = DOMAIN Pool[p]
    BY Zenon
  <2> DEFINE at == [i \in D |-> i]
  <2>2. at \in [D -> D] /\ \A i \in D : at[i] = i
    BY Zenon
  <2> HIDE DEF at
  <2> QED
    BY <2>1, <2>2, Zenon DEF OnePass
<1>3. cursors[p] \in Nat /\ cursors[p] < Len(Pool[p])
  BY Zenon DEF Placed
<1> QED
  BY <1>1, <1>2, <1>3, RotatedOnce, Zenon DEF KeyOrder

\* readyKeys leaves out keys and moves none, so it stays one pass, and a pool that
\* is resting altogether is tried anyway.
LEMMA ReadyKeysOnce ==
  ASSUME NEW p, NEW pool, NEW order \in Seq(Keys), order # <<>>, OnePass(order, pool)
  PROVE  /\ ReadyKeys(p, order) \in Seq(Keys) /\ ReadyKeys(p, order) # <<>>
         /\ OnePass(ReadyKeys(p, order), pool)
<1>1. PICK K : ReadyKeys(p, order) =
                 IF Picked(order, K) = <<>> THEN order ELSE Picked(order, K)
  BY Zenon DEF ReadyKeys
<1>2. PICK t : t = Picked(order, K)
  BY Zenon
<1>3. t \in Seq(Keys) /\ Follows(order, K, t, Len(order))
  BY <1>2, PickedFollows, Zenon
<1>4. PICK h \in [1..Len(t) -> 1..Len(order)] :
        /\ \A j \in 1..Len(t) : h[j] \in K /\ t[j] = order[h[j]]
        /\ \A i, j \in 1..Len(t) : i < j => h[i] < h[j]
  BY <1>3, Zenon DEF Follows
<1>5. PICK at \in [DOMAIN order -> DOMAIN pool] :
        /\ \A i \in DOMAIN order : order[i] = pool[at[i]]
        /\ \A i, j \in DOMAIN order : at[i] = at[j] => i = j
  BY Zenon DEF OnePass
<1>6. DOMAIN t = 1..Len(t) /\ DOMAIN order = 1..Len(order) /\ Len(t) \in Nat
  BY <1>3
<1> DEFINE g == [j \in DOMAIN t |-> at[h[j]]]
<1>7. \A i, j \in DOMAIN t : h[i] = h[j] => i = j
  BY <1>4, <1>6
<1>8. /\ g \in [DOMAIN t -> DOMAIN pool]
      /\ \A j \in DOMAIN t : g[j] = at[h[j]] /\ h[j] \in DOMAIN order
  BY <1>4, <1>5, <1>6, Zenon
<1> HIDE DEF g
<1>9. OnePass(t, pool)
  <2>1. \A j \in DOMAIN t : t[j] = pool[g[j]]
    BY <1>4, <1>5, <1>6, <1>8
  <2>2. \A i, j \in DOMAIN t : g[i] = g[j] => i = j
    <3> SUFFICES ASSUME NEW i \in DOMAIN t, NEW j \in DOMAIN t, g[i] = g[j] PROVE i = j
      BY Zenon
    <3>1. at[h[i]] = at[h[j]]
      BY <1>8, Zenon
    <3>2. h[i] = h[j]
      BY <1>5, <1>8, <3>1, Zenon
    <3> QED
      BY <1>7, <3>2, Zenon
  <2> QED
    BY <1>8, <2>1, <2>2, Zenon DEF OnePass
<1> QED
  BY <1>1, <1>2, <1>3, <1>9

\* What is left of a pass is one.
LEMMA TailOnce ==
  ASSUME NEW pool, NEW keys \in Seq(Keys), Len(keys) > 1, OnePass(keys, pool)
  PROVE  Tail(keys) \in Seq(Keys) /\ Tail(keys) # <<>> /\ OnePass(Tail(keys), pool)
<1>1. PICK at \in [DOMAIN keys -> DOMAIN pool] :
        /\ \A i \in DOMAIN keys : keys[i] = pool[at[i]]
        /\ \A i, j \in DOMAIN keys : at[i] = at[j] => i = j
  BY Zenon DEF OnePass
<1>2. PICK t : t = Tail(keys)
  BY Zenon
<1>3. /\ t \in Seq(Keys) /\ t # <<>>
      /\ \A i \in DOMAIN t : i \in Nat /\ i + 1 \in DOMAIN keys /\ t[i] = keys[i + 1]
  BY <1>2, SMTT(30)
<1> DEFINE g == [i \in DOMAIN t |-> at[i + 1]]
<1>4. g \in [DOMAIN t -> DOMAIN pool] /\ \A i \in DOMAIN t : g[i] = at[i + 1]
  BY <1>1, <1>3, Zenon
<1> HIDE DEF g
<1>5. \A i, j \in DOMAIN t : g[i] = g[j] => i = j
  BY <1>1, <1>3, <1>4
<1>6. OnePass(t, pool)
  BY <1>1, <1>3, <1>4, <1>5, SMTT(30) DEF OnePass
<1> QED
  BY <1>2, <1>3, <1>6, Zenon

-----------------------------------------------------------------------------
(* Refinement *)

\* Every request is a record with the fields of a request.
Shaped(q) == q = [pc |-> q.pc, chain |-> q.chain, pos |-> q.pos, stream |-> q.stream,
                  usable |-> q.usable, keys |-> q.keys, expired |-> q.expired]
AllShaped == req = [r \in Requests |-> req[r]] /\ \A r \in Requests : Shaped(req[r])

\* Leaving a candidate keeps the shape and leaves no call behind.
LEMMA OnwardLeaves ==
  ASSUME NEW q, Shaped(q)
  PROVE  Shaped(Onward(q)) /\ Onward(q).pc \notin {"check", "call"}
BY Zenon DEF Shaped, Onward, Ended

\* The requests keep their shape.
LEMMA RequestsShaped == Spec => []AllShaped
<1>1. Init => AllShaped
  BY DEF Init, AllShaped, Shaped, Ended
<1>2. AllShaped /\ [Next]_vars => AllShaped'
  <2> SUFFICES ASSUME AllShaped, [Next]_vars PROVE AllShaped'
    BY Zenon
  <2>1. CASE UNCHANGED req
    BY <2>1, Zenon DEF AllShaped
  <2>2. ASSUME NEW r \in Requests, NEW q, Shaped(q), req' = [req EXCEPT ![r] = q]
        PROVE  AllShaped'
    <3>1. req' = [x \in Requests |-> IF x = r THEN q ELSE req[x]]
      BY <2>2, Zenon DEF AllShaped
    <3> QED
      BY <2>2, <3>1, Zenon DEF AllShaped
  <2>3. ASSUME NEW r \in Requests, Start(r) PROVE AllShaped'
    BY <2>2, <2>3, Zenon DEF Start, Shaped
  <2>4. ASSUME NEW r \in Requests, req' = [req EXCEPT ![r] = Onward(@)]
        PROVE  AllShaped'
    BY <2>2, <2>4, OnwardLeaves, Zenon DEF AllShaped
  <2>5. ASSUME NEW r \in Requests, Admit(r) PROVE AllShaped'
    BY <2>5, Zenon DEF Admit, AllShaped, Shaped
  <2>6. ASSUME NEW r \in Requests, Walk(r) PROVE AllShaped'
    BY <2>6, Zenon DEF Walk, AllShaped, Shaped
  <2>7. ASSUME NEW r \in Requests, NEW how, req' = [req EXCEPT ![r] = Ended(how)]
        PROVE  AllShaped'
    BY <2>2, <2>7, Zenon DEF Ended, Shaped
  <2>8. ASSUME NEW r \in Requests, req' = [req EXCEPT ![r].keys = Tail(@)]
        PROVE  AllShaped'
    BY <2>8, Zenon DEF AllShaped, Shaped
  <2>9. ASSUME NEW r \in Requests, Expire(r) PROVE AllShaped'
    BY <2>9, Zenon DEF Expire, AllShaped, Shaped
  <2>10. ASSUME NEW r \in Requests, RateLimited(r) PROVE AllShaped'
    BY <2>4, <2>8, <2>10, Zenon DEF RateLimited
  <2> QED
    BY <2>1, <2>3, <2>4, <2>5, <2>6, <2>7, <2>9, <2>10, Zenon
    DEF Next, Skip, Unusable, Serve, Reject, Break, Switch, Tick, vars
<1> QED
  BY <1>1, <1>2, PTL DEF Spec

Calling(c) == {r \in Requests : Inside(r, c)}

\* A step that keeps a request inside its candidate, or keeps it outside all of
\* them, changes nobody's circuit.
LEMMA StaysPut ==
  ASSUME AllShaped, NEW r \in Requests, NEW c, NEW q,
         req' = [req EXCEPT ![r] = q],
         \/ req[r].pc \notin {"check", "call"} /\ q.pc \notin {"check", "call"}
         \/ /\ req[r].pc \in {"check", "call"} /\ q.pc \in {"check", "call"}
            /\ q.chain = req[r].chain /\ q.pos = req[r].pos
  PROVE  Calling(c)' = Calling(c)
BY Zenon DEF AllShaped, Calling, Inside, Cand

\* The methods of the breaker are the same for every candidate.
LEMMA SameMethods ==
  ASSUME NEW c, NEW e
  PROVE  /\ Of(c)!Allows(e) <=> Allows(e)
         /\ Of(c)!AfterAllow(e) = AfterAllow(e)
         /\ Of(c)!AfterSuccess(e) = AfterSuccess(e)
         /\ Of(c)!AfterFailure(e) = AfterFailure(e)
         /\ Of(c)!Aged(e) = Aged(e)
<1>2. Of(c)!Allows(e) <=> Allows(e)
  BY Zenon DEF Of!Allows, Of!CoolingOff, Allows, CoolingOff
<1>3. Of(c)!AfterAllow(e) = AfterAllow(e)
  BY <1>2, Zenon DEF Of!AfterAllow, AfterAllow
<1>4. Of(c)!AfterSuccess(e) = AfterSuccess(e)
  BY Zenon DEF Of!AfterSuccess, AfterSuccess
<1>5. Of(c)!Live(e.failures) = Live(e.failures)
  BY Zenon DEF Of!Live, Of!Picked, Live, Picked
<1>6. Of(c)!AfterFailure(e) = AfterFailure(e)
  BY <1>5, Zenon DEF Of!AfterFailure, Of!Counted, Of!Reopened, AfterFailure, Counted, Reopened
<1>7. Of(c)!Aged(e) = Aged(e)
  BY Zenon DEF Of!Aged, Of!Older, Aged, Older
<1> QED
  BY <1>2, <1>3, <1>4, <1>6, <1>7, Zenon

\* A step of the dispatcher is, for each candidate's breaker, a step of one of its
\* callers or none at all.
LEMMA BreakerSteps ==
  ASSUME AllSound, AllShaped, [Next]_vars, NEW c \in Candidates
  PROVE  [Of(c)!Next]_(Of(c)!vars)
<1> DEFINE Goal == [Of(c)!Next]_(Of(c)!vars)
<1>0. Sound(entries[c]) /\ entries \in [Candidates -> Entry]
  BY Zenon DEF AllSound
<1>s. ASSUME entries'[c] = entries[c], Calling(c)' = Calling(c) PROVE Goal
  BY <1>s, Zenon DEF Of!vars, Calling
<1>l. ASSUME NEW r \in Requests, NEW q, q.pc \notin {"check", "call"},
             req[r].pc \in {"check", "call"}, req' = [req EXCEPT ![r] = q],
             \/ entries' = [entries EXCEPT ![Cand(r)] = AfterSuccess(@)]
             \/ entries' = [entries EXCEPT ![Cand(r)] = AfterFailure(@)]
             \/ UNCHANGED entries
      PROVE  Goal
  <2>1. CASE c # Cand(r)
    <3>1. Calling(c)' = Calling(c)
      BY <1>l, <2>1, Zenon DEF AllShaped, Calling, Inside, Cand
    <3>2. entries'[c] = entries[c]
      BY <1>0, <1>l, <2>1, Zenon
    <3> QED
      BY <1>s, <3>1, <3>2, Zenon
  <2>2. CASE c = Cand(r)
    <3>1. r \in Calling(c) /\ Calling(c)' = Calling(c) \ {r}
      BY <1>l, <2>2, Zenon DEF AllShaped, Calling, Inside, Cand
    <3>2. Of(c)!Succeed(r) \/ Of(c)!Fail(r) \/ Of(c)!Abandon(r)
      BY <1>0, <1>l, <2>2, <3>1, SameMethods DEF Calling, Of!Succeed, Of!Fail, Of!Abandon
    <3> QED
      BY <3>2, Zenon DEF Of!Next
  <2> QED
    BY <2>1, <2>2, Zenon
<1>1. ASSUME NEW r \in Requests, Start(r) PROVE Goal
  BY <1>1, <1>s, StaysPut, Zenon DEF Start, Answered
<1>2. ASSUME NEW r \in Requests, Skip(r) PROVE Goal
  BY <1>2, <1>s, StaysPut, OnwardLeaves, Zenon DEF Skip, AllShaped
<1>3. ASSUME NEW r \in Requests, Admit(r) PROVE Goal
  <2>1. CASE c # Cand(r)
    <3>1. Calling(c)' = Calling(c)
      BY <1>3, <2>1 DEF Admit, AllShaped, Shaped, Calling, Inside, Cand
    <3> QED
      BY <1>0, <1>3, <1>s, <2>1, <3>1, Zenon DEF Admit
  <2>2. CASE c = Cand(r)
    <3>1. r \notin Calling(c) /\ Calling(c)' = Calling(c) \cup {r}
      BY <1>3, <2>2, Zenon DEF Admit, AllShaped, Shaped, Calling, Inside, Cand
    <3>2. Of(c)!Admit(r)
      BY <1>0, <1>3, <2>2, <3>1, SameMethods, Zenon DEF Admit, Calling, Of!Admit
    <3> QED
      BY <3>2, Zenon DEF Of!Next
  <2> QED
    BY <2>1, <2>2, Zenon
<1>4. ASSUME NEW r \in Requests, Unusable(r) PROVE Goal
  BY <1>4, <1>l, OnwardLeaves, Zenon DEF Unusable, AllShaped
<1>5. ASSUME NEW r \in Requests, Walk(r) PROVE Goal
  <2>1. Calling(c)' = Calling(c)
    BY <1>5 DEF Walk, AllShaped, Shaped, Calling, Inside, Cand
  <2> QED
    BY <1>5, <1>s, <2>1, Zenon DEF Walk
<1>6. ASSUME NEW r \in Requests, Serve(r) PROVE Goal
  BY <1>6, <1>l, Zenon DEF Serve, Hears, Ended
<1>7. ASSUME NEW r \in Requests, Reject(r) PROVE Goal
  BY <1>7, <1>l, Zenon DEF Reject, Hears, Ended
<1>8. ASSUME NEW r \in Requests, Break(r) PROVE Goal
  BY <1>8, <1>l, OnwardLeaves, Zenon DEF Break, AllShaped
<1>9. ASSUME NEW r \in Requests, RateLimited(r) PROVE Goal
  <2>1. CASE Len(req[r].keys) > 1
    <3>0. req[r].pc = "call" /\ req' = [req EXCEPT ![r].keys = Tail(@)]
      BY <1>9, <2>1, Zenon DEF RateLimited, Hears
    <3>1. Calling(c)' = Calling(c)
      BY <3>0 DEF AllShaped, Shaped, Calling, Inside, Cand
    <3> QED
      BY <1>9, <1>s, <2>1, <3>1, Zenon DEF RateLimited
  <2>2. CASE ~(Len(req[r].keys) > 1)
    BY <1>9, <1>l, <2>2, OnwardLeaves, Zenon DEF RateLimited, Hears, AllShaped
  <2> QED
    BY <2>1, <2>2, Zenon
<1>10. ASSUME NEW r \in Requests, Expire(r) PROVE Goal
  <2>1. Calling(c)' = Calling(c)
    BY <1>10 DEF Expire, AllShaped, Shaped, Calling, Inside, Cand
  <2> QED
    BY <1>10, <1>s, <2>1, Zenon DEF Expire
<1>11. ASSUME NEW p \in Switchable, Switch(p) PROVE Goal
  BY <1>11, <1>s, Zenon DEF Switch, Calling, Inside, Cand
<1>12. CASE Tick
  <2>1. Calling(c)' = Calling(c) /\ entries'[c] = Aged(entries[c])
    BY <1>12, Zenon DEF Tick, Calling, Inside, Cand
  <2>2. Of(c)!Tick
    BY <2>1, SameMethods, Zenon DEF Calling, Of!Tick
  <2> QED
    BY <2>2, Zenon DEF Of!Next
<1>13. CASE UNCHANGED vars
  BY <1>13, <1>s, Zenon DEF vars, Calling, Inside, Cand
<1> QED
  BY <1>1, <1>2, <1>3, <1>4, <1>5, <1>6, <1>7, <1>8, <1>9, <1>10, <1>11, <1>12, <1>13, SMTT(30)
  DEF Next

\* Each candidate's breaker has the requests for callers: one that leaves it has
\* been admitted, and reports at most once, whatever chains, keys, deadlines and
\* admin changes do to the requests.
THEOREM BreakersUsed == Spec => UsesBreaker
<1>1. Init => \A c \in Candidates : Of(c)!Init
  BY DEF Init, Fresh, Ended, Of!Init, Of!Fresh, Inside
<1>2. AllSound /\ AllShaped /\ [Next]_vars
        => [\A c \in Candidates : [Of(c)!Next]_(Of(c)!vars)]_vars
  BY BreakerSteps, Zenon
<1> QED
  BY <1>1, <1>2, BreakersStaySound, RequestsShaped, PTL DEF Spec, UsesBreaker

\* A step of a caller of a sound breaker is a step its circuit promises.
LEMMA CallerSteps ==
  ASSUME NEW c, Sound(entries[c]), [Of(c)!Next]_(Of(c)!vars)
  PROVE  [Promise(c)!Next]_(Promise(c)!vars)
<1>1. ASSUME NEW r \in Requests, Of(c)!Admit(r) PROVE Promise(c)!Next
  <2>1. Promise(c)!Enter(r) \/ Promise(c)!Probe(r)
    BY <1>1, SameMethods, AllowStep DEF Of!Admit, Promise!Enter, Promise!Probe
  <2> QED
    BY <2>1, Zenon DEF Promise!Next
<1>2. ASSUME NEW r \in Requests, Of(c)!Succeed(r) PROVE Promise(c)!Next
  <2>1. Promise(c)!LeaveWell(r)
    BY <1>2, SameMethods, SuccessStep DEF Of!Succeed, Promise!LeaveWell, Promise!Leave
  <2> QED
    BY <2>1, Zenon DEF Promise!Next
<1>3. ASSUME NEW r \in Requests, Of(c)!Fail(r) PROVE Promise(c)!Next
  <2>1. Promise(c)!LeaveAndOpen(r) \/ Promise(c)!LeaveQuietly(r)
    BY <1>3, SameMethods, FailureStep
    DEF Of!Fail, Promise!LeaveAndOpen, Promise!LeaveQuietly, Promise!Leave
  <2> QED
    BY <2>1, Zenon DEF Promise!Next
<1>4. ASSUME NEW r \in Requests, Of(c)!Abandon(r) PROVE Promise(c)!Next
  <2>1. Promise(c)!LeaveQuietly(r)
    BY <1>4, Zenon DEF Of!Abandon, Promise!LeaveQuietly, Promise!Leave
  <2> QED
    BY <2>1, Zenon DEF Promise!Next
<1>5. CASE Of(c)!Tick
  <2>1. Promise(c)!Tick \/ UNCHANGED Promise(c)!vars
    BY <1>5, SameMethods, AgedStep DEF Of!Tick, Promise!Tick, Promise!vars
  <2> QED
    BY <2>1, Zenon DEF Promise!Next
<1>6. CASE UNCHANGED Of(c)!vars
  BY <1>6, Zenon DEF Of!vars, Promise!vars
<1> QED
  BY <1>1, <1>2, <1>3, <1>4, <1>5, <1>6, Zenon DEF Of!Next

\* Each candidate's circuit is used as Circuit says, whatever chains, keys,
\* deadlines and admin changes do to the requests: what the breaker promises one
\* caller at a time, the cascade keeps for all of them.
THEOREM CircuitsKept == Spec => KeepsPromise
<1>1. Init => \A c \in Candidates : Promise(c)!Init
  BY DEF Init, Fresh, Ended, Promise!Init, Inside
<1>2. AllSound /\ AllShaped /\ [Next]_vars
        => [\A c \in Candidates : [Promise(c)!Next]_(Promise(c)!vars)]_vars
  BY BreakerSteps, CallerSteps, Zenon DEF AllSound
<1> QED
  BY <1>1, <1>2, BreakersStaySound, RequestsShaped, PTL DEF Spec, KeepsPromise
-----------------------------------------------------------------------------
(* The requests *)

\* A request that is answered has no cascade state; one that runs is at a place of
\* its chain, and one that calls holds what is left of a pass over the pool.
Formed(q) ==
  \/ \E how \in Answered : q = Ended(how)
  \/ /\ q.pc \in Running
     /\ q.chain \in Chains /\ q.pos \in 1..Len(q.chain)
     /\ q.stream \in Streams /\ q.usable \subseteq Providers
     /\ q.keys \in Seq(Keys) /\ q.expired \in BOOLEAN
     /\ q.pc = "call" => /\ q.keys # <<>>
                         /\ OnePass(q.keys, Pool[ProviderOf[q.chain[q.pos]]])

AllFormed == enabled \subseteq Providers /\ \A r \in Requests : Formed(req[r])

\* The cascade changes four fields of a running request.
With(q, pc, pos, keys, expired) ==
  [pc |-> pc, chain |-> q.chain, pos |-> pos, stream |-> q.stream,
   usable |-> q.usable, keys |-> keys, expired |-> expired]

\* Those are the fields the steps write.
LEMMA WithFields ==
  ASSUME NEW q, Shaped(q), NEW pc, NEW keys, NEW expired
  PROVE  /\ [q EXCEPT !.pc = pc] = With(q, pc, q.pos, q.keys, q.expired)
         /\ [q EXCEPT !.keys = keys] = With(q, q.pc, q.pos, keys, q.expired)
         /\ [q EXCEPT !.pc = pc, !.keys = keys] = With(q, pc, q.pos, keys, q.expired)
         /\ [q EXCEPT !.expired = expired] = With(q, q.pc, q.pos, q.keys, expired)
<1>1. PICK v1, v2, v3, v4, v5, v6, v7 :
        q = [pc |-> v1, chain |-> v2, pos |-> v3, stream |-> v4,
             usable |-> v5, keys |-> v6, expired |-> v7]
  BY Zenon DEF Shaped
<1>2. [q EXCEPT !.pc = pc] = With(q, pc, q.pos, q.keys, q.expired)
  BY <1>1 DEF With
<1>3. [q EXCEPT !.keys = keys] = With(q, q.pc, q.pos, keys, q.expired)
  BY <1>1 DEF With
<1>4. [q EXCEPT !.pc = pc, !.keys = keys] = With(q, pc, q.pos, keys, q.expired)
  <2>1. [q EXCEPT !.pc = pc, !.keys = keys]
          = [pc |-> pc, chain |-> v2, pos |-> v3, stream |-> v4,
             usable |-> v5, keys |-> keys, expired |-> v7]
    <3>1. PICK w : w = [q EXCEPT !.pc = pc]
      BY Zenon
    <3>2. w = [pc |-> pc, chain |-> v2, pos |-> v3, stream |-> v4,
               usable |-> v5, keys |-> v6, expired |-> v7]
      BY <1>1, <3>1, Zenon
    <3>3. [q EXCEPT !.pc = pc, !.keys = keys] = [w EXCEPT !.keys = keys]
      BY <3>1, Zenon
    <3> QED
      BY <3>2, <3>3
  <2>2. With(q, pc, q.pos, keys, q.expired)
          = [pc |-> pc, chain |-> v2, pos |-> v3, stream |-> v4,
             usable |-> v5, keys |-> keys, expired |-> v7]
    BY <1>1, Zenon DEF With
  <2> QED
    BY <2>1, <2>2, Zenon
<1>5. [q EXCEPT !.expired = expired] = With(q, q.pc, q.pos, q.keys, expired)
  BY <1>1 DEF With
<1> QED
  BY <1>2, <1>3, <1>4, <1>5, Zenon

\* A request stays well formed when they are written with values of their types.
LEMMA WithFormed ==
  ASSUME NEW q, Formed(q), q.pc \in Running,
         NEW pc \in Running, NEW pos \in 1..Len(q.chain), NEW keys \in Seq(Keys),
         NEW expired \in BOOLEAN,
         pc = "call" => keys # <<>> /\ OnePass(keys, Pool[ProviderOf[q.chain[pos]]])
  PROVE  Formed(With(q, pc, pos, keys, expired))
<1>1. \A how \in Answered : q # Ended(how)
  BY SMTT(30) DEF Ended, Answered, Running
<1> DEFINE w == With(q, pc, pos, keys, expired)
<1>2. /\ w.pc = pc /\ w.chain = q.chain /\ w.pos = pos /\ w.stream = q.stream
      /\ w.usable = q.usable /\ w.keys = keys /\ w.expired = expired
  BY Zenon DEF With
<1> HIDE DEF w
<1>3. Formed(w)
  BY <1>1, <1>2, Zenon DEF Formed
<1> QED
  BY <1>3, Zenon DEF w

\* Leaving a candidate, with chains left or without.
LEMMA OnwardFormed ==
  ASSUME NEW q, Shaped(q), Formed(q), q.pc \in Running
  PROVE  Formed(Onward(q))
<1>1. \A how \in Answered : q # Ended(how)
  BY DEF Ended, Answered, Running
<1>2. q.chain \in Seq(Candidates) /\ q.pos \in 1..Len(q.chain) /\ q.expired \in BOOLEAN
  BY <1>1, DispatchInputs, Zenon DEF Formed
<1>3. CASE q.pos < Len(q.chain)
  <2>1. Onward(q) = With(q, "admit", q.pos + 1, <<>>, q.expired)
    BY <1>3, Zenon DEF Onward, With, Shaped
  <2>2. q.pos + 1 \in 1..Len(q.chain)
    BY <1>2, <1>3
  <2>3. "admit" \in Running /\ "admit" # "call" /\ <<>> \in Seq(Keys)
    BY DEF Running
  <2> QED
    BY <1>2, <2>1, <2>2, <2>3, WithFormed, Zenon
<1>4. CASE ~(q.pos < Len(q.chain))
  BY <1>4, Zenon DEF Onward, Formed, Answered
<1> QED
  BY <1>3, <1>4, Zenon

\* Every step leaves every request well formed.
LEMMA RequestsFormed == Spec => []AllFormed
<1>1. Init => AllFormed
  BY Zenon DEF Init, AllFormed, Formed, Answered
<1>2. AllFormed /\ AllShaped /\ Placed /\ [Next]_vars => AllFormed'
  <2> SUFFICES ASSUME AllFormed, AllShaped, Placed, [Next]_vars PROVE AllFormed'
    BY Zenon
  <2>1. CASE UNCHANGED <<req, enabled>>
    BY <2>1, Zenon DEF AllFormed
  <2>2. ASSUME NEW r \in Requests, NEW q, Formed(q), req' = [req EXCEPT ![r] = q],
               UNCHANGED enabled
        PROVE  AllFormed'
    <3>1. ASSUME NEW x \in Requests PROVE Formed(req'[x])
      BY <2>2, Zenon DEF AllFormed, AllShaped
    <3> QED
      BY <2>2, <3>1, Zenon DEF AllFormed
  <2>3. ASSUME NEW r \in Requests, req[r].pc \in Running, UNCHANGED enabled,
               req' = [req EXCEPT ![r] = Onward(@)]
        PROVE  AllFormed'
    <3>1. req' = [req EXCEPT ![r] = Onward(req[r])]
      BY <2>3, Zenon
    <3>2. Formed(Onward(req[r]))
      BY <2>3, OnwardFormed, Zenon DEF AllFormed, AllShaped
    <3> QED
      BY <2>2, <2>3, <3>1, <3>2, Zenon
  <2>4. ASSUME NEW r \in Requests, NEW how \in Answered, UNCHANGED enabled,
               req' = [req EXCEPT ![r] = Ended(how)]
        PROVE  AllFormed'
    BY <2>2, <2>4, Zenon DEF Formed
  <2>5. ASSUME NEW r \in Requests, req[r].pc \in Running
        PROVE  /\ req[r].pos \in 1..Len(req[r].chain) /\ req[r].keys \in Seq(Keys)
               /\ req[r].expired \in BOOLEAN /\ Prov(r) \in Providers
               /\ Formed(req[r]) /\ Shaped(req[r])
               /\ req[r].pc = "call" => req[r].keys # <<>> /\ OnePass(req[r].keys, Pool[Prov(r)])
    <3>1. Formed(req[r]) /\ Shaped(req[r])
      BY Zenon DEF AllFormed, AllShaped
    <3>2. \A how \in Answered : req[r] # Ended(how)
      BY <2>5 DEF Ended, Answered, Running
    <3>3. /\ req[r].chain \in Chains /\ req[r].pos \in 1..Len(req[r].chain)
          /\ req[r].keys \in Seq(Keys) /\ req[r].expired \in BOOLEAN
          /\ req[r].pc = "call" => req[r].keys # <<>> /\ OnePass(req[r].keys, Pool[Prov(r)])
      BY <3>1, <3>2, Zenon DEF Formed, Prov, Cand
    <3>4. Prov(r) \in Providers
      <4>1. Chains \subseteq Seq(Candidates) /\ ProviderOf \in [Candidates -> Providers]
        BY DispatchInputs, Zenon
      <4>2. Cand(r) \in Candidates
        BY <3>3, <4>1 DEF Cand
      <4> QED
        BY <4>1, <4>2, Zenon DEF Prov
    <3> QED
      BY <3>1, <3>3, <3>4, Zenon
  <2>6. ASSUME NEW r \in Requests, Start(r) PROVE AllFormed'
    <3>1. PICK chain \in Chains, stream \in Streams :
            req' = [req EXCEPT ![r] = [pc |-> "admit", chain |-> chain, pos |-> 1,
                                       stream |-> stream, usable |-> enabled,
                                       keys |-> <<>>, expired |-> FALSE]]
      BY <2>6, Zenon DEF Start
    <3>2. 1 \in 1..Len(chain)
      BY DispatchInputs, SMTT(30)
    <3> DEFINE q == [pc |-> "admit", chain |-> chain, pos |-> 1, stream |-> stream,
                     usable |-> enabled, keys |-> <<>>, expired |-> FALSE]
    <3>3. Formed(q)
      BY <3>2 DEF Formed, Running, AllFormed
    <3> HIDE DEF q
    <3>4. req' = [req EXCEPT ![r] = q] /\ UNCHANGED enabled
      BY <2>6, <3>1, Zenon DEF q, Start
    <3> QED
      BY <2>2, <3>3, <3>4, Zenon
  <2>7. ASSUME NEW r \in Requests, Admit(r) PROVE AllFormed'
    <3>1. req[r].pc \in Running /\ "check" \in Running /\ "check" # "call"
      BY <2>7, Zenon DEF Admit, Running
    <3>2. req' = [req EXCEPT ![r] = With(req[r], "check", req[r].pos, req[r].keys, req[r].expired)]
      <4>1. req' = [req EXCEPT ![r] = [req[r] EXCEPT !.pc = "check"]]
        BY <2>7, Zenon DEF Admit
      <4>2. Shaped(req[r])
        BY Zenon DEF AllShaped
      <4> QED
        BY <4>1, <4>2, WithFields, Zenon
    <3>3. Formed(With(req[r], "check", req[r].pos, req[r].keys, req[r].expired))
      BY <2>5, <3>1, WithFormed, Zenon
    <3> QED
      BY <2>2, <2>7, <3>2, <3>3, Zenon DEF Admit
  <2>8. ASSUME NEW r \in Requests, Walk(r) PROVE AllFormed'
    <3>1. req[r].pc \in Running /\ "call" \in Running
      BY <2>8, Zenon DEF Walk, Running
    <3> DEFINE keys == ReadyKeys(Prov(r), KeyOrder(Prov(r)))
    <3>2. keys \in Seq(Keys) /\ keys # <<>> /\ OnePass(keys, Pool[Prov(r)])
      BY <2>5, <3>1, KeyOrderOnce, ReadyKeysOnce, Zenon
    <3>3. req' = [req EXCEPT ![r] = With(req[r], "call", req[r].pos, keys, req[r].expired)]
      <4>1. req' = [req EXCEPT ![r] = [req[r] EXCEPT !.pc = "call", !.keys = keys]]
        BY <2>8, Zenon DEF Walk
      <4>2. [req[r] EXCEPT !.pc = "call", !.keys = keys]
              = With(req[r], "call", req[r].pos, keys, req[r].expired)
        <5>1. Shaped(req[r])
          BY Zenon DEF AllShaped
        <5> QED
          BY <5>1, WithFields, Zenon
      <4> QED
        BY <4>1, <4>2, Zenon
    <3> HIDE DEF keys
    <3>4. Formed(With(req[r], "call", req[r].pos, keys, req[r].expired))
      BY <2>5, <3>1, <3>2, WithFormed, Zenon DEF Prov, Cand
    <3> QED
      BY <2>2, <2>8, <3>3, <3>4, Zenon DEF Walk
  <2>9. ASSUME NEW r \in Requests, RateLimited(r) PROVE AllFormed'
    <3>1. req[r].pc = "call" /\ "call" \in Running /\ UNCHANGED enabled
      BY <2>9, Zenon DEF RateLimited, Hears, Running
    <3>2. CASE Len(req[r].keys) > 1
      <4>1. req' = [req EXCEPT ![r].keys = Tail(@)]
        BY <2>9, <3>2, Zenon DEF RateLimited
      <4> DEFINE keys == Tail(req[r].keys)
      <4>2. req' = [req EXCEPT ![r] = With(req[r], "call", req[r].pos, keys, req[r].expired)]
        <5>0. Shaped(req[r])
          BY Zenon DEF AllShaped
        <5>1. req' = [req EXCEPT ![r] = [req[r] EXCEPT !.keys = keys]]
          BY <4>1, Zenon
        <5>2. [req[r] EXCEPT !.keys = keys] = With(req[r], "call", req[r].pos, keys, req[r].expired)
          BY <3>1, <5>0, WithFields, Zenon
        <5> QED
          BY <5>1, <5>2, Zenon
      <4>3. keys \in Seq(Keys) /\ keys # <<>> /\ OnePass(keys, Pool[Prov(r)])
        BY <2>5, <3>1, <3>2, TailOnce, Zenon
      <4> HIDE DEF keys
      <4>4. Formed(With(req[r], "call", req[r].pos, keys, req[r].expired))
        BY <2>5, <3>1, <4>3, WithFormed, Zenon DEF Prov, Cand
      <4> QED
        BY <2>2, <3>1, <4>2, <4>4, Zenon
    <3>3. CASE ~(Len(req[r].keys) > 1)
      BY <2>3, <2>9, <3>1, <3>3, Zenon DEF RateLimited
    <3> QED
      BY <3>2, <3>3, Zenon
  <2>10. ASSUME NEW r \in Requests, Expire(r) PROVE AllFormed'
    <3>1. req[r].pc \in Running
      BY <2>10, Zenon DEF Expire
    <3>2. req' = [req EXCEPT ![r] = With(req[r], req[r].pc, req[r].pos, req[r].keys, TRUE)]
      <4>1. req' = [req EXCEPT ![r] = [req[r] EXCEPT !.expired = TRUE]]
        BY <2>10, Zenon DEF Expire
      <4>2. Shaped(req[r])
        BY Zenon DEF AllShaped
      <4>3. [req[r] EXCEPT !.expired = TRUE]
              = With(req[r], req[r].pc, req[r].pos, req[r].keys, TRUE)
        BY <4>2, WithFields, Zenon
      <4> QED
        BY <4>1, <4>3, Zenon
    <3>3. Formed(With(req[r], req[r].pc, req[r].pos, req[r].keys, TRUE))
      BY <2>5, <3>1, WithFormed, ZenonT(30) DEF Prov, Cand
    <3> QED
      BY <2>2, <2>10, <3>2, <3>3, Zenon DEF Expire
  <2>11. ASSUME NEW r \in Requests, Skip(r) \/ Unusable(r) \/ Break(r) PROVE AllFormed'
    BY <2>3, <2>11, Zenon DEF Skip, Unusable, Break, Running
  <2>12. ASSUME NEW r \in Requests, Serve(r) \/ Reject(r) PROVE AllFormed'
    BY <2>4, <2>12, Zenon DEF Serve, Reject, Answered
  <2>13. ASSUME NEW p \in Switchable, Switch(p) PROVE AllFormed'
    BY <2>13, DispatchInputs, Zenon DEF Switch, AllFormed
  <2> QED
    BY <2>1, <2>6, <2>7, <2>8, <2>9, <2>10, <2>11, <2>12, <2>13 DEF Next, Tick, vars
<1> QED
  BY <1>1, <1>2, RequestsShaped, CursorsPlaced, PTL DEF Spec

\* However requests share breakers, cursors and cool-downs, every request stays
\* well formed, every breaker sound, and no walk over the keys repeats a place of
\* the pool or leaves it.
THEOREM Cascades == Spec => []CascadeInv
<1>1. AllSound /\ Placed /\ CoolingType /\ AllFormed => TypeOK /\ EntriesSound
  BY Zenon DEF AllSound, Sound, Placed, CoolingType, AllFormed, Formed, TypeOK, EntriesSound
<1>2. AllFormed => NoKeyTwice
  <2> SUFFICES ASSUME AllFormed, NEW r \in Requests, req[r].pc = "call"
               PROVE  OnePass(req[r].keys, Pool[Prov(r)])
    BY Zenon DEF NoKeyTwice
  <2>1. \A how \in Answered : req[r] # Ended(how)
    BY DEF Ended, Answered
  <2> QED
    BY <2>1, Zenon DEF AllFormed, Formed, Prov, Cand
<1>3. AllSound /\ Placed /\ CoolingType /\ AllFormed => CascadeInv
  BY <1>1, <1>2, Zenon DEF CascadeInv
<1> QED
  BY <1>3, BreakersStaySound, CursorsPlaced, CoolingTyped, RequestsFormed, PTL
-----------------------------------------------------------------------------
(* The threshold *)

\* Once the loop of Picked is past position n, it has kept what is beyond a.
Beyond(s, a, t, n) ==
  /\ Len(t) = IF n <= a THEN 0 ELSE n - a
  /\ \A j \in 1..Len(t) : t[j] = s[a + j]

\* Picking the positions beyond a drops the first a elements and keeps the others.
LEMMA PickedBeyond ==
  ASSUME NEW S, NEW s \in Seq(S), NEW a \in 0..Len(s), NEW K,
         \A i \in 1..Len(s) : i \in K <=> i > a
  PROVE  Picked(s, K) \in Seq(S) /\ Beyond(s, a, Picked(s, K), Len(s))
<1> DEFINE N == Len(s)
           f == CHOOSE f : Fits(s, K, f, N)
           T == {n \in 0..N : ~(f[n] \in Seq(S) /\ Beyond(s, a, f[n], n))}
<1>0. N \in Nat
  OBVIOUS
<1>1. Fits(s, K, f, N)
  BY <1>0, PassesExist, Zenon
<1>2. Picked(s, K) = f[N]
  BY Zenon DEF Picked, Fits, Pass
<1>a. a \in 0..N /\ \A i \in 1..N : (i \in K <=> i > a) /\ s[i] \in S
  OBVIOUS
<1> HIDE DEF f, N
<1>3. \A i \in 0..N : f[i] = Pass(s, K, f, i)
  BY <1>0, <1>1, Zenon DEF Fits
<1>4. T = {}
  <2>1. SUFFICES ASSUME T # {} PROVE FALSE
    BY Zenon
  <2>2. T \subseteq Nat
    BY <1>0
  <2>3. PICK n \in T : \A m \in T : n <= m
    <3> HIDE DEF T
    <3> QED BY <2>1, <2>2, Least, Zenon
  <2>4. n \in 0..N /\ ~(f[n] \in Seq(S) /\ Beyond(s, a, f[n], n))
    BY <2>3, Zenon
  <2>5. n # 0
    <3>1. f[0] = <<>>
      BY <1>0, <1>3 DEF Pass
    <3>2. <<>> \in Seq(S) /\ Len(<<>>) = 0
      OBVIOUS
    <3>3. Beyond(s, a, <<>>, 0)
      BY <1>0, <1>a, <3>2 DEF Beyond
    <3> QED BY <2>4, <3>1, <3>2, <3>3, Zenon
  <2>6. n - 1 \in 0..N /\ n - 1 \notin T /\ n \in 1..N
    <3> HIDE DEF T
    <3> QED BY <1>0, <2>3, <2>4, <2>5
  <2>7. f[n - 1] \in Seq(S) /\ Beyond(s, a, f[n - 1], n - 1)
    BY <2>6, Zenon
  <2>8. f[n] = IF n \in K THEN Append(f[n - 1], s[n]) ELSE f[n - 1]
    BY <1>3, <2>4, <2>5, Zenon DEF Pass
  <2>9. PICK t : t = f[n - 1]
    BY Zenon
  <2> HIDE DEF T
  <2>10. /\ t \in Seq(S) /\ Len(t) = IF n - 1 <= a THEN 0 ELSE n - 1 - a
         /\ \A j \in 1..Len(t) : t[j] = s[a + j]
    BY <2>7, <2>9, Zenon DEF Beyond
  <2>11. CASE n > a
    <3>1. f[n] = Append(t, s[n])
      BY <1>a, <2>6, <2>8, <2>9, <2>11, Zenon
    <3>2. PICK u : u = Append(t, s[n])
      BY Zenon
    <3>3. PICK L \in Nat : L = Len(t)
      BY <2>10
    <3>4. L = n - 1 - a
      BY <1>0, <1>a, <2>6, <2>10, <2>11, <3>3
    <3>5. u \in Seq(S) /\ Len(u) = L + 1 /\ u[L + 1] = s[n] /\ \A j \in 1..L : u[j] = t[j]
      BY <1>a, <2>6, <2>10, <3>2, <3>3
    <3>6. Len(u) = IF n <= a THEN 0 ELSE n - a
      BY <1>0, <1>a, <2>6, <2>11, <3>4, <3>5
    <3>7. ASSUME NEW j \in 1..(L + 1) PROVE u[j] = s[a + j]
      <4>1. CASE j \in 1..L
        BY <2>10, <3>3, <3>5, <4>1, Zenon
      <4>2. CASE j = L + 1
        <5>1. a + j = n
          BY <1>0, <1>a, <2>6, <3>4, <4>2
        <5> QED BY <3>5, <4>2, <5>1, Zenon
      <4>3. j \in 1..L \/ j = L + 1
        BY <3>7
      <4> QED BY <4>1, <4>2, <4>3, Zenon
    <3>8. Beyond(s, a, u, n)
      BY <3>5, <3>6, <3>7, Zenon DEF Beyond
    <3> QED BY <2>4, <3>1, <3>2, <3>5, <3>8, Zenon
  <2>12. CASE ~(n > a)
    <3>1. f[n] = t
      BY <1>a, <2>6, <2>8, <2>9, <2>12, Zenon
    <3>2. Len(t) = IF n <= a THEN 0 ELSE n - a
      BY <1>0, <1>a, <2>6, <2>10, <2>12
    <3>3. Beyond(s, a, t, n)
      BY <2>10, <3>2, Zenon DEF Beyond
    <3> QED BY <2>4, <2>10, <3>1, <3>3, Zenon
  <2> QED BY <2>11, <2>12, Zenon
<1>5. f[N] \in Seq(S) /\ Beyond(s, a, f[N], N)
  <2>1. N \in 0..N
    BY <1>0
  <2> QED BY <1>4, <2>1, Zenon
<1> QED BY <1>2, <1>5, Zenon DEF N
\* The list f of a breaker and the history h agree: for every n up to the window, the
\* failures younger than n are the last h[n] of the list.
Agrees(f, h) ==
  /\ h \in [1..Window -> Nat]
  /\ \A n \in 1..Window :
       /\ h[n] <= Len(f)
       /\ \A i \in 1..Len(f) : f[i] < n <=> i > Len(f) - h[n]

\* An empty list agrees with a history in which nothing happened.
LEMMA NothingAgrees == Agrees(<<>>, Nothing)
<1>1. Len(<<>>) = 0 /\ Window \in Nat
  BY BreakerSettings
<1>2. Nothing \in [1..Window -> Nat] /\ \A n \in 1..Window : Nothing[n] = 0
  BY DEF Nothing
<1>3. \A n \in 1..Window : Nothing[n] <= Len(<<>>)
  BY <1>1, <1>2
<1>4. 1..Len(<<>>) = {}
  BY <1>1
<1> QED BY <1>2, <1>3, <1>4, Zenon DEF Agrees

\* What Failure keeps of the list, with the new failure at its end, agrees with the
\* history that counts one more, and is as long as the history says.
LEMMA FailureAgrees ==
  ASSUME NEW f \in Seq(0..Window), NEW h, Agrees(f, h)
  PROVE  /\ Agrees(Append(Live(f), 0), OneMore(h))
         /\ Len(Append(Live(f), 0)) = OneMore(h)[Window]
         /\ OneMore(h)[Window] = h[Window] + 1
<1>1. PICK N \in Nat : N = Len(f)
  OBVIOUS
<1>2. Window \in Nat /\ Window >= 1 /\ Window \in 1..Window
  BY BreakerSettings
<1>3. /\ h \in [1..Window -> Nat]
      /\ \A n \in 1..Window : h[n] <= N
      /\ \A n \in 1..Window : \A i \in 1..N : f[i] < n <=> i > N - h[n]
  BY <1>1, Zenon DEF Agrees
<1>4. PICK W \in Nat : W = h[Window]
  BY <1>2, <1>3, Zenon
<1>5. PICK a \in 0..N : a = N - W
  <2>1. W <= N
    BY <1>2, <1>3, <1>4, Zenon
  <2> QED BY <2>1
<1>6. \A i \in 1..N : f[i] < Window <=> i > a
  BY <1>2, <1>3, <1>4, <1>5, Zenon
<1>7. PICK K : Live(f) = Picked(f, K) /\ K = {i \in DOMAIN f : f[i] < Window}
  BY Zenon DEF Live
<1>8. \A i \in 1..N : i \in K <=> i > a
  <2>1. DOMAIN f = 1..N
    BY <1>1
  <2> QED BY <1>6, <1>7, <2>1, Zenon
<1>9. PICK g : g = Live(f)
  BY Zenon
<1>10. g \in Seq(0..Window) /\ Beyond(f, a, g, N)
  <2>1. a \in 0..Len(f) /\ \A i \in 1..Len(f) : i \in K <=> i > a
    BY <1>1, <1>8, Zenon
  <2> QED BY <1>1, <1>7, <1>9, <2>1, PickedBeyond, Zenon
<1>11. Len(g) = W
  <2>1. Len(g) = IF N <= a THEN 0 ELSE N - a
    BY <1>10, Zenon DEF Beyond
  <2>2. W <= N
    BY <1>2, <1>3, <1>4, Zenon
  <2> QED BY <1>5, <2>1, <2>2
<1>12. \A j \in 1..W : g[j] = f[a + j]
  BY <1>10, <1>11, Zenon DEF Beyond
<1>13. PICK u : u = Append(g, 0)
  BY Zenon
<1>14. Len(u) = W + 1 /\ u[W + 1] = 0 /\ \A j \in 1..W : u[j] = g[j]
  <2>1. g \in Seq(0..Window) /\ 0 \in 0..Window
    BY <1>2, <1>10
  <2> QED BY <1>11, <1>13, <2>1
<1>15. PICK k : k = OneMore(h)
  BY Zenon
<1>16. k \in [1..Window -> Nat] /\ \A n \in 1..Window : k[n] = h[n] + 1
  BY <1>3, <1>15 DEF OneMore
<1>17. ASSUME NEW n \in 1..Window
       PROVE  k[n] <= Len(u) /\ \A i \in 1..Len(u) : u[i] < n <=> i > Len(u) - k[n]
  <2>1. PICK m \in Nat : m = h[n] /\ k[n] = m + 1 /\ m <= N
    BY <1>3, <1>16, Zenon
  <2>2. \A i \in 1..N : f[i] < n <=> i > N - m
    BY <1>3, <2>1, Zenon
  <2>3. \A i \in 1..N : f[i] \in Nat /\ f[i] <= Window
    BY <1>1, <1>2
  <2>4. m <= W
    <3>1. SUFFICES ASSUME m > W PROVE FALSE
      OBVIOUS
    <3>2. PICK i \in 1..N : i = N - m + 1
      BY <2>1, <3>1
    <3>3. f[i] < n
      BY <2>1, <2>2, <3>2
    <3>4. f[i] < Window
      BY <1>2, <2>3, <3>3
    <3>5. i > N - W
      BY <1>5, <1>6, <3>4, Zenon
    <3>6. N - m + 1 > N - W
      BY <3>2, <3>5, Zenon
    <3> QED BY <3>1, <3>6
  <2>5. ASSUME NEW i \in 1..(W + 1) PROVE u[i] < n <=> i > W - m
    <3>1. CASE i = W + 1
      BY <1>14, <2>1, <2>4, <3>1
    <3>2. CASE i \in 1..W
      <4>1. u[i] = f[a + i]
        BY <1>12, <1>14, <3>2, Zenon
      <4>2. a + i \in 1..N
        BY <1>5, <3>2
      <4>3. f[a + i] < n <=> a + i > N - m
        BY <2>2, <4>2, Zenon
      <4>4. a + i > N - m <=> i > W - m
        BY <1>5, <2>1, <3>2
      <4> QED BY <4>1, <4>3, <4>4, Zenon
    <3>3. i = W + 1 \/ i \in 1..W
      BY <2>5
    <3> QED BY <3>1, <3>2, <3>3, Zenon
  <2>6. Len(u) - k[n] = W - m /\ k[n] <= Len(u)
    BY <1>14, <2>1, <2>4
  <2>7. 1..Len(u) = 1..(W + 1)
    BY <1>14, Zenon
  <2> QED BY <2>5, <2>6, <2>7, Zenon
<1>18. Agrees(u, k)
  BY <1>16, <1>17, Zenon DEF Agrees
<1>19. k[Window] = W + 1
  BY <1>2, <1>4, <1>16, Zenon
<1> QED BY <1>4, <1>9, <1>13, <1>14, <1>15, <1>18, <1>19, Zenon

\* A tick ages the list as it shifts the history, and counts nothing new.
LEMMA TickAgrees ==
  ASSUME NEW f \in Seq(0..Window), NEW h, Agrees(f, h)
  PROVE  /\ Agrees([i \in DOMAIN f |-> Older(f[i], Window)], Shifted(h))
         /\ Shifted(h)[Window] <= h[Window]
<1>1. PICK N \in Nat : N = Len(f)
  OBVIOUS
<1>2. Window \in Nat /\ Window >= 1 /\ Window \in 1..Window
  BY BreakerSettings
<1>3. /\ h \in [1..Window -> Nat]
      /\ \A n \in 1..Window : h[n] <= N
      /\ \A n \in 1..Window : \A i \in 1..N : f[i] < n <=> i > N - h[n]
  BY <1>1, Zenon DEF Agrees
<1>4. \A i \in 1..N : f[i] \in Nat /\ f[i] <= Window
  BY <1>1, <1>2
<1>5. PICK g : g = [i \in DOMAIN f |-> Older(f[i], Window)]
  BY Zenon
<1>6. DOMAIN f = 1..N
  BY <1>1
<1>7. \A i \in 1..N : g[i] = IF f[i] < Window THEN f[i] + 1 ELSE Window
  BY <1>5, <1>6, Zenon DEF Older
<1>8. g \in Seq(Nat) /\ Len(g) = N
  <2>1. g = [i \in 1..N |-> Older(f[i], Window)]
    BY <1>5, <1>6, Zenon
  <2>2. \A i \in 1..N : Older(f[i], Window) \in Nat
    BY <1>2, <1>4 DEF Older
  <2>3. g \in [1..N -> Nat]
    BY <2>1, <2>2, Zenon
  <2> QED BY <2>3
<1>9. PICK k : k = Shifted(h)
  BY Zenon
<1>10. k \in [1..Window -> Nat] /\ \A n \in 1..Window : k[n] = IF n = 1 THEN 0 ELSE h[n - 1]
  <2>1. \A n \in 1..Window : n # 1 => n - 1 \in 1..Window
    BY <1>2
  <2>2. \A n \in 1..Window : (IF n = 1 THEN 0 ELSE h[n - 1]) \in Nat
    BY <1>3, <2>1
  <2> QED BY <1>9, <2>2, Zenon DEF Shifted
<1>11. ASSUME NEW n \in 1..Window
       PROVE  k[n] <= N /\ \A i \in 1..N : g[i] < n <=> i > N - k[n]
  <2>1. CASE n = 1
    <3>1. k[n] = 0
      BY <1>10, <2>1, Zenon
    <3>2. \A i \in 1..N : ~(g[i] < n) /\ ~(i > N - k[n])
      BY <1>2, <1>4, <1>7, <2>1, <3>1
    <3> QED BY <3>1, <3>2
  <2>2. CASE n # 1
    <3>1. PICK m \in 1..Window : m = n - 1
      BY <1>2, <2>2
    <3>2. k[n] = h[m]
      BY <1>10, <2>2, <3>1, Zenon
    <3>3. \A i \in 1..N : g[i] < n <=> f[i] < m
      BY <1>2, <1>4, <1>7, <3>1
    <3> QED BY <1>3, <3>2, <3>3, Zenon
  <2> QED BY <2>1, <2>2, Zenon
<1>12. Agrees(g, k)
  BY <1>8, <1>10, <1>11, Zenon DEF Agrees
<1>13. k[Window] <= h[Window]
  <2>1. CASE Window = 1
    <3>1. k[Window] = 0 /\ h[Window] \in Nat
      BY <1>2, <1>3, <1>10, <2>1, Zenon
    <3> QED BY <3>1
  <2>2. CASE Window # 1
    <3>1. PICK m \in 1..Window : m = Window - 1
      BY <1>2, <2>2
    <3>2. k[Window] = h[m]
      BY <1>2, <1>10, <2>2, <3>1, Zenon
    <3>3. PICK x \in Nat, y \in Nat : x = h[m] /\ y = h[Window] /\ x <= N /\ y <= N
      BY <1>2, <1>3, Zenon
    <3>4. x <= y
      <4>1. SUFFICES ASSUME x > y PROVE FALSE
        OBVIOUS
      <4>2. PICK i \in 1..N : i = N - x + 1
        BY <3>3, <4>1
      <4>3. f[i] < m <=> i > N - x
        BY <1>3, <3>3, Zenon
      <4>4. f[i] < Window <=> i > N - y
        BY <1>2, <1>3, <3>3, Zenon
      <4>5. f[i] < m => f[i] < Window
        BY <1>2, <1>4, <3>1
      <4> QED BY <3>3, <4>1, <4>2, <4>3, <4>4, <4>5
    <3> QED BY <3>2, <3>3, <3>4, Zenon
  <2> QED BY <2>1, <2>2, Zenon
<1> QED BY <1>5, <1>9, <1>12, <1>13, Zenon
\* The history notes what becomes of the one request that moves: the others neither
\* are answered in this step nor leave their candidate.
LEMMA NotesTheMover ==
  ASSUME AllShaped, Remember, NEW c \in Candidates, NEW r \in Requests, NEW q,
         req' = [req EXCEPT ![r] = q], q # req[r]
  PROVE  recent'[c] = IF req[r].pc = "call" /\ Cand(r) = c /\ q.pc = "served" THEN Nothing
                      ELSE IF req[r].pc = "call" /\ Cand(r) = c /\ q = Onward(req[r])
                           THEN OneMore(recent[c])
                      ELSE recent[c]
<1>1. /\ req'[r] = q
      /\ \A x \in Requests : x # r => req'[x] = req[x]
      /\ \A x \in Requests : Shaped(req[x])
  BY Zenon DEF AllShaped
<1>2. ~UNCHANGED <<req, enabled>>
  BY <1>1, Zenon
<1>3. \A x \in Requests : req[x].pc = "call" => req[x] # Onward(req[x])
  BY <1>1, OnwardLeaves, Zenon
<1>4. Works(c) <=> req[r].pc = "call" /\ Cand(r) = c /\ q.pc = "served"
  BY <1>1, Zenon DEF Works
<1>5. Breaks(c) <=> req[r].pc = "call" /\ Cand(r) = c /\ q = Onward(req[r])
  BY <1>1, <1>3, Zenon DEF Breaks
<1> QED BY <1>2, <1>4, <1>5, Zenon DEF Remember

\* Leaving a candidate changes the request, and is neither an answer nor a refusal.
LEMMA OnwardMoves ==
  ASSUME NEW q, Shaped(q), Formed(q), q.pc \in Running
  PROVE  Onward(q) # q /\ Onward(q).pc \notin {"served", "rejected", "call"}
<1>1. \A how \in Answered : q # Ended(how)
  BY DEF Ended, Answered, Running
<1>2. q.pos \in Nat
  <2>1. q.chain \in Seq(Candidates) /\ q.pos \in 1..Len(q.chain)
    BY <1>1, DispatchInputs, Zenon DEF Formed
  <2> QED BY <2>1
<1>3. CASE q.pos < Len(q.chain)
  <2>1. Onward(q) = With(q, "admit", q.pos + 1, <<>>, q.expired)
    BY <1>3, Zenon DEF Onward, With, Shaped
  <2>2. Onward(q).pc = "admit" /\ Onward(q).pos = q.pos + 1
    BY <2>1 DEF With
  <2>3. q.pos + 1 # q.pos
    BY <1>2
  <2> QED BY <2>2, <2>3, Zenon
<1>4. CASE ~(q.pos < Len(q.chain))
  <2>1. PICK how \in {"timed_out", "exhausted"} : Onward(q) = Ended(how)
    BY <1>4, Zenon DEF Onward
  <2>2. Ended(how).pc = how /\ how \in Answered
    BY Zenon DEF Ended, Answered
  <2> QED BY <1>1, <2>1, <2>2, Zenon
<1> QED BY <1>3, <1>4, Zenon

\* What a step does to the list of one breaker and to the history of its candidate.
Together(c) ==
  \/ entries'[c] = Aged(entries[c]) /\ recent'[c] = Shifted(recent[c])
  \/ entries'[c] = AfterSuccess(entries[c]) /\ recent'[c] = Nothing
  \/ entries'[c] = AfterFailure(entries[c]) /\ recent'[c] = OneMore(recent[c])
  \/ entries'[c] = AfterAllow(entries[c]) /\ recent'[c] = recent[c]
  \/ entries'[c] = entries[c] /\ recent'[c] = recent[c]

\* A failure is counted in the history exactly when Failure is called, and a success
\* forgets it exactly when Success is.
LEMMA CountedTogether ==
  ASSUME AllSound, AllShaped, AllFormed, HNext, NEW c \in Candidates
  PROVE  Together(c)
<1>0. /\ Remember /\ entries \in [Candidates -> Entry]
      /\ req = [r \in Requests |-> req[r]]
      /\ \A x \in Requests : Shaped(req[x]) /\ Formed(req[x])
  BY Zenon DEF HNext, AllSound, AllShaped, AllFormed
<1>m. ASSUME NEW r \in Requests, req[r].pc \in Running
      PROVE  Onward(req[r]) # req[r] /\ Onward(req[r]).pc \notin {"served", "rejected", "call"}
  BY <1>0, <1>m, OnwardMoves, Zenon
<1>q. ASSUME NEW r \in Requests, NEW q, req' = [req EXCEPT ![r] = q], q # req[r],
             entries'[c] = entries[c] \/ entries'[c] = AfterAllow(entries[c]),
             req[r].pc = "call" /\ Cand(r) = c => q.pc # "served" /\ q # Onward(req[r])
      PROVE  Together(c)
  BY <1>0, <1>q, NotesTheMover, Zenon DEF Together
<1>f. ASSUME NEW r \in Requests, req[r].pc = "call", req' = [req EXCEPT ![r] = Onward(@)],
             entries' = [entries EXCEPT ![Cand(r)] = AfterFailure(@)]
      PROVE  Together(c)
  <2>1. Onward(req[r]) # req[r] /\ Onward(req[r]).pc # "served"
    BY <1>f, <1>m, Zenon DEF Running
  <2>2. req' = [req EXCEPT ![r] = Onward(req[r])]
    BY <1>f, Zenon
  <2>3. recent'[c] = IF Cand(r) = c THEN OneMore(recent[c]) ELSE recent[c]
    BY <1>0, <1>f, <2>1, <2>2, NotesTheMover, Zenon
  <2>4. entries'[c] = IF Cand(r) = c THEN AfterFailure(entries[c]) ELSE entries[c]
    BY <1>0, <1>f, Zenon
  <2> QED BY <2>3, <2>4, Zenon DEF Together
<1>1. ASSUME NEW r \in Requests, Start(r) PROVE Together(c)
  <2>1. PICK chain, stream :
          req' = [req EXCEPT ![r] = [pc |-> "admit", chain |-> chain, pos |-> 1,
                                     stream |-> stream, usable |-> enabled,
                                     keys |-> <<>>, expired |-> FALSE]]
    BY <1>1, Zenon DEF Start
  <2>2. PICK q : q = [pc |-> "admit", chain |-> chain, pos |-> 1, stream |-> stream,
                      usable |-> enabled, keys |-> <<>>, expired |-> FALSE]
    BY Zenon
  <2>3. q.pc = "admit" /\ req' = [req EXCEPT ![r] = q]
    BY <2>1, <2>2, Zenon
  <2>4. req[r].pc \notin {"admit", "call"} /\ UNCHANGED entries
    BY <1>1, Zenon DEF Start, Answered
  <2> QED BY <1>q, <2>3, <2>4, Zenon
<1>2. ASSUME NEW r \in Requests, Skip(r) \/ Unusable(r) PROVE Together(c)
  <2>1. Onward(req[r]) # req[r]
    BY <1>2, <1>m, Zenon DEF Skip, Unusable, Running
  <2>2. req' = [req EXCEPT ![r] = Onward(req[r])] /\ req[r].pc # "call" /\ UNCHANGED entries
    BY <1>2, Zenon DEF Skip, Unusable
  <2> QED BY <1>q, <2>1, <2>2, Zenon
<1>3. ASSUME NEW r \in Requests, Admit(r) \/ Walk(r) PROVE Together(c)
  <2>1. PICK q : req' = [req EXCEPT ![r] = q] /\ q.pc # req[r].pc /\ req[r].pc # "call"
    <3>1. CASE Admit(r)
      <4>1. req[r].pc = "admit" /\ req' = [req EXCEPT ![r] = [req[r] EXCEPT !.pc = "check"]]
        BY <3>1, Zenon DEF Admit
      <4>2. [req[r] EXCEPT !.pc = "check"].pc = "check"
        <5>1. [req[r] EXCEPT !.pc = "check"]
                = With(req[r], "check", req[r].pos, req[r].keys, req[r].expired)
          BY <1>0, WithFields, Zenon
        <5> QED BY <5>1, Zenon DEF With
      <4> QED BY <4>1, <4>2, Zenon
    <3>2. CASE Walk(r)
      <4>1. PICK k : req' = [req EXCEPT ![r].pc = "call", ![r].keys = k]
        BY <3>2, Zenon DEF Walk
      <4>2. req[r].pc = "check" /\ req' = [req EXCEPT ![r] = [req[r] EXCEPT !.pc = "call", !.keys = k]]
        BY <1>0, <3>2, <4>1, Zenon DEF Walk
      <4>3. [req[r] EXCEPT !.pc = "call", !.keys = k].pc = "call"
        <5>1. [req[r] EXCEPT !.pc = "call", !.keys = k]
                = With(req[r], "call", req[r].pos, k, req[r].expired)
          BY <1>0, WithFields, Zenon
        <5> QED BY <5>1, Zenon DEF With
      <4> QED BY <4>2, <4>3, Zenon
    <3> QED BY <1>3, <3>1, <3>2, Zenon
  <2>2. entries'[c] = entries[c] \/ entries'[c] = AfterAllow(entries[c])
    BY <1>0, <1>3, Zenon DEF Admit, Walk
  <2> QED BY <1>q, <2>1, <2>2, Zenon
<1>4. ASSUME NEW r \in Requests, Serve(r) PROVE Together(c)
  <2>1. req[r].pc = "call" /\ req' = [req EXCEPT ![r] = Ended("served")]
    BY <1>4, Zenon DEF Serve, Hears
  <2>2. Ended("served").pc = "served"
    BY Zenon DEF Ended
  <2>3. recent'[c] = IF Cand(r) = c THEN Nothing
                     ELSE IF Cand(r) = c /\ Ended("served") = Onward(req[r])
                          THEN OneMore(recent[c]) ELSE recent[c]
    BY <1>0, <2>1, <2>2, NotesTheMover, Zenon
  <2>4. entries'[c] = IF Cand(r) = c THEN AfterSuccess(entries[c]) ELSE entries[c]
    BY <1>0, <1>4, Zenon DEF Serve
  <2> QED BY <2>3, <2>4, Zenon DEF Together
<1>5. ASSUME NEW r \in Requests, Reject(r) PROVE Together(c)
  <2>1. req[r].pc = "call" /\ req' = [req EXCEPT ![r] = Ended("rejected")] /\ UNCHANGED entries
    BY <1>5, Zenon DEF Reject, Hears
  <2>2. Ended("rejected").pc = "rejected"
    BY Zenon DEF Ended
  <2>3. Onward(req[r]).pc # "rejected"
    BY <1>m, <2>1, Zenon DEF Running
  <2> QED BY <1>q, <2>1, <2>2, <2>3, Zenon
<1>6. ASSUME NEW r \in Requests, Break(r) PROVE Together(c)
  BY <1>6, <1>f, Zenon DEF Break
<1>7. ASSUME NEW r \in Requests, RateLimited(r) PROVE Together(c)
  <2>1. CASE Len(req[r].keys) > 1
    <3>1. req[r].pc = "call" /\ req' = [req EXCEPT ![r].keys = Tail(@)] /\ UNCHANGED entries
      BY <1>7, <2>1, Zenon DEF RateLimited, Hears
    <3>2. PICK q : req' = [req EXCEPT ![r] = q] /\ q.pc = "call" /\ q.keys = Tail(req[r].keys)
      <4>1. req' = [req EXCEPT ![r] = [req[r] EXCEPT !.keys = Tail(req[r].keys)]]
        BY <3>1, Zenon
      <4>2. [req[r] EXCEPT !.keys = Tail(req[r].keys)]
              = With(req[r], req[r].pc, req[r].pos, Tail(req[r].keys), req[r].expired)
        BY <1>0, WithFields, Zenon
      <4>3. PICK q : q = With(req[r], req[r].pc, req[r].pos, Tail(req[r].keys), req[r].expired)
        BY Zenon
      <4>4. q.pc = "call" /\ q.keys = Tail(req[r].keys)
        BY <3>1, <4>3, Zenon DEF With
      <4> QED BY <4>1, <4>2, <4>3, <4>4, Zenon
    <3>3. q # req[r]
      <4>1. \A how \in Answered : req[r] # Ended(how)
        BY <3>1 DEF Ended, Answered
      <4>2. req[r].keys \in Seq(Keys)
        BY <1>0, <4>1, Zenon DEF Formed
      <4>3. Tail(req[r].keys) # req[r].keys
        <5>1. PICK k \in Seq(Keys) : k = req[r].keys
          BY <4>2, Zenon
        <5>2. k # <<>> => Len(Tail(k)) = Len(k) - 1 /\ Len(k) \in Nat
          OBVIOUS
        <5>3. k # <<>>
          <6>1. Len(<<>>) = 0
            OBVIOUS
          <6>2. Len(k) > 1
            BY <2>1, <5>1, Zenon
          <6> QED BY <6>1, <6>2
        <5>4. Len(Tail(k)) # Len(k)
          BY <5>2, <5>3
        <5> QED BY <5>1, <5>4, Zenon
      <4> QED BY <3>2, <4>3, Zenon
    <3>4. q # Onward(req[r])
      BY <1>0, <3>2, OnwardLeaves, Zenon
    <3> QED BY <1>q, <3>1, <3>2, <3>3, <3>4, Zenon
  <2>2. CASE ~(Len(req[r].keys) > 1)
    BY <1>7, <1>f, <2>2, Zenon DEF RateLimited, Hears
  <2> QED BY <2>1, <2>2, Zenon
<1>8. ASSUME NEW r \in Requests, Expire(r) PROVE Together(c)
  <2>1. PICK q : req' = [req EXCEPT ![r] = q] /\ q.pc = req[r].pc /\ q.expired = TRUE
    <3>1. req' = [req EXCEPT ![r] = [req[r] EXCEPT !.expired = TRUE]]
      BY <1>8, Zenon DEF Expire
    <3>2. [req[r] EXCEPT !.expired = TRUE] = With(req[r], req[r].pc, req[r].pos, req[r].keys, TRUE)
      BY <1>0, WithFields, Zenon
    <3>3. PICK q : q = With(req[r], req[r].pc, req[r].pos, req[r].keys, TRUE)
      BY Zenon
    <3>4. q.pc = req[r].pc /\ q.expired = TRUE
      BY <3>3, Zenon DEF With
    <3> QED BY <3>1, <3>2, <3>3, <3>4, Zenon
  <2>2. q # req[r] /\ req[r].pc \in Running /\ UNCHANGED entries
    BY <1>8, <2>1, Zenon DEF Expire
  <2>3. req[r].pc = "call" => q # Onward(req[r]) /\ q.pc # "served"
    BY <1>0, <2>1, OnwardLeaves, Zenon
  <2> QED BY <1>q, <2>1, <2>2, <2>3, Zenon
<1>9. ASSUME NEW p \in Switchable, Switch(p) PROVE Together(c)
  <2>1. UNCHANGED <<req, entries>> /\ enabled' # enabled
    BY <1>9, Zenon DEF Switch
  <2>2. ~Works(c) /\ ~Breaks(c)
    BY <1>0, <2>1, OnwardLeaves, Zenon DEF Works, Breaks
  <2> QED BY <1>0, <2>1, <2>2, Zenon DEF Remember, Together
<1>10. CASE Tick
  <2>1. UNCHANGED <<req, enabled>> /\ entries'[c] = Aged(entries[c])
    BY <1>10, Zenon DEF Tick
  <2> QED BY <1>0, <2>1, Zenon DEF Remember, Together
<1> QED
  BY <1>1, <1>2, <1>3, <1>4, <1>5, <1>6, <1>7, <1>8, <1>9, <1>10, Zenon DEF HNext, Next
\* The list of every closed breaker agrees with the history of its candidate.
AllAgree ==
  \A c \in Candidates : entries[c].state = "closed" => Agrees(entries[c].failures, recent[c])

\* A closed breaker's step: it keeps the agreement if it stays closed, and opens exactly
\* when one more failure is in the window and they reach the threshold.
LEMMA StepAgrees ==
  ASSUME NEW c \in Candidates, Sound(entries[c]), Together(c),
         entries[c].state = "closed" => Agrees(entries[c].failures, recent[c])
  PROVE  /\ entries'[c].state = "closed" => Agrees(entries'[c].failures, recent'[c])
         /\ entries[c].state = "closed" =>
              (entries'[c].state = "open" <=>
                 InWindow(recent'[c]) > InWindow(recent[c]) /\ InWindow(recent'[c]) >= Threshold)
<1> DEFINE Kept == entries'[c].state = "closed" => Agrees(entries'[c].failures, recent'[c])
           Trip == entries[c].state = "closed" =>
                     (entries'[c].state = "open" <=>
                        /\ InWindow(recent'[c]) > InWindow(recent[c])
                        /\ InWindow(recent'[c]) >= Threshold)
<1>1. PICK e : e = entries[c]
  BY Zenon
<1>2. PICK h : h = recent[c]
  BY Zenon
<1>3. e \in Entry /\ e.failures \in Seq(0..Window)
  BY <1>1, Zenon DEF Sound, Entry
<1>4. Threshold \in Nat /\ Window \in 1..Window
  BY BreakerSettings
<1>5. e.state = "closed" => Agrees(e.failures, h) /\ h[Window] \in Nat
  BY <1>1, <1>2, <1>4, Zenon DEF Agrees
<1>6. CASE entries'[c] = Aged(e) /\ recent'[c] = Shifted(h)
  <2>1. /\ Aged(e).state = e.state
        /\ Aged(e).failures = [i \in DOMAIN e.failures |-> Older(e.failures[i], Window)]
    BY <1>3, Zenon DEF Aged, Entry
  <2>2. e.state = "closed" => /\ Agrees(Aged(e).failures, Shifted(h))
                              /\ Shifted(h)[Window] <= h[Window]
    BY <1>3, <1>5, <2>1, TickAgrees, Zenon
  <2>3. Kept
    BY <1>6, <2>1, <2>2, Zenon
  <2>4. ASSUME e.state = "closed" PROVE ~(Shifted(h)[Window] > h[Window])
    <3>1. Shifted(h)[Window] \in Nat /\ h[Window] \in Nat /\ Shifted(h)[Window] <= h[Window]
      BY <1>4, <1>5, <2>2, <2>4, Zenon DEF Agrees
    <3> QED BY <3>1
  <2>5. Trip
    BY <1>1, <1>2, <1>6, <2>1, <2>4, Zenon DEF InWindow
  <2> QED BY <2>3, <2>5, Zenon
<1>7. CASE entries'[c] = AfterSuccess(e) /\ recent'[c] = Nothing
  <2>1. AfterSuccess(e).state = "closed" /\ AfterSuccess(e).failures = <<>>
    BY <1>3, Zenon DEF AfterSuccess, Entry
  <2>2. Kept
    BY <1>7, <2>1, NothingAgrees, Zenon
  <2>3. ASSUME e.state = "closed" PROVE ~(Nothing[Window] > h[Window])
    <3>1. Nothing[Window] = 0
      BY <1>4, Zenon DEF Nothing
    <3> QED BY <1>5, <2>3, <3>1
  <2>4. Trip
    BY <1>1, <1>2, <1>7, <2>1, <2>3, Zenon DEF InWindow
  <2> QED BY <2>2, <2>4, Zenon
<1>8. CASE entries'[c] = AfterFailure(e) /\ recent'[c] = OneMore(h)
  <2>1. CASE e.state = "closed"
    <3>1. PICK kept : kept = Append(Live(e.failures), 0)
      BY Zenon
    <3>2. /\ Agrees(kept, OneMore(h)) /\ Len(kept) = OneMore(h)[Window]
          /\ OneMore(h)[Window] = h[Window] + 1
      BY <1>3, <1>5, <2>1, <3>1, FailureAgrees, Zenon
    <3>3. OneMore(h)[Window] > h[Window]
      BY <1>5, <2>1, <3>2
    <3>4. AfterFailure(e) = IF Len(kept) >= Threshold
                            THEN [e EXCEPT !.failures = kept, !.state = "open", !.openAge = 0]
                            ELSE [e EXCEPT !.failures = kept]
      BY <2>1, <3>1, Zenon DEF AfterFailure, Counted
    <3>5. /\ [e EXCEPT !.failures = kept, !.state = "open", !.openAge = 0].state = "open"
          /\ [e EXCEPT !.failures = kept].state = "closed"
          /\ [e EXCEPT !.failures = kept].failures = kept
      BY <1>3, <2>1, Zenon DEF Entry
    <3>6. Kept
      BY <1>8, <3>2, <3>4, <3>5, Zenon
    <3>7. Trip
      BY <1>1, <1>2, <1>8, <3>2, <3>3, <3>4, <3>5, Zenon DEF InWindow
    <3> QED BY <3>6, <3>7, Zenon
  <2>2. CASE e.state # "closed"
    <3>1. AfterFailure(e).state # "closed"
      <4>1. CASE e.state = "half_open"
        BY <1>3, <4>1, Zenon DEF AfterFailure, Reopened, Entry
      <4>2. CASE e.state # "half_open"
        <5>1. PICK kept : AfterFailure(e) = [e EXCEPT !.failures = kept]
          BY <2>2, <4>2, Zenon DEF AfterFailure, Counted
        <5>2. [e EXCEPT !.failures = kept].state = e.state
          BY <1>3, Zenon DEF Entry
        <5> QED BY <2>2, <5>1, <5>2, Zenon
      <4> QED BY <4>1, <4>2, Zenon
    <3> QED BY <1>1, <1>8, <2>2, <3>1, Zenon
  <2> QED BY <2>1, <2>2, Zenon
<1>9. CASE (entries'[c] = AfterAllow(e) \/ entries'[c] = e) /\ recent'[c] = h
  <2>1. entries'[c].state = "closed" => entries'[c] = e
    BY <1>3, <1>9, Zenon DEF AfterAllow, Entry
  <2>2. e.state = "closed" => entries'[c] = e
    BY <1>9, Zenon DEF AfterAllow
  <2>3. Kept
    BY <1>5, <1>9, <2>1, Zenon
  <2>4. ASSUME e.state = "closed" PROVE ~(h[Window] > h[Window])
    BY <1>5, <2>4
  <2>5. Trip
    BY <1>1, <1>2, <1>9, <2>2, <2>4, Zenon DEF InWindow
  <2> QED BY <2>3, <2>5, Zenon
<1> QED BY <1>1, <1>2, <1>6, <1>7, <1>8, <1>9, Zenon DEF Together

\* A closed breaker opens exactly on the failure that brings those within the window and
\* since the last success to the threshold: whatever failed calls overlap, whoever
\* reports them and in which order, and however the list of the code was pruned.
THEOREM Trips == HSpec => TripsExactlyOnThreshold
<1> DEFINE Step ==
             \A c \in Candidates : entries[c].state = "closed" =>
               (entries'[c].state = "open" <=>
                  InWindow(recent'[c]) > InWindow(recent[c]) /\ InWindow(recent'[c]) >= Threshold)
<1>1. HInit => Init
  BY Zenon DEF HInit
<1>2. [HNext]_<<vars, recent>> => [Next]_vars
  BY Zenon DEF HNext
<1>3. HInit => AllAgree
  <2>1. Fresh.failures = <<>>
    BY Zenon DEF Fresh
  <2>2. ASSUME HInit, NEW c \in Candidates PROVE entries[c] = Fresh /\ recent[c] = Nothing
    BY <2>2, Zenon DEF HInit, Init
  <2> QED BY <2>1, <2>2, NothingAgrees, Zenon DEF AllAgree
<1>4. AllSound /\ AllShaped /\ AllFormed /\ AllAgree /\ [HNext]_<<vars, recent>>
        => AllAgree' /\ [Step]_<<vars, recent>>
  <2> SUFFICES ASSUME AllSound, AllShaped, AllFormed, AllAgree, [HNext]_<<vars, recent>>
               PROVE  AllAgree' /\ [Step]_<<vars, recent>>
    BY Zenon
  <2>1. CASE UNCHANGED <<vars, recent>>
    BY <2>1, Zenon DEF AllAgree, vars
  <2>2. CASE HNext
    <3>1. \A c \in Candidates : Sound(entries[c]) /\ Together(c)
      BY <2>2, CountedTogether, Zenon DEF AllSound
    <3>2. \A c \in Candidates :
            entries[c].state = "closed" => Agrees(entries[c].failures, recent[c])
      BY Zenon DEF AllAgree
    <3>3. AllAgree'
      BY <3>1, <3>2, StepAgrees, Zenon DEF AllAgree
    <3>4. Step
      BY <3>1, <3>2, StepAgrees, Zenon
    <3> QED BY <3>3, <3>4, Zenon
  <2> QED BY <2>1, <2>2, Zenon
<1>5. HSpec => Spec
  BY <1>1, <1>2, PTL DEF HSpec, Spec
<1> QED
  BY <1>3, <1>4, <1>5, BreakersStaySound, RequestsShaped, RequestsFormed, PTL
  DEF HSpec, TripsExactlyOnThreshold
=============================================================================
