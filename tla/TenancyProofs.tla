----------------------------- MODULE TenancyProofs ------------------------------
(***************************************************************************)
(* What the gateway keeps of its tenants' traffic, for every number of     *)
(* tenants, requests and changes: the cache's account of itself, how long  *)
(* captures and answers are held, and what a deleted tenant leaves behind. *)
(***************************************************************************)
EXTENDS Tenancy, WellFoundedInduction, TLAPS

(* Induction over the positions of a list *)

\* A set of naturals that has an element has a least one.
LEMMA Least ==
  ASSUME NEW T, T \subseteq Nat, T # {}
  PROVE  \E x \in T : \A y \in T : x <= y
<1> DEFINE R == OpToRel(<, Nat)
<1>1. IsWellFoundedOn(R, Nat)
  BY NatLessThanWellFounded, Zenon
<1>2. PICK x \in T : \A y \in T : ~(<<y, x>> \in R)
  <2> HIDE DEF R
  <2> QED BY <1>1, WFMin, Zenon
<1>3. \A y \in T : ~(y < x)
  BY <1>2, Zenon DEF OpToRel
<1> QED BY <1>3

\* A set that has 0, and with a number below N the next one, has every number up to N.
LEMMA UpTo ==
  ASSUME NEW N \in Nat, NEW T, 0 \in T, \A n \in 0..(N - 1) : n \in T => n + 1 \in T
  PROVE  0..N \subseteq T
<1> DEFINE U == (0..N) \ T
<1>1. SUFFICES ASSUME U # {} PROVE FALSE
  BY Zenon
<1>2. U \subseteq Nat
  OBVIOUS
<1>3. PICK x \in U : \A y \in U : x <= y
  <2> HIDE DEF U
  <2> QED BY <1>1, <1>2, Least, Zenon
<1>4. x \in 0..N /\ x \notin T /\ x # 0
  BY <1>3, Zenon
<1>5. x - 1 \in 0..(N - 1) /\ x - 1 \in 0..N /\ ~(x <= x - 1) /\ (x - 1) + 1 = x
  <2> HIDE DEF U
  <2> QED BY <1>4
<1>6. x - 1 \in T
  BY <1>3, <1>5, Zenon
<1> QED BY <1>4, <1>5, <1>6, Zenon

\* Values each from the one before by a function of the position; they exist.
Stepwise(f, N, V, v, G) ==
  f \in [0..N -> V] /\ f[0] = v /\ \A i \in 1..N : f[i] = G[<<i, f[i - 1]>>]

LEMMA Recursion ==
  ASSUME NEW N \in Nat, NEW V, NEW v \in V, NEW G \in [(1..N) \X V -> V]
  PROVE  \E f : Stepwise(f, N, V, v, G)
<1> DEFINE P(n) == \E f \in [0..n -> V] : f[0] = v /\ \A i \in 1..n : f[i] = G[<<i, f[i - 1]>>]
<1> DEFINE T == {n \in 0..N : P(n)}
<1>1. 0 \in T
  <2>1. PICK f : f = [i \in 0..0 |-> v]
    BY Zenon
  <2>2. f \in [0..0 -> V] /\ f[0] = v /\ \A i \in 1..0 : f[i] = G[<<i, f[i - 1]>>]
    BY <2>1
  <2>3. P(0) /\ 0 \in 0..N
    BY <2>2
  <2> QED BY <2>3, Zenon
<1>2. ASSUME NEW n \in 0..(N - 1), n \in T PROVE n + 1 \in T
  <2>1. PICK f \in [0..n -> V] : f[0] = v /\ \A i \in 1..n : f[i] = G[<<i, f[i - 1]>>]
    BY <1>2, Zenon
  <2>a. n \in Nat /\ n + 1 \in 1..N /\ n + 1 \in 0..N /\ n \in 0..n
    OBVIOUS
  <2>2. PICK w \in V : w = G[<<n + 1, f[n]>>]
    <3>1. <<n + 1, f[n]>> \in (1..N) \X V
      BY <2>1, <2>a, Zenon
    <3> QED BY <3>1, Zenon
  <2>3. PICK g : g = [i \in 0..(n + 1) |-> IF i = n + 1 THEN w ELSE f[i]]
    BY Zenon
  <2>4. g \in [0..(n + 1) -> V]
    BY <2>a, <2>2, <2>3
  <2>5. g[n + 1] = w /\ \A i \in 0..n : g[i] = f[i]
    BY <2>a, <2>3
  <2>6. g[0] = v
    BY <2>1, <2>5, <2>a
  <2>7. ASSUME NEW i \in 1..(n + 1) PROVE g[i] = G[<<i, g[i - 1]>>]
    <3>1. CASE i = n + 1
      <4>1. i - 1 = n
        BY <2>a, <3>1
      <4> QED BY <2>2, <2>5, <2>a, <3>1, <4>1, Zenon
    <3>2. CASE i # n + 1
      <4>1. i \in 1..n /\ i \in 0..n /\ i - 1 \in 0..n
        BY <2>a, <3>2
      <4> QED BY <2>1, <2>5, <4>1, Zenon
    <3> QED BY <3>1, <3>2, Zenon
  <2>8. P(n + 1)
    BY <2>4, <2>6, <2>7, Zenon
  <2> QED BY <2>8, <2>a, Zenon
<1>3. N \in 0..N
  OBVIOUS
<1> HIDE DEF P
<1>4. 0..N \subseteq T
  <2> HIDE DEF T
  <2> QED BY <1>1, <1>2, UpTo, Zenon
<1>5. P(N)
  BY <1>3, <1>4, Zenon
<1> QED BY <1>5, Zenon DEF P, Stepwise

-----------------------------------------------------------------------------
(* The bytes of a list of items *)

Sized(c) == Len(c) \in Nat /\ \A i \in 1..Len(c) : c[i].size \in Nat

LEMMA Sums ==
  ASSUME NEW c, Sized(c)
  PROVE  /\ BytesTo(c) \in [0..Len(c) -> Nat] /\ BytesTo(c)[0] = 0
         /\ \A i \in 1..Len(c) : BytesTo(c)[i] = BytesTo(c)[i - 1] + c[i].size
         /\ Bytes(c) = BytesTo(c)[Len(c)] /\ Bytes(c) \in Nat
<1> DEFINE N == Len(c)
<1> DEFINE D(f) == [i \in 0..N |-> IF i = 0 THEN 0 ELSE f[i - 1] + c[i].size]
<1>0. N \in Nat /\ \A i \in 1..N : c[i].size \in Nat
  BY Zenon DEF Sized
<1>1. \E f : f = D(f)
  <2>1. PICK G : G = [p \in (1..N) \X Nat |-> p[2] + c[p[1]].size]
    BY Zenon
  <2>2. G \in [(1..N) \X Nat -> Nat]
    <3>1. \A p \in (1..N) \X Nat : p[2] + c[p[1]].size \in Nat
      <4> TAKE p \in (1..N) \X Nat
      <4>1. p[1] \in 1..N /\ p[2] \in Nat
        BY Zenon
      <4>2. c[p[1]].size \in Nat
        BY <1>0, <4>1, Zenon
      <4> QED BY <4>1, <4>2
    <3> QED BY <2>1, <3>1, Zenon
  <2>3. 0 \in Nat
    BY Zenon
  <2>4. PICK f \in [0..N -> Nat] : f[0] = 0 /\ \A i \in 1..N : f[i] = G[<<i, f[i - 1]>>]
    <3>1. \E f : Stepwise(f, N, Nat, 0, G)
      <4> HIDE DEF N
      <4> QED BY <1>0, <2>2, <2>3, Recursion, Zenon
    <3> QED BY <3>1, Zenon DEF Stepwise
  <2>5. ASSUME NEW i \in 0..N PROVE f[i] = IF i = 0 THEN 0 ELSE f[i - 1] + c[i].size
    <3>1. CASE i = 0
      BY <2>4, <3>1, Zenon
    <3>2. CASE i # 0
      <4>1. i \in 1..N /\ i - 1 \in 0..N
        BY <1>0, <3>2
      <4>2. <<i, f[i - 1]>> \in (1..N) \X Nat
        BY <2>4, <4>1, Zenon
      <4>3. G[<<i, f[i - 1]>>] = f[i - 1] + c[i].size
        BY <2>1, <4>2, Zenon
      <4> QED BY <2>4, <3>2, <4>1, <4>3, Zenon
    <3> QED BY <3>1, <3>2, Zenon
  <2>6. f = [i \in 0..N |-> f[i]]
    BY <2>4, Zenon
  <2>7. f = D(f)
    BY <2>5, <2>6, Zenon
  <2> QED BY <2>7, Zenon
<1>2. BytesTo(c) = D(BytesTo(c))
  BY <1>1, Zenon DEF BytesTo
<1> DEFINE b == BytesTo(c)
<1> HIDE DEF b, N
<1>3. b[0] = 0 /\ \A i \in 1..N : b[i] = b[i - 1] + c[i].size
  <2>1. \A i \in 0..N : b[i] = IF i = 0 THEN 0 ELSE b[i - 1] + c[i].size
    BY <1>2, Zenon DEF b
  <2>2. 0 \in 0..N /\ \A i \in 1..N : i \in 0..N /\ i # 0
    BY <1>0
  <2> QED BY <2>1, <2>2, Zenon
<1>4. \A n \in 0..N : b[n] \in Nat
  <2> DEFINE T == {n \in 0..N : b[n] \in Nat}
  <2>1. 0 \in T
    BY <1>0, <1>3
  <2>2. ASSUME NEW n \in 0..(N - 1), n \in T PROVE n + 1 \in T
    <3>1. n + 1 \in 1..N /\ n + 1 \in 0..N /\ (n + 1) - 1 = n
      BY <1>0
    <3>2. b[n + 1] = b[n] + c[n + 1].size /\ b[n] \in Nat /\ c[n + 1].size \in Nat
      BY <1>0, <1>3, <2>2, <3>1, Zenon
    <3>3. b[n + 1] \in Nat
      BY <3>2
    <3> QED BY <3>1, <3>3, Zenon
  <2>3. 0..N \subseteq T
    <3> HIDE DEF T
    <3> QED BY <1>0, <2>1, <2>2, UpTo, Zenon
  <2> QED BY <2>3, Zenon
<1>5. b \in [0..N -> Nat]
  <2>1. b = [i \in 0..N |-> b[i]]
    BY <1>2, Zenon DEF b
  <2> QED BY <1>4, <2>1, Zenon
<1>6. N \in 0..N
  BY <1>0
<1> QED BY <1>3, <1>4, <1>5, <1>6, Zenon DEF b, N, Bytes

\* Two sums that grow by the same steps differ by what they began with.
LEMMA SameSteps ==
  ASSUME NEW N \in Nat, NEW f, NEW g, \A i \in 0..N : f[i] \in Int /\ g[i] \in Int,
         \A i \in 1..N : f[i] - f[i - 1] = g[i] - g[i - 1]
  PROVE  f[N] = g[N] + (f[0] - g[0])
<1> DEFINE T == {n \in 0..N : f[n] = g[n] + (f[0] - g[0])}
<1>1. 0 \in T
  BY SMT
<1>2. ASSUME NEW n \in 0..(N - 1), n \in T PROVE n + 1 \in T
  <2>1. n + 1 \in 1..N /\ n + 1 \in 0..N /\ (n + 1) - 1 = n /\ n \in 0..N /\ 0 \in 0..N
    OBVIOUS
  <2>2. f[n + 1] - f[n] = g[n + 1] - g[n]
    BY <2>1, Zenon
  <2>3. f[n] \in Int /\ g[n] \in Int /\ f[0] \in Int /\ g[0] \in Int /\ f[n + 1] \in Int /\ g[n + 1] \in Int
    BY <2>1, Zenon
  <2>4. f[n] = g[n] + (f[0] - g[0])
    BY <1>2, Zenon
  <2>5. f[n + 1] = g[n + 1] + (f[0] - g[0])
    BY <2>2, <2>3, <2>4
  <2> QED BY <2>1, <2>5, Zenon
<1>3. 0..N \subseteq T
  <2> HIDE DEF T
  <2> QED BY <1>1, <1>2, UpTo, Zenon
<1>4. N \in 0..N
  OBVIOUS
<1> QED BY <1>3, <1>4, Zenon

\* The first items of a list, as they are or with their sizes only.
LEMMA FirstBytes ==
  ASSUME NEW c, Sized(c), NEW d, Len(d) \in 0..Len(c), \A i \in 1..Len(d) : d[i].size = c[i].size
  PROVE  Sized(d) /\ Bytes(d) = BytesTo(c)[Len(d)]
<1> DEFINE k == Len(d)
<1> DEFINE f == BytesTo(d)
<1> DEFINE g == BytesTo(c)
<1>0. Len(c) \in Nat /\ k \in Nat /\ k \in 0..Len(c) /\ \A i \in 1..Len(c) : c[i].size \in Nat
  BY DEF Sized
<1>1. \A i \in 1..k : i \in 1..Len(c) /\ i - 1 \in 0..k /\ i \in 0..k
  BY <1>0
<1>2. Sized(d)
  BY <1>0, <1>1, Zenon DEF Sized
<1>3. /\ f \in [0..k -> Nat] /\ f[0] = 0 /\ Bytes(d) = f[k]
      /\ \A i \in 1..k : f[i] = f[i - 1] + d[i].size
  BY <1>2, Sums, Zenon
<1>4. /\ g \in [0..Len(c) -> Nat] /\ g[0] = 0 /\ \A i \in 1..Len(c) : g[i] = g[i - 1] + c[i].size
  BY Sums, Zenon
<1> HIDE DEF f, g, k
<1>5. \A i \in 0..k : f[i] \in Int /\ g[i] \in Int
  <2>1. \A i \in 0..k : i \in 0..Len(c)
    BY <1>0
  <2>2. \A i \in 0..k : f[i] \in Nat /\ g[i] \in Nat
    BY <1>3, <1>4, <2>1, Zenon
  <2> QED BY <2>2
<1>6. ASSUME NEW i \in 1..k PROVE f[i] - f[i - 1] = g[i] - g[i - 1]
  <2>1. f[i] = f[i - 1] + c[i].size /\ g[i] = g[i - 1] + c[i].size
    <3>1. d[i].size = c[i].size
      BY Zenon DEF k
    <3> QED BY <1>1, <1>3, <1>4, <3>1, Zenon
  <2>2. f[i - 1] \in Int /\ g[i - 1] \in Int /\ c[i].size \in Nat
    BY <1>0, <1>1, <1>5, Zenon
  <2> QED BY <2>1, <2>2
<1>7. f[k] = g[k] + (f[0] - g[0])
  BY <1>0, <1>5, <1>6, SameSteps, Zenon
<1>8. f[k] = g[k]
  <2>1. k \in 0..k
    BY <1>0
  <2>2. g[k] \in Int /\ f[0] = 0 /\ g[0] = 0
    BY <1>3, <1>4, <1>5, <2>1, Zenon
  <2> QED BY <1>7, <2>2
<1> QED BY <1>2, <1>3, <1>8, Zenon DEF f, g, k

LEMMA AppendBytes ==
  ASSUME NEW S, NEW c \in Seq(S), NEW x \in S, Sized(c), x.size \in Nat
  PROVE  Sized(Append(c, x)) /\ Bytes(Append(c, x)) = Bytes(c) + x.size
<1>1. PICK d : d = Append(c, x)
  BY Zenon
<1>2. /\ Len(d) = Len(c) + 1 /\ d[Len(c) + 1] = x /\ Len(c) \in Nat
      /\ \A i \in 1..Len(c) : d[i] = c[i]
  BY <1>1
<1>3. Sized(d)
  <2>1. \A i \in 1..(Len(c) + 1) : i = Len(c) + 1 \/ i \in 1..Len(c)
    BY <1>2
  <2>2. Len(c) + 1 \in Nat
    BY <1>2
  <2> QED BY <1>2, <2>1, <2>2, Zenon DEF Sized
<1>4. Len(c) \in 0..Len(d) /\ Len(d) \in 1..Len(d) /\ Len(d) - 1 = Len(c)
  BY <1>2
<1>5. Bytes(c) = BytesTo(d)[Len(c)]
  BY <1>2, <1>3, <1>4, FirstBytes, Zenon
<1>6. Bytes(d) = BytesTo(d)[Len(d)] /\ BytesTo(d)[Len(d)] = BytesTo(d)[Len(d) - 1] + d[Len(d)].size
  BY <1>3, <1>4, Sums, Zenon
<1> QED BY <1>1, <1>2, <1>3, <1>4, <1>5, <1>6, Zenon

LEMMA FrontBytes ==
  ASSUME NEW S, NEW c \in Seq(S), NEW x \in S, Sized(c), x.size \in Nat
  PROVE  Sized(<<x>> \o c) /\ Bytes(<<x>> \o c) = Bytes(c) + x.size
<1>1. PICK d : d = <<x>> \o c
  BY Zenon
<1>2. /\ Len(d) = Len(c) + 1 /\ d[1] = x /\ Len(c) \in Nat
      /\ \A i \in 1..Len(c) : d[i + 1] = c[i]
  BY <1>1
<1>3. Sized(d)
  <2>1. \A i \in 1..(Len(c) + 1) : i = 1 \/ (i - 1 \in 1..Len(c) /\ d[i] = c[i - 1])
    BY <1>1
  <2>2. Len(c) + 1 \in Nat
    BY <1>2
  <2> QED BY <1>2, <2>1, <2>2, Zenon DEF Sized
<1> DEFINE N == Len(c)
<1> DEFINE g == BytesTo(c)
<1> DEFINE b == BytesTo(d)
<1>4. PICK f : f = [i \in 0..N |-> b[i + 1]]
  BY Zenon
<1>5. /\ b \in [0..(N + 1) -> Nat] /\ b[0] = 0 /\ Bytes(d) = b[N + 1]
      /\ \A i \in 1..(N + 1) : b[i] = b[i - 1] + d[i].size
  BY <1>2, <1>3, Sums, Zenon
<1>6. /\ g \in [0..N -> Nat] /\ g[0] = 0 /\ Bytes(c) = g[N] /\ \A i \in 1..N : g[i] = g[i - 1] + c[i].size
  BY Sums, Zenon
<1>7. \A i \in 1..N : c[i].size \in Nat
  BY Zenon DEF Sized
<1> HIDE DEF b, g, N
<1>8. N \in Nat /\ \A i \in 1..N : d[i + 1] = c[i]
  BY <1>2, Zenon DEF N
<1>9. \A i \in 0..N : f[i] \in Int /\ g[i] \in Int /\ f[i] = b[i + 1]
  <2>1. \A i \in 0..N : i + 1 \in 0..(N + 1)
    BY <1>8
  <2>2. \A i \in 0..N : f[i] \in Nat /\ g[i] \in Nat /\ f[i] = b[i + 1]
    BY <1>4, <1>5, <1>6, <2>1, Zenon
  <2> QED BY <2>2
<1>10. ASSUME NEW i \in 1..N PROVE f[i] - f[i - 1] = g[i] - g[i - 1]
  <2>1. i + 1 \in 1..(N + 1) /\ i \in 0..N /\ i - 1 \in 0..N /\ (i + 1) - 1 = i /\ (i - 1) + 1 = i
    BY <1>8
  <2>2. f[i] = f[i - 1] + c[i].size
    <3>1. f[i] = b[i + 1] /\ f[i - 1] = b[i] /\ d[i + 1] = c[i]
      BY <1>8, <1>9, <2>1, Zenon
    <3>2. b[i + 1] = b[(i + 1) - 1] + d[i + 1].size
      BY <1>5, <2>1, Zenon
    <3> QED BY <2>1, <3>1, <3>2, Zenon
  <2>3. g[i] = g[i - 1] + c[i].size /\ c[i].size \in Nat /\ f[i - 1] \in Int /\ g[i - 1] \in Int
    BY <1>6, <1>7, <1>9, <2>1, Zenon
  <2> QED BY <2>2, <2>3
<1>11. f[N] = g[N] + (f[0] - g[0])
  <2>1. N \in Nat /\ \A i \in 0..N : f[i] \in Int /\ g[i] \in Int
    BY <1>8, <1>9, Zenon
  <2>2. \A i \in 1..N : f[i] - f[i - 1] = g[i] - g[i - 1]
    BY <1>10, Zenon
  <2> QED BY <2>1, <2>2, SameSteps, ZenonT(30)
<1>12. 0 \in 0..N /\ N \in 0..N /\ 1 \in 1..(N + 1) /\ 0 + 1 = 1 /\ 1 - 1 = 0
  BY <1>8
<1>13. f[0] = b[1] /\ b[1] = b[0] + x.size /\ b[0] = 0 /\ g[0] = 0 /\ g[N] \in Int /\ f[N] = b[N + 1]
  BY <1>2, <1>5, <1>6, <1>9, <1>12, Zenon
<1>14. Bytes(d) = Bytes(c) + x.size
  BY <1>5, <1>6, <1>11, <1>13
<1> QED BY <1>1, <1>3, <1>14, Zenon

-----------------------------------------------------------------------------
(* What Picked keeps *)

Keeps(f, s, K, S) ==
  /\ f \in [0..Len(s) -> Seq(S)] /\ f[0] = <<>> /\ f[Len(s)] = Picked(s, K)
  /\ \A i \in 1..Len(s) : f[i] = IF i \in K THEN Append(f[i - 1], s[i]) ELSE f[i - 1]

\* The lists that the loop has built after each element.
LEMMA PickedSteps ==
  ASSUME NEW S, NEW s \in Seq(S), NEW K
  PROVE  \E f : Keeps(f, s, K, S)
<1> DEFINE N == Len(s)
<1> DEFINE D(f) == [i \in 0..N |-> IF i = 0 THEN <<>> ELSE IF i \in K THEN Append(f[i - 1], s[i]) ELSE f[i - 1]]
<1>0. N \in Nat /\ <<>> \in Seq(S) /\ \A i \in 1..N : s[i] \in S
  OBVIOUS
<1>1. \E f : f = D(f)
  <2>1. PICK G : G = [p \in (1..N) \X Seq(S) |-> IF p[1] \in K THEN Append(p[2], s[p[1]]) ELSE p[2]]
    BY Zenon
  <2>2. G \in [(1..N) \X Seq(S) -> Seq(S)]
    <3>1. \A p \in (1..N) \X Seq(S) : (IF p[1] \in K THEN Append(p[2], s[p[1]]) ELSE p[2]) \in Seq(S)
      <4> TAKE p \in (1..N) \X Seq(S)
      <4>1. p[1] \in 1..N /\ p[2] \in Seq(S)
        BY Zenon
      <4>2. s[p[1]] \in S
        BY <1>0, <4>1, Zenon
      <4>3. \A t \in Seq(S), x \in S : Append(t, x) \in Seq(S)
        OBVIOUS
      <4> QED BY <4>1, <4>2, <4>3, Zenon
    <3> QED BY <2>1, <3>1, Zenon
  <2>3. PICK f \in [0..N -> Seq(S)] : f[0] = <<>> /\ \A i \in 1..N : f[i] = G[<<i, f[i - 1]>>]
    <3>1. \E f : Stepwise(f, N, Seq(S), <<>>, G)
      <4> HIDE DEF N
      <4> QED BY <1>0, <2>2, Recursion, Zenon
    <3> QED BY <3>1, Zenon DEF Stepwise
  <2>4. ASSUME NEW i \in 0..N
        PROVE  f[i] = IF i = 0 THEN <<>> ELSE IF i \in K THEN Append(f[i - 1], s[i]) ELSE f[i - 1]
    <3>1. CASE i = 0
      BY <2>3, <3>1, Zenon
    <3>2. CASE i # 0
      <4>1. i \in 1..N /\ i - 1 \in 0..N
        BY <1>0, <3>2
      <4>2. <<i, f[i - 1]>> \in (1..N) \X Seq(S)
        BY <2>3, <4>1, Zenon
      <4>3. G[<<i, f[i - 1]>>] = IF i \in K THEN Append(f[i - 1], s[i]) ELSE f[i - 1]
        BY <2>1, <4>2, Zenon
      <4> QED BY <2>3, <3>2, <4>1, <4>3, Zenon
    <3> QED BY <3>1, <3>2, Zenon
  <2>5. f = [i \in 0..N |-> f[i]]
    BY <2>3, Zenon
  <2>6. f = D(f)
    BY <2>4, <2>5, Zenon
  <2> QED BY <2>6, Zenon
<1>2. PICK f : f = D(f) /\ f[N] = Picked(s, K)
  <2>1. PICK f : f = CHOOSE g : g = D(g)
    BY Zenon
  <2>2. f = D(f)
    BY <1>1, <2>1, Zenon
  <2>3. f[N] = Picked(s, K)
    BY <2>1, Zenon DEF Picked
  <2> QED BY <2>2, <2>3, Zenon
<1>3. /\ f[0] = <<>>
      /\ \A i \in 1..N : f[i] = IF i \in K THEN Append(f[i - 1], s[i]) ELSE f[i - 1]
  <2>1. \A i \in 0..N : f[i] = IF i = 0 THEN <<>> ELSE IF i \in K THEN Append(f[i - 1], s[i]) ELSE f[i - 1]
    BY <1>2, Zenon
  <2>2. 0 \in 0..N /\ \A i \in 1..N : i \in 0..N /\ i # 0
    BY <1>0
  <2> QED BY <2>1, <2>2, Zenon
<1>4. f = [i \in 0..N |-> f[i]]
  BY <1>2, Zenon
<1> HIDE DEF N
<1>5. \A n \in 0..N : f[n] \in Seq(S)
  <2> DEFINE T == {n \in 0..N : f[n] \in Seq(S)}
  <2>1. 0 \in T
    <3>1. 0 \in 0..N
      BY <1>0
    <3> QED BY <1>0, <1>3, <3>1, Zenon
  <2>2. ASSUME NEW n \in 0..(N - 1), n \in T PROVE n + 1 \in T
    <3>1. n + 1 \in 1..N /\ n + 1 \in 0..N /\ (n + 1) - 1 = n
      BY <1>0
    <3>2. f[n] \in Seq(S) /\ s[n + 1] \in S
      BY <1>0, <2>2, <3>1, Zenon
    <3>3. Append(f[n], s[n + 1]) \in Seq(S)
      BY <3>2
    <3> QED BY <1>3, <3>1, <3>2, <3>3, Zenon
  <2>3. 0..N \subseteq T
    <3> HIDE DEF T
    <3> QED BY <1>0, <2>1, <2>2, UpTo, Zenon
  <2> QED BY <2>3, Zenon
<1>6. f \in [0..N -> Seq(S)]
  BY <1>4, <1>5, Zenon
<1> QED BY <1>2, <1>3, <1>6, Zenon DEF Keeps, N
DistinctKeys(s) == \A i, j \in 1..Len(s) : i # j => s[i].key # s[j].key

Drawn(d, s, K, S) ==
  d \in Seq(S) /\ \A j \in 1..Len(d) : \E i \in 1..Len(s) : i \in K /\ d[j] = s[i]

\* Every element kept is one of those picked, and no key is kept twice.
LEMMA PickedElements ==
  ASSUME NEW S, NEW s \in Seq(S), NEW K
  PROVE  Drawn(Picked(s, K), s, K, S)
<1>1. PICK f : Keeps(f, s, K, S)
  BY PickedSteps, Zenon
<1>2. PICK N : N = Len(s) /\ N \in Nat
  OBVIOUS
<1>3. /\ f \in [0..N -> Seq(S)] /\ f[0] = <<>> /\ f[N] = Picked(s, K)
      /\ \A i \in 1..N : f[i] = IF i \in K THEN Append(f[i - 1], s[i]) ELSE f[i - 1]
  BY <1>1, <1>2, Zenon DEF Keeps
<1>4. \A i \in 1..N : s[i] \in S
  BY <1>2
<1> DEFINE P(t) == \A j \in 1..Len(t) : \E i \in 1..N : i \in K /\ t[j] = s[i]
<1> DEFINE T == {n \in 0..N : P(f[n])}
<1>5. 0 \in T
  <2>1. 0 \in 0..N /\ Len(<<>>) = 0 /\ 1..0 = {}
    BY <1>2
  <2>2. P(<<>>)
    BY <2>1, Zenon
  <2> QED BY <1>3, <2>1, <2>2, Zenon
<1>6. ASSUME NEW n \in 0..(N - 1), n \in T PROVE n + 1 \in T
  <2>1. n + 1 \in 1..N /\ n + 1 \in 0..N /\ (n + 1) - 1 = n /\ n \in 0..N
    BY <1>2
  <2>2. P(f[n]) /\ f[n] \in Seq(S) /\ s[n + 1] \in S
    BY <1>3, <1>4, <1>6, <2>1, Zenon
  <2>3. ASSUME n + 1 \in K PROVE P(Append(f[n], s[n + 1]))
    <3>1. PICK t : t = Append(f[n], s[n + 1])
      BY Zenon
    <3>2. ASSUME NEW j \in 1..Len(t) PROVE t[j] = s[n + 1] \/ (j \in 1..Len(f[n]) /\ t[j] = f[n][j])
      BY <2>2, <3>1
    <3>3. P(t)
      BY <2>1, <2>2, <2>3, <3>2, Zenon
    <3> QED BY <3>1, <3>3, Zenon
  <2>4. f[n + 1] = IF n + 1 \in K THEN Append(f[n], s[n + 1]) ELSE f[n]
    BY <1>3, <2>1, Zenon
  <2>5. P(f[n + 1])
    <3> HIDE DEF P
    <3> QED BY <2>2, <2>3, <2>4, Zenon
  <2> QED BY <2>1, <2>5, Zenon
<1>7. 0..N \subseteq T
  <2> HIDE DEF T
  <2> QED BY <1>2, <1>5, <1>6, UpTo, Zenon
<1>8. N \in 0..N
  BY <1>2
<1>9. P(f[N]) /\ f[N] \in Seq(S)
  BY <1>3, <1>7, <1>8, Zenon
<1> QED BY <1>2, <1>3, <1>9, Zenon DEF Drawn

LEMMA PickedDistinct ==
  ASSUME NEW S, NEW s \in Seq(S), NEW K, DistinctKeys(s)
  PROVE  DistinctKeys(Picked(s, K))
<1>1. PICK f : Keeps(f, s, K, S)
  BY PickedSteps, Zenon
<1>2. PICK N : N = Len(s) /\ N \in Nat
  OBVIOUS
<1>3. /\ f \in [0..N -> Seq(S)] /\ f[0] = <<>> /\ f[N] = Picked(s, K)
      /\ \A i \in 1..N : f[i] = IF i \in K THEN Append(f[i - 1], s[i]) ELSE f[i - 1]
  BY <1>1, <1>2, Zenon DEF Keeps
<1>4. /\ \A i \in 1..N : s[i] \in S
      /\ \A i, j \in 1..N : i # j => s[i].key # s[j].key
  <2>1. \A i \in 1..N : s[i] \in S
    BY <1>2
  <2> QED BY <1>2, <2>1, Zenon DEF DistinctKeys
<1> DEFINE P(t, n) == DistinctKeys(t) /\ \A j \in 1..Len(t) : \E i \in 1..n : t[j] = s[i]
<1> DEFINE T == {n \in 0..N : P(f[n], n)}
<1>5. 0 \in T
  <2>1. 0 \in 0..N /\ Len(<<>>) = 0 /\ 1..0 = {}
    BY <1>2
  <2>2. P(<<>>, 0)
    BY <2>1, Zenon DEF DistinctKeys
  <2> QED BY <1>3, <2>1, <2>2, Zenon
<1>6. ASSUME NEW n \in 0..(N - 1), n \in T PROVE n + 1 \in T
  <2>1. n + 1 \in 1..N /\ n + 1 \in 0..N /\ (n + 1) - 1 = n /\ n \in 0..N
    BY <1>2
  <2>2. P(f[n], n) /\ f[n] \in Seq(S) /\ s[n + 1] \in S
    BY <1>3, <1>4, <1>6, <2>1, Zenon
  <2>3. \A i \in 1..n : i \in 1..N /\ i \in 1..(n + 1) /\ i # n + 1
    BY <1>2
  <2>4. n + 1 \in 1..(n + 1)
    BY <1>2
  <2>5. P(Append(f[n], s[n + 1]), n + 1)
    <3>1. PICK t : t = Append(f[n], s[n + 1])
      BY Zenon
    <3>2. ASSUME NEW j \in 1..Len(t)
          PROVE  (j = Len(f[n]) + 1 /\ t[j] = s[n + 1]) \/ (j \in 1..Len(f[n]) /\ t[j] = f[n][j])
      BY <2>2, <3>1
    <3>3. ASSUME NEW j \in 1..Len(f[n]) PROVE f[n][j].key # s[n + 1].key
      <4>1. PICK i \in 1..n : f[n][j] = s[i]
        BY <2>2, Zenon
      <4> QED BY <1>4, <2>1, <2>3, <4>1, Zenon
    <3>4. DistinctKeys(t)
      BY <2>2, <3>2, <3>3, ZenonT(30) DEF DistinctKeys
    <3>5. \A j \in 1..Len(t) : \E i \in 1..(n + 1) : t[j] = s[i]
      BY <2>2, <2>3, <2>4, <3>2, Zenon
    <3> QED BY <3>1, <3>4, <3>5, Zenon
  <2>6. P(f[n], n + 1)
    BY <2>2, <2>3, Zenon
  <2>7. f[n + 1] = IF n + 1 \in K THEN Append(f[n], s[n + 1]) ELSE f[n]
    BY <1>3, <2>1, Zenon
  <2>8. P(f[n + 1], n + 1)
    <3> HIDE DEF P
    <3> QED BY <2>5, <2>6, <2>7, Zenon
  <2> QED BY <2>1, <2>8, Zenon
<1>7. 0..N \subseteq T
  <2> HIDE DEF T
  <2> QED BY <1>2, <1>5, <1>6, UpTo, Zenon
<1>8. N \in 0..N
  BY <1>2
<1> QED BY <1>3, <1>7, <1>8, Zenon

\* What is picked and what is not hold every byte between them.
LEMMA PickedBytes ==
  ASSUME NEW S, NEW c \in Seq(S), NEW K, \A x \in S : x.size \in Nat
  PROVE  Bytes(Picked(c, K)) + Bytes(Picked(c, DOMAIN c \ K)) = Bytes(c)
<1> DEFINE R == DOMAIN c \ K
<1>1. (\E f : Keeps(f, c, K, S)) /\ (\E g : Keeps(g, c, R, S))
  BY PickedSteps, Zenon
<1>2. PICK f, g : Keeps(f, c, K, S) /\ Keeps(g, c, R, S)
  BY <1>1, Zenon
<1>3. PICK N : N = Len(c) /\ N \in Nat
  OBVIOUS
<1>4. /\ f \in [0..N -> Seq(S)] /\ f[0] = <<>> /\ f[N] = Picked(c, K)
      /\ \A i \in 1..N : f[i] = IF i \in K THEN Append(f[i - 1], c[i]) ELSE f[i - 1]
  BY <1>2, <1>3, Zenon DEF Keeps
<1>5. /\ g \in [0..N -> Seq(S)] /\ g[0] = <<>> /\ g[N] = Picked(c, R)
      /\ \A i \in 1..N : g[i] = IF i \in R THEN Append(g[i - 1], c[i]) ELSE g[i - 1]
  BY <1>2, <1>3, Zenon DEF Keeps
<1>6. \A t \in Seq(S) : Sized(t) /\ Bytes(t) \in Nat
  <2> TAKE t \in Seq(S)
  <2>1. Len(t) \in Nat /\ \A i \in 1..Len(t) : t[i] \in S
    OBVIOUS
  <2>2. Sized(t)
    BY <2>1, Zenon DEF Sized
  <2>3. BytesTo(t) \in [0..Len(t) -> Nat] /\ Bytes(t) = BytesTo(t)[Len(t)]
    BY <2>2, Sums, Zenon
  <2>4. Len(t) \in 0..Len(t)
    BY <2>1
  <2> QED BY <2>2, <2>3, <2>4, Zenon
<1>7. \A i \in 1..N : c[i] \in S /\ (i \in R <=> i \notin K)
  BY <1>3
<1>8. /\ BytesTo(c) \in [0..N -> Nat] /\ BytesTo(c)[0] = 0 /\ Bytes(c) = BytesTo(c)[N]
      /\ \A i \in 1..N : BytesTo(c)[i] = BytesTo(c)[i - 1] + c[i].size
  <2>1. Sized(c)
    BY <1>6, Zenon
  <2> QED BY <1>3, <2>1, Sums, Zenon
<1> HIDE DEF R
<1> DEFINE T == {n \in 0..N : Bytes(f[n]) + Bytes(g[n]) = BytesTo(c)[n]}
<1>9. 0 \in T
  <2>0. <<>> \in Seq(S)
    OBVIOUS
  <2>1. PICK t \in Seq(S) : t = <<>>
    BY <2>0, Zenon
  <2>2. Len(t) = 0 /\ 0 \in 0..N
    BY <1>3, <2>1
  <2>3. Bytes(t) = 0
    <3>1. Sized(t)
      BY <1>6, Zenon
    <3> QED BY <2>2, <3>1, Sums, Zenon
  <2>4. Bytes(f[0]) = 0 /\ Bytes(g[0]) = 0
    BY <1>4, <1>5, <2>1, <2>3, Zenon
  <2>5. 0 + 0 = 0
    OBVIOUS
  <2> QED BY <1>8, <2>2, <2>4, <2>5, Zenon
<1>10. ASSUME NEW n \in 0..(N - 1), n \in T PROVE n + 1 \in T
  <2>1. n + 1 \in 1..N /\ n + 1 \in 0..N /\ (n + 1) - 1 = n /\ n \in 0..N
    BY <1>3
  <2>2. f[n] \in Seq(S) /\ g[n] \in Seq(S) /\ c[n + 1] \in S
    BY <1>4, <1>5, <1>7, <2>1, Zenon
  <2>3. Bytes(f[n]) \in Nat /\ Bytes(g[n]) \in Nat /\ c[n + 1].size \in Nat /\ Sized(f[n]) /\ Sized(g[n])
    BY <1>6, <2>2, Zenon
  <2>4. Bytes(f[n]) + Bytes(g[n]) = BytesTo(c)[n]
    BY <1>10, Zenon
  <2>5. BytesTo(c)[n + 1] = BytesTo(c)[n] + c[n + 1].size
    BY <1>8, <2>1, Zenon
  <2>6. /\ Bytes(Append(f[n], c[n + 1])) = Bytes(f[n]) + c[n + 1].size
        /\ Bytes(Append(g[n], c[n + 1])) = Bytes(g[n]) + c[n + 1].size
    BY <2>2, <2>3, AppendBytes, Zenon
  <2>7. CASE n + 1 \in K
    <3>1. f[n + 1] = Append(f[n], c[n + 1]) /\ g[n + 1] = g[n]
      BY <1>4, <1>5, <1>7, <2>1, <2>7, Zenon
    <3>2. Bytes(f[n + 1]) = Bytes(f[n]) + c[n + 1].size /\ Bytes(g[n + 1]) = Bytes(g[n])
      BY <2>6, <3>1, Zenon
    <3>3. Bytes(f[n + 1]) + Bytes(g[n + 1]) = BytesTo(c)[n + 1]
      BY <2>3, <2>4, <2>5, <3>2
    <3> QED BY <2>1, <3>3, Zenon
  <2>8. CASE n + 1 \notin K
    <3>1. f[n + 1] = f[n] /\ g[n + 1] = Append(g[n], c[n + 1])
      BY <1>4, <1>5, <1>7, <2>1, <2>8, Zenon
    <3>2. Bytes(f[n + 1]) = Bytes(f[n]) /\ Bytes(g[n + 1]) = Bytes(g[n]) + c[n + 1].size
      BY <2>6, <3>1, Zenon
    <3>3. Bytes(f[n + 1]) + Bytes(g[n + 1]) = BytesTo(c)[n + 1]
      BY <2>3, <2>4, <2>5, <3>2
    <3> QED BY <2>1, <3>3, Zenon
  <2> QED BY <2>7, <2>8, Zenon
<1>11. 0..N \subseteq T
  <2> HIDE DEF T
  <2> QED BY <1>3, <1>9, <1>10, UpTo, Zenon
<1>12. N \in 0..N
  BY <1>3
<1>13. Bytes(f[N]) + Bytes(g[N]) = BytesTo(c)[N]
  BY <1>11, <1>12, Zenon
<1> QED BY <1>4, <1>5, <1>8, <1>13, Zenon DEF R

-----------------------------------------------------------------------------
(* The inductive invariant *)

CacheKeys == Tenants \X Models \X Bodies

\* An answer under the name of its tenant and of the model that gave it.
Items ==
  {x \in [key : CacheKeys, tenant : Tenants, by : Models, size : Sizes, left : 0..MaxCacheTTL] :
     x.by = x.key[2] /\ x.tenant = x.key[1]}

CacheSound ==
  /\ cache \in Seq(Items) /\ DistinctKeys(cache)
  /\ bytes = Bytes(cache) /\ bytes <= MaxBytes

Lookups == [pc : {"lookup"}, tenant : Tenants, keep : 1..MaxCacheTTL, ttl : 0..MaxCaptureTTL, body : Bodies]

\* A request that will store its answer has the key of its own tenant.
Dispatches ==
  {q \in [pc : {"dispatch"}, tenant : Tenants, keep : 0..MaxCacheTTL, ttl : 0..MaxCaptureTTL,
          key : CacheKeys \cup {<<>>}] : q.keep > 0 => q.key \in CacheKeys /\ q.key[1] = q.tenant}

Answers == [pc : {"answered"}, tenant : Tenants, ttl : 0..MaxCaptureTTL]

Stages == {Idle} \cup Lookups \cup Dispatches \cup Answers

Typed ==
  /\ status \in [Tenants -> {"active", "suspended", "deleted"}]
  /\ policy \in [Tenants -> Policies \cup {NoPolicy}]
  /\ live \subseteq Keys
  /\ request \in [Requests -> Stages]
  /\ flushes \in [Tenants -> {<<"cache", "captures">>, <<"captures">>, <<>>}]
  /\ sinceSweep \in 0..SweepEvery

Entries == [age : Nat, ttl : 0..MaxCaptureTTL]

\* A bucket is in the order of arrival, so that behind a live entry none is older than
\* the longest time to live, but for the time since the last sweep.
Bucket(b, since) ==
  /\ b \in Seq(Entries) /\ Len(b) <= MaxCaptures
  /\ \A i, j \in 1..Len(b) : i < j => b[j].age <= b[i].age
  /\ \A i \in 1..Len(b) : b[i].age < MaxCaptureTTL + since

CapturesSound ==
  /\ captures \in [Tenants -> Seq(Entries)]
  /\ \A t \in Tenants : Bucket(captures[t], sinceSweep)

Serves(c, t) == \E i \in 1..Len(c) : c[i].tenant = t

\* Once its answers are flushed, a deleted tenant that had no request in flight has
\* none again, and no answer; once its captures are flushed too, no capture.
Cleared(t) ==
  /\ \A r \in Requests : request[r] # Idle => request[r].tenant # t
  /\ ~Serves(cache, t)
  /\ flushes[t] = <<>> => captures[t] = <<>>

DeletionSound ==
  /\ \A t \in Tenants : flushes[t] # <<>> => status[t] = "deleted"
  /\ \A t \in Tenants : status[t] = "deleted" /\ t \notin overlapped /\ flushes[t] # <<"cache", "captures">> =>
       Cleared(t)

IInv == Typed /\ CacheSound /\ CapturesSound /\ DeletionSound

-----------------------------------------------------------------------------
(* What the cache's operations keep *)

LEMMA Greatest ==
  ASSUME NEW N \in Nat, NEW K, K \subseteq 0..N, K # {}
  PROVE  Max(K) \in K /\ \A k \in K : k <= Max(K)
<1> DEFINE L == {n \in 0..N : N - n \in K}
<1>1. \E n : n \in L
  <2>1. PICK k \in K : k \in 0..N
    BY Zenon
  <2>2. N - k \in 0..N /\ N - (N - k) = k
    BY <2>1
  <2> QED BY <2>1, <2>2, Zenon
<1>2. PICK n \in L : \A m \in L : n <= m
  <2>1. L \subseteq Nat
    OBVIOUS
  <2> HIDE DEF L
  <2> QED BY <1>1, <2>1, Least, Zenon
<1>3. N - n \in K /\ n \in 0..N
  BY <1>2, Zenon
<1>4. ASSUME NEW k \in K PROVE k <= N - n
  <2>1. k \in 0..N /\ N - k \in 0..N /\ N - (N - k) = k
    OBVIOUS
  <2>2. N - k \in L
    BY <2>1, Zenon
  <2>3. n <= N - k
    BY <1>2, <2>2, Zenon
  <2> QED BY <1>3, <2>1, <2>3
<1>5. \E m \in K : \A k \in K : m >= k
  BY <1>3, <1>4, Zenon
<1>6. Max(K) = CHOOSE m \in K : \A k \in K : m >= k
  BY Zenon DEF Max
<1>7. Max(K) \in K /\ \A k \in K : Max(K) >= k
  BY <1>5, <1>6, Zenon
<1> QED BY <1>7, Zenon

LEMMA ListBytes ==
  ASSUME NEW S, \A x \in S : x.size \in Nat, NEW c \in Seq(S)
  PROVE  Sized(c) /\ Bytes(c) \in Nat
<1>1. Len(c) \in Nat /\ \A i \in 1..Len(c) : c[i] \in S
  OBVIOUS
<1>2. Sized(c)
  BY <1>1, Zenon DEF Sized
<1>3. BytesTo(c) \in [0..Len(c) -> Nat] /\ Bytes(c) = BytesTo(c)[Len(c)]
  BY <1>2, Sums, Zenon
<1>4. Len(c) \in 0..Len(c)
  BY <1>1
<1> QED BY <1>2, <1>3, <1>4, Zenon

\* Eviction leaves the most recently used items, as many as the bound has room for.
LEMMA EvictedKeeps ==
  ASSUME NEW S, \A x \in S : x.size \in Nat, NEW c \in Seq(S), TenancySettings
  PROVE  /\ Evicted(c, Bytes(c)) \in Seq(S) /\ Len(Evicted(c, Bytes(c))) <= Len(c)
         /\ \A i \in 1..Len(Evicted(c, Bytes(c))) : i \in 1..Len(c) /\ Evicted(c, Bytes(c))[i] = c[i]
         /\ Bytes(Evicted(c, Bytes(c))) <= MaxBytes
<1> DEFINE n == Bytes(c)
<1> DEFINE fits == {k \in 0..Len(c) : n - (Bytes(c) - BytesTo(c)[k]) <= MaxBytes}
<1>1. Sized(c) /\ n \in Nat /\ Len(c) \in Nat /\ MaxBytes \in Nat
  <2>1. Len(c) \in Nat
    OBVIOUS
  <2> QED BY <2>1, ListBytes, Zenon DEF TenancySettings
<1>2. BytesTo(c) \in [0..Len(c) -> Nat] /\ BytesTo(c)[0] = 0
  BY <1>1, Sums, Zenon
<1>3. 0 \in fits
  <2>1. 0 \in 0..Len(c) /\ n - (n - 0) <= MaxBytes
    BY <1>1
  <2> QED BY <1>2, <2>1, Zenon
<1>4. PICK k : k = Max(fits) /\ k \in fits
  <2>1. fits \subseteq 0..Len(c) /\ fits # {}
    BY <1>3, Zenon
  <2> HIDE DEF fits
  <2> QED BY <1>1, <2>1, Greatest, Zenon
<1>5. k \in 0..Len(c) /\ n - (n - BytesTo(c)[k]) <= MaxBytes
  BY <1>4, Zenon
<1>6. PICK d : d = SubSeq(c, 1, k)
  BY Zenon
<1>7. Evicted(c, n) = d
  BY <1>3, <1>4, <1>6, Zenon DEF Evicted
<1>8. /\ d \in Seq(S) /\ Len(d) = k /\ k <= Len(c)
      /\ \A i \in 1..k : i \in 1..Len(c) /\ d[i] = c[i]
  BY <1>5, <1>6
<1>9. Bytes(d) = BytesTo(c)[k]
  BY <1>1, <1>5, <1>8, FirstBytes, Zenon
<1>10. BytesTo(c)[k] \in Nat
  BY <1>2, <1>5, Zenon
<1>11. BytesTo(c)[k] <= MaxBytes
  BY <1>1, <1>5, <1>10
<1> QED BY <1>7, <1>8, <1>9, <1>11, Zenon

\* One position is picked alone.
LEMMA PickedOne ==
  ASSUME NEW S, NEW s \in Seq(S), NEW k \in 1..Len(s)
  PROVE  Picked(s, {k}) = <<s[k]>>
<1>1. PICK f : Keeps(f, s, {k}, S)
  BY PickedSteps, Zenon
<1>2. PICK N : N = Len(s) /\ N \in Nat /\ k \in 1..N
  OBVIOUS
<1>3. /\ f[0] = <<>> /\ f[N] = Picked(s, {k})
      /\ \A i \in 1..N : f[i] = IF i \in {k} THEN Append(f[i - 1], s[i]) ELSE f[i - 1]
  BY <1>1, <1>2, Zenon DEF Keeps
<1> DEFINE P(n) == (n < k /\ f[n] = <<>>) \/ (k <= n /\ f[n] = <<s[k]>>)
<1> DEFINE T == {n \in 0..N : P(n)}
<1>4. 0 \in T
  <2>1. 0 \in 0..N /\ 0 < k
    BY <1>2
  <2> QED BY <1>3, <2>1, Zenon
<1>5. ASSUME NEW n \in 0..(N - 1), n \in T PROVE n + 1 \in T
  <2>1. n + 1 \in 1..N /\ n + 1 \in 0..N /\ (n + 1) - 1 = n
    BY <1>2
  <2>2. f[n + 1] = IF n + 1 = k THEN Append(f[n], s[k]) ELSE f[n]
    BY <1>3, <2>1, Zenon
  <2>3. CASE n + 1 = k
    <3>1. n < k /\ ~(k <= n) /\ k <= n + 1
      BY <1>2, <2>3
    <3>2. f[n + 1] = Append(<<>>, s[k])
      BY <1>5, <2>2, <2>3, <3>1, Zenon
    <3>3. Append(<<>>, s[k]) = <<s[k]>>
      OBVIOUS
    <3> QED BY <2>1, <3>1, <3>2, <3>3, Zenon
  <2>4. CASE n + 1 # k
    <3>1. (n < k => n + 1 < k) /\ (k <= n => k <= n + 1)
      BY <1>2, <2>4
    <3> QED BY <1>5, <2>1, <2>2, <2>4, <3>1, Zenon
  <2> QED BY <2>3, <2>4, Zenon
<1>6. 0..N \subseteq T
  <2> HIDE DEF T
  <2> QED BY <1>2, <1>4, <1>5, UpTo, Zenon
<1>7. N \in 0..N /\ ~(N < k)
  BY <1>2
<1> QED BY <1>3, <1>6, <1>7, Zenon

LEMMA OneByte ==
  ASSUME NEW S, \A x \in S : x.size \in Nat, NEW x \in S
  PROVE  Bytes(<<x>>) = x.size
<1>0. <<>> \in Seq(S) /\ Len(<<>>) = 0 /\ Append(<<>>, x) = <<x>>
  OBVIOUS
<1>1. PICK e \in Seq(S) : e = <<>> /\ Len(e) = 0 /\ Append(e, x) = <<x>>
  BY <1>0, Zenon
<1>2. Sized(e)
  BY <1>1, ListBytes, Zenon
<1>3. Bytes(e) = 0
  BY <1>1, <1>2, Sums, Zenon
<1>4. Bytes(<<x>>) = Bytes(e) + x.size
  BY <1>1, <1>2, AppendBytes, Zenon
<1>5. x.size \in Nat
  BY Zenon
<1> QED BY <1>3, <1>4, <1>5

\* An item in front of those with other keys.
Fronted(d, x, c, S) ==
  /\ d \in Seq(S) /\ DistinctKeys(d) /\ Bytes(d) = Bytes(c) + x.size
  /\ \A i \in 1..Len(d) : d[i] = x \/ \E j \in 1..Len(c) : d[i] = c[j]

LEMMA InFront ==
  ASSUME NEW S, \A x \in S : x.size \in Nat, NEW c \in Seq(S), DistinctKeys(c), NEW x \in S,
         \A i \in 1..Len(c) : c[i].key # x.key
  PROVE  Fronted(<<x>> \o c, x, c, S)
<1>1. PICK d : d = <<x>> \o c
  BY Zenon
<1>2. d \in Seq(S) /\ Len(d) = Len(c) + 1 /\ d[1] = x /\ Len(c) \in Nat
  BY <1>1
<1>3. \A i \in 1..Len(d) : (i = 1 /\ d[i] = x) \/ (i # 1 /\ i - 1 \in 1..Len(c) /\ d[i] = c[i - 1])
  BY <1>1
<1>4. \A i, j \in 1..Len(d) : i # j => i - 1 # j - 1
  BY <1>2
<1>5. DistinctKeys(d)
  <2> SUFFICES ASSUME NEW i \in 1..Len(d), NEW j \in 1..Len(d), i # j PROVE d[i].key # d[j].key
    BY Zenon DEF DistinctKeys
  <2>1. CASE i = 1
    BY <1>3, <2>1, Zenon
  <2>2. CASE j = 1
    BY <1>3, <2>2, Zenon
  <2>3. CASE i # 1 /\ j # 1
    <3>1. /\ i - 1 \in 1..Len(c) /\ d[i] = c[i - 1]
          /\ j - 1 \in 1..Len(c) /\ d[j] = c[j - 1] /\ i - 1 # j - 1
      BY <1>3, <1>4, <2>3, Zenon
    <3>2. PICK m \in 1..Len(c), n \in 1..Len(c) : d[i] = c[m] /\ d[j] = c[n] /\ m # n
      BY <3>1, Zenon
    <3> QED BY <3>2, Zenon DEF DistinctKeys
  <2> QED BY <2>1, <2>2, <2>3, Zenon
<1>6. Bytes(d) = Bytes(c) + x.size
  <2>1. Sized(c) /\ x.size \in Nat
    BY ListBytes, Zenon
  <2> QED BY <1>1, <2>1, FrontBytes, Zenon
<1>7. \A i \in 1..Len(d) : d[i] = x \/ \E j \in 1..Len(c) : d[i] = c[j]
  BY <1>3, Zenon
<1> QED BY <1>1, <1>2, <1>5, <1>6, <1>7, Zenon DEF Fronted

LEMMA ItemsSized ==
  ASSUME TenancySettings
  PROVE  \A x \in Items : x.size \in Nat
<1>1. Sizes \subseteq Nat
  BY Zenon DEF TenancySettings
<1>2. \A x \in Items : x.size \in Sizes
  BY Zenon DEF Items
<1> QED BY <1>1, <1>2, Zenon

\* An answer is stored: the item it replaces goes, then the least recently used.
LEMMA PutSound ==
  ASSUME TenancySettings, CacheSound, NEW t \in Tenants, NEW key \in CacheKeys, key[1] = t,
         NEW by, by = key[2], NEW size \in Sizes, NEW ttl \in 0..MaxCacheTTL, Put(t, key, by, size, ttl)
  PROVE  CacheSound' /\ \A u : u # t /\ ~Serves(cache, u) => ~Serves(cache', u)
<1>1. CASE size > MaxEntryBytes
  <2>1. UNCHANGED <<cache, bytes>>
    BY <1>1, Zenon DEF Put
  <2> QED BY <2>1, Zenon DEF CacheSound
<1>2. CASE ~(size > MaxEntryBytes)
  <2>1. PICK it : it = [key |-> key, tenant |-> t, by |-> by, size |-> size, left |-> ttl]
    BY Zenon
  <2> DEFINE at == Held(cache, key)
  <2>2. PICK others : others = Picked(cache, DOMAIN cache \ at)
    BY Zenon
  <2>3. PICK full : full = <<it>> \o others
    BY Zenon
  <2>4. PICK before : before = bytes - Bytes(Picked(cache, at)) + size
    BY Zenon
  <2>5. cache' = Evicted(full, before) /\ bytes' = before - (Bytes(full) - Bytes(cache'))
    BY <1>2, <2>1, <2>2, <2>3, <2>4, Zenon DEF Put
  <2>6. \A x \in Items : x.size \in Nat
    BY ItemsSized, Zenon
  <2>7. cache \in Seq(Items) /\ DistinctKeys(cache) /\ bytes = Bytes(cache)
    BY Zenon DEF CacheSound
  <2>8. /\ others \in Seq(Items) /\ DistinctKeys(others)
        /\ \A j \in 1..Len(others) : \E i \in 1..Len(cache) : i \in DOMAIN cache \ at /\ others[j] = cache[i]
    <3>1. DistinctKeys(others)
      BY <2>2, <2>7, PickedDistinct, Zenon
    <3>2. Drawn(others, cache, DOMAIN cache \ at, Items)
      BY <2>2, <2>7, PickedElements, Zenon
    <3> QED BY <3>1, <3>2, Zenon DEF Drawn
  <2>9. \A j \in 1..Len(others) : others[j].key # key
    BY <2>8, Zenon DEF Held
  <2>10. it \in Items /\ it.key = key /\ it.size = size /\ it.tenant = t
    <3>1. by \in Models
      BY Zenon DEF CacheKeys
    <3> QED BY <2>1, <3>1, Zenon DEF Items
  <2>11. /\ full \in Seq(Items) /\ DistinctKeys(full) /\ Bytes(full) = Bytes(others) + size
         /\ \A i \in 1..Len(full) : full[i] = it \/ \E j \in 1..Len(others) : full[i] = others[j]
    <3>1. \A j \in 1..Len(others) : others[j].key # it.key
      BY <2>9, <2>10, Zenon
    <3>2. Fronted(full, it, others, Items)
      BY <2>3, <2>6, <2>8, <2>10, <3>1, InFront, Zenon
    <3> QED BY <2>10, <3>2, Zenon DEF Fronted
  <2>12. before = Bytes(full)
    <3>1. Bytes(Picked(cache, at)) + Bytes(others) = Bytes(cache)
      BY <2>2, <2>6, <2>7, PickedBytes, Zenon
    <3>2. Picked(cache, at) \in Seq(Items)
      BY <2>7, PickedElements, Zenon DEF Drawn
    <3>3. Bytes(Picked(cache, at)) \in Nat /\ Bytes(others) \in Nat /\ Bytes(cache) \in Nat /\ size \in Nat
      BY <2>6, <2>7, <2>8, <2>10, <3>2, ListBytes, Zenon
    <3> QED BY <2>4, <2>7, <2>11, <3>1, <3>3
  <2>13. /\ cache' \in Seq(Items) /\ Bytes(cache') <= MaxBytes
         /\ \A i \in 1..Len(cache') : i \in 1..Len(full) /\ cache'[i] = full[i]
    BY <2>5, <2>6, <2>11, <2>12, EvictedKeeps, Zenon
  <2>14. DistinctKeys(cache')
    BY <2>11, <2>13, Zenon DEF DistinctKeys
  <2>15. bytes' = Bytes(cache')
    <3>1. Bytes(full) \in Nat /\ Bytes(cache') \in Nat
      BY <2>6, <2>11, <2>13, ListBytes, Zenon
    <3> QED BY <2>5, <2>12, <3>1
  <2>16. \A u : u # t /\ ~Serves(cache, u) => ~Serves(cache', u)
    <3> SUFFICES ASSUME NEW u, u # t, Serves(cache', u) PROVE Serves(cache, u)
      BY Zenon
    <3>1. PICK i \in 1..Len(cache') : cache'[i].tenant = u
      BY Zenon DEF Serves
    <3>2. i \in 1..Len(full) /\ full[i].tenant = u
      BY <2>13, <3>1, Zenon
    <3>3. PICK j \in 1..Len(others) : others[j].tenant = u
      BY <2>10, <2>11, <3>2, Zenon
    <3> QED BY <2>8, <3>3, Zenon DEF Serves
  <2>17. CacheSound'
    BY <2>13, <2>14, <2>15, Zenon DEF CacheSound
  <2> QED BY <2>16, <2>17, Zenon
<1> QED BY <1>1, <1>2, Zenon

LEMMA FlushSound ==
  ASSUME TenancySettings, CacheSound, NEW t, Flush(t)
  PROVE  CacheSound' /\ ~Serves(cache', t) /\ \A u : ~Serves(cache, u) => ~Serves(cache', u)
<1> DEFINE K == {i \in DOMAIN cache : cache[i].tenant # t}
<1>1. cache' = Picked(cache, K) /\ bytes' = bytes - (Bytes(cache) - Bytes(cache'))
  BY Zenon DEF Flush
<1>2. \A x \in Items : x.size \in Nat
  BY ItemsSized, Zenon
<1>3. cache \in Seq(Items) /\ DistinctKeys(cache) /\ bytes = Bytes(cache) /\ bytes <= MaxBytes
  BY Zenon DEF CacheSound
<1>4. /\ cache' \in Seq(Items) /\ DistinctKeys(cache')
      /\ \A j \in 1..Len(cache') : \E i \in 1..Len(cache) : i \in K /\ cache'[j] = cache[i]
  <2>1. DistinctKeys(cache')
    BY <1>1, <1>3, PickedDistinct, Zenon
  <2>2. Drawn(cache', cache, K, Items)
    BY <1>1, <1>3, PickedElements, Zenon
  <2> QED BY <2>1, <2>2, Zenon DEF Drawn
<1>5. Bytes(cache') + Bytes(Picked(cache, DOMAIN cache \ K)) = Bytes(cache)
  BY <1>1, <1>2, <1>3, PickedBytes, Zenon
<1>6. Picked(cache, DOMAIN cache \ K) \in Seq(Items)
  BY <1>3, PickedElements, Zenon DEF Drawn
<1>7. Bytes(cache') \in Nat /\ Bytes(cache) \in Nat /\ Bytes(Picked(cache, DOMAIN cache \ K)) \in Nat /\ MaxBytes \in Nat
  BY <1>2, <1>3, <1>4, <1>6, ListBytes, Zenon DEF TenancySettings
<1>8. bytes' = Bytes(cache') /\ bytes' <= MaxBytes
  <2>1. PICK a \in Nat, b \in Nat, n \in Nat :
          /\ a = Bytes(cache') /\ b = Bytes(Picked(cache, DOMAIN cache \ K)) /\ n = Bytes(cache)
    BY <1>7, Zenon
  <2>2. a + b = n /\ bytes' = n - (n - a) /\ n <= MaxBytes
    BY <1>1, <1>3, <1>5, <2>1, Zenon
  <2>3. bytes' = a /\ a <= MaxBytes
    BY <1>7, <2>2
  <2> QED BY <2>1, <2>3, Zenon
<1>9. CacheSound'
  BY <1>4, <1>8, Zenon DEF CacheSound
<1>10. ~Serves(cache', t) /\ \A u : ~Serves(cache, u) => ~Serves(cache', u)
  BY <1>4, Zenon DEF Serves
<1> QED BY <1>9, <1>10, Zenon

\* A live item is replayed and goes to the front, an expired one is dropped.
LEMMA GetSound ==
  ASSUME TenancySettings, CacheSound, NEW key,
         NEW others, others = Picked(cache, DOMAIN cache \ Held(cache, key)),
         \/ /\ \E i \in Held(cache, key) : cache[i].left > 0
            /\ cache' = <<ItemOf(cache, key)>> \o others /\ bytes' = bytes
         \/ cache' = others /\ bytes' = bytes - Bytes(Picked(cache, Held(cache, key)))
  PROVE  CacheSound' /\ \A u : ~Serves(cache, u) => ~Serves(cache', u)
<1> DEFINE at == Held(cache, key)
<1>1. \A x \in Items : x.size \in Nat
  BY ItemsSized, Zenon
<1>2. cache \in Seq(Items) /\ DistinctKeys(cache) /\ bytes = Bytes(cache) /\ bytes <= MaxBytes
  BY Zenon DEF CacheSound
<1>3. DistinctKeys(others)
  BY <1>2, PickedDistinct, Zenon
<1>4. /\ others \in Seq(Items)
      /\ \A j \in 1..Len(others) : \E i \in 1..Len(cache) : i \in DOMAIN cache \ at /\ others[j] = cache[i]
  <2>1. Drawn(others, cache, DOMAIN cache \ at, Items)
    BY <1>2, PickedElements, Zenon
  <2> QED BY <2>1, Zenon DEF Drawn
<1>5. PICK a \in Nat, b \in Nat, n \in Nat : a = Bytes(Picked(cache, at)) /\ b = Bytes(others) /\ n = Bytes(cache)
  <2>1. Picked(cache, at) \in Seq(Items)
    BY <1>2, PickedElements, Zenon DEF Drawn
  <2>2. Bytes(Picked(cache, at)) \in Nat /\ Bytes(others) \in Nat /\ Bytes(cache) \in Nat
    BY <1>1, <1>2, <1>4, <2>1, ListBytes, Zenon
  <2> QED BY <2>2, Zenon
<1>6. a + b = n
  BY <1>1, <1>2, <1>5, PickedBytes, Zenon
<1>7. MaxBytes \in Nat
  BY Zenon DEF TenancySettings
<1>8. CASE /\ \E i \in at : cache[i].left > 0
           /\ cache' = <<ItemOf(cache, key)>> \o others /\ bytes' = bytes
  <2>1. PICK k : k = (CHOOSE i \in at : TRUE) /\ k \in at
    BY <1>8, Zenon
  <2>2. DOMAIN cache = 1..Len(cache)
    BY <1>2
  <2>3. k \in 1..Len(cache) /\ cache[k].key = key
    BY <2>1, <2>2, Zenon DEF Held
  <2>4. at = {k}
    BY <1>2, <2>1, <2>2, <2>3, Zenon DEF Held, DistinctKeys
  <2>5. PICK it \in Items : it = cache[k]
    <3>1. cache[k] \in Items
      BY <1>2, <2>3
    <3> QED BY <3>1, Zenon
  <2>6. a = it.size
    <3>1. Picked(cache, {k}) = <<it>>
      BY <1>2, <2>3, <2>5, PickedOne, Zenon
    <3>2. Bytes(<<it>>) = it.size
      BY <1>1, OneByte, Zenon
    <3> QED BY <1>5, <2>4, <3>1, <3>2, Zenon
  <2>7. \A j \in 1..Len(others) : others[j].key # it.key
    BY <1>4, <2>3, <2>5, Zenon DEF Held
  <2>8. cache' = <<it>> \o others
    BY <1>8, <2>1, <2>5, Zenon DEF ItemOf
  <2>9. Fronted(cache', it, others, Items)
    BY <1>1, <1>3, <1>4, <2>7, <2>8, InFront, Zenon
  <2>10. Bytes(cache') = b + a
    BY <1>5, <2>6, <2>9, Zenon DEF Fronted
  <2>11. bytes' = n /\ b + a = n
    BY <1>2, <1>5, <1>6, <1>8
  <2>12. CacheSound'
    BY <1>2, <1>5, <2>9, <2>10, <2>11, Zenon DEF Fronted, CacheSound
  <2>13. ASSUME NEW u, Serves(cache', u) PROVE Serves(cache, u)
    <3>1. PICK i \in 1..Len(cache') : cache'[i].tenant = u
      BY <2>13, Zenon DEF Serves
    <3>2. it.tenant = u \/ \E j \in 1..Len(others) : others[j].tenant = u
      BY <2>9, <3>1, Zenon DEF Fronted
    <3>3. CASE it.tenant = u
      BY <2>3, <2>5, <3>3, Zenon DEF Serves
    <3>4. CASE \E j \in 1..Len(others) : others[j].tenant = u
      BY <1>4, <3>4, Zenon DEF Serves
    <3> QED BY <3>2, <3>3, <3>4, Zenon
  <2> QED BY <2>12, <2>13, Zenon
<1>9. CASE cache' = others /\ bytes' = bytes - Bytes(Picked(cache, at))
  <2>1. bytes' = n - a /\ n <= MaxBytes
    BY <1>2, <1>5, <1>9, Zenon
  <2>2. bytes' = b /\ b <= MaxBytes
    BY <1>6, <1>7, <2>1
  <2>3. CacheSound'
    BY <1>3, <1>4, <1>5, <1>9, <2>2, Zenon DEF CacheSound
  <2>4. \A u : ~Serves(cache, u) => ~Serves(cache', u)
    BY <1>4, <1>9, Zenon DEF Serves
  <2> QED BY <2>3, <2>4, Zenon
<1> QED BY <1>8, <1>9, Zenon

\* Time passing changes what is left of the items, and nothing else of them.
LEMMA AgeSound ==
  ASSUME TenancySettings, CacheSound, UNCHANGED bytes,
         cache' = [i \in DOMAIN cache |-> [cache[i] EXCEPT !.left = IF @ = 0 THEN 0 ELSE @ - 1]]
  PROVE  CacheSound' /\ \A u : ~Serves(cache, u) => ~Serves(cache', u)
<1>1. cache \in Seq(Items) /\ DistinctKeys(cache) /\ bytes = Bytes(cache) /\ bytes <= MaxBytes
  BY Zenon DEF CacheSound
<1>2. Len(cache) \in Nat /\ DOMAIN cache = 1..Len(cache) /\ \A i \in 1..Len(cache) : cache[i] \in Items
  BY <1>1
<1>3. MaxCacheTTL \in Nat
  BY Zenon DEF TenancySettings
<1>4. ASSUME NEW i \in 1..Len(cache)
      PROVE  /\ cache'[i] \in Items /\ cache'[i].key = cache[i].key /\ cache'[i].size = cache[i].size
             /\ cache'[i].tenant = cache[i].tenant
  <2>1. PICK x \in Items : x = cache[i]
    BY <1>2, Zenon
  <2>2. PICK n : n = (IF x.left = 0 THEN 0 ELSE x.left - 1) /\ n \in 0..MaxCacheTTL
    <3>1. x.left \in 0..MaxCacheTTL
      BY Zenon DEF Items
    <3>2. PICK l : l = x.left /\ l \in 0..MaxCacheTTL
      BY <3>1, Zenon
    <3>3. (IF l = 0 THEN 0 ELSE l - 1) \in 0..MaxCacheTTL
      BY SMTT(30), <1>3, <3>2
    <3> QED BY <3>2, <3>3, Zenon
  <2>3. cache'[i] = [x EXCEPT !.left = n]
    BY <1>2, <2>1, <2>2, Zenon
  <2>4. /\ [x EXCEPT !.left = n] \in Items /\ [x EXCEPT !.left = n].key = x.key
        /\ [x EXCEPT !.left = n].size = x.size /\ [x EXCEPT !.left = n].tenant = x.tenant
    BY <2>2, Zenon DEF Items
  <2> QED BY <2>1, <2>3, <2>4, Zenon
<1>5. cache' \in Seq(Items) /\ Len(cache') = Len(cache)
  <2>1. cache' \in [1..Len(cache) -> Items]
    <3>1. cache' = [i \in 1..Len(cache) |-> cache'[i]]
      BY <1>2, Zenon
    <3> QED BY <1>4, <3>1, Zenon
  <2> QED BY <1>2, <2>1
<1>6. DistinctKeys(cache')
  <2>1. PICK d : d = cache' /\ \A i \in 1..Len(d) : i \in 1..Len(cache) /\ d[i].key = cache[i].key
    BY <1>4, <1>5, Zenon
  <2>2. ASSUME NEW i \in 1..Len(d), NEW j \in 1..Len(d), i # j PROVE d[i].key # d[j].key
    <3>1. cache[i].key # cache[j].key
      BY <1>1, <2>1, <2>2, Zenon DEF DistinctKeys
    <3> QED BY <2>1, <3>1, Zenon
  <2>3. DistinctKeys(d)
    BY <2>2, Zenon DEF DistinctKeys
  <2> QED BY <2>1, <2>3, Zenon
<1>7. Bytes(cache') = Bytes(cache)
  <2>1. Sized(cache)
    BY <1>1, ItemsSized, ListBytes, Zenon
  <2>2. Len(cache) \in 0..Len(cache)
    BY <1>2
  <2>3. Bytes(cache') = BytesTo(cache)[Len(cache)]
    <3>1. PICK d : d = cache' /\ Len(d) = Len(cache)
      BY <1>5, Zenon
    <3>2. Len(d) \in 0..Len(cache) /\ \A i \in 1..Len(d) : d[i].size = cache[i].size
      BY <1>4, <2>2, <3>1, Zenon
    <3>3. Bytes(d) = BytesTo(cache)[Len(d)]
      BY <2>1, <3>2, FirstBytes, Zenon
    <3> QED BY <3>1, <3>3, Zenon
  <2> QED BY <2>3, Zenon DEF Bytes
<1>8. CacheSound'
  BY <1>1, <1>5, <1>6, <1>7, Zenon DEF CacheSound
<1>9. \A u : ~Serves(cache, u) => ~Serves(cache', u)
  BY <1>4, <1>5, Zenon DEF Serves
<1> QED BY <1>8, <1>9, Zenon

-----------------------------------------------------------------------------
(* What the captures' operations keep *)

LEMMA TTLs ==
  ASSUME TenancySettings, NEW asked \in Int
  PROVE  CaptureTTL(asked) \in 0..MaxCaptureTTL /\ CacheTTL(asked) \in 0..MaxCacheTTL
BY DEF TenancySettings, CaptureTTL, CacheTTL, EffectiveTTL

LEMMA Plans ==
  ASSUME TenancySettings, NEW asked \in Int, NEW header, NEW eligible \in BOOLEAN
  PROVE  PlanCache(asked, header, eligible) \in 0..MaxCacheTTL
<1>1. 0 \in 0..MaxCacheTTL
  BY DEF TenancySettings
<1>2. CacheTTL(asked) \in 0..MaxCacheTTL
  BY TTLs, Zenon
<1> QED BY <1>1, <1>2, Zenon DEF PlanCache

LEMMA SmallestIsIn ==
  ASSUME NEW K, K \subseteq Nat, K # {}
  PROVE  Min(K) \in K
<1>1. \E m \in K : \A k \in K : m <= k
  BY Least, Zenon
<1> QED BY <1>1, Zenon DEF Min

LEMMA EntryFields == \A x \in Entries : x.age \in Nat /\ x.ttl \in 0..MaxCaptureTTL
BY Zenon DEF Entries

\* What is left begins with a live entry, and no entry behind it is older.
LEMMA ExpiredBucket ==
  ASSUME TenancySettings, NEW b, NEW since \in Nat, Bucket(b, since)
  PROVE  Bucket(Expired(b), 0)
<1> DEFINE alive == {i \in DOMAIN b : b[i].age < b[i].ttl}
<1>1. /\ b \in Seq(Entries) /\ Len(b) <= MaxCaptures
      /\ \A i, j \in 1..Len(b) : i < j => b[j].age <= b[i].age
  BY Zenon DEF Bucket
<1>2. Len(b) \in Nat /\ DOMAIN b = 1..Len(b) /\ \A i \in 1..Len(b) : b[i].age \in Nat /\ b[i].ttl \in 0..MaxCaptureTTL
  <2>1. Len(b) \in Nat /\ DOMAIN b = 1..Len(b) /\ \A i \in 1..Len(b) : b[i] \in Entries
    BY <1>1
  <2> QED BY <2>1, EntryFields, Zenon
<1>3. MaxCaptureTTL \in Nat /\ MaxCaptures \in Nat
  BY Zenon DEF TenancySettings
<1>4. CASE alive = {}
  <2>1. Expired(b) = <<>>
    BY <1>4, Zenon DEF Expired
  <2>2. Bucket(<<>>, 0)
    BY <1>3 DEF Bucket
  <2> QED BY <2>1, <2>2, Zenon
<1>5. CASE alive # {}
  <2>1. PICK k : k = Min(alive) /\ k \in alive
    <3>1. alive \subseteq Nat
      BY <1>2
    <3> HIDE DEF alive
    <3> QED BY <1>5, <3>1, SmallestIsIn, Zenon
  <2>2. k \in 1..Len(b) /\ b[k].age < b[k].ttl
    BY <1>2, <2>1, Zenon
  <2>3. PICK d : d = SubSeq(b, k, Len(b))
    BY Zenon
  <2>4. Expired(b) = d
    BY <1>5, <2>1, <2>3, Zenon DEF Expired
  <2>5. /\ d \in Seq(Entries) /\ Len(d) = Len(b) - k + 1
        /\ \A i \in 1..Len(d) : k + i - 1 \in 1..Len(b) /\ d[i] = b[k + i - 1]
    <3>1. d \in Seq(Entries) /\ Len(d) = Len(b) - k + 1
      BY <1>1, <1>2, <2>2, <2>3
    <3>2. ASSUME NEW i \in 1..Len(d) PROVE k + i - 1 \in 1..Len(b) /\ d[i] = b[k + i - 1]
      BY <1>1, <1>2, <2>2, <2>3, <3>1
    <3> QED BY <3>1, <3>2, Zenon
  <2>6. Len(d) <= MaxCaptures
    BY <1>1, <1>2, <1>3, <2>2, <2>5
  <2>7. ASSUME NEW i \in 1..Len(d), NEW j \in 1..Len(d), i < j PROVE d[j].age <= d[i].age
    <3>1. k + i - 1 < k + j - 1
      BY <2>2, <2>7
    <3> QED BY <1>1, <2>5, <3>1, Zenon
  <2>8. ASSUME NEW i \in 1..Len(d) PROVE d[i].age < MaxCaptureTTL + 0
    <3>1. PICK p \in 1..Len(b) : p = k + i - 1 /\ d[i] = b[p] /\ (p = k \/ k < p)
      BY SMTT(30), <2>2, <2>5
    <3>2. b[p].age <= b[k].age
      <4>1. CASE p = k
        <5>1. b[k].age \in Nat
          BY <1>2, <2>2, Zenon
        <5> QED BY <4>1, <5>1
      <4>2. CASE k < p
        BY <1>1, <2>2, <4>2, Zenon
      <4> QED BY <3>1, <4>1, <4>2, Zenon
    <3>3. b[p].age \in Nat /\ b[k].age \in Nat /\ b[k].ttl \in 0..MaxCaptureTTL
      BY <1>2, <2>2, Zenon
    <3>4. b[p].age < MaxCaptureTTL + 0
      <4>1. PICK x, y, z : x = b[p].age /\ y = b[k].age /\ z = b[k].ttl
        BY Zenon
      <4>2. x \in Nat /\ y \in Nat /\ z \in 0..MaxCaptureTTL /\ x <= y /\ y < z
        BY <2>2, <3>2, <3>3, <4>1, Zenon
      <4>3. x < MaxCaptureTTL + 0
        BY <1>3, <4>2
      <4> QED BY <4>1, <4>3, Zenon
    <3> QED BY <3>1, <3>4, Zenon
  <2> QED BY <2>4, <2>5, <2>6, <2>7, <2>8, Zenon DEF Bucket
<1> QED BY <1>4, <1>5, Zenon

LEMMA CapturedBucket ==
  ASSUME TenancySettings, NEW b, NEW since \in Nat, Bucket(b, since), NEW ttl \in 0..MaxCaptureTTL
  PROVE  Bucket(Captured(b, ttl), since)
<1>1. PICK rest : rest = Expired(b) /\ Bucket(rest, 0)
  BY ExpiredBucket, Zenon
<1>2. /\ rest \in Seq(Entries) /\ Len(rest) <= MaxCaptures
      /\ \A i, j \in 1..Len(rest) : i < j => rest[j].age <= rest[i].age
      /\ \A i \in 1..Len(rest) : rest[i].age < MaxCaptureTTL + 0
  BY <1>1, Zenon DEF Bucket
<1>3. MaxCaptureTTL \in Nat \ {0} /\ MaxCaptures \in Nat \ {0}
  BY DEF TenancySettings
<1>4. PICK fits : fits = IF Len(rest) < MaxCaptures THEN rest ELSE Tail(rest)
  BY Zenon
<1>5. /\ fits \in Seq(Entries) /\ Len(fits) < MaxCaptures
      /\ \A i, j \in 1..Len(fits) : i < j => fits[j].age <= fits[i].age
      /\ \A i \in 1..Len(fits) : fits[i].age < MaxCaptureTTL + 0
  <2>1. CASE Len(rest) < MaxCaptures
    BY <1>2, <1>4, <2>1, Zenon
  <2>2. CASE ~(Len(rest) < MaxCaptures)
    <3>1. fits = Tail(rest) /\ rest # <<>>
      BY <1>2, <1>3, <1>4, <2>2
    <3>2. fits \in Seq(Entries) /\ Len(fits) = Len(rest) - 1 /\ Len(rest) \in Nat
      BY <1>2, <3>1
    <3>3. \A i \in 1..Len(fits) : i + 1 \in 1..Len(rest) /\ fits[i] = rest[i + 1]
      BY <1>2, <3>1, <3>2
    <3>4. Len(fits) < MaxCaptures
      BY <1>2, <1>3, <3>2
    <3>5. ASSUME NEW i \in 1..Len(fits), NEW j \in 1..Len(fits), i < j PROVE fits[j].age <= fits[i].age
      <4>1. i + 1 < j + 1
        BY <3>5
      <4> QED BY <1>2, <3>3, <4>1, Zenon
    <3> QED BY <1>2, <3>2, <3>3, <3>4, <3>5, Zenon
  <2> QED BY <2>1, <2>2, Zenon
<1>6. PICK x \in Entries : x = [age |-> 0, ttl |-> ttl] /\ x.age = 0
  <2>1. [age |-> 0, ttl |-> ttl] \in Entries /\ [age |-> 0, ttl |-> ttl].age = 0
    BY Zenon DEF Entries
  <2> QED BY <2>1, Zenon
<1>7. PICK d : d = Append(fits, x)
  BY Zenon
<1>8. Captured(b, ttl) = d
  BY <1>1, <1>4, <1>6, <1>7, Zenon DEF Captured
<1>9. /\ d \in Seq(Entries) /\ Len(d) = Len(fits) + 1 /\ Len(fits) \in Nat
      /\ \A i \in 1..Len(d) : (i = Len(d) /\ d[i] = x) \/ (i \in 1..Len(fits) /\ d[i] = fits[i])
  BY <1>5, <1>7
<1>10. Len(d) <= MaxCaptures
  BY <1>3, <1>5, <1>9
<1>11. \A i \in 1..Len(d) : d[i].age \in Nat
  <2>1. \A i \in 1..Len(d) : d[i] \in Entries
    BY <1>9
  <2> QED BY <2>1, EntryFields, Zenon
<1>12. ASSUME NEW i \in 1..Len(d), NEW j \in 1..Len(d), i < j PROVE d[j].age <= d[i].age
  <2>1. i \in 1..Len(fits) /\ d[i] = fits[i]
    <3>1. i # Len(d)
      BY <1>9, <1>12
    <3> QED BY <1>9, <3>1, Zenon
  <2>2. CASE d[j] = x
    BY <1>6, <1>11, <2>2
  <2>3. CASE j \in 1..Len(fits) /\ d[j] = fits[j]
    BY <1>5, <1>12, <2>1, <2>3, Zenon
  <2> QED BY <1>9, <2>2, <2>3, Zenon
<1>13. ASSUME NEW i \in 1..Len(d) PROVE d[i].age < MaxCaptureTTL + since
  <2>1. d[i].age < MaxCaptureTTL + 0
    <3>1. 0 < MaxCaptureTTL + 0
      BY <1>3
    <3> QED BY <1>5, <1>6, <1>9, <3>1, Zenon
  <2> QED BY <1>3, <1>11, <2>1
<1> QED BY <1>8, <1>9, <1>10, <1>12, <1>13, Zenon DEF Bucket

LEMMA AgedBucket ==
  ASSUME TenancySettings, NEW b, NEW since \in Nat, Bucket(b, since)
  PROVE  Bucket([i \in DOMAIN b |-> [b[i] EXCEPT !.age = @ + 1]], since + 1)
<1>1. PICK d : d = [i \in DOMAIN b |-> [b[i] EXCEPT !.age = @ + 1]]
  BY Zenon
<1>2. /\ b \in Seq(Entries) /\ Len(b) <= MaxCaptures
      /\ \A i, j \in 1..Len(b) : i < j => b[j].age <= b[i].age
      /\ \A i \in 1..Len(b) : b[i].age < MaxCaptureTTL + since
  BY Zenon DEF Bucket
<1>3. Len(b) \in Nat /\ DOMAIN b = 1..Len(b) /\ (\A i \in 1..Len(b) : b[i] \in Entries) /\ MaxCaptureTTL \in Nat
  BY <1>2 DEF TenancySettings
<1>4. ASSUME NEW i \in 1..Len(b)
      PROVE  d[i] \in Entries /\ d[i].age = b[i].age + 1 /\ b[i].age \in Nat
  <2>1. PICK x \in Entries : x = b[i]
    BY <1>3, Zenon
  <2>2. PICK a : a = x.age + 1 /\ x.age \in Nat /\ a \in Nat
    <3>1. x.age \in Nat
      BY EntryFields, Zenon
    <3>2. x.age + 1 \in Nat
      BY <3>1
    <3> QED BY <3>1, <3>2, Zenon
  <2>3. d[i] = [x EXCEPT !.age = a]
    BY <1>1, <1>3, <2>1, <2>2, Zenon
  <2>4. [x EXCEPT !.age = a] \in Entries /\ [x EXCEPT !.age = a].age = a
    BY <2>2, Zenon DEF Entries
  <2> QED BY <2>1, <2>2, <2>3, <2>4, Zenon
<1>5. d \in Seq(Entries) /\ Len(d) = Len(b)
  <2>1. d = [i \in 1..Len(b) |-> d[i]]
    BY <1>1, <1>3, Zenon
  <2>2. d \in [1..Len(b) -> Entries]
    BY <1>4, <2>1, Zenon
  <2> QED BY <1>3, <2>2
<1>6. ASSUME NEW i \in 1..Len(d), NEW j \in 1..Len(d), i < j PROVE d[j].age <= d[i].age
  <2>1. b[j].age <= b[i].age
    BY <1>2, <1>5, <1>6, Zenon
  <2>2. d[j].age = b[j].age + 1 /\ d[i].age = b[i].age + 1 /\ b[i].age \in Nat /\ b[j].age \in Nat
    BY <1>4, <1>5, Zenon
  <2>3. PICK x, y : x = b[i].age /\ y = b[j].age
    BY Zenon
  <2>4. x \in Nat /\ y \in Nat /\ y <= x
    BY <2>1, <2>2, <2>3, Zenon
  <2>5. y + 1 <= x + 1
    BY <2>4
  <2> QED BY <2>2, <2>3, <2>5, Zenon
<1>7. ASSUME NEW i \in 1..Len(d) PROVE d[i].age < MaxCaptureTTL + (since + 1)
  <2>1. d[i].age = b[i].age + 1 /\ b[i].age \in Nat /\ b[i].age < MaxCaptureTTL + since
    BY <1>2, <1>4, <1>5, Zenon
  <2> QED BY <1>3, <2>1
<1> QED BY <1>1, <1>2, <1>5, <1>6, <1>7, Zenon DEF Bucket

-----------------------------------------------------------------------------
(* Every step keeps the invariant *)

LEMMA StageOf ==
  ASSUME NEW q \in Stages
  PROVE  /\ q.pc = "lookup" => q \in Lookups
         /\ q.pc = "dispatch" => q \in Dispatches
         /\ q.pc = "answered" => q \in Answers
         /\ q = Idle <=> q.pc = "idle"
         /\ q # Idle => q.tenant \in Tenants
BY DEF Stages, Idle, Lookups, Dispatches, Answers

LEMMA StageSet ==
  ASSUME NEW r \in Requests, request \in [Requests -> Stages], NEW q \in Stages,
         request' = [request EXCEPT ![r] = q]
  PROVE  /\ request' \in [Requests -> Stages] /\ request'[r] = q
         /\ \A p \in Requests : p # r => request'[p] = request[p]
BY Zenon

\* A step that leaves tenants and their deletions alone.
LEMMA DeletionKept ==
  ASSUME DeletionSound, UNCHANGED <<status, flushes, overlapped>>,
         \A t \in Tenants : status[t] = "deleted" /\ Cleared(t) => Cleared(t)'
  PROVE  DeletionSound'
<1>1. \A t \in Tenants : flushes'[t] # <<>> => status'[t] = "deleted"
  BY Zenon DEF DeletionSound
<1>2. ASSUME NEW t \in Tenants, status'[t] = "deleted", t \notin overlapped', flushes'[t] # <<"cache", "captures">>
      PROVE  Cleared(t)'
  <2>1. status[t] = "deleted" /\ Cleared(t)
    BY <1>2, Zenon DEF DeletionSound
  <2> QED BY <2>1, Zenon
<1> QED BY <1>1, <1>2, Zenon DEF DeletionSound

LEMMA AuthenticateStep ==
  ASSUME TenancySettings, IInv, NEW r \in Requests, NEW k \in Keys, NEW b \in Bodies, Authenticate(r, k, b)
  PROVE  IInv'
<1>1. PICK t \in Tenants : t = Owner[k] /\ status[t] # "deleted"
  <2>1. Owner[k] \in Tenants
    BY Zenon DEF TenancySettings
  <2> QED BY <2>1, Zenon DEF Authenticate, ResolveKey
<1>2. policy[t].cache \in Int /\ policy[t].captures \in Int
  <2>1. policy[t] \in Policies \cup {NoPolicy}
    BY Zenon DEF IInv, Typed
  <2>2. NoPolicy.cache \in Int /\ NoPolicy.captures \in Int
    BY DEF NoPolicy, Off
  <2> QED BY <2>1, <2>2, Zenon DEF TenancySettings
<1>3. PICK header \in Headers, eligible \in BOOLEAN,
           ttl \in {0} \cup (IF policy[t].captures = Off THEN {} ELSE {CaptureTTL(policy[t].captures)}) :
        LET keep == PlanCache(policy[t].cache, header, eligible) IN
        request' = [request EXCEPT ![r] =
         IF keep > 0 THEN [pc |-> "lookup", tenant |-> t, keep |-> keep, ttl |-> ttl, body |-> b]
         ELSE [pc |-> "dispatch", tenant |-> t, keep |-> keep, ttl |-> ttl, key |-> <<>>]]
  BY <1>1, ZenonT(30) DEF Authenticate
<1> DEFINE keep == PlanCache(policy[t].cache, header, eligible)
<1>4. keep \in 0..MaxCacheTTL /\ ttl \in 0..MaxCaptureTTL
  <2>1. keep \in 0..MaxCacheTTL
    BY <1>2, Plans, Zenon
  <2>2. 0 \in 0..MaxCaptureTTL
    BY DEF TenancySettings
  <2>3. ttl \in 0..MaxCaptureTTL
    BY <1>2, <1>3, <2>2, TTLs, Zenon
  <2> QED BY <2>1, <2>3, Zenon
<1> HIDE DEF keep
<1>5. PICK q \in Stages : q.tenant = t /\ request' = [request EXCEPT ![r] = q]
  <2>1. CASE keep > 0
    <3>1. PICK q : q = [pc |-> "lookup", tenant |-> t, keep |-> keep, ttl |-> ttl, body |-> b]
      BY Zenon
    <3>2. keep \in 1..MaxCacheTTL
      BY <1>4, <2>1
    <3>3. q \in Lookups /\ q.tenant = t
      BY <1>4, <3>1, <3>2, Zenon DEF Lookups
    <3> QED BY <1>3, <2>1, <3>1, <3>3, Zenon DEF Stages, keep
  <2>2. CASE ~(keep > 0)
    <3>1. PICK q : q = [pc |-> "dispatch", tenant |-> t, keep |-> keep, ttl |-> ttl, key |-> <<>>]
      BY Zenon
    <3>2. q \in Dispatches /\ q.tenant = t
      BY <1>4, <2>2, <3>1, Zenon DEF Dispatches
    <3> QED BY <1>3, <2>2, <3>1, <3>2, Zenon DEF Stages, keep
  <2> QED BY <2>1, <2>2, Zenon
<1>6. /\ request' \in [Requests -> Stages] /\ request'[r] = q
      /\ \A p \in Requests : p # r => request'[p] = request[p]
  <2>1. request \in [Requests -> Stages]
    BY Zenon DEF IInv, Typed
  <2> QED BY <1>5, <2>1, StageSet, Zenon
<1>7. UNCHANGED <<status, policy, live, cache, bytes, captures, flushes, overlapped, sinceSweep>>
  BY Zenon DEF Authenticate
<1>8. Typed' /\ CacheSound' /\ CapturesSound'
  BY <1>6, <1>7, Zenon DEF IInv, Typed, CacheSound, CapturesSound
<1>9. ASSUME NEW u \in Tenants, status[u] = "deleted", Cleared(u) PROVE Cleared(u)'
  <2>1. \A p \in Requests : request'[p] # Idle => request'[p].tenant # u
    BY <1>1, <1>5, <1>6, <1>9, Zenon DEF Cleared
  <2> QED BY <1>7, <1>9, <2>1, Zenon DEF Cleared
<1>10. DeletionSound'
  BY <1>7, <1>9, DeletionKept, Zenon DEF IInv
<1> QED BY <1>8, <1>10, Zenon DEF IInv

\* A request that goes on, answered or not, works for the tenant it came from.
LEMMA RequestGoesOn ==
  ASSUME IInv, NEW r \in Requests, request[r] # Idle, NEW q \in Stages, q.tenant = request[r].tenant,
         request' = [request EXCEPT ![r] = q], CacheSound',
         \A u : u # request[r].tenant /\ ~Serves(cache, u) => ~Serves(cache', u),
         UNCHANGED <<status, policy, live, captures, flushes, overlapped, sinceSweep>>
  PROVE  IInv'
<1>1. /\ request' \in [Requests -> Stages] /\ request'[r] = q
      /\ \A p \in Requests : p # r => request'[p] = request[p]
  <2>1. request \in [Requests -> Stages]
    BY Zenon DEF IInv, Typed
  <2> QED BY <2>1, StageSet, Zenon
<1>2. Typed' /\ CapturesSound'
  BY <1>1, Zenon DEF IInv, Typed, CapturesSound
<1>3. ASSUME NEW u \in Tenants, status[u] = "deleted", Cleared(u) PROVE Cleared(u)'
  <2>1. u # request[r].tenant
    BY <1>3, Zenon DEF Cleared
  <2>2. \A p \in Requests : request'[p] # Idle => request'[p].tenant # u
    BY <1>1, <1>3, <2>1, Zenon DEF Cleared
  <2>3. ~Serves(cache', u)
    BY <1>3, <2>1, Zenon DEF Cleared
  <2> QED BY <1>3, <2>2, <2>3, Zenon DEF Cleared
<1>4. DeletionSound'
  BY <1>3, DeletionKept, Zenon DEF IInv
<1> QED BY <1>2, <1>4, Zenon DEF IInv

LEMMA GetStep ==
  ASSUME TenancySettings, IInv, NEW r \in Requests, NEW m \in Models, Get(r, m)
  PROVE  IInv'
<1>1. PICK q \in Stages : q = request[r] /\ q.pc = "lookup"
  BY Zenon DEF IInv, Typed, Get
<1>2. q \in Lookups /\ q # Idle
  BY <1>1, StageOf, Zenon DEF Idle
<1>3. /\ q.tenant \in Tenants /\ q.keep \in 1..MaxCacheTTL /\ q.ttl \in 0..MaxCaptureTTL /\ q.body \in Bodies
  BY <1>2, Zenon DEF Lookups
<1>4. PICK key : key = KeyOf(q.tenant, m, q.body) /\ key \in CacheKeys /\ key[1] = q.tenant
  <2>1. KeyOf(q.tenant, m, q.body) \in CacheKeys /\ KeyOf(q.tenant, m, q.body)[1] = q.tenant
    BY <1>3, Zenon DEF KeyOf, CacheKeys
  <2> QED BY <2>1, Zenon
<1>5. PICK others : others = Picked(cache, DOMAIN cache \ Held(cache, key))
  BY Zenon
<1> DEFINE hit == \E i \in Held(cache, key) : cache[i].left > 0
<1>6. /\ cache' = IF hit THEN <<ItemOf(cache, key)>> \o others ELSE others
      /\ bytes' = IF hit THEN bytes ELSE bytes - Bytes(Picked(cache, Held(cache, key)))
      /\ request' = [request EXCEPT ![r] =
           IF hit THEN [pc |-> "answered", tenant |-> q.tenant, ttl |-> q.ttl]
           ELSE [pc |-> "dispatch", tenant |-> q.tenant, ttl |-> q.ttl, keep |-> q.keep, key |-> key]]
  <2>1. key = KeyOf(request[r].tenant, m, request[r].body)
    BY <1>1, <1>4, Zenon
  <2>2. cache' = IF hit THEN <<ItemOf(cache, key)>> \o others ELSE others
    BY <1>5, <2>1, Zenon DEF Get
  <2>3. bytes' = IF hit THEN bytes ELSE bytes - Bytes(Picked(cache, Held(cache, key)))
    BY <2>1, Zenon DEF Get
  <2>4. request' = [request EXCEPT ![r] =
           IF hit THEN [pc |-> "answered", tenant |-> q.tenant, ttl |-> q.ttl]
           ELSE [pc |-> "dispatch", tenant |-> q.tenant, ttl |-> q.ttl, keep |-> q.keep, key |-> key]]
    BY <1>1, <2>1, Zenon DEF Get
  <2> QED BY <2>2, <2>3, <2>4, Zenon
<1>7. CacheSound' /\ \A u : ~Serves(cache, u) => ~Serves(cache', u)
  BY <1>5, <1>6, GetSound, Zenon DEF IInv
<1>8. PICK w \in Stages : w.tenant = q.tenant /\ request' = [request EXCEPT ![r] = w]
  <2>1. PICK a : a = [pc |-> "answered", tenant |-> q.tenant, ttl |-> q.ttl]
    BY Zenon
  <2>2. PICK d : d = [pc |-> "dispatch", tenant |-> q.tenant, ttl |-> q.ttl, keep |-> q.keep, key |-> key]
    BY Zenon
  <2>3. a \in Answers /\ a.tenant = q.tenant
    BY <1>3, <2>1, Zenon DEF Answers
  <2>4. q.keep \in 0..MaxCacheTTL
    BY <1>3
  <2>5. d \in Dispatches /\ d.tenant = q.tenant
    BY <1>3, <1>4, <2>2, <2>4, Zenon DEF Dispatches
  <2>6. request' = [request EXCEPT ![r] = IF hit THEN a ELSE d]
    BY <1>6, <2>1, <2>2, Zenon
  <2> QED BY <2>3, <2>5, <2>6, Zenon DEF Stages
<1>9. UNCHANGED <<status, policy, live, captures, flushes, overlapped, sinceSweep>>
  BY Zenon DEF Get
<1> QED BY <1>1, <1>2, <1>7, <1>8, <1>9, RequestGoesOn, Zenon

LEMMA AnswerStage ==
  ASSUME NEW q \in Stages, q.pc = "dispatch"
  PROVE  /\ q # Idle /\ q \in Dispatches
         /\ \E a \in Stages : a = [pc |-> "answered", tenant |-> q.tenant, ttl |-> q.ttl] /\ a.tenant = q.tenant
<1>1. q \in Dispatches /\ q # Idle
  BY StageOf, Zenon DEF Idle
<1>2. q.tenant \in Tenants /\ q.ttl \in 0..MaxCaptureTTL
  BY <1>1, Zenon DEF Dispatches
<1>3. PICK a : a = [pc |-> "answered", tenant |-> q.tenant, ttl |-> q.ttl]
  BY Zenon
<1>4. a \in Answers /\ a.tenant = q.tenant
  BY <1>2, <1>3, Zenon DEF Answers
<1> QED BY <1>1, <1>3, <1>4, Zenon DEF Stages

LEMMA DispatchedStep ==
  ASSUME TenancySettings, IInv, NEW r \in Requests, NEW m \in Models, NEW size \in Sizes, Dispatched(r, m, size)
  PROVE  IInv'
<1>1. PICK q \in Stages : q = request[r] /\ q.pc = "dispatch"
  BY Zenon DEF IInv, Typed, Dispatched
<1>2. PICK a \in Stages :
        /\ q # Idle /\ q \in Dispatches
        /\ a = [pc |-> "answered", tenant |-> q.tenant, ttl |-> q.ttl] /\ a.tenant = q.tenant
  BY <1>1, AnswerStage, Zenon
<1>3. /\ q.tenant \in Tenants /\ q.keep \in 0..MaxCacheTTL
      /\ q.keep > 0 => q.key \in CacheKeys /\ q.key[1] = q.tenant
  BY <1>2, Zenon DEF Dispatches
<1>4. CacheSound' /\ \A u : u # q.tenant /\ ~Serves(cache, u) => ~Serves(cache', u)
  <2>1. CASE q.keep > 0 /\ m = q.key[2]
    <3>1. Put(q.tenant, q.key, m, size, q.keep)
      BY <1>1, <2>1, Zenon DEF Dispatched
    <3>2. PICK key \in CacheKeys : key = q.key /\ key[1] = q.tenant /\ m = key[2]
      BY <1>3, <2>1, Zenon
    <3>3. PICK t \in Tenants, ttl \in 0..MaxCacheTTL : t = q.tenant /\ ttl = q.keep
      BY <1>3, Zenon
    <3>4. Put(t, key, m, size, ttl) /\ key[1] = t /\ CacheSound
      BY <3>1, <3>2, <3>3, Zenon DEF IInv
    <3>5. CacheSound' /\ \A u : u # t /\ ~Serves(cache, u) => ~Serves(cache', u)
      BY <3>2, <3>4, PutSound, Zenon
    <3> QED BY <3>3, <3>5, Zenon
  <2>2. CASE ~(q.keep > 0 /\ m = q.key[2])
    <3>1. UNCHANGED <<cache, bytes>>
      BY <1>1, <2>2, Zenon DEF Dispatched
    <3> QED BY <3>1, Zenon DEF IInv, CacheSound
  <2> QED BY <2>1, <2>2, Zenon
<1>5. /\ request' = [request EXCEPT ![r] = a]
      /\ UNCHANGED <<status, policy, live, captures, flushes, overlapped, sinceSweep>>
  BY <1>1, <1>2, Zenon DEF Dispatched
<1> QED BY <1>1, <1>2, <1>4, <1>5, RequestGoesOn, Zenon

LEMMA DispatchFailsStep ==
  ASSUME IInv, NEW r \in Requests, DispatchFails(r)
  PROVE  IInv'
<1>1. PICK q \in Stages : q = request[r] /\ q.pc = "dispatch"
  BY Zenon DEF IInv, Typed, DispatchFails
<1>2. PICK a \in Stages :
        q # Idle /\ a = [pc |-> "answered", tenant |-> q.tenant, ttl |-> q.ttl] /\ a.tenant = q.tenant
  BY <1>1, AnswerStage, Zenon
<1>3. /\ request' = [request EXCEPT ![r] = a]
      /\ UNCHANGED <<status, policy, live, cache, bytes, captures, flushes, overlapped, sinceSweep>>
  BY <1>1, <1>2, Zenon DEF DispatchFails
<1>4. CacheSound' /\ \A u : u # q.tenant /\ ~Serves(cache, u) => ~Serves(cache', u)
  BY <1>3, Zenon DEF IInv, CacheSound
<1> QED BY <1>1, <1>2, <1>3, <1>4, RequestGoesOn, Zenon

LEMMA ReturnStep ==
  ASSUME TenancySettings, IInv, NEW r \in Requests, Return(r)
  PROVE  IInv'
<1>1. PICK q \in Stages : q = request[r] /\ q.pc = "answered"
  BY Zenon DEF IInv, Typed, Return
<1>2. q \in Answers /\ q # Idle
  BY <1>1, StageOf, Zenon DEF Idle
<1>3. PICK t \in Tenants, ttl \in 0..MaxCaptureTTL : t = q.tenant /\ ttl = q.ttl
  <2>1. q.tenant \in Tenants /\ q.ttl \in 0..MaxCaptureTTL
    BY <1>2, Zenon DEF Answers
  <2> QED BY <2>1, Zenon
<1>4. /\ captures' = IF ttl = 0 THEN captures ELSE [captures EXCEPT ![t] = Captured(captures[t], ttl)]
      /\ request' = [request EXCEPT ![r] = Idle]
      /\ UNCHANGED <<status, policy, live, cache, bytes, flushes, overlapped, sinceSweep>>
  BY <1>1, <1>3, Zenon DEF Return
<1>5. /\ request' \in [Requests -> Stages] /\ request'[r] = Idle
      /\ \A p \in Requests : p # r => request'[p] = request[p]
  <2>1. request \in [Requests -> Stages] /\ Idle \in Stages
    BY Zenon DEF IInv, Typed, Stages
  <2> QED BY <1>4, <2>1, StageSet, Zenon
<1>6. /\ captures \in [Tenants -> Seq(Entries)] /\ sinceSweep \in Nat
      /\ \A u \in Tenants : Bucket(captures[u], sinceSweep)
  <2>1. sinceSweep \in 0..SweepEvery
    BY Zenon DEF IInv, Typed
  <2>2. sinceSweep \in Nat
    BY <2>1 DEF TenancySettings
  <2> QED BY <2>2, Zenon DEF IInv, CapturesSound
<1>7. Bucket(Captured(captures[t], ttl), sinceSweep)
  BY <1>6, CapturedBucket, Zenon
<1>8. Captured(captures[t], ttl) \in Seq(Entries)
  BY <1>7, Zenon DEF Bucket
<1>9. CapturesSound'
  <2>1. CASE ttl = 0
    BY <1>4, <2>1, Zenon DEF IInv, CapturesSound
  <2>2. CASE ttl # 0
    BY <1>4, <1>6, <1>7, <1>8, <2>2, Zenon DEF CapturesSound
  <2> QED BY <2>1, <2>2, Zenon
<1>10. Typed' /\ CacheSound'
  BY <1>4, <1>5, Zenon DEF IInv, Typed, CacheSound
<1>11. ASSUME NEW u \in Tenants, status[u] = "deleted", Cleared(u) PROVE Cleared(u)'
  <2>1. u # t
    BY <1>1, <1>2, <1>3, <1>11, Zenon DEF Cleared
  <2>2. \A p \in Requests : request'[p] # Idle => request'[p].tenant # u
    BY <1>5, <1>11, Zenon DEF Cleared
  <2>3. captures'[u] = captures[u]
    BY <1>4, <1>6, <2>1, Zenon
  <2> QED BY <1>4, <1>11, <2>2, <2>3, Zenon DEF Cleared
<1>12. DeletionSound'
  BY <1>4, <1>11, DeletionKept, Zenon DEF IInv
<1> QED BY <1>9, <1>10, <1>12, Zenon DEF IInv

LEMMA UpdateTenantStep ==
  ASSUME IInv, NEW t \in Tenants, NEW s \in {"active", "suspended"}, NEW asked \in Policies,
         UpdateTenant(t, s, asked)
  PROVE  IInv'
<1>1. /\ status[t] # "deleted" /\ status' = [status EXCEPT ![t] = s] /\ policy' = [policy EXCEPT ![t] = asked]
      /\ UNCHANGED <<live, cache, bytes, captures, request, flushes, overlapped, sinceSweep>>
  BY Zenon DEF UpdateTenant, StoreUpdates
<1>2. s \in {"active", "suspended", "deleted"} /\ s # "deleted"
  BY Zenon
<1>3. /\ status' \in [Tenants -> {"active", "suspended", "deleted"}]
      /\ policy' \in [Tenants -> Policies \cup {NoPolicy}]
      /\ status'[t] = s /\ \A u \in Tenants : u # t => status'[u] = status[u]
  BY <1>1, <1>2, Zenon DEF IInv, Typed
<1>4. Typed' /\ CacheSound' /\ CapturesSound'
  BY <1>1, <1>3, Zenon DEF IInv, Typed, CacheSound, CapturesSound
<1>5. DeletionSound'
  <2>1. \A u \in Tenants : flushes'[u] # <<>> => status'[u] = "deleted"
    BY <1>1, <1>3, Zenon DEF IInv, DeletionSound
  <2>2. ASSUME NEW u \in Tenants, status'[u] = "deleted", u \notin overlapped', flushes'[u] # <<"cache", "captures">>
        PROVE  Cleared(u)'
    <3>1. status[u] = "deleted"
      BY <1>2, <1>3, <2>2, Zenon
    <3>2. Cleared(u)
      BY <1>1, <2>2, <3>1, Zenon DEF IInv, DeletionSound
    <3> QED BY <1>1, <3>2, Zenon DEF Cleared
  <2> QED BY <2>1, <2>2, Zenon DEF DeletionSound
<1> QED BY <1>4, <1>5, Zenon DEF IInv

LEMMA RevokeKeyStep ==
  ASSUME IInv, NEW k, RevokeKey(k)
  PROVE  IInv'
<1>1. /\ live' \subseteq live
      /\ UNCHANGED <<status, policy, cache, bytes, captures, request, flushes, overlapped, sinceSweep>>
  BY Zenon DEF RevokeKey
<1>2. live' \subseteq Keys
  BY <1>1, Zenon DEF IInv, Typed
<1>3. Typed' /\ CacheSound' /\ CapturesSound'
  BY <1>1, <1>2, Zenon DEF IInv, Typed, CacheSound, CapturesSound
<1>4. \A t \in Tenants : status[t] = "deleted" /\ Cleared(t) => Cleared(t)'
  BY <1>1, Zenon DEF Cleared
<1>5. DeletionSound'
  BY <1>1, <1>4, DeletionKept, Zenon DEF IInv
<1> QED BY <1>3, <1>5, Zenon DEF IInv

LEMMA FlushTenantCacheStep ==
  ASSUME TenancySettings, IInv, NEW t, FlushTenantCache(t)
  PROVE  IInv'
<1>1. /\ Flush(t)
      /\ UNCHANGED <<status, policy, live, captures, request, flushes, overlapped, sinceSweep>>
  BY Zenon DEF FlushTenantCache
<1>2. CacheSound' /\ \A u : ~Serves(cache, u) => ~Serves(cache', u)
  BY <1>1, FlushSound, Zenon DEF IInv
<1>3. Typed' /\ CapturesSound'
  BY <1>1, Zenon DEF IInv, Typed, CapturesSound
<1>4. \A u \in Tenants : status[u] = "deleted" /\ Cleared(u) => Cleared(u)'
  BY <1>1, <1>2, Zenon DEF Cleared
<1>5. DeletionSound'
  BY <1>1, <1>4, DeletionKept, Zenon DEF IInv
<1> QED BY <1>2, <1>3, <1>5, Zenon DEF IInv

LEMMA DeleteTenantStep ==
  ASSUME IInv, NEW t \in Tenants, DeleteTenant(t)
  PROVE  IInv'
<1>1. /\ status' = [status EXCEPT ![t] = "deleted"] /\ policy' = [policy EXCEPT ![t] = NoPolicy]
      /\ live' \subseteq live /\ flushes' = [flushes EXCEPT ![t] = <<"cache", "captures">>]
      /\ UNCHANGED <<cache, bytes, captures, request, overlapped, sinceSweep>>
  BY Zenon DEF DeleteTenant, StoreDeletes
<1>2. /\ status' \in [Tenants -> {"active", "suspended", "deleted"}]
      /\ policy' \in [Tenants -> Policies \cup {NoPolicy}]
      /\ flushes' \in [Tenants -> {<<"cache", "captures">>, <<"captures">>, <<>>}]
      /\ status'[t] = "deleted" /\ flushes'[t] = <<"cache", "captures">>
      /\ \A u \in Tenants : u # t => status'[u] = status[u] /\ flushes'[u] = flushes[u]
  BY <1>1, Zenon DEF IInv, Typed
<1>3. live' \subseteq Keys
  BY <1>1, Zenon DEF IInv, Typed
<1>4. Typed' /\ CacheSound' /\ CapturesSound'
  BY <1>1, <1>2, <1>3, Zenon DEF IInv, Typed, CacheSound, CapturesSound
<1>5. DeletionSound'
  <2>1. \A u \in Tenants : flushes'[u] # <<>> => status'[u] = "deleted"
    BY <1>2, Zenon DEF IInv, DeletionSound
  <2>2. ASSUME NEW u \in Tenants, status'[u] = "deleted", u \notin overlapped', flushes'[u] # <<"cache", "captures">>
        PROVE  Cleared(u)'
    <3>1. u # t /\ status[u] = "deleted" /\ flushes'[u] = flushes[u]
      BY <1>2, <2>2, Zenon
    <3>2. Cleared(u)
      BY <1>1, <2>2, <3>1, Zenon DEF IInv, DeletionSound
    <3> QED BY <1>1, <3>1, <3>2, Zenon DEF Cleared
  <2> QED BY <2>1, <2>2, Zenon DEF DeletionSound
<1> QED BY <1>4, <1>5, Zenon DEF IInv

LEMMA FlushNextStep ==
  ASSUME TenancySettings, IInv, NEW t \in Tenants, FlushNext(t)
  PROVE  IInv'
<1>1. /\ flushes' = [flushes EXCEPT ![t] = Tail(flushes[t])]
      /\ overlapped' = overlapped \cup (IF InFlight(t) # {} THEN {t} ELSE {})
      /\ UNCHANGED <<status, policy, live, request, sinceSweep>>
  BY Zenon DEF FlushNext
<1>2. status[t] = "deleted"
  BY Zenon DEF FlushNext, IInv, DeletionSound
<1>3. t \notin overlapped' => t \notin overlapped /\ \A r \in Requests : request[r] # Idle => request[r].tenant # t
  <2>1. \A r \in Requests : request[r] \in Stages
    BY Zenon DEF IInv, Typed
  <2>2. \A r \in Requests : request[r] # Idle => request[r].pc # "idle"
    BY <2>1, StageOf, Zenon
  <2> QED BY <1>1, <2>2, Zenon DEF InFlight
<1>4. \A u \in Tenants : u # t => (u \in overlapped' <=> u \in overlapped)
  BY <1>1, Zenon
<1>5. /\ flushes'[t] = Tail(flushes[t]) /\ \A u \in Tenants : u # t => flushes'[u] = flushes[u]
  BY <1>1, Zenon DEF IInv, Typed
<1>6. ASSUME flushes'[t] \in {<<"cache", "captures">>, <<"captures">>, <<>>}, CacheSound', CapturesSound',
             \A u : ~Serves(cache, u) => ~Serves(cache', u),
             \A u \in Tenants : u # t => captures'[u] = captures[u],
             t \notin overlapped' => Cleared(t)'
      PROVE  IInv'
  <2>1. flushes' \in [Tenants -> {<<"cache", "captures">>, <<"captures">>, <<>>}]
    BY <1>1, <1>5, <1>6, Zenon DEF IInv, Typed
  <2>2. Typed'
    BY <1>1, <2>1, Zenon DEF IInv, Typed
  <2>3. \A u \in Tenants : flushes'[u] # <<>> => status'[u] = "deleted"
    BY <1>1, <1>2, <1>5, Zenon DEF IInv, DeletionSound
  <2>4. ASSUME NEW u \in Tenants, u # t, status'[u] = "deleted", u \notin overlapped',
               flushes'[u] # <<"cache", "captures">>
        PROVE  Cleared(u)'
    <3>1. Cleared(u)
      BY <1>1, <1>4, <1>5, <2>4, Zenon DEF IInv, DeletionSound
    <3> QED BY <1>1, <1>5, <1>6, <2>4, <3>1, Zenon DEF Cleared
  <2>5. DeletionSound'
    BY <1>6, <2>3, <2>4, Zenon DEF DeletionSound
  <2> QED BY <1>6, <2>2, <2>5, Zenon DEF IInv
<1>7. flushes[t] \in {<<"cache", "captures">>, <<"captures">>} /\ t \in Tenants
  BY Zenon DEF FlushNext, IInv, Typed
<1>8. CASE flushes[t] = <<"cache", "captures">>
  <2>1. Head(flushes[t]) = "cache" /\ Tail(flushes[t]) = <<"captures">> /\ <<"captures">> # <<>>
    BY <1>8
  <2>2. Flush(t) /\ UNCHANGED captures
    BY <2>1, Zenon DEF FlushNext
  <2>3. CacheSound' /\ ~Serves(cache', t) /\ \A u : ~Serves(cache, u) => ~Serves(cache', u)
    BY <2>2, FlushSound, Zenon DEF IInv
  <2>4. CapturesSound'
    BY <1>1, <2>2, Zenon DEF IInv, CapturesSound
  <2>5. t \notin overlapped' => Cleared(t)'
    BY <1>1, <1>3, <1>5, <2>1, <2>3, Zenon DEF Cleared
  <2>6. flushes'[t] = <<"captures">>
    BY <1>5, <2>1, Zenon
  <2> QED BY <1>6, <2>2, <2>3, <2>4, <2>5, <2>6, Zenon
<1>9. CASE flushes[t] = <<"captures">>
  <2>1. Head(flushes[t]) # "cache" /\ Tail(flushes[t]) = <<>> /\ <<"captures">> # <<"cache", "captures">>
    BY <1>9
  <2>2. captures' = [captures EXCEPT ![t] = <<>>] /\ UNCHANGED <<cache, bytes>>
    BY <2>1, Zenon DEF FlushNext
  <2>3. CacheSound'
    BY <2>2, Zenon DEF IInv, CacheSound
  <2>4. /\ captures \in [Tenants -> Seq(Entries)]
        /\ \A u \in Tenants : Bucket(captures[u], sinceSweep)
    BY Zenon DEF IInv, CapturesSound
  <2>5. <<>> \in Seq(Entries) /\ Bucket(<<>>, sinceSweep)
    BY DEF Bucket, TenancySettings
  <2>6. /\ captures'[t] = <<>> /\ captures' \in [Tenants -> Seq(Entries)]
        /\ \A u \in Tenants : u # t => captures'[u] = captures[u]
    BY <2>2, <2>4, <2>5, Zenon
  <2>7. CapturesSound'
    BY <1>1, <2>4, <2>5, <2>6, Zenon DEF CapturesSound
  <2>8. t \notin overlapped' => Cleared(t)'
    <3>1. t \notin overlapped => Cleared(t)
      BY <1>2, <1>9, <2>1, Zenon DEF IInv, DeletionSound
    <3> QED BY <1>1, <1>3, <2>2, <2>6, <3>1, Zenon DEF Cleared
  <2>9. flushes'[t] = <<>>
    BY <1>5, <2>1, Zenon
  <2> QED BY <1>6, <2>2, <2>3, <2>6, <2>7, <2>8, <2>9, Zenon
<1> QED BY <1>7, <1>8, <1>9, Zenon

LEMMA SweepStep ==
  ASSUME TenancySettings, IInv, Sweep
  PROVE  IInv'
<1>1. /\ sinceSweep' = 0 /\ captures' = [t \in Tenants |-> Expired(captures[t])]
      /\ UNCHANGED <<status, policy, live, cache, bytes, request, flushes, overlapped>>
  BY Zenon DEF Sweep
<1>2. sinceSweep \in Nat /\ 0 \in 0..SweepEvery
  <2>1. sinceSweep \in 0..SweepEvery
    BY Zenon DEF IInv, Typed
  <2> QED BY <2>1 DEF TenancySettings
<1>3. \A t \in Tenants : Bucket(Expired(captures[t]), 0)
  BY <1>2, ExpiredBucket, Zenon DEF IInv, CapturesSound
<1>4. \A t \in Tenants : Expired(captures[t]) \in Seq(Entries)
  BY <1>3, Zenon DEF Bucket
<1>5. CapturesSound'
  BY <1>1, <1>3, <1>4, Zenon DEF CapturesSound
<1>6. Typed' /\ CacheSound'
  BY <1>1, <1>2, Zenon DEF IInv, Typed, CacheSound
<1>7. ASSUME NEW t \in Tenants, status[t] = "deleted", Cleared(t) PROVE Cleared(t)'
  <2>1. Expired(<<>>) = <<>>
    <3>1. DOMAIN <<>> = {}
      OBVIOUS
    <3> QED BY <3>1, Zenon DEF Expired
  <2>2. captures[t] = <<>> => captures'[t] = <<>>
    BY <1>1, <2>1, Zenon
  <2> QED BY <1>1, <1>7, <2>2, Zenon DEF Cleared
<1>8. DeletionSound'
  BY <1>1, <1>7, DeletionKept, Zenon DEF IInv
<1> QED BY <1>5, <1>6, <1>8, Zenon DEF IInv

LEMMA TickStep ==
  ASSUME TenancySettings, IInv, Tick
  PROVE  IInv'
<1> DEFINE Aged(b) == [i \in DOMAIN b |-> [b[i] EXCEPT !.age = @ + 1]]
<1>1. /\ sinceSweep < SweepEvery /\ sinceSweep' = sinceSweep + 1
      /\ captures' = [t \in Tenants |-> Aged(captures[t])]
      /\ cache' = [i \in DOMAIN cache |-> [cache[i] EXCEPT !.left = IF @ = 0 THEN 0 ELSE @ - 1]]
      /\ UNCHANGED <<status, policy, live, bytes, request, flushes, overlapped>>
  BY Zenon DEF Tick
<1>2. sinceSweep \in Nat /\ sinceSweep + 1 \in 0..SweepEvery
  <2>1. sinceSweep \in 0..SweepEvery
    BY Zenon DEF IInv, Typed
  <2> QED BY <1>1, <2>1 DEF TenancySettings
<1>3. \A t \in Tenants : Bucket(Aged(captures[t]), sinceSweep + 1)
  BY <1>2, AgedBucket, Zenon DEF IInv, CapturesSound
<1>4. Aged(<<>>) = <<>>
  OBVIOUS
<1> HIDE DEF Aged
<1>5. \A t \in Tenants : Aged(captures[t]) \in Seq(Entries)
  BY <1>3, Zenon DEF Bucket
<1>6. CapturesSound'
  BY <1>1, <1>3, <1>5, Zenon DEF CapturesSound
<1>7. CacheSound' /\ \A u : ~Serves(cache, u) => ~Serves(cache', u)
  BY <1>1, AgeSound, Zenon DEF IInv
<1>8. Typed'
  BY <1>1, <1>2, Zenon DEF IInv, Typed
<1>9. ASSUME NEW t \in Tenants, status[t] = "deleted", Cleared(t) PROVE Cleared(t)'
  <2>1. captures[t] = <<>> => captures'[t] = <<>>
    BY <1>1, <1>4, Zenon
  <2> QED BY <1>1, <1>7, <1>9, <2>1, Zenon DEF Cleared
<1>10. DeletionSound'
  BY <1>1, <1>9, DeletionKept, Zenon DEF IInv
<1> QED BY <1>6, <1>7, <1>8, <1>10, Zenon DEF IInv

LEMMA Initially ==
  ASSUME TenancySettings, Init
  PROVE  IInv
<1>1. /\ status = [t \in Tenants |-> "active"] /\ policy = [t \in Tenants |-> NoPolicy] /\ live = Keys
      /\ cache = <<>> /\ bytes = 0 /\ captures = [t \in Tenants |-> <<>>]
      /\ request = [r \in Requests |-> Idle] /\ flushes = [t \in Tenants |-> <<>>] /\ sinceSweep = 0
  BY Zenon DEF Init
<1>2. 0 \in 0..SweepEvery /\ Len(<<>>) = 0 /\ Len(<<>>) \in Nat /\ 1..0 = {} /\ MaxBytes \in Nat
      /\ <<>> \in Seq(Items) /\ <<>> \in Seq(Entries) /\ 0 <= MaxBytes
  BY DEF TenancySettings
<1>3. Typed
  <2>1. live \subseteq Keys /\ sinceSweep \in 0..SweepEvery
    BY <1>1, <1>2, Zenon
  <2>2. /\ status \in [Tenants -> {"active", "suspended", "deleted"}]
        /\ policy \in [Tenants -> Policies \cup {NoPolicy}]
        /\ request \in [Requests -> Stages]
        /\ flushes \in [Tenants -> {<<"cache", "captures">>, <<"captures">>, <<>>}]
    BY <1>1, Zenon DEF Stages
  <2> QED BY <2>1, <2>2, Zenon DEF Typed
<1>4. CacheSound
  <2>1. \A x \in Items : x.size \in Nat
    BY ItemsSized, Zenon
  <2>2. Sized(<<>>)
    BY <1>2, Zenon DEF Sized
  <2>3. Bytes(<<>>) = 0
    BY <1>2, <2>2, Sums, Zenon
  <2>4. DistinctKeys(<<>>)
    BY <1>2, Zenon DEF DistinctKeys
  <2> QED BY <1>1, <1>2, <2>3, <2>4, Zenon DEF CacheSound
<1>5. CapturesSound
  <2>1. Bucket(<<>>, 0)
    BY DEF Bucket, TenancySettings
  <2> QED BY <1>1, <1>2, <2>1, Zenon DEF CapturesSound
<1>6. DeletionSound
  <2>1. \A t \in Tenants : status[t] # "deleted" /\ flushes[t] = <<>>
    BY <1>1, Zenon
  <2> QED BY <2>1, Zenon DEF DeletionSound
<1> QED BY <1>3, <1>4, <1>5, <1>6, Zenon DEF IInv

\* The inductive invariant: the cache accounts for itself, buckets are in order and
\* within the ceiling, and a deletion leaves nothing that is not in flight.
THEOREM Invariance == Spec => []IInv
<1> USE TenancySettings
<1>1. Init => IInv
  BY Initially, Zenon
<1>2. IInv /\ [Next]_vars => IInv'
  <2> SUFFICES ASSUME IInv, [Next]_vars PROVE IInv'
    BY Zenon
  <2>1. ASSUME NEW r \in Requests, NEW k \in Keys, NEW b \in Bodies, Authenticate(r, k, b) PROVE IInv'
    BY <2>1, AuthenticateStep, Zenon
  <2>2. ASSUME NEW r \in Requests, NEW m \in Models, Get(r, m) PROVE IInv'
    BY <2>2, GetStep, Zenon
  <2>3. ASSUME NEW r \in Requests, NEW m \in Models, NEW size \in Sizes, Dispatched(r, m, size) PROVE IInv'
    BY <2>3, DispatchedStep, Zenon
  <2>4. ASSUME NEW r \in Requests, DispatchFails(r) PROVE IInv'
    BY <2>4, DispatchFailsStep, Zenon
  <2>5. ASSUME NEW r \in Requests, Return(r) PROVE IInv'
    BY <2>5, ReturnStep, Zenon
  <2>6. ASSUME NEW t \in Administered PROVE t \in Tenants
    BY Zenon DEF TenancySettings
  <2>7. ASSUME NEW t \in Administered, NEW s \in {"active", "suspended"}, NEW asked \in Policies,
               UpdateTenant(t, s, asked)
        PROVE  IInv'
    BY <2>6, <2>7, UpdateTenantStep, Zenon
  <2>8. ASSUME NEW t \in Administered, FlushTenantCache(t) PROVE IInv'
    BY <2>8, FlushTenantCacheStep, Zenon
  <2>9. ASSUME NEW t \in Administered, DeleteTenant(t) PROVE IInv'
    BY <2>6, <2>9, DeleteTenantStep, Zenon
  <2>10. ASSUME NEW t \in Administered, FlushNext(t) PROVE IInv'
    BY <2>6, <2>10, FlushNextStep, Zenon
  <2>11. ASSUME NEW k, RevokeKey(k) PROVE IInv'
    BY <2>11, RevokeKeyStep, Zenon
  <2>12. CASE Sweep
    BY <2>12, SweepStep, Zenon
  <2>13. CASE Tick
    BY <2>13, TickStep, Zenon
  <2>14. CASE UNCHANGED vars
    BY <2>14, Zenon DEF vars, IInv, Typed, CacheSound, CapturesSound, DeletionSound, Cleared
  <2> QED BY <2>1, <2>2, <2>3, <2>4, <2>5, <2>7, <2>8, <2>9, <2>10, <2>11, <2>12, <2>13, <2>14, Zenon DEF Next
<1> QED BY <1>1, <1>2, PTL DEF Spec

\* Through every replacement, expiry, eviction and flush, each item of the cache is the
\* answer of the model and for the tenant that its key names, no key has two, and the
\* byte count is their sum and within its bound (cache.go).
THEOREM Named == Spec => []AnswersUnderTheirName
<1>1. IInv => AnswersUnderTheirName
  <2> SUFFICES ASSUME IInv PROVE AnswersUnderTheirName
    BY Zenon
  <2>1. TypeOK
    <3>1. \A t \in Tenants : Len(captures[t]) <= MaxCaptures
      BY Zenon DEF IInv, CapturesSound, Bucket
    <3> QED BY <3>1, Zenon DEF TypeOK, IInv, Typed
  <2>2. cache \in Seq(Items) /\ DistinctKeys(cache) /\ bytes = Bytes(cache) /\ bytes <= MaxBytes
    BY Zenon DEF IInv, CacheSound
  <2>3. DOMAIN cache = 1..Len(cache) /\ \A i \in 1..Len(cache) : cache[i] \in Items
    BY <2>2
  <2>4. \A i \in DOMAIN cache : cache[i].by = cache[i].key[2] /\ cache[i].tenant = cache[i].key[1]
    BY <2>3, Zenon DEF Items
  <2>5. \A i, j \in DOMAIN cache : i # j => cache[i].key # cache[j].key
    BY <2>2, <2>3, Zenon DEF DistinctKeys
  <2> QED BY <2>1, <2>2, <2>4, <2>5, Zenon DEF AnswersUnderTheirName
<1> QED BY <1>1, Invariance, PTL

\* No capture outlives the deployment's ceiling by more than a sweep, and no answer can be
\* replayed past its own ceiling, for every policy and every order of the steps
\* (capture.go, cache.go).
THEOREM Bounded == Spec => []RetentionBounded
<1>1. IInv => RetentionBounded
  <2> SUFFICES ASSUME IInv PROVE RetentionBounded
    BY Zenon
  <2>1. \A i \in DOMAIN cache : cache[i].left <= MaxCacheTTL
    <3>1. cache \in Seq(Items)
      BY Zenon DEF IInv, CacheSound
    <3>2. \A i \in DOMAIN cache : cache[i] \in Items
      BY <3>1
    <3>3. \A x \in Items : x.left <= MaxCacheTTL
      BY TenancySettings DEF Items, TenancySettings
    <3> QED BY <3>2, <3>3, Zenon
  <2>2. ASSUME NEW t \in Tenants, NEW i \in DOMAIN captures[t]
        PROVE  captures[t][i].ttl <= MaxCaptureTTL /\ captures[t][i].age < MaxCaptureTTL + SweepEvery
    <3>1. Bucket(captures[t], sinceSweep) /\ sinceSweep \in 0..SweepEvery
      BY Zenon DEF IInv, CapturesSound, Typed
    <3>2. captures[t] \in Seq(Entries)
      BY <3>1, Zenon DEF Bucket
    <3>3. i \in 1..Len(captures[t]) /\ captures[t][i] \in Entries
      BY <3>2
    <3>4. PICK x \in Entries : x = captures[t][i] /\ x.age < MaxCaptureTTL + sinceSweep
      BY <3>1, <3>3, Zenon DEF Bucket
    <3>5. x.age \in Nat /\ x.ttl \in 0..MaxCaptureTTL
      BY EntryFields, Zenon
    <3>6. x.ttl <= MaxCaptureTTL /\ x.age < MaxCaptureTTL + SweepEvery
      BY <3>1, <3>4, <3>5, TenancySettings DEF TenancySettings
    <3> QED BY <3>4, <3>6, Zenon
  <2> QED BY <2>1, <2>2, Zenon DEF RetentionBounded
<1> QED BY <1>1, Invariance, PTL

\* A deleted tenant that had no request in flight while its deletion flushed leaves
\* neither an answer nor a capture, whatever runs beside the deletion
\* (admin.go, deleteTenant).
THEOREM NothingLeft == Spec => []DeletedLeavesNothing
<1>1. IInv => DeletedLeavesNothing
  <2> SUFFICES ASSUME IInv, NEW t \in Tenants, status[t] = "deleted", flushes[t] = <<>>, t \notin overlapped
               PROVE  captures[t] = <<>> /\ \A i \in DOMAIN cache : cache[i].tenant # t
    BY Zenon DEF DeletedLeavesNothing
  <2>1. <<>> # <<"cache", "captures">>
    BY Zenon
  <2>2. Cleared(t)
    BY <2>1, Zenon DEF IInv, DeletionSound
  <2>3. cache \in Seq(Items)
    BY Zenon DEF IInv, CacheSound
  <2>4. DOMAIN cache = 1..Len(cache)
    BY <2>3
  <2> QED BY <2>2, <2>4, Zenon DEF Cleared, Serves
<1> QED BY <1>1, Invariance, PTL
=============================================================================
