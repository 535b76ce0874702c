------------------------------- MODULE Tenancy --------------------------------
(***************************************************************************)
(* Tenants and what the gateway keeps of their traffic: tenants and keys   *)
(* in the store (store/memory.go), the response cache (cache/cache.go,     *)
(* server/cache.go), debug captures (capture/capture.go,                   *)
(* server/capture.go), and the admin handlers that change, flush and       *)
(* delete them while requests are being served.                            *)
(*                                                                         *)
(* A request works with the tenant as authentication read it, policies for *)
(* captures and for the cache included; the cache key is the triple it     *)
(* hashes.                                                                 *)
(***************************************************************************)
EXTENDS Lists, FiniteSetsExt

CONSTANTS Tenants, Keys, Owner,   \* [key -> its tenant]
          Requests, Bodies, Models,
          Sizes,                  \* of answers
          MaxBytes, MaxEntryBytes,
          Policies,               \* what a tenant may ask for: times to live of captures
                                  \* and of cached answers, 0 the default, Off for none
          DefaultCaptureTTL, MaxCaptureTTL, DefaultCacheTTL, MaxCacheTTL,
          MaxCaptures,            \* a tenant's capture budget, in entries
          SweepEvery,
          Administered, MaxChanges  \* bounds: the tenants changed, and how often

ASSUME TenancySettings ==
  /\ SweepEvery \in Nat \ {0} /\ MaxCaptures \in Nat \ {0}
  /\ MaxCaptureTTL \in Nat /\ DefaultCaptureTTL \in 1..MaxCaptureTTL
  /\ MaxCacheTTL \in Nat /\ DefaultCacheTTL \in 1..MaxCacheTTL
  /\ Sizes \subseteq Nat \ {0} /\ MaxBytes \in Nat
  /\ Owner \in [Keys -> Tenants] /\ Administered \subseteq Tenants
  /\ \A p \in Policies : p.captures \in Int /\ p.cache \in Int

VARIABLES status,    \* [tenant -> "active", "suspended" or "deleted"]
          policy,    \* [tenant -> what it asks for]
          live,      \* the keys that are neither revoked nor gone
          cache,     \* Cache.order, most recently used first
          bytes,     \* Cache.bytes
          captures,  \* [tenant -> its bucket, oldest first]
          request,
          flushes,   \* [tenant -> the flushes its deletion has yet to make]
          overlapped,  \* tenants with a request in flight as their deletion ended
          sinceSweep,
          changes

vars == <<status, policy, live, cache, bytes, captures, request, flushes, overlapped,
          sinceSweep, changes>>

Idle == [pc |-> "idle"]
Off == -1
NoPolicy == [captures |-> Off, cache |-> Off]

EffectiveTTL(asked, default, ceiling) ==
  LET ttl == IF asked > 0 THEN asked ELSE default
  IN  IF ttl > ceiling THEN ceiling ELSE ttl

-----------------------------------------------------------------------------
(* The response cache *)

KeyOf(t, m, b) == <<t, m, b>>

\* Cache.items: where the item of a key is, and the item.
Held(c, key) == {i \in DOMAIN c : c[i].key = key}
ItemOf(c, key) == c[CHOOSE i \in Held(c, key) : TRUE]

\* The sizes of the first items, summed.
BytesTo(c) ==
  LET sum[i \in 0..Len(c)] == IF i = 0 THEN 0 ELSE sum[i - 1] + c[i].size
  IN  sum
Bytes(c) == BytesTo(c)[Len(c)]

\* The least recently used items go until the count, n before, is within the bound.
Evicted(c, n) ==
  LET fits == {k \in 0..Len(c) : n - (Bytes(c) - BytesTo(c)[k]) <= MaxBytes}
  IN  IF fits = {} THEN <<>> ELSE SubSeq(c, 1, Max(fits))

CacheTTL(asked) == EffectiveTTL(asked, DefaultCacheTTL, MaxCacheTTL)
ValidCache(asked) == asked <= MaxCacheTTL

\* planCache: how long the answer may be cached, 0 for neither looked up nor stored.  A
\* bypass overrides the tenant's policy, and so does a wish; a request that streams or is
\* not deterministic cannot be cached.
PlanCache(asked, header, eligible) ==
  IF header = "bypass" \/ (header # "prefer" /\ asked = Off) \/ ~eligible THEN 0
  ELSE CacheTTL(asked)

PutKeepsOld(t, key, by, size, ttl) ==
  IF size > MaxEntryBytes THEN UNCHANGED <<cache, bytes>>
  ELSE LET it == [key |-> key, tenant |-> t, by |-> by, size |-> size, left |-> ttl]
           kept == Evicted(<<it>> \o cache, bytes + size)
       IN  /\ cache' = kept
           /\ bytes' = Bytes(kept)

\* Put: an item with the same key is replaced, and one too large is declined.
Put(t, key, by, size, ttl) ==
  IF size > MaxEntryBytes THEN UNCHANGED <<cache, bytes>>
  ELSE LET it == [key |-> key, tenant |-> t, by |-> by, size |-> size, left |-> ttl]
           others == Picked(cache, DOMAIN cache \ Held(cache, key))
           before == bytes - Bytes(Picked(cache, Held(cache, key))) + size
           kept == Evicted(<<it>> \o others, before)
       IN  /\ cache' = kept
           /\ bytes' = before - (Bytes(<<it>> \o others) - Bytes(kept))

\* Flush: the items of one tenant go.
Flush(t) ==
  LET kept == Picked(cache, {i \in DOMAIN cache : cache[i].tenant # t})
  IN  /\ cache' = kept
      /\ bytes' = bytes - (Bytes(cache) - Bytes(kept))

-----------------------------------------------------------------------------
(* Debug captures *)

CaptureTTL(asked) == EffectiveTTL(asked, DefaultCaptureTTL, MaxCaptureTTL)
ValidCapture(asked) == asked <= MaxCaptureTTL

\* expire: the entries past their time to live go, up to the first live one.
Expired(b) ==
  LET alive == {i \in DOMAIN b : b[i].age < b[i].ttl}
  IN  IF alive = {} THEN <<>> ELSE SubSeq(b, Min(alive), Len(b))

\* Put: expired entries go first, then the oldest while the bucket is full.
Captured(b, ttl) ==
  LET rest == Expired(b)
      fits == IF Len(rest) < MaxCaptures THEN rest ELSE Tail(rest)
  IN  Append(fits, [age |-> 0, ttl |-> ttl])

-----------------------------------------------------------------------------
Init ==
  /\ status = [t \in Tenants |-> "active"]
  /\ policy = [t \in Tenants |-> NoPolicy]
  /\ live = Keys
  /\ cache = <<>> /\ bytes = 0
  /\ captures = [t \in Tenants |-> <<>>]
  /\ request = [r \in Requests |-> Idle]
  /\ flushes = [t \in Tenants |-> <<>>]
  /\ overlapped = {}
  /\ sinceSweep = 0
  /\ changes = 0

InFlight(t) == {r \in Requests : request[r].pc # "idle" /\ request[r].tenant = t}

\* ResolveKey: the key is active and its tenant exists.
ResolveKey(k) == k \in live /\ status[Owner[k]] # "deleted"

Headers == {"prefer", "bypass", "none"}

\* auth, then captureDebug's look at the tenant it was given, and the cache plan.
Authenticate(r, k, b) ==
  LET t == Owner[k] IN
  /\ request[r].pc = "idle"
  /\ ResolveKey(k) /\ status[t] # "suspended"
  /\ \E header \in Headers, eligible \in BOOLEAN,
        ttl \in {0} \cup (IF policy[t].captures = Off THEN {} ELSE {CaptureTTL(policy[t].captures)}) :
       LET keep == PlanCache(policy[t].cache, header, eligible) IN
       request' = [request EXCEPT ![r] =
         IF keep > 0 THEN [pc |-> "lookup", tenant |-> t, keep |-> keep, ttl |-> ttl, body |-> b]
         ELSE [pc |-> "dispatch", tenant |-> t, keep |-> keep, ttl |-> ttl, key |-> <<>>]]
  /\ UNCHANGED <<status, policy, live, cache, bytes, captures, flushes, overlapped,
                 sinceSweep, changes>>

\* Get with the key of the model that would serve: a live item is replayed and
\* promoted, an expired one dropped.
Get(r, m) ==
  LET q == request[r]
      key == KeyOf(q.tenant, m, q.body)
      at == Held(cache, key)
      others == Picked(cache, DOMAIN cache \ at)
      hit == \E i \in at : cache[i].left > 0
  IN  /\ q.pc = "lookup"
      /\ cache' = IF hit THEN <<ItemOf(cache, key)>> \o others ELSE others
      /\ bytes' = IF hit THEN bytes ELSE bytes - Bytes(Picked(cache, at))
      /\ request' = [request EXCEPT ![r] =
           IF hit THEN [pc |-> "answered", tenant |-> q.tenant, ttl |-> q.ttl]
           ELSE [pc |-> "dispatch", tenant |-> q.tenant, ttl |-> q.ttl, keep |-> q.keep, key |-> key]]
      /\ UNCHANGED <<status, policy, live, captures, flushes, overlapped, sinceSweep, changes>>

DispatchedStoresAny(r, m, size) ==
  LET q == request[r] IN
  /\ q.pc = "dispatch"
  /\ IF q.keep > 0 THEN Put(q.tenant, q.key, m, size, q.keep) ELSE UNCHANGED <<cache, bytes>>
  /\ request' = [request EXCEPT ![r] = [pc |-> "answered", tenant |-> q.tenant, ttl |-> q.ttl]]
  /\ UNCHANGED <<status, policy, live, captures, flushes, overlapped, sinceSweep, changes>>

\* Model m answered, the one the key names or, with the routes as they are by now,
\* another: only the former's answer is stored.
Dispatched(r, m, size) ==
  LET q == request[r] IN
  /\ q.pc = "dispatch"
  /\ IF q.keep > 0 /\ m = q.key[2] THEN Put(q.tenant, q.key, m, size, q.keep)
     ELSE UNCHANGED <<cache, bytes>>
  /\ request' = [request EXCEPT ![r] = [pc |-> "answered", tenant |-> q.tenant, ttl |-> q.ttl]]
  /\ UNCHANGED <<status, policy, live, captures, flushes, overlapped, sinceSweep, changes>>

DispatchFails(r) ==
  LET q == request[r] IN
  /\ q.pc = "dispatch"
  /\ request' = [request EXCEPT ![r] = [pc |-> "answered", tenant |-> q.tenant, ttl |-> q.ttl]]
  /\ UNCHANGED <<status, policy, live, cache, bytes, captures, flushes, overlapped,
                 sinceSweep, changes>>

\* captureDebug after the handler: the exchange is kept, whatever its outcome.
Return(r) ==
  LET q == request[r] IN
  /\ q.pc = "answered"
  /\ captures' = IF q.ttl = 0 THEN captures
                 ELSE [captures EXCEPT ![q.tenant] = Captured(@, q.ttl)]
  /\ request' = [request EXCEPT ![r] = Idle]
  /\ UNCHANGED <<status, policy, live, cache, bytes, flushes, overlapped, sinceSweep, changes>>

-----------------------------------------------------------------------------
(* The admin plane *)

\* The events these handlers emit go their own way (Events).
Change == changes < MaxChanges /\ changes' = changes + 1

StoreUpdates(t, s, asked) ==
  /\ status[t] # "deleted"
  /\ status' = [status EXCEPT ![t] = s]
  /\ policy' = [policy EXCEPT ![t] = asked]

\* updateTenant: suspended or active again, and the policies.  One above its ceiling is
\* refused.
UpdateTenant(t, s, asked) ==
  /\ Change /\ ValidCapture(asked.captures) /\ ValidCache(asked.cache)
  /\ StoreUpdates(t, s, asked)
  /\ UNCHANGED <<live, cache, bytes, captures, request, flushes, overlapped, sinceSweep>>

\* RevokeAPIKey: a key that is gone stays gone.
RevokeKey(k) ==
  /\ Change /\ k \in live
  /\ live' = live \ {k}
  /\ UNCHANGED <<status, policy, cache, bytes, captures, request, flushes, overlapped, sinceSweep>>

FlushTenantCache(t) ==
  /\ Change /\ status[t] # "deleted"
  /\ Flush(t)
  /\ UNCHANGED <<status, policy, live, captures, request, flushes, overlapped, sinceSweep>>

\* The store's DeleteTenant: the tenant and its keys go together.
StoreDeletes(t) ==
  /\ status[t] # "deleted"
  /\ status' = [status EXCEPT ![t] = "deleted"]
  /\ policy' = [policy EXCEPT ![t] = NoPolicy]
  /\ live' = {k \in live : Owner[k] # t}

DeleteTenantUnlisted(t) ==
  /\ Change /\ StoreDeletes(t)
  /\ flushes' = [flushes EXCEPT ![t] = <<"cache">>]
  /\ UNCHANGED <<cache, bytes, captures, request, overlapped, sinceSweep>>

\* deleteTenant, first the store.
DeleteTenant(t) ==
  /\ Change /\ StoreDeletes(t)
  /\ flushes' = [flushes EXCEPT ![t] = <<"cache", "captures">>]
  /\ UNCHANGED <<cache, bytes, captures, request, overlapped, sinceSweep>>

\* deleteTenant, then what the gateway keeps for the tenant, in this order.
FlushNext(t) ==
  /\ flushes[t] # <<>>
  /\ IF Head(flushes[t]) = "cache" THEN Flush(t) /\ UNCHANGED captures
     ELSE captures' = [captures EXCEPT ![t] = <<>>] /\ UNCHANGED <<cache, bytes>>
  /\ flushes' = [flushes EXCEPT ![t] = Tail(@)]
  /\ overlapped' = overlapped \cup (IF InFlight(t) # {} THEN {t} ELSE {})
  /\ UNCHANGED <<status, policy, live, request, sinceSweep, changes>>

-----------------------------------------------------------------------------
SweepKnown ==
  /\ sinceSweep' = 0
  /\ captures' = [t \in Tenants |-> IF status[t] = "deleted" THEN captures[t] ELSE Expired(captures[t])]
  /\ UNCHANGED <<status, policy, live, cache, bytes, request, flushes, overlapped, changes>>

\* Every bucket, whether or not its tenant still exists.
Sweep ==
  /\ sinceSweep' = 0
  /\ captures' = [t \in Tenants |-> Expired(captures[t])]
  /\ UNCHANGED <<status, policy, live, cache, bytes, request, flushes, overlapped, changes>>

\* Time passes, and the sweeper's ticker fires when it is due.
Tick ==
  /\ sinceSweep < SweepEvery
  /\ sinceSweep' = sinceSweep + 1
  /\ cache' = [i \in DOMAIN cache |-> [cache[i] EXCEPT !.left = IF @ = 0 THEN 0 ELSE @ - 1]]
  /\ captures' = [t \in Tenants |-> [i \in DOMAIN captures[t] |-> [captures[t][i] EXCEPT !.age = @ + 1]]]
  /\ UNCHANGED <<status, policy, live, bytes, request, flushes, overlapped, changes>>

Next ==
  \/ \E r \in Requests :
       \/ \E k \in Keys, b \in Bodies : Authenticate(r, k, b)
       \/ \E m \in Models : Get(r, m) \/ \E size \in Sizes : Dispatched(r, m, size)
       \/ DispatchFails(r) \/ Return(r)
  \/ \E t \in Administered :
       \/ \E s \in {"active", "suspended"}, asked \in Policies : UpdateTenant(t, s, asked)
       \/ FlushTenantCache(t) \/ DeleteTenant(t) \/ FlushNext(t)
  \/ \E k \in {j \in Keys : Owner[j] \in Administered} : RevokeKey(k)
  \/ Sweep \/ Tick

Spec == Init /\ [][Next]_vars

-----------------------------------------------------------------------------
(* Properties *)

TypeOK ==
  /\ status \in [Tenants -> {"active", "suspended", "deleted"}]
  /\ live \subseteq Keys /\ sinceSweep \in 0..SweepEvery
  /\ \A t \in Tenants : Len(captures[t]) <= MaxCaptures

\* Whatever the routes were at the lookup, at the dispatch and since, an item is the
\* answer of the model its key names, given to the tenant its key names.  No key has
\* two items, and through replacements, expiries, evictions and flushes the byte count
\* stays the sum of the items, within its bound.
AnswersUnderTheirName ==
  /\ TypeOK
  /\ \A i \in DOMAIN cache : cache[i].by = cache[i].key[2] /\ cache[i].tenant = cache[i].key[1]
  /\ \A i, j \in DOMAIN cache : i # j => cache[i].key # cache[j].key
  /\ bytes = Bytes(cache) /\ bytes <= MaxBytes

\* No capture is held past the deployment's ceiling plus one sweep, be its policy
\* shortened, the captures before it dropped, its tenant deleted or its request older
\* than either; no cached answer can be replayed past the deployment's ceiling.
RetentionBounded ==
  /\ \A i \in DOMAIN cache : cache[i].left <= MaxCacheTTL
  /\ \A t \in Tenants : \A i \in DOMAIN captures[t] :
       captures[t][i].ttl <= MaxCaptureTTL /\ captures[t][i].age < MaxCaptureTTL + SweepEvery

\* A deleted tenant leaves no answer and no capture behind, unless a request of it
\* was in flight while the deletion flushed them.
DeletedLeavesNothing ==
  \A t \in Tenants : status[t] = "deleted" /\ flushes[t] = <<>> /\ t \notin overlapped =>
    captures[t] = <<>> /\ \A i \in DOMAIN cache : cache[i].tenant # t
=============================================================================
