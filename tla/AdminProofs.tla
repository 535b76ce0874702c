------------------------------ MODULE AdminProofs ------------------------------
(***************************************************************************)
(* What the store of Admin keeps to for every number of handlers, tenants, *)
(* names and writes: nothing outlives its tenant, identifiers and names    *)
(* are unique, the keys that a tenant mints stay in it, and the audit log  *)
(* accounts for what there is.  And what a client sees of it: a walk       *)
(* through the pages of a collection misses nothing that stays in it.      *)
(***************************************************************************)
EXTENDS Pages, FiniteSetTheorems, TLAPS

Drawn == 1..(next - 1)

TenantType == [id : Drawn, name : Nat, status : {"active", "suspended"}]
KeyType == [id : Drawn, tenant : Nat, plane : {"data", "admin"}, scope : Int,
            live : BOOLEAN, minter : Int]
ConfigType == [kind : Kinds \cup {"alias"}, tenant : Nat, id : Drawn, name : Nat]

Typed ==
  /\ next \in Nat /\ next > 3
  /\ tenants \subseteq TenantType /\ keys \subseteq KeyType /\ configs \subseteq ConfigType
  /\ quotas \subseteq Drawn \X Nat

Unique ==
  /\ \A u, v \in tenants : u # v => u.id # v.id /\ u.name # v.name
  /\ \A j, k \in keys : j # k => j.id # k.id
  /\ \A c, d \in configs : c # d =>
       /\ c.id # d.id
       /\ c.kind = d.kind /\ c.tenant = d.tenant /\ c.kind # "webhook" => c.name # d.name

\* The key is the tenant's, if the tenant is still there.
KeyOf(t, k) == Exists(t) /\ k # NoOne => \E j \in keys : j.id = k /\ j.tenant = t

Homes ==
  /\ \A k \in keys : k.tenant = NoOne \/ Exists(k.tenant)
  /\ \A c \in configs : Exists(c.tenant)
  /\ \A q \in quotas : KeyOf(q[1], q[2])

\* What a handler between two calls of the store relies on.
SeedType == [pc : {"seed"}, tenant : Nat, left : Seq(Names) \ {<<>>}]
Between(q) ==
  /\ q.pc = "serve" => q.scope \in Int
  /\ q.pc = "seed" => q \in SeedType
  /\ q.pc = "quota" => q.tenant \in Drawn /\ q.key \in Nat /\ KeyOf(q.tenant, q.key)

HandlerInv ==
  /\ handler = [h \in Handlers |-> handler[h]]
  /\ \A h \in Handlers : Between(handler[h])

Log == (\E S : audit \in Seq(S)) /\ Len(audit) <= MaxAudit

\* The inductive invariant.
IInv == Typed /\ Unique /\ Homes /\ ScopeConfined /\ HandlerInv /\ Log

\* Between two steps no tenant comes back, and no key leaves a tenant that stays.
Kept ==
  /\ next' \in Nat /\ next' >= next
  /\ \A t \in Drawn : Exists(t)' =>
       /\ Exists(t)
       /\ \A k \in keys : k.tenant = t => \E j \in keys' : j.id = k.id /\ j.tenant = t

-----------------------------------------------------------------------------
(* Steps of the store *)

\* What was said of a tenant and a key stays true as long as Kept does.
LEMMA KeyOfKept ==
  ASSUME Typed, Kept, NEW t \in Drawn, NEW k, KeyOf(t, k)
  PROVE  KeyOf(t, k)'
BY DEF Kept, KeyOf, Exists, NoOne

\* A write that leaves the store alone.
LEMMA StoreAlone ==
  ASSUME Typed, Unique, Homes, ScopeConfined, UNCHANGED <<tenants, keys, configs, quotas, next>>
  PROVE  (Typed /\ Unique /\ Homes /\ ScopeConfined)' /\ Kept
BY DEF Typed, Unique, Homes, ScopeConfined, Kept, KeyOf, Exists, Drawn, TenantType, KeyType, ConfigType

\* Identifiers already drawn stay drawn.
LEMMA DrawnGrows ==
  ASSUME next \in Nat, Draw
  PROVE  /\ next' \in Nat /\ next' > next /\ Drawn \subseteq Drawn'
         /\ TenantType \subseteq TenantType' /\ KeyType \subseteq KeyType'
         /\ ConfigType \subseteq ConfigType'
<1>1. next' = next + 1
  BY Zenon DEF Draw
<1>2. next' \in Nat /\ next' > next /\ Drawn \subseteq Drawn'
  BY <1>1 DEF Drawn
<1>3. TenantType \subseteq TenantType'
  BY <1>2, Zenon DEF TenantType
<1>4. KeyType \subseteq KeyType'
  BY <1>2, Zenon DEF KeyType
<1>5. ConfigType \subseteq ConfigType'
  BY <1>2, Zenon DEF ConfigType
<1> QED BY <1>2, <1>3, <1>4, <1>5, Zenon

\* CreateTenant of the store: a new identifier and a free name.
LEMMA StoreTenantStep ==
  ASSUME Typed, Unique, Homes, ScopeConfined, NEW n \in Names, StoreTenant(n),
         UNCHANGED <<keys, configs, quotas>>
  PROVE  (Typed /\ Unique /\ Homes /\ ScopeConfined)' /\ Kept
<1> DEFINE new == [id |-> next, name |-> n, status |-> "active"]
<1>1. Draw /\ tenants' = tenants \cup {new} /\ \A u \in tenants : u.name # n
  BY Zenon DEF StoreTenant
<1>2. next \in Nat /\ next > 3 /\ next' = next + 1
  BY <1>1, Zenon DEF Typed, Draw
<1>3. new \in TenantType'
  BY <1>2, AdminSettings DEF TenantType, Drawn
<1>4. Typed'
  BY <1>1, <1>2, <1>3, DrawnGrows DEF Typed
<1>5. Unique'
  <2>1. \A u \in tenants : u.id # next
    BY <1>2 DEF Typed, TenantType, Drawn
  <2> QED BY <1>1, <2>1 DEF Unique
<1>6. \A t : Exists(t) => Exists(t)'
  BY <1>1, Zenon DEF Exists
<1>7. \A t \in Drawn : Exists(t)' => Exists(t)
  BY <1>1, <1>2 DEF Exists, Drawn
<1>8. Kept
  BY <1>2, <1>7 DEF Kept
<1>9. \A q \in quotas : q[1] \in Drawn
  BY Zenon DEF Typed
<1>10. Homes'
  BY <1>6, <1>8, <1>9, KeyOfKept, Zenon DEF Homes
<1> QED BY <1>4, <1>5, <1>8, <1>10, Zenon DEF ScopeConfined

\* UpdateTenant of the store: the tenant keeps its identifier and takes a free name.
LEMMA StoreUpdatesStep ==
  ASSUME Typed, Unique, Homes, ScopeConfined, NEW t, NEW patch \in TenantPatches,
         StoreUpdates(t, patch), UNCHANGED <<keys, configs, quotas, next>>
  PROVE  (Typed /\ Unique /\ Homes /\ ScopeConfined)' /\ Kept
<1> DEFINE new(u) == IF u.id = t THEN Patched(u, patch) ELSE u
<1>1. tenants' = {new(u) : u \in tenants}
  BY Zenon DEF StoreUpdates
<1>2. ASSUME NEW u \in tenants
      PROVE  /\ new(u) \in TenantType /\ new(u).id = u.id
             /\ new(u).name = IF u.id = t /\ "name" \in DOMAIN patch THEN patch.name ELSE u.name
  <2>1. u \in TenantType /\ DOMAIN u = {"id", "name", "status"}
    BY Zenon DEF Typed, TenantType
  <2>2. /\ DOMAIN patch \subseteq {"name", "status"}
        /\ "name" \in DOMAIN patch => patch.name \in Nat
        /\ "status" \in DOMAIN patch => patch.status \in {"active", "suspended"}
    BY AdminSettings, Zenon
  <2>3. Patched(u, patch) = [id |-> u.id,
                      name |-> IF "name" \in DOMAIN patch THEN patch.name ELSE u.name,
                      status |-> IF "status" \in DOMAIN patch THEN patch.status ELSE u.status]
    BY <2>1, <2>2 DEF Patched
  <2> QED BY <2>1, <2>2, <2>3 DEF TenantType
<1>3. Typed'
  BY <1>1, <1>2, Zenon DEF Typed, TenantType, KeyType, ConfigType, Drawn
<1>4. Unique'
  <2>1. "name" \in DOMAIN patch => \A u \in tenants : u.id # t => u.name # patch.name
    BY Zenon DEF StoreUpdates
  <2>2. \A u, v \in tenants : u # v => new(u).id # new(v).id /\ new(u).name # new(v).name
    BY <1>2, <2>1 DEF Unique
  <2> QED BY <1>1, <2>2 DEF Unique
<1>5. \A i : Exists(i)' <=> Exists(i)
  BY <1>1, <1>2, Zenon DEF Exists
<1>6. Kept
  BY <1>5 DEF Kept, Typed
<1>7. Homes'
  BY <1>5, Zenon DEF Homes, KeyOf
<1> QED BY <1>3, <1>4, <1>6, <1>7, Zenon DEF ScopeConfined

\* DeleteTenant of the store takes the tenant's keys and configuration along.
LEMMA StoreDeletesStep ==
  ASSUME Typed, Unique, Homes, ScopeConfined, NEW t, StoreDeletes(t), UNCHANGED <<quotas, next>>
  PROVE  (Typed /\ Unique /\ Homes /\ ScopeConfined)' /\ Kept
<1>1. /\ tenants' = {u \in tenants : u.id # t} /\ keys' = {k \in keys : k.tenant # t}
      /\ configs' = {c \in configs : c.tenant # t}
  BY Zenon DEF StoreDeletes
<1>2. Typed'
  BY <1>1, Zenon DEF Typed, TenantType, KeyType, ConfigType, Drawn
<1>3. Unique' /\ ScopeConfined'
  BY <1>1, Zenon DEF Unique, ScopeConfined
<1>4. \A i : Exists(i)' <=> Exists(i) /\ i # t
  BY <1>1, Zenon DEF Exists
<1>5. Kept
  BY <1>1, <1>4 DEF Kept, Typed
<1>6. Homes'
  BY <1>1, <1>4, Zenon DEF Homes, KeyOf
<1> QED BY <1>2, <1>3, <1>5, <1>6, Zenon

\* A tenant that exists has been drawn.
LEMMA ExistsDrawn == ASSUME Typed, NEW t, Exists(t) PROVE t \in Drawn /\ t \in Nat
BY DEF Typed, Exists, TenantType, Drawn

\* CreateAPIKey of the store, for a minter that reaches the tenant.
LEMMA StoreKeyStep ==
  ASSUME Typed, Unique, Homes, ScopeConfined, NEW h, NEW t, NEW plane \in {"data", "admin"},
         NEW scope, ActsAs(h) \in Int, StoreKey(h, t, plane, scope),
         UNCHANGED <<tenants, configs, quotas>>,
         ActsAs(h) # Root => t = ActsAs(h) /\ scope \in {NoScope, t},
         scope \in {NoScope, Root, t}
  PROVE  (Typed /\ Unique /\ Homes /\ ScopeConfined)' /\ Kept
<1> DEFINE new == [id |-> next, tenant |-> t, plane |-> plane, scope |-> scope,
                   live |-> TRUE, minter |-> ActsAs(h)]
<1>1. Draw /\ keys' = keys \cup {new} /\ (Exists(t) \/ t = NoOne)
  BY Zenon DEF StoreKey
<1>2. next \in Nat /\ next > 3 /\ next' = next + 1
  BY <1>1, Zenon DEF Typed, Draw
<1>3. t \in Nat
  BY <1>1, ExistsDrawn DEF NoOne
<1>4. new \in KeyType'
  <2>1. scope \in Int
    BY <1>3 DEF NoScope, Root
  <2>2. next \in Drawn'
    BY <1>2 DEF Drawn
  <2> QED BY <1>3, <2>1, <2>2, Zenon DEF KeyType
<1>5. Typed'
  <2>1. /\ TenantType \subseteq TenantType' /\ KeyType \subseteq KeyType'
        /\ ConfigType \subseteq ConfigType' /\ Drawn \subseteq Drawn'
    BY <1>1, <1>2, DrawnGrows, Zenon
  <2>2. tenants' \subseteq TenantType' /\ configs' \subseteq ConfigType' /\ keys' \subseteq KeyType'
    BY <1>1, <1>4, <2>1, Zenon DEF Typed
  <2>3. quotas' \subseteq Drawn' \X Nat
    BY <2>1, Zenon DEF Typed
  <2> QED BY <1>2, <2>2, <2>3 DEF Typed
<1>6. Unique'
  <2>1. new.id = next /\ \A k \in keys : k.id # next
    BY <1>2 DEF Typed, KeyType, Drawn
  <2> HIDE DEF new
  <2>2. \A j, k \in keys' : j # k => j.id # k.id
    BY <1>1, <2>1, Zenon DEF Unique
  <2> QED BY <2>2, Zenon DEF Unique
<1>7. \A i : Exists(i)' <=> Exists(i)
  BY Zenon DEF Exists
<1>8. Kept
  BY <1>1, <1>2, <1>7 DEF Kept
<1>9. Homes'
  BY <1>1, <1>7 DEF Homes, KeyOf
<1>10. ScopeConfined'
  BY <1>1 DEF ScopeConfined
<1> QED BY <1>5, <1>6, <1>8, <1>9, <1>10, Zenon

\* RevokeAPIKey of the store: the key stays, and stays whose it was.
LEMMA StoreRevokesStep ==
  ASSUME Typed, Unique, Homes, ScopeConfined, NEW t, NEW i, StoreRevokes(t, i),
         UNCHANGED <<tenants, configs, quotas, next>>
  PROVE  (Typed /\ Unique /\ Homes /\ ScopeConfined)' /\ Kept
<1> DEFINE new(k) == IF k.id = i THEN [k EXCEPT !.live = FALSE] ELSE k
<1>1. keys' = {new(k) : k \in keys}
  BY Zenon DEF StoreRevokes
<1>2. \A k \in keys : /\ new(k) \in KeyType /\ new(k).id = k.id /\ new(k).tenant = k.tenant
                      /\ new(k).scope = k.scope /\ new(k).minter = k.minter
  BY Zenon DEF Typed, KeyType
<1> HIDE DEF new
<1>3. Typed'
  BY <1>1, <1>2 DEF Typed, TenantType, KeyType, ConfigType, Drawn
<1>4. Unique'
  BY <1>1, <1>2 DEF Unique
<1>5. \A u : Exists(u)' <=> Exists(u)
  BY Zenon DEF Exists
<1>6. \A k \in keys : \E j \in keys' : j.id = k.id /\ j.tenant = k.tenant
  BY <1>1, <1>2, Zenon
<1>7. Kept
  BY <1>5, <1>6 DEF Kept, Typed
<1>8. Homes'
  BY <1>1, <1>2, <1>5, <1>6 DEF Homes, KeyOf
<1>9. ScopeConfined'
  BY <1>1, <1>2 DEF ScopeConfined
<1> QED BY <1>3, <1>4, <1>7, <1>8, <1>9, Zenon

\* A new item of configuration, under a free name where names are unique.
LEMMA ConfigStep ==
  ASSUME Typed, Unique, Homes, ScopeConfined, NEW t, NEW kind \in Kinds \cup {"alias"},
         NEW n \in Names, Exists(t), Draw,
         configs' = configs \cup {[kind |-> kind, tenant |-> t, id |-> next, name |-> n]},
         kind # "webhook" => \A c \in configs : c.kind = kind /\ c.tenant = t => c.name # n,
         UNCHANGED <<tenants, keys, quotas>>
  PROVE  (Typed /\ Unique /\ Homes /\ ScopeConfined)' /\ Kept
<1> DEFINE new == [kind |-> kind, tenant |-> t, id |-> next, name |-> n]
<1>2. next \in Nat /\ next > 3 /\ next' = next + 1
  BY Zenon DEF Typed, Draw
<1>4. new \in ConfigType'
  <2>1. t \in Nat /\ n \in Nat /\ next \in Drawn'
    BY <1>2, ExistsDrawn, AdminSettings DEF Drawn
  <2> QED BY <2>1, Zenon DEF ConfigType
<1>5. Typed'
  <2>1. /\ TenantType \subseteq TenantType' /\ KeyType \subseteq KeyType'
        /\ ConfigType \subseteq ConfigType' /\ Drawn \subseteq Drawn'
    BY <1>2, DrawnGrows, Zenon
  <2>2. tenants' \subseteq TenantType' /\ configs' \subseteq ConfigType' /\ keys' \subseteq KeyType'
    BY <1>4, <2>1, Zenon DEF Typed
  <2>3. quotas' \subseteq Drawn' \X Nat
    BY <2>1, Zenon DEF Typed
  <2> QED BY <1>2, <2>2, <2>3 DEF Typed
<1>6. Unique'
  <2>1. \A c \in configs : c.id # next
    BY <1>2 DEF Typed, ConfigType, Drawn
  <2> QED BY <2>1 DEF Unique
<1>7. \A i : Exists(i)' <=> Exists(i)
  BY Zenon DEF Exists
<1>8. Kept
  BY <1>2, <1>7 DEF Kept
<1>9. Homes'
  BY <1>7 DEF Homes, KeyOf
<1> QED BY <1>5, <1>6, <1>8, <1>9, Zenon DEF ScopeConfined

\* UpsertAlias and UpsertRoute of the store.
LEMMA UpsertStep ==
  ASSUME Typed, Unique, Homes, ScopeConfined, NEW t, NEW kind \in Kinds \cup {"alias"},
         NEW n \in Names, Upsert(kind, t, n), UNCHANGED <<tenants, keys, quotas>>
  PROVE  (Typed /\ Unique /\ Homes /\ ScopeConfined)' /\ Kept
<1>1. CASE UNCHANGED <<configs, next>>
  BY <1>1, StoreAlone, Zenon
<1>2. CASE ~UNCHANGED <<configs, next>>
  BY <1>2, ConfigStep DEF Upsert
<1> QED BY <1>1, <1>2, Zenon

\* Deleting an item of configuration, or setting or deleting a quota.
LEMMA ConfigGone ==
  ASSUME Typed, Unique, Homes, ScopeConfined, configs' \subseteq configs,
         UNCHANGED <<tenants, keys, quotas, next>>
  PROVE  (Typed /\ Unique /\ Homes /\ ScopeConfined)' /\ Kept
<1>1. Typed'
  BY Zenon DEF Typed, TenantType, KeyType, ConfigType, Drawn
<1>2. Unique' /\ ScopeConfined'
  BY Zenon DEF Unique, ScopeConfined
<1>3. Homes' /\ Kept
  BY DEF Homes, Kept, KeyOf, Exists, Typed
<1> QED BY <1>1, <1>2, <1>3, Zenon

LEMMA QuotaStep ==
  ASSUME Typed, Unique, Homes, ScopeConfined, UNCHANGED <<tenants, keys, configs, next>>,
         \A q \in quotas' : q \in quotas \/ (q \in Drawn \X Nat /\ KeyOf(q[1], q[2]))
  PROVE  (Typed /\ Unique /\ Homes /\ ScopeConfined)' /\ Kept
<1>1. Typed'
  BY Zenon DEF Typed, TenantType, KeyType, ConfigType, Drawn
<1>2. Unique' /\ ScopeConfined'
  BY Zenon DEF Unique, ScopeConfined
<1>3. Homes' /\ Kept
  BY DEF Homes, Kept, KeyOf, Exists, Typed
<1> QED BY <1>1, <1>2, <1>3, Zenon

-----------------------------------------------------------------------------
(* Handlers and the log *)

LEMMA DrawnKept == ASSUME Typed, Kept PROVE Drawn \subseteq Drawn'
<1>1. \A m, n \in Nat : n >= m => 1..(m - 1) \subseteq 1..(n - 1)
  OBVIOUS
<1>2. next \in Nat /\ next' \in Nat /\ next' >= next
  BY Zenon DEF Typed, Kept
<1> QED BY <1>1, <1>2, Zenon DEF Drawn

\* One handler moves on; the others may rely on what they relied on.
LEMMA HandlerStep ==
  ASSUME Typed, Kept, HandlerInv, NEW h \in Handlers, NEW q,
         handler' = [handler EXCEPT ![h] = q], Between(q)'
  PROVE  HandlerInv'
<1>1. Drawn \subseteq Drawn'
  BY DrawnKept, Zenon
<1>2. ASSUME NEW g \in Handlers PROVE Between(handler[g])'
  <2>1. CASE g = h
    BY <2>1, Zenon DEF HandlerInv
  <2>2. CASE g # h
    <3>1. handler'[g] = handler[g] /\ Between(handler[g])
      BY <2>2, Zenon DEF HandlerInv
    <3>2. handler[g].pc = "quota" =>
             handler[g].tenant \in Drawn' /\ KeyOf(handler[g].tenant, handler[g].key)'
      BY <1>1, <3>1, KeyOfKept, Zenon DEF Between
    <3> QED BY <3>1, <3>2, Zenon DEF Between
  <2> QED BY <2>1, <2>2, Zenon
<1> QED BY <1>2, Zenon DEF HandlerInv

\* RecordAudit keeps the newest MaxAudit entries.
LEMMA LogStep ==
  ASSUME Log, NEW e, RecordAudit(e)
  PROVE  Log'
<1>1. PICK S : audit \in Seq(S)
  BY Zenon DEF Log
<1>2. PICK x : audit' = SubSeq(Append(audit, x),
                               Max({1, Len(Append(audit, x)) - MaxAudit + 1}), Len(Append(audit, x)))
  BY Zenon DEF RecordAudit
<1> DEFINE log == Append(audit, x)
<1> DEFINE from == Max({1, Len(log) - MaxAudit + 1})
<1>3. audit \in Seq(S \cup {x})
  BY <1>1
<1>4. log \in Seq(S \cup {x}) /\ Len(log) = Len(audit) + 1 /\ Len(log) \in Nat
  BY <1>3
<1>5. MaxAudit \in Nat \ {0}
  BY AdminSettings, Zenon
<1>6. from \in Int /\ from >= 1 /\ from >= Len(log) - MaxAudit + 1 /\ from <= Len(log)
  <2>1. \E m \in {1, Len(log) - MaxAudit + 1} : \A y \in {1, Len(log) - MaxAudit + 1} : m >= y
    BY <1>4, <1>5
  <2>2. from \in {1, Len(log) - MaxAudit + 1} /\ \A y \in {1, Len(log) - MaxAudit + 1} : from >= y
    BY <2>1, Zenon DEF Max
  <2> HIDE DEF from, log
  <2> QED BY <1>4, <1>5, <2>2 DEF log
<1> HIDE DEF from, log
<1>7. SubSeq(log, from, Len(log)) \in Seq(S \cup {x}) /\ Len(SubSeq(log, from, Len(log))) <= MaxAudit
  BY <1>4, <1>5, <1>6
<1> QED BY <1>2, <1>7, Zenon DEF Log, log, from

\* A handler that has answered, or is done, relies on nothing.
LEMMA AnswerStep ==
  ASSUME Typed, Kept, HandlerInv, NEW h \in Handlers,
         \E q : handler' = [handler EXCEPT ![h] = q] /\ q.pc \in {"idle", "audit"}
  PROVE  HandlerInv'
<1>1. PICK q : handler' = [handler EXCEPT ![h] = q] /\ q.pc \in {"idle", "audit"}
  BY Zenon
<1>2. Between(q)'
  BY <1>1, Zenon DEF Between
<1> QED BY <1>1, <1>2, HandlerStep, Zenon

LEMMA AnsweredAs ==
  ASSUME NEW h, NEW action, NEW kind, NEW t, NEW ok, Answered(h, action, kind, t, ok)
  PROVE  \E q : handler' = [handler EXCEPT ![h] = q] /\ q.pc = "audit"
<1>1. PICK q : q = [pc |-> "audit",
                    entry |-> [action |-> action, kind |-> kind, tenant |-> t, ok |-> ok]]
  BY Zenon
<1>2. handler' = [handler EXCEPT ![h] = q] /\ q.pc = "audit"
  BY <1>1, Zenon DEF Answered
<1> QED BY <1>2, Zenon

LEMMA AnsweredStep ==
  ASSUME Typed, Kept, HandlerInv, NEW h \in Handlers,
         NEW action, NEW kind, NEW t, NEW ok, Answered(h, action, kind, t, ok)
  PROVE  HandlerInv'
BY AnsweredAs, AnswerStep, Zenon

-----------------------------------------------------------------------------
(* Writes *)

LEMMA LogAlone == ASSUME Log, UNCHANGED audit PROVE Log'
BY Zenon DEF Log

\* Every write of a handler.
LEMMA WriteStep ==
  ASSUME IInv, NEW h \in Handlers, Write(h)
  PROVE  IInv'
<1> DEFINE Store == Typed /\ Unique /\ Homes /\ ScopeConfined
<1>0. Typed /\ Unique /\ Homes /\ ScopeConfined /\ HandlerInv /\ Log /\ next \in Nat
  BY Zenon DEF IInv, Typed
<1>a. ASSUME Store', HandlerInv', UNCHANGED audit PROVE IInv'
  BY <1>a, <1>0, LogAlone, Zenon DEF IInv
<1>b. ASSUME Serving(h) PROVE ActsAs(h) \in Int
  BY <1>b, <1>0, Zenon DEF Serving, ActsAs, HandlerInv, Between
<1> HIDE DEF Store
<1>1. ASSUME NEW k \in keys \cup {Bootstrap}, Authenticate(h, k) PROVE IInv'
  <2>1. Store' /\ Kept
    BY <1>0, <1>1, StoreAlone, Zenon DEF Store, Authenticate
  <2>2. k.scope \in Int
    BY <1>0 DEF Typed, KeyType, Bootstrap, Root
  <2>3. PICK q : q.pc = "serve" /\ q.scope \in Int /\ handler' = [handler EXCEPT ![h] = q]
    BY <1>1, <2>2, Zenon DEF Authenticate
  <2>4. Between(q)'
    BY <2>3, Zenon DEF Between
  <2> QED BY <1>0, <1>1, <1>a, <2>1, <2>3, <2>4, HandlerStep, Zenon DEF Authenticate
<1>2. ASSUME NEW n \in Names, CreateTenant(h, n) PROVE IInv'
  <2>1. Store' /\ Kept
    BY <1>0, <1>2, StoreTenantStep, Zenon DEF Store, CreateTenant
  <2>2. PICK q : q = [pc |-> "seed", tenant |-> next, left |-> Seeds]
    BY Zenon
  <2>3. q \in SeedType /\ handler' = [handler EXCEPT ![h] = q]
    BY <1>0, <1>2, <2>2, AdminSettings, Zenon DEF SeedType, CreateTenant
  <2>4. Between(q)'
    BY <2>2, <2>3, Zenon DEF Between, SeedType
  <2> QED BY <1>0, <1>2, <1>a, <2>1, <2>3, <2>4, HandlerStep, Zenon DEF CreateTenant
<1>3. CASE SeedAlias(h)
  <2>1. handler[h] \in SeedType /\ handler[h].pc = "seed"
    BY <1>0, <1>3, Zenon DEF SeedAlias, HandlerInv, Between
  <2>2. Head(handler[h].left) \in Names /\ Tail(handler[h].left) \in Seq(Names)
    BY <2>1 DEF SeedType
  <2>3. Store' /\ Kept
    BY <1>0, <1>3, <2>2, UpsertStep, Zenon DEF Store, SeedAlias
  <2>4. HandlerInv'
    <3>1. CASE Tail(handler[h].left) = <<>>
      BY <1>0, <1>3, <2>3, <3>1, AnsweredStep, Zenon DEF SeedAlias
    <3>2. CASE Tail(handler[h].left) # <<>>
      <4>1. PICK q : q = [handler[h] EXCEPT !.left = Tail(handler[h].left)]
        BY Zenon
      <4>2. q \in SeedType /\ q.pc = "seed"
        BY <2>1, <2>2, <3>2, <4>1, Zenon DEF SeedType
      <4>3. handler' = [handler EXCEPT ![h] = q]
        BY <1>0, <1>3, <3>2, <4>1, Zenon DEF SeedAlias, HandlerInv
      <4>4. Between(q)'
        BY <4>2, Zenon DEF Between, SeedType
      <4> QED BY <1>0, <2>3, <4>3, <4>4, HandlerStep, Zenon
    <3> QED BY <3>1, <3>2, Zenon
  <2> QED BY <1>3, <1>a, <2>3, <2>4, Zenon DEF SeedAlias
<1>4. CASE CreateAdminKey(h)
  <2>1. Store' /\ Kept
    BY <1>0, <1>4, <1>b, StoreKeyStep, Zenon DEF Store, CreateAdminKey, IsRoot
  <2> QED BY <1>0, <1>4, <1>a, <2>1, AnsweredStep, Zenon DEF CreateAdminKey
<1>5. CASE SetQuota(h)
  <2>1. /\ handler[h].tenant \in Drawn /\ handler[h].key \in Nat
        /\ KeyOf(handler[h].tenant, handler[h].key)
    BY <1>0, <1>5, Zenon DEF SetQuota, HandlerInv, Between
  <2>2. Store' /\ Kept
    <3>1. \A q \in quotas' : q \in quotas \/ q = <<handler[h].tenant, handler[h].key>>
      BY <1>5, Zenon DEF SetQuota
    <3> QED BY <1>0, <1>5, <2>1, <3>1, QuotaStep DEF Store, SetQuota
  <2> QED BY <1>0, <1>5, <1>a, <2>2, AnsweredStep, Zenon DEF SetQuota
<1>6. CASE DeleteQuota(h)
  <2>1. Store' /\ Kept
    BY <1>0, <1>6, QuotaStep, Zenon DEF Store, DeleteQuota
  <2> QED BY <1>0, <1>6, <1>a, <2>1, AnsweredStep, Zenon DEF DeleteQuota
<1>7. CASE AuditMutation(h)
  <2>1. Store' /\ Kept
    BY <1>0, <1>7, StoreAlone, Zenon DEF Store, AuditMutation
  <2>2. HandlerInv'
    <3>1. \E q : handler' = [handler EXCEPT ![h] = q] /\ q.pc \in {"idle", "audit"}
      <4>1. handler' = [handler EXCEPT ![h] = Idle] /\ Idle.pc = "idle"
        BY <1>7, Zenon DEF AuditMutation, Idle
      <4> QED BY <4>1, Zenon
    <3> QED BY <1>0, <2>1, <3>1, AnswerStep, Zenon
  <2>3. Log'
    BY <1>0, <1>7, LogStep, Zenon DEF AuditMutation
  <2> QED BY <2>1, <2>2, <2>3, Zenon DEF IInv, Store
<1>8. ASSUME NEW i \in Ids, RevokeAdminKey(h, i) PROVE IInv'
  <2>1. Store' /\ Kept
    BY <1>0, <1>8, StoreRevokesStep, Zenon DEF Store, RevokeAdminKey
  <2> QED BY <1>0, <1>8, <1>a, <2>1, AnsweredStep, Zenon DEF RevokeAdminKey
<1>9. ASSUME NEW t, DeleteTenant(h, t) PROVE IInv'
  <2>1. Store' /\ Kept
    BY <1>0, <1>9, StoreDeletesStep, Zenon DEF Store, DeleteTenant
  <2> QED BY <1>0, <1>9, <1>a, <2>1, AnsweredStep, Zenon DEF DeleteTenant
<1>10. ASSUME NEW action, NEW kind, NEW t, Refuse(h, action, kind, t) PROVE IInv'
  <2>1. Store' /\ Kept
    BY <1>0, <1>10, StoreAlone, Zenon DEF Store, Refuse
  <2> QED BY <1>0, <1>10, <1>a, <2>1, AnsweredStep, Zenon DEF Refuse
<1>11. ASSUME NEW t, NEW patch \in TenantPatches, UpdateTenant(h, t, patch) PROVE IInv'
  <2>1. Store' /\ Kept
    BY <1>0, <1>11, StoreUpdatesStep, Zenon DEF Store, UpdateTenant
  <2> QED BY <1>0, <1>11, <1>a, <2>1, AnsweredStep, Zenon DEF UpdateTenant
<1>12. ASSUME NEW t, NEW plane \in {"data", "admin"}, NEW asksRoot \in BOOLEAN, CreateKey(h, t, plane, asksRoot) PROVE IInv'
  <2>1. Store' /\ Kept
    BY <1>0, <1>12, StoreKeyStep, <1>b, Zenon DEF Store, CreateKey, IsRoot, Reaches
  <2> QED BY <1>0, <1>12, <1>a, <2>1, AnsweredStep, Zenon DEF CreateKey
<1>13. ASSUME NEW t, NEW i \in Ids, RevokeKey(h, t, i) PROVE IInv'
  <2>1. Store' /\ Kept
    BY <1>0, <1>13, StoreRevokesStep, Zenon DEF Store, RevokeKey
  <2> QED BY <1>0, <1>13, <1>a, <2>1, AnsweredStep, Zenon DEF RevokeKey
<1>14. ASSUME NEW kind \in Created, NEW t, NEW n \in Names, Create(h, kind, t, n) PROVE IInv'
  <2>1. Store' /\ Kept
    BY <1>0, <1>14, ConfigStep, AdminSettings DEF Store, Create, Kinds
  <2> QED BY <1>0, <1>14, <1>a, <2>1, AnsweredStep, Zenon DEF Create
<1>15. ASSUME NEW kind \in Upserted, NEW t, NEW n \in Names, Put(h, kind, t, n) PROVE IInv'
  <2>1. Store' /\ Kept
    BY <1>0, <1>15, UpsertStep, Zenon DEF Store, Put, Kinds
  <2> QED BY <1>0, <1>15, <1>a, <2>1, AnsweredStep, Zenon DEF Put
<1>16. ASSUME NEW kind, NEW t, NEW i \in Ids, Delete(h, kind, t, i) PROVE IInv'
  <2>1. Store' /\ Kept
    BY <1>0, <1>16, ConfigGone, Zenon DEF Store, Delete
  <2> QED BY <1>0, <1>16, <1>a, <2>1, AnsweredStep, Zenon DEF Delete
<1>17. ASSUME NEW t, Exists(t), NEW k \in {j.id : j \in keys} \cup {NoOne}, QuotaTarget(h, t, k)
       PROVE  IInv'
  <2>1. Store' /\ Kept
    BY <1>0, <1>17, StoreAlone, Zenon DEF Store, QuotaTarget
  <2>2. t \in Drawn /\ k \in Nat
    BY <1>0, <1>17, ExistsDrawn DEF Typed, KeyType, Drawn, NoOne
  <2>3. KeyOf(t, k)
    BY <1>17, Zenon DEF QuotaTarget, KeyOf
  <2>4. PICK q : q = [pc |-> "quota", tenant |-> t, key |-> k]
    BY Zenon
  <2>5. t \in Drawn' /\ KeyOf(t, k)'
    BY <1>0, <1>17, <2>1, <2>2, <2>3, KeyOfKept, Zenon DEF QuotaTarget, Drawn
  <2>6. Between(q)'
    BY <2>2, <2>4, <2>5, Zenon DEF Between
  <2>7. handler' = [handler EXCEPT ![h] = q]
    BY <1>17, <2>4, Zenon DEF QuotaTarget
  <2> QED BY <1>0, <1>17, <1>a, <2>1, <2>6, <2>7, HandlerStep, Zenon DEF QuotaTarget
<1>18. \A t \in {u.id : u \in tenants} : Exists(t)
  BY Zenon DEF Exists
<1> QED
  BY Zenon, <1>1, <1>2, <1>3, <1>4, <1>5, <1>6, <1>7, <1>8, <1>9, <1>10, <1>11, <1>12, <1>13, <1>14,
     <1>15, <1>16, <1>17, <1>18
  DEF Write

-----------------------------------------------------------------------------
(* The specification *)

LEMMA InvariantInit == ASSUME Init PROVE IInv
<1>1. next = 4 /\ Drawn = {1, 2, 3}
  BY DEF Init, Drawn
<1>2. Typed
  BY <1>1 DEF Init, Typed, TenantType, KeyType, ConfigType, NoScope, Root
<1>3. Unique /\ ScopeConfined
  BY DEF Init, Unique, ScopeConfined
<1>4. Homes
  BY DEF Init, Homes, Exists
<1>5. HandlerInv
  BY Zenon DEF Init, HandlerInv, Between, Idle
<1>6. Log
  <2>1. audit \in Seq({}) /\ Len(audit) = 0
    BY DEF Init
  <2> QED BY <2>1, AdminSettings DEF Log
<1> QED BY <1>2, <1>3, <1>4, <1>5, <1>6, Zenon DEF IInv

LEMMA InvariantStep == ASSUME IInv, [Next]_vars PROVE IInv'
<1>1. ASSUME UNCHANGED <<tenants, keys, configs, quotas, audit, handler, next>> PROVE IInv'
  <2>1. (Typed /\ Unique /\ Homes /\ ScopeConfined)'
    BY <1>1, StoreAlone, Zenon DEF IInv
  <2>2. HandlerInv' /\ Log'
    BY <1>1, Zenon DEF IInv, HandlerInv, Between, KeyOf, Exists, Drawn, Log
  <2> QED BY <2>1, <2>2, Zenon DEF IInv
<1>2. CASE UNCHANGED vars
  BY <1>1, <1>2, Zenon DEF vars
<1> QED BY <1>2, WriteStep, Zenon DEF Next

\* However handlers interleave, the store stays typed, unique, without orphans and
\* confined, handlers rely only on what is still so, and the log keeps to its bound.
THEOREM Invariance == Spec => []IInv
<1>1. Init => IInv
  BY InvariantInit, Zenon
<1>2. IInv /\ [Next]_vars => IInv'
  BY InvariantStep, Zenon
<1> QED
  BY <1>1, <1>2, PTL DEF Spec

\* DeleteTenant leaves no key and no configuration behind, whatever writes of that tenant
\* were under way, and what identifies an item is unique.
THEOREM NoOrphans == Spec => []NothingOrphaned
<1>1. IInv => NothingOrphaned
  BY Zenon DEF IInv, Unique, Homes, KeyOf, Log, NothingOrphaned, TypeOK
<1> QED
  BY <1>1, Invariance, PTL

\* No chain of minted keys leads out of the tenant it began in.
THEOREM Confined == Spec => []ScopeConfined
BY Invariance, PTL DEF IInv

-----------------------------------------------------------------------------
(* The log accounts for what there is *)

\* The aliases still to be written for a new tenant are seeds.
SeedsLeft ==
  \A h \in Handlers : handler[h].pc = "seed" =>
    \A i \in DOMAIN handler[h].left : \E j \in DOMAIN Seeds : Seeds[j] = handler[h].left[i]

Accounted == IsFiniteSet(keys) /\ IsFiniteSet(configs) /\ SeedsLeft /\ Explained

LEMMA Fewer ==
  ASSUME NEW S, NEW T, IsFiniteSet(T), S \subseteq T
  PROVE  /\ IsFiniteSet(S) /\ Cardinality(S) \in Nat /\ Cardinality(T) \in Nat
         /\ Cardinality(S) <= Cardinality(T)
BY FS_Subset, FS_CardinalityType, Zenon

LEMMA OneMore ==
  ASSUME NEW S, NEW T, NEW x, IsFiniteSet(S), T \subseteq S \cup {x}
  PROVE  IsFiniteSet(T) /\ Cardinality(T) \in Nat /\ Cardinality(T) <= Cardinality(S) + 1
<1>1. /\ IsFiniteSet(S \cup {x}) /\ Cardinality(S) \in Nat
      /\ Cardinality(S \cup {x}) = Cardinality(S) \/ Cardinality(S \cup {x}) = Cardinality(S) + 1
  BY FS_AddElement, FS_CardinalityType, Zenon
<1>2. /\ IsFiniteSet(T) /\ Cardinality(T) \in Nat
      /\ Cardinality(T) <= Cardinality(S \cup {x}) /\ Cardinality(S \cup {x}) \in Nat
  BY <1>1, Fewer, Zenon
<1> QED BY <1>1, <1>2

LEMMA Exactly ==
  ASSUME NEW S, NEW x, IsFiniteSet(S), x \notin S
  PROVE  Cardinality(S \cup {x}) = Cardinality(S) + 1
BY FS_AddElement, Zenon

\* What is counted is finite.
LEMMA Countable ==
  ASSUME Log, NEW kind, NEW t
  PROVE  /\ IsFiniteSet(Entered(kind, t)) /\ Cardinality(Entered(kind, t)) \in Nat
         /\ IsFiniteSet(Entering(kind, t)) /\ Cardinality(Entering(kind, t)) \in Nat
         /\ Writes(kind, t) \in Nat
<1>1. Len(audit) \in Nat /\ DOMAIN audit = 1..Len(audit)
  BY DEF Log
<1>2. IsFiniteSet(DOMAIN audit)
  BY <1>1, FS_Interval
<1>3. IsFiniteSet(Entered(kind, t)) /\ Cardinality(Entered(kind, t)) \in Nat
  BY <1>2, Fewer, Zenon DEF Entered
<1>4. IsFiniteSet(Entering(kind, t)) /\ Cardinality(Entering(kind, t)) \in Nat
  BY AdminSettings, Fewer, Zenon DEF Entering
<1> QED BY <1>3, <1>4 DEF Writes

\* A handler that answers is about to enter its write in the log.
LEMMA EntryCounts ==
  ASSUME Log, HandlerInv, NEW h \in Handlers, handler[h].pc # "audit",
         NEW e, handler' = [handler EXCEPT ![h] = [pc |-> "audit", entry |-> e]],
         UNCHANGED audit, NEW kind, NEW u
  PROVE  /\ Writes(kind, u) \in Nat /\ Writes(kind, u)' \in Nat /\ Writes(kind, u)' >= Writes(kind, u)
         /\ Accepts(e, kind, u) => Writes(kind, u)' = Writes(kind, u) + 1
<1> DEFINE q == [pc |-> "audit", entry |-> e]
<1>1. handler' = [handler EXCEPT ![h] = q]
  BY Zenon
<1>2. /\ handler'[h] = q /\ \A g \in Handlers : g # h => handler'[g] = handler[g]
  BY <1>1, Zenon DEF HandlerInv
<1>3. q.pc = "audit" /\ q.entry = e
  BY Zenon
<1>4. Entered(kind, u)' = Entered(kind, u) /\ h \notin Entering(kind, u)
  BY Zenon DEF Entered, Entering
<1> HIDE DEF q
<1>6. Entering(kind, u)' = IF Accepts(e, kind, u) THEN Entering(kind, u) \cup {h} ELSE Entering(kind, u)
  <2>1. \A g \in Handlers : g # h => (g \in Entering(kind, u)' <=> g \in Entering(kind, u))
    BY <1>2, Zenon DEF Entering, Accepts
  <2>2. h \in Entering(kind, u)' <=> Accepts(e, kind, u)
    BY <1>2, <1>3, Zenon DEF Entering, Accepts
  <2>3. Entering(kind, u) \subseteq Handlers /\ Entering(kind, u)' \subseteq Handlers
    BY Zenon DEF Entering
  <2> QED BY <1>4, <2>1, <2>2, <2>3
<1>7. Cardinality(Entering(kind, u)') =
        IF Accepts(e, kind, u) THEN Cardinality(Entering(kind, u)) + 1 ELSE Cardinality(Entering(kind, u))
  BY <1>4, <1>6, Countable, Exactly, Zenon
<1> QED BY <1>4, <1>7, Countable DEF Writes

LEMMA AnsweredCounts ==
  ASSUME Log, HandlerInv, NEW h \in Handlers, handler[h].pc # "audit",
         NEW action, NEW kd, NEW t, NEW ok, Answered(h, action, kd, t, ok),
         UNCHANGED audit, NEW kind, NEW u
  PROVE  Writes(kind, u) \in Nat /\ Writes(kind, u)' \in Nat /\ Writes(kind, u)' >= Writes(kind, u)
<1>1. PICK e : e = [action |-> action, kind |-> kd, tenant |-> t, ok |-> ok]
  BY Zenon
<1>2. handler' = [handler EXCEPT ![h] = [pc |-> "audit", entry |-> e]]
  BY <1>1, Zenon DEF Answered
<1> QED BY <1>2, EntryCounts, Zenon

\* A handler that goes on without answering.
LEMMA QuietCounts ==
  ASSUME Log, HandlerInv, NEW h \in Handlers, handler[h].pc # "audit",
         NEW q, q.pc # "audit", handler' = [handler EXCEPT ![h] = q], UNCHANGED audit,
         NEW kind, NEW u
  PROVE  Writes(kind, u) \in Nat /\ Writes(kind, u)' = Writes(kind, u)
<1>1. handler'[h] = q /\ \A g \in Handlers : g # h => handler'[g] = handler[g]
  BY Zenon DEF HandlerInv
<1>2. Entered(kind, u)' = Entered(kind, u)
  BY Zenon DEF Entered
<1>3. \A g \in Handlers : g \in Entering(kind, u)' <=> g \in Entering(kind, u)
  <2> TAKE g \in Handlers
  <2>1. CASE g = h
    BY <1>1, <2>1, Zenon DEF Entering
  <2>2. CASE g # h
    BY <1>1, <2>2, Zenon DEF Entering, Accepts
  <2> QED BY <2>1, <2>2, Zenon
<1>4. Entering(kind, u)' = Entering(kind, u)
  <2>1. Entering(kind, u) \subseteq Handlers /\ Entering(kind, u)' \subseteq Handlers
    BY Zenon DEF Entering
  <2> QED BY <1>3, <2>1, Zenon
<1> QED BY <1>2, <1>4, Countable, Zenon DEF Writes

\* A log with room for one more entry drops none.
LEMMA NoneDropped ==
  ASSUME Log, NEW e, RecordAudit(e), Len(audit') < MaxAudit
  PROVE  /\ Len(audit) < MaxAudit /\ Len(audit) \in Nat
         /\ DOMAIN audit = 1..Len(audit) /\ DOMAIN audit' = 1..(Len(audit) + 1)
         /\ \A i \in DOMAIN audit : audit'[i] = audit[i]
         /\ \A kind, u : Accepts(audit'[Len(audit) + 1], kind, u) <=> Accepts(e, kind, u)
<1>1. PICK S : audit \in Seq(S)
  BY Zenon DEF Log
<1>2. PICK n : audit' = SubSeq(Append(audit, [id |-> n, action |-> e.action, kind |-> e.kind,
                                              tenant |-> e.tenant, ok |-> e.ok]),
        Max({1, Len(Append(audit, [id |-> n, action |-> e.action, kind |-> e.kind,
                                   tenant |-> e.tenant, ok |-> e.ok])) - MaxAudit + 1}),
        Len(Append(audit, [id |-> n, action |-> e.action, kind |-> e.kind,
                           tenant |-> e.tenant, ok |-> e.ok])))
  BY Zenon DEF RecordAudit
<1> DEFINE x == [id |-> n, action |-> e.action, kind |-> e.kind, tenant |-> e.tenant, ok |-> e.ok]
<1> DEFINE log == Append(audit, x)
<1> DEFINE from == Max({1, Len(log) - MaxAudit + 1})
<1>3. audit' = SubSeq(log, from, Len(log))
  BY <1>2, Zenon
<1>4. \A kind, u : Accepts(x, kind, u) <=> Accepts(e, kind, u)
  BY Zenon DEF Accepts
<1> HIDE DEF x
<1>5. audit \in Seq(S \cup {x})
  BY <1>1
<1>6. /\ log \in Seq(S \cup {x}) /\ Len(log) = Len(audit) + 1 /\ Len(audit) \in Nat
      /\ log[Len(audit) + 1] = x /\ \A i \in 1..Len(audit) : log[i] = audit[i]
  BY <1>5
<1>7. MaxAudit \in Nat \ {0} /\ Len(audit) <= MaxAudit
  BY AdminSettings, Zenon DEF Log
<1>8. from \in {1, Len(log) - MaxAudit + 1} /\ \A y \in {1, Len(log) - MaxAudit + 1} : from >= y
  <2>1. \E m \in {1, Len(log) - MaxAudit + 1} : \A y \in {1, Len(log) - MaxAudit + 1} : m >= y
    BY <1>6, <1>7
  <2> QED BY <2>1, Zenon DEF Max
<1> HIDE DEF from, log
<1>9. from = 1 /\ Len(log) < MaxAudit
  <2>1. CASE Len(audit) = MaxAudit
    <3>1. from = 2
      BY <1>6, <1>7, <1>8, <2>1
    <3>2. Len(SubSeq(log, 2, Len(log))) = MaxAudit
      BY <1>6, <1>7, <2>1
    <3> QED BY <1>3, <1>7, <3>1, <3>2
  <2>2. CASE Len(audit) < MaxAudit
    <3>1. from = 1
      BY <1>6, <1>7, <1>8, <2>2
    <3>2. Len(SubSeq(log, 1, Len(log))) = Len(log)
      BY <1>6
    <3> QED BY <1>3, <3>1, <3>2, Zenon
  <2> QED BY <1>6, <1>7, <2>1, <2>2
<1>10. SubSeq(log, 1, Len(log)) = log
  BY <1>6
<1>11. audit' = log
  BY <1>3, <1>9, <1>10, Zenon
<1>12. DOMAIN audit = 1..Len(audit) /\ DOMAIN log = 1..(Len(audit) + 1)
  BY <1>5, <1>6
<1>13. Len(audit) < MaxAudit
  BY <1>6, <1>7, <1>9
<1> QED BY <1>4, <1>6, <1>11, <1>12, <1>13, Zenon

\* AuditMutation moves a write from those about to enter the log to those in it.
LEMMA AuditCounts ==
  ASSUME Log, HandlerInv, NEW h \in Handlers, AuditMutation(h), Len(audit') < MaxAudit, NEW kind, NEW u
  PROVE  /\ Len(audit) < MaxAudit /\ Writes(kind, u) \in Nat /\ Writes(kind, u)' \in Nat
         /\ Writes(kind, u)' >= Writes(kind, u)
<1> DEFINE e == handler[h].entry
<1>1. RecordAudit(e) /\ handler' = [handler EXCEPT ![h] = Idle] /\ handler[h].pc = "audit"
  BY Zenon DEF AuditMutation
<1>2. /\ Len(audit) < MaxAudit /\ Len(audit) \in Nat
      /\ DOMAIN audit = 1..Len(audit) /\ DOMAIN audit' = 1..(Len(audit) + 1)
      /\ \A i \in DOMAIN audit : audit'[i] = audit[i]
      /\ Accepts(audit'[Len(audit) + 1], kind, u) <=> Accepts(e, kind, u)
  BY <1>1, NoneDropped, Zenon
<1>3. /\ IsFiniteSet(Entered(kind, u)') /\ Cardinality(Entered(kind, u)') \in Nat
      /\ IsFiniteSet(Entering(kind, u)') /\ Cardinality(Entering(kind, u)') \in Nat
  <2>1. IsFiniteSet(DOMAIN audit')
    <3>1. 1 \in Int /\ Len(audit) + 1 \in Int
      BY <1>2
    <3> QED BY <1>2, <3>1, FS_Interval, Zenon
  <2> QED BY <2>1, AdminSettings, Fewer, Zenon DEF Entered, Entering
<1>4. handler'[h].pc = "idle" /\ \A g \in Handlers : g # h => handler'[g] = handler[g]
  BY <1>1, Zenon DEF HandlerInv, Idle
<1>5. \A g \in Handlers : g # h => (g \in Entering(kind, u)' <=> g \in Entering(kind, u))
  BY <1>4, Zenon DEF Entering, Accepts
<1>6. Entering(kind, u) \subseteq Entering(kind, u)' \cup {h}
  BY <1>5, Zenon DEF Entering
<1>7. Entered(kind, u) \subseteq Entered(kind, u)' /\ Len(audit) + 1 \notin Entered(kind, u)
  <2>1. \A i \in DOMAIN audit : i \in DOMAIN audit'
    BY <1>2
  <2>2. Len(audit) + 1 \notin DOMAIN audit
    BY <1>2
  <2> QED BY <1>2, <2>1, <2>2, Zenon DEF Entered, Accepts
<1>8. /\ IsFiniteSet(Entered(kind, u)) /\ Cardinality(Entered(kind, u)) \in Nat
      /\ IsFiniteSet(Entering(kind, u)) /\ Cardinality(Entering(kind, u)) \in Nat
  BY Countable, Zenon
<1>9. CASE ~Accepts(e, kind, u)
  <2>1. Entering(kind, u) \subseteq Entering(kind, u)'
    BY <1>1, <1>5, <1>9, Zenon DEF Entering
  <2>2. /\ Cardinality(Entering(kind, u)) <= Cardinality(Entering(kind, u)')
        /\ Cardinality(Entered(kind, u)) <= Cardinality(Entered(kind, u)')
    BY <1>3, <1>7, <2>1, Fewer, Zenon
  <2> QED BY <1>2, <1>3, <1>8, <2>2 DEF Writes
<1>10. CASE Accepts(e, kind, u)
  <2>1. Len(audit) + 1 \in Entered(kind, u)'
    <3>1. Len(audit) + 1 \in DOMAIN audit'
      BY <1>2
    <3> QED BY <1>2, <1>10, <3>1, Zenon DEF Entered, Accepts
  <2>2. Entered(kind, u) \cup {Len(audit) + 1} \subseteq Entered(kind, u)'
    BY <1>7, <2>1, Zenon
  <2>3. Cardinality(Entered(kind, u)) + 1 <= Cardinality(Entered(kind, u)')
    <3>1. Cardinality(Entered(kind, u) \cup {Len(audit) + 1}) = Cardinality(Entered(kind, u)) + 1
      BY <1>7, <1>8, Exactly, Zenon
    <3>2. Cardinality(Entered(kind, u) \cup {Len(audit) + 1}) <= Cardinality(Entered(kind, u)')
      BY <1>3, <2>2, Fewer, Zenon
    <3> QED BY <3>1, <3>2, Zenon
  <2>4. Cardinality(Entering(kind, u)) <= Cardinality(Entering(kind, u)') + 1
    BY <1>3, <1>6, <1>8, OneMore, Zenon
  <2> QED BY <1>2, <1>3, <1>8, <2>3, <2>4 DEF Writes
<1> QED BY <1>9, <1>10, Zenon

\* The log keeps up when for each tenant that was there no more items appear than writes,
\* and a tenant that is new has none.
LEMMA KeepsUp ==
  ASSUME Explained, Len(audit') < MaxAudit => Len(audit) < MaxAudit,
         IsFiniteSet(keys), IsFiniteSet(configs), IsFiniteSet(keys'), IsFiniteSet(configs'),
         \A t : Exists(t)' /\ ~Exists(t) => Minted(t)' = {} /\ \A kind \in Kinds : Items(kind, t)' = {},
         Len(audit') < MaxAudit => \A kind, t : Writes(kind, t) \in Nat /\ Writes(kind, t)' \in Nat,
         Len(audit') < MaxAudit => \A t : Exists(t) /\ Exists(t)' => \E d \in {0, 1} :
           /\ Cardinality(Minted(t)') <= Cardinality(Minted(t)) + d
           /\ Writes("key", t)' >= Writes("key", t) + d,
         Len(audit') < MaxAudit => \A t : \A kind \in Kinds : Exists(t) /\ Exists(t)' => \E d \in {0, 1} :
           /\ Cardinality(Items(kind, t)') <= Cardinality(Items(kind, t)) + d
           /\ Writes(kind, t)' >= Writes(kind, t) + d
  PROVE  Explained'
<1> SUFFICES ASSUME Len(audit') < MaxAudit, NEW t, Exists(t)'
             PROVE  /\ Cardinality(Minted(t)') <= Writes("key", t)'
                    /\ \A kind \in Kinds : Cardinality(Items(kind, t)') <= Writes(kind, t)'
  <2>1. \A t \in {u.id : u \in tenants'} : Exists(t)'
    BY Zenon DEF Exists
  <2> QED BY <2>1, Zenon DEF Explained
<1>1. Len(audit) < MaxAudit /\ Writes("key", t) \in Nat /\ Writes("key", t)' \in Nat
  BY Zenon
<1>2. CASE ~Exists(t)
  <2>1. Cardinality(Minted(t)') = 0 /\ \A kind \in Kinds : Cardinality(Items(kind, t)') = 0
    BY <1>2, FS_EmptySet, Zenon
  <2>2. \A kind : Writes(kind, t)' >= 0
    BY SMT
  <2> QED BY <2>1, <2>2, Zenon
<1>3. CASE Exists(t)
  <2>0. t \in {u.id : u \in tenants}
    BY <1>3, Zenon DEF Exists
  <2>1. Cardinality(Minted(t)) <= Writes("key", t) /\ \A kind \in Kinds : Cardinality(Items(kind, t)) <= Writes(kind, t)
    BY <1>1, <2>0, Zenon DEF Explained
  <2>2. /\ \A m, n, w, x \in Nat, d \in {0, 1} : m <= w /\ n <= m + d /\ x >= w + d => n <= x
    OBVIOUS
  <2>3. Cardinality(Minted(t)) \in Nat /\ Cardinality(Minted(t)') \in Nat
    BY Fewer, Zenon DEF Minted
  <2>4. Cardinality(Minted(t)') <= Writes("key", t)'
    BY <1>1, <1>3, <2>1, <2>2, <2>3, Zenon
  <2>5. ASSUME NEW kind \in Kinds PROVE Cardinality(Items(kind, t)') <= Writes(kind, t)'
    <3>1. Cardinality(Items(kind, t)) \in Nat /\ Cardinality(Items(kind, t)') \in Nat
      BY Fewer, Zenon DEF Items
    <3> QED BY <1>3, <2>1, <2>2, <3>1, Zenon
  <2> QED BY <2>4, <2>5, Zenon
<1> QED BY <1>2, <1>3, Zenon

\* A write that adds to no tenant's items.
LEMMA NothingNew ==
  ASSUME Explained, Len(audit') < MaxAudit => Len(audit) < MaxAudit,
         IsFiniteSet(keys), IsFiniteSet(configs), IsFiniteSet(keys'), IsFiniteSet(configs'),
         \A t : Exists(t)' /\ ~Exists(t) => Minted(t)' = {} /\ \A kind \in Kinds : Items(kind, t)' = {},
         Len(audit') < MaxAudit => \A kind, t : /\ Writes(kind, t) \in Nat /\ Writes(kind, t)' \in Nat
                                                /\ Writes(kind, t)' >= Writes(kind, t),
         \A t : Cardinality(Minted(t)') <= Cardinality(Minted(t)),
         \A kind, t : Items(kind, t)' \subseteq Items(kind, t)
  PROVE  Explained'
<1>1. \A n \in Nat : n + 0 = n
  OBVIOUS
<1>2. \A t : Cardinality(Minted(t)) \in Nat
  BY Fewer, Zenon DEF Minted
<1>3. \A kind, t : Cardinality(Items(kind, t)') <= Cardinality(Items(kind, t)) /\ Cardinality(Items(kind, t)) \in Nat
  <2> TAKE kind, t
  <2>1. IsFiniteSet(Items(kind, t))
    BY Fewer, Zenon DEF Items
  <2> QED BY <2>1, Fewer, Zenon
<1>4. \A t : Cardinality(Minted(t)') <= Cardinality(Minted(t)) + 0
  BY <1>1, <1>2, Zenon
<1>5. \A kind, t : Cardinality(Items(kind, t)') <= Cardinality(Items(kind, t)) + 0
  BY <1>1, <1>3, Zenon
<1>6. Len(audit') < MaxAudit => \A kind, t : Writes(kind, t)' >= Writes(kind, t) + 0
  BY <1>1, Zenon
<1> QED BY <1>4, <1>5, <1>6, KeepsUp, Zenon

LEMMA SeedsLeftStep ==
  ASSUME HandlerInv, SeedsLeft, NEW h \in Handlers, NEW q, handler' = [handler EXCEPT ![h] = q],
         q.pc = "seed" => \A i \in DOMAIN q.left : \E j \in DOMAIN Seeds : Seeds[j] = q.left[i]
  PROVE  SeedsLeft'
<1>1. handler'[h] = q /\ \A g \in Handlers : g # h => handler'[g] = handler[g]
  BY Zenon DEF HandlerInv
<1>2. SUFFICES ASSUME NEW g \in Handlers, handler'[g].pc = "seed"
               PROVE  \A i \in DOMAIN handler'[g].left : \E j \in DOMAIN Seeds : Seeds[j] = handler'[g].left[i]
  BY Zenon DEF SeedsLeft
<1>3. CASE g = h
  BY <1>1, <1>2, <1>3, ZenonT(30)
<1>4. CASE g # h
  <2>1. handler'[g] = handler[g]
    BY <1>1, <1>4, Zenon
  <2>2. \A i \in DOMAIN handler[g].left : \E j \in DOMAIN Seeds : Seeds[j] = handler[g].left[i]
    BY <1>2, <2>1, Zenon DEF SeedsLeft
  <2> QED BY <2>1, <2>2, Zenon
<1> QED BY <1>3, <1>4, Zenon

\* No tenant, no items.
LEMMA NoneOwned ==
  ASSUME Homes, NEW t, ~Exists(t), t # NoOne
  PROVE  Minted(t) = {} /\ \A kind : Items(kind, t) = {}
<1>1. Minted(t) = {}
  BY Zenon DEF Homes, Minted
<1>2. \A kind : Items(kind, t) = {}
  BY Zenon DEF Homes, Items
<1> QED BY <1>1, <1>2, Zenon

\* A handler that answers, having added nothing.
LEMMA AnswersNothingNew ==
  ASSUME IInv, Accounted, NEW h \in Handlers, handler[h].pc # "audit",
         NEW action, NEW kd, NEW t, NEW ok, Answered(h, action, kd, t, ok), UNCHANGED audit,
         IsFiniteSet(keys'), IsFiniteSet(configs'), \A u : Exists(u)' => Exists(u),
         \A u : Cardinality(Minted(u)') <= Cardinality(Minted(u)),
         \A kind, u : Items(kind, u)' \subseteq Items(kind, u)
  PROVE  Accounted'
<1>1. Log /\ HandlerInv
  BY Zenon DEF IInv
<1>2. \A kind, u : /\ Writes(kind, u) \in Nat /\ Writes(kind, u)' \in Nat
                   /\ Writes(kind, u)' >= Writes(kind, u)
  BY <1>1, AnsweredCounts, Zenon
<1>3. Explained'
  BY <1>2, NothingNew, Zenon DEF Accounted
<1>4. PICK q : handler' = [handler EXCEPT ![h] = q] /\ q.pc = "audit"
  BY AnsweredAs, Zenon
<1>5. SeedsLeft'
  BY <1>1, <1>4, SeedsLeftStep, Zenon DEF Accounted
<1> QED BY <1>3, <1>5, Zenon DEF Accounted

\* A handler that goes on, having added nothing.
LEMMA GoesOnNothingNew ==
  ASSUME IInv, Accounted, NEW h \in Handlers, handler[h].pc # "audit",
         NEW q, handler' = [handler EXCEPT ![h] = q], q.pc # "audit", UNCHANGED <<audit, keys>>,
         q.pc = "seed" => \A i \in DOMAIN q.left : \E j \in DOMAIN Seeds : Seeds[j] = q.left[i],
         IsFiniteSet(configs'),
         \A t : Exists(t)' /\ ~Exists(t) => Minted(t)' = {} /\ \A kind \in Kinds : Items(kind, t)' = {},
         \A kind, u : Items(kind, u)' \subseteq Items(kind, u)
  PROVE  Accounted'
<1>1. Log /\ HandlerInv
  BY Zenon DEF IInv
<1>2. \A kind, u : Writes(kind, u) \in Nat /\ Writes(kind, u)' = Writes(kind, u)
  BY <1>1, QuietCounts, Zenon
<1>3. \A n \in Nat : n <= n /\ n >= n
  OBVIOUS
<1>4. \A u : Minted(u)' = Minted(u) /\ Cardinality(Minted(u)) \in Nat
  BY Fewer, Zenon DEF Minted, Accounted
<1>5. Explained'
  BY <1>2, <1>3, <1>4, NothingNew, Zenon DEF Accounted
<1>6. SeedsLeft'
  BY <1>1, SeedsLeftStep, Zenon DEF Accounted
<1> QED BY <1>5, <1>6, Zenon DEF Accounted

\* RevokeAPIKey: as many keys as before.
LEMMA RevokedCounts ==
  ASSUME Typed, IsFiniteSet(keys), NEW t, NEW i, StoreRevokes(t, i)
  PROVE  IsFiniteSet(keys') /\ \A u : Cardinality(Minted(u)') <= Cardinality(Minted(u))
<1> DEFINE new(k) == IF k.id = i THEN [k EXCEPT !.live = FALSE] ELSE k
<1>1. keys' = {new(k) : k \in keys}
  BY Zenon DEF StoreRevokes
<1>2. \A k \in keys : new(k).id = k.id /\ new(k).tenant = k.tenant
  BY Zenon DEF Typed, KeyType
<1> HIDE DEF new
<1>3. IsFiniteSet(keys')
  <2>1. [k \in keys |-> new(k)] \in Surjection(keys, keys')
    BY <1>1, Zenon DEF Surjection
  <2> QED BY <2>1, FS_Surjection, Zenon
<1>4. ASSUME NEW u PROVE Cardinality(Minted(u)') <= Cardinality(Minted(u))
  <2>1. Minted(u)' = {new(k) : k \in Minted(u)}
    BY <1>1, <1>2, Zenon DEF Minted
  <2>2. [k \in Minted(u) |-> new(k)] \in Surjection(Minted(u), Minted(u)')
    BY <2>1, Zenon DEF Surjection
  <2>3. IsFiniteSet(Minted(u))
    BY Fewer, Zenon DEF Minted
  <2> QED BY <2>2, <2>3, FS_Surjection, Zenon
<1> QED BY <1>3, <1>4, Zenon

\* CreateAPIKey: one key more for its tenant, and one write.
LEMMA KeyCounts ==
  ASSUME IInv, Accounted, NEW h \in Handlers, Serving(h), NEW t, NEW plane, NEW scope,
         StoreKey(h, t, plane, scope), Answered(h, "create", "key", t, TRUE),
         UNCHANGED <<tenants, configs, audit>>
  PROVE  Accounted'
<1> DEFINE new == [id |-> next, tenant |-> t, plane |-> plane, scope |-> scope,
                   live |-> TRUE, minter |-> ActsAs(h)]
<1>0. Log /\ HandlerInv /\ handler[h].pc # "audit" /\ IsFiniteSet(keys) /\ IsFiniteSet(configs)
  BY Zenon DEF IInv, Serving, Accounted
<1>1. keys' = keys \cup {new} /\ new.tenant = t
  BY Zenon DEF StoreKey
<1> HIDE DEF new
<1>2. IsFiniteSet(keys')
  BY <1>0, <1>1, FS_AddElement, Zenon
<1>3. \A kind, u : /\ Writes(kind, u) \in Nat /\ Writes(kind, u)' \in Nat
                   /\ Writes(kind, u)' >= Writes(kind, u)
                   /\ kind = "key" /\ u = t => Writes(kind, u)' = Writes(kind, u) + 1
  <2> TAKE kind, u
  <2>1. UNCHANGED audit /\ "create" \in {"create", "upsert"}
    BY Zenon
  <2>2. /\ Writes(kind, u) \in Nat /\ Writes(kind, u)' \in Nat
        /\ Writes(kind, u)' >= Writes(kind, u)
    BY <1>0, <2>1, AnsweredCounts, Zenon
  <2>3. PICK e : e = [action |-> "create", kind |-> "key", tenant |-> t, ok |-> TRUE]
    BY Zenon
  <2>4. handler' = [handler EXCEPT ![h] = [pc |-> "audit", entry |-> e]]
    BY <2>3, Zenon DEF Answered
  <2>5. Accepts(e, "key", t)
    BY <2>1, <2>3, Zenon DEF Accepts
  <2>6. Writes("key", t)' = Writes("key", t) + 1
    BY <1>0, <2>1, <2>4, <2>5, EntryCounts, Zenon
  <2> QED BY <2>2, <2>6, Zenon
<1>4. \A u : IsFiniteSet(Minted(u)) /\ Cardinality(Minted(u)) \in Nat
  BY <1>0, Fewer, Zenon DEF Minted
<1>5. \A kind, u : Items(kind, u)' = Items(kind, u) /\ Cardinality(Items(kind, u)) \in Nat
  BY <1>0, Fewer, Zenon DEF Items
<1>6. ASSUME NEW u PROVE \E d \in {0, 1} : /\ Cardinality(Minted(u)') <= Cardinality(Minted(u)) + d
                                           /\ Writes("key", u)' >= Writes("key", u) + d
  <2>1. CASE u = t
    <3>1. Minted(u)' \subseteq Minted(u) \cup {new}
      BY <1>1, Zenon DEF Minted
    <3>2. Cardinality(Minted(u)') <= Cardinality(Minted(u)) + 1
      BY <1>4, <3>1, OneMore, Zenon
    <3> QED BY <1>3, <2>1, <3>2
  <2>2. CASE u # t
    <3>1. Minted(u)' = Minted(u)
      BY <1>1, <2>2, Zenon DEF Minted
    <3> QED BY <1>3, <1>4, <3>1
  <2> QED BY <2>1, <2>2, Zenon
<1>7. ASSUME NEW kind, NEW u PROVE \E d \in {0, 1} : /\ Cardinality(Items(kind, u)') <= Cardinality(Items(kind, u)) + d
                                                     /\ Writes(kind, u)' >= Writes(kind, u) + d
  BY <1>3, <1>5
<1>8. \A u : Exists(u)' => Exists(u)
  BY Zenon DEF Exists
<1>9. Explained'
  BY <1>0, <1>2, <1>3, <1>6, <1>7, <1>8, KeepsUp, Zenon DEF Accounted
<1>10. PICK q : handler' = [handler EXCEPT ![h] = q] /\ q.pc = "audit"
  BY AnsweredAs, Zenon
<1>11. SeedsLeft'
  BY <1>0, <1>10, SeedsLeftStep, Zenon DEF Accounted
<1> QED BY <1>0, <1>2, <1>9, <1>11, Zenon DEF Accounted

\* A new item of configuration, or none, and one write of its kind.
LEMMA ConfigCounts ==
  ASSUME IInv, Accounted, NEW h \in Handlers, Serving(h), NEW action \in {"create", "upsert"},
         NEW kd, NEW t, NEW new, configs' \subseteq configs \cup {new}, new.kind = kd, new.tenant = t,
         Answered(h, action, kd, t, TRUE), UNCHANGED <<tenants, keys, audit>>
  PROVE  Accounted'
<1>0. Log /\ HandlerInv /\ handler[h].pc # "audit" /\ IsFiniteSet(keys) /\ IsFiniteSet(configs)
  BY Zenon DEF IInv, Serving, Accounted
<1>2. IsFiniteSet(configs')
  BY <1>0, OneMore, Zenon
<1>3. \A kind, u : /\ Writes(kind, u) \in Nat /\ Writes(kind, u)' \in Nat
                   /\ Writes(kind, u)' >= Writes(kind, u)
                   /\ kind = kd /\ u = t => Writes(kind, u)' = Writes(kind, u) + 1
  <2> TAKE kind, u
  <2>1. UNCHANGED audit /\ action \in {"create", "upsert"}
    BY Zenon
  <2>2. /\ Writes(kind, u) \in Nat /\ Writes(kind, u)' \in Nat
        /\ Writes(kind, u)' >= Writes(kind, u)
    BY <1>0, <2>1, AnsweredCounts, Zenon
  <2>3. PICK e : e = [action |-> action, kind |-> kd, tenant |-> t, ok |-> TRUE]
    BY Zenon
  <2>4. handler' = [handler EXCEPT ![h] = [pc |-> "audit", entry |-> e]]
    BY <2>3, Zenon DEF Answered
  <2>5. Accepts(e, kd, t)
    BY <2>1, <2>3, Zenon DEF Accepts
  <2>6. Writes(kd, t)' = Writes(kd, t) + 1
    BY <1>0, <2>1, <2>4, <2>5, EntryCounts, Zenon
  <2> QED BY <2>2, <2>6, Zenon
<1>4. \A u : Minted(u)' = Minted(u) /\ Cardinality(Minted(u)) \in Nat
  BY <1>0, Fewer, Zenon DEF Minted
<1>5. \A kind, u : /\ IsFiniteSet(Items(kind, u)) /\ Cardinality(Items(kind, u)) \in Nat
                   /\ Cardinality(Items(kind, u)') \in Nat
  BY <1>0, <1>2, Fewer, Zenon DEF Items
<1>6. ASSUME NEW kind, NEW u PROVE \E d \in {0, 1} : /\ Cardinality(Items(kind, u)') <= Cardinality(Items(kind, u)) + d
                                                     /\ Writes(kind, u)' >= Writes(kind, u) + d
  <2>1. CASE kind = kd /\ u = t
    <3>1. Items(kind, u)' \subseteq Items(kind, u) \cup {new}
      BY Zenon DEF Items
    <3>2. Cardinality(Items(kind, u)') <= Cardinality(Items(kind, u)) + 1
      BY <1>5, <3>1, OneMore, Zenon
    <3> QED BY <1>3, <2>1, <3>2
  <2>2. CASE ~(kind = kd /\ u = t)
    <3>1. Items(kind, u)' \subseteq Items(kind, u)
      BY <2>2, Zenon DEF Items
    <3>2. Cardinality(Items(kind, u)') <= Cardinality(Items(kind, u))
      BY <1>5, <3>1, Fewer, Zenon
    <3> QED BY <1>3, <1>5, <3>2
  <2> QED BY <2>1, <2>2, Zenon
<1>7. ASSUME NEW u PROVE \E d \in {0, 1} : /\ Cardinality(Minted(u)') <= Cardinality(Minted(u)) + d
                                           /\ Writes("key", u)' >= Writes("key", u) + d
  BY <1>3, <1>4
<1>8. \A u : Exists(u)' => Exists(u)
  BY Zenon DEF Exists
<1>9. Explained'
  BY <1>0, <1>2, <1>3, <1>6, <1>7, <1>8, KeepsUp, Zenon DEF Accounted
<1>10. PICK q : handler' = [handler EXCEPT ![h] = q] /\ q.pc = "audit"
  BY AnsweredAs, Zenon
<1>11. SeedsLeft'
  BY <1>0, <1>10, SeedsLeftStep, Zenon DEF Accounted
<1> QED BY <1>0, <1>2, <1>9, <1>11, Zenon DEF Accounted

\* A write that answers and only removes, or leaves the tenants and their items alone.
LEMMA AnswersLess ==
  ASSUME IInv, Accounted, NEW h \in Handlers, handler[h].pc # "audit",
         NEW action, NEW kd, NEW t, NEW ok, Answered(h, action, kd, t, ok), UNCHANGED audit,
         keys' \subseteq keys, configs' \subseteq configs, \A u : Exists(u)' => Exists(u)
  PROVE  Accounted'
<1>1. IsFiniteSet(keys) /\ IsFiniteSet(configs)
  BY Zenon DEF Accounted
<1>2. IsFiniteSet(keys') /\ IsFiniteSet(configs')
  BY <1>1, Fewer, Zenon
<1>3. ASSUME NEW u PROVE Cardinality(Minted(u)') <= Cardinality(Minted(u))
  <2>1. Minted(u)' \subseteq Minted(u) /\ Minted(u) \subseteq keys
    BY Zenon DEF Minted
  <2> QED BY <1>1, <2>1, Fewer, Zenon
<1>4. \A kind, u : Items(kind, u)' \subseteq Items(kind, u)
  BY Zenon DEF Items
<1> QED BY <1>2, <1>3, <1>4, AnswersNothingNew, Zenon

\* Upsert: one item more of the kind, of the tenant and with the name, or none.
LEMMA UpsertAdds ==
  ASSUME NEW kind, NEW t, NEW n, Upsert(kind, t, n)
  PROVE  \E c : c.kind = kind /\ c.tenant = t /\ c.name = n /\ configs' \subseteq configs \cup {c}
<1>1. PICK c : c = [kind |-> kind, tenant |-> t, id |-> next, name |-> n]
  BY Zenon
<1>2. configs' \subseteq configs \cup {c}
  BY <1>1, Zenon DEF Upsert
<1> QED BY <1>1, <1>2, Zenon

\* seedAliases: what it adds is a seed, which no write need account for.
LEMMA SeedCounts ==
  ASSUME IInv, Accounted, NEW h \in Handlers, SeedAlias(h)
  PROVE  Accounted'
<1> DEFINE q == handler[h]
<1>0. Log /\ HandlerInv /\ IsFiniteSet(keys) /\ IsFiniteSet(configs)
  BY Zenon DEF IInv, Accounted
<1>1. q.pc = "seed" /\ q \in SeedType /\ UNCHANGED <<tenants, keys, audit>>
  BY <1>0, Zenon DEF SeedAlias, HandlerInv, Between
<1>2. q.left \in Seq(Names) \ {<<>>}
  BY <1>1, Zenon DEF SeedType
<1>3. /\ 1 \in DOMAIN q.left /\ Head(q.left) = q.left[1]
      /\ \A i \in DOMAIN Tail(q.left) : i + 1 \in DOMAIN q.left /\ Tail(q.left)[i] = q.left[i + 1]
  BY <1>2
<1>4. \A i \in DOMAIN q.left : \E j \in DOMAIN Seeds : Seeds[j] = q.left[i]
  BY <1>1, Zenon DEF Accounted, SeedsLeft
<1>5. PICK c : c.kind = "alias" /\ c.name = Head(q.left) /\ configs' \subseteq configs \cup {c}
  <2>1. Upsert("alias", q.tenant, Head(q.left))
    BY Zenon DEF SeedAlias
  <2> QED BY <2>1, UpsertAdds, Zenon
<1>6. \E i \in DOMAIN Seeds : Seeds[i] = c.name
  BY <1>3, <1>4, <1>5, Zenon
<1>7. \A kind, u : Items(kind, u)' \subseteq Items(kind, u)
  BY <1>5, <1>6, Zenon DEF Items
<1>8. IsFiniteSet(configs')
  BY <1>0, <1>5, OneMore, Zenon
<1>9. \A u : Exists(u)' => Exists(u)
  BY <1>1, Zenon DEF Exists
<1>10. \A n \in Nat : n <= n
  OBVIOUS
<1>11. \A u : Minted(u)' = Minted(u) /\ Cardinality(Minted(u)) \in Nat
  BY <1>0, <1>1, Fewer, Zenon DEF Minted
<1>12. CASE Tail(q.left) = <<>>
  <2>1. Answered(h, "create", "tenant", NoOne, TRUE)
    BY <1>12, Zenon DEF SeedAlias
  <2>2. handler[h].pc # "audit" /\ IsFiniteSet(keys') /\ UNCHANGED audit
    BY <1>0, <1>1, Zenon
  <2>3. \A u : Cardinality(Minted(u)') <= Cardinality(Minted(u))
    BY <1>10, <1>11, Zenon
  <2> QED BY <1>7, <1>8, <1>9, <2>1, <2>2, <2>3, AnswersNothingNew, Zenon
<1>13. CASE Tail(q.left) # <<>>
  <2>1. handler' = [handler EXCEPT ![h] = [q EXCEPT !.left = Tail(q.left)]]
    BY <1>0, <1>13, Zenon DEF SeedAlias, HandlerInv
  <2>2. PICK p : p = [q EXCEPT !.left = Tail(q.left)]
    BY Zenon
  <2>3. p.pc = "seed" /\ p.left = Tail(q.left)
    <3>1. "left" \in DOMAIN q /\ "pc" \in DOMAIN q
      BY <1>1, Zenon DEF SeedType
    <3> QED BY <1>1, <2>2, <3>1, Zenon
  <2>4. handler' = [handler EXCEPT ![h] = p] /\ p.pc = "seed" /\ p.left = Tail(q.left)
    BY <2>1, <2>2, <2>3, Zenon
  <2>5. \A i \in DOMAIN p.left : \E j \in DOMAIN Seeds : Seeds[j] = p.left[i]
    BY <1>3, <1>4, <2>4, ZenonT(30)
  <2>6. handler[h].pc # "audit" /\ p.pc # "audit" /\ UNCHANGED <<audit, keys>>
    BY <1>1, <2>4, Zenon
  <2> QED BY <1>7, <1>8, <1>9, <2>4, <2>5, <2>6, GoesOnNothingNew, Zenon
<1> QED BY <1>12, <1>13, Zenon

\* Every step of a handler keeps the log's account.
LEMMA AccountedStep ==
  ASSUME IInv, Accounted, NEW h \in Handlers, Write(h)
  PROVE  Accounted'
<1>0. /\ Typed /\ Homes /\ HandlerInv /\ Log /\ next \in Nat /\ next > 3
      /\ IsFiniteSet(keys) /\ IsFiniteSet(configs)
  BY Zenon DEF IInv, Typed, Accounted
<1>a. Serving(h) => handler[h].pc # "audit"
  BY Zenon DEF Serving
<1>b. ASSUME UNCHANGED tenants PROVE \A u : Exists(u)' => Exists(u)
  BY <1>b, Zenon DEF Exists
<1>c. ASSUME UNCHANGED <<tenants, keys, configs, audit>>, NEW q, handler' = [handler EXCEPT ![h] = q],
             handler[h].pc # "audit", q.pc \notin {"audit", "seed"}
      PROVE  Accounted'
  <2>1. \A kind, u : Items(kind, u)' \subseteq Items(kind, u)
    BY <1>c, Zenon DEF Items
  <2> QED BY <1>0, <1>b, <1>c, <2>1, GoesOnNothingNew, Zenon
<1>1. ASSUME NEW k \in keys \cup {Bootstrap}, Authenticate(h, k) PROVE Accounted'
  <2>1. PICK q : q.pc = "serve" /\ handler' = [handler EXCEPT ![h] = q]
    BY <1>1, Zenon DEF Authenticate
  <2>2. handler[h].pc # "audit" /\ q.pc \notin {"audit", "seed"} /\ UNCHANGED <<tenants, keys, configs, audit>>
    <3>1. handler[h] = Idle /\ Idle.pc = "idle" /\ UNCHANGED <<tenants, keys, configs, audit>>
      BY <1>1, Zenon DEF Authenticate, Idle
    <3> QED BY <2>1, <3>1, Zenon
  <2> QED BY <1>c, <2>1, <2>2, Zenon
<1>2. ASSUME NEW n \in Names, CreateTenant(h, n) PROVE Accounted'
  <2>1. tenants' = tenants \cup {[id |-> next, name |-> n, status |-> "active"]}
    BY <1>2, Zenon DEF CreateTenant, StoreTenant
  <2>2. \A t : Exists(t)' /\ ~Exists(t) => t = next
    BY <2>1 DEF Exists
  <2>3. ~Exists(next) /\ next # NoOne
    <3>1. next \notin Drawn /\ next # NoOne
      BY <1>0 DEF Drawn, NoOne
    <3> QED BY <1>0, <3>1, ExistsDrawn, Zenon
  <2>4. Minted(next) = {} /\ \A kind : Items(kind, next) = {}
    BY <1>0, <2>3, NoneOwned, Zenon
  <2>5. UNCHANGED <<keys, configs, audit>> /\ handler[h].pc # "audit"
    BY <1>2, <1>a, Zenon DEF CreateTenant
  <2>6. \A t : Minted(t)' = Minted(t) /\ \A kind : Items(kind, t)' = Items(kind, t)
    BY <2>5, Zenon DEF Minted, Items
  <2>7. PICK q : q.pc = "seed" /\ q.left = Seeds /\ handler' = [handler EXCEPT ![h] = q]
    BY <1>2, Zenon DEF CreateTenant
  <2>8. q.pc # "audit" /\ \A i \in DOMAIN q.left : \E j \in DOMAIN Seeds : Seeds[j] = q.left[i]
    BY <2>7, Zenon
  <2> QED BY <1>0, <2>2, <2>4, <2>5, <2>6, <2>7, <2>8, GoesOnNothingNew, Zenon
<1>3. CASE CreateAdminKey(h)
  BY <1>3, KeyCounts, Zenon DEF CreateAdminKey
<1>4. CASE SetQuota(h)
  BY <1>4, <1>b, AnswersLess, Zenon DEF SetQuota
<1>5. CASE DeleteQuota(h)
  BY <1>5, <1>b, AnswersLess, Zenon DEF DeleteQuota
<1>6. CASE AuditMutation(h)
  <2>1. UNCHANGED <<tenants, keys, configs>> /\ handler' = [handler EXCEPT ![h] = Idle] /\ Idle.pc = "idle"
    BY <1>6, Zenon DEF AuditMutation, Idle
  <2>2. Len(audit') < MaxAudit => \A kind, u : /\ Writes(kind, u) \in Nat /\ Writes(kind, u)' \in Nat
                                               /\ Writes(kind, u)' >= Writes(kind, u)
    BY <1>0, <1>6, AuditCounts, Zenon
  <2>3. Len(audit') < MaxAudit => Len(audit) < MaxAudit
    BY <1>0, <1>6, AuditCounts, Zenon
  <2>4. \A u : Minted(u)' = Minted(u) /\ Cardinality(Minted(u)) \in Nat
    BY <1>0, <2>1, Fewer, Zenon DEF Minted
  <2>5. \A u : Cardinality(Minted(u)') <= Cardinality(Minted(u))
    <3>1. \A n \in Nat : n <= n
      OBVIOUS
    <3> QED BY <2>4, <3>1, Zenon
  <2>6. \A kind, u : Items(kind, u)' \subseteq Items(kind, u)
    BY <2>1, Zenon DEF Items
  <2>7. Explained'
    BY <1>0, <1>b, <2>1, <2>2, <2>3, <2>5, <2>6, NothingNew, Zenon DEF Accounted
  <2>8. SeedsLeft'
    <3>1. PICK q : q = Idle /\ handler' = [handler EXCEPT ![h] = q]
      BY <2>1, Zenon
    <3> QED BY <1>0, <2>1, <3>1, SeedsLeftStep, Zenon DEF Accounted
  <2> QED BY <1>0, <2>1, <2>7, <2>8, Zenon DEF Accounted
<1>7. ASSUME NEW t, NEW i, StoreRevokes(t, i), Serving(h), Answered(h, "delete", "key", t, TRUE),
             UNCHANGED <<tenants, configs, audit>>
      PROVE  Accounted'
  <2>1. \A kind, u : Items(kind, u)' \subseteq Items(kind, u)
    BY <1>7, Zenon DEF Items
  <2>2. IsFiniteSet(keys') /\ \A u : Cardinality(Minted(u)') <= Cardinality(Minted(u))
    BY <1>0, <1>7, RevokedCounts, Zenon
  <2> QED BY <1>0, <1>7, <1>a, <1>b, <2>1, <2>2, AnswersNothingNew, Zenon
<1>8. ASSUME NEW i \in Ids, RevokeAdminKey(h, i) PROVE Accounted'
  BY <1>7, <1>8, Zenon DEF RevokeAdminKey
<1>9. ASSUME NEW t, DeleteTenant(h, t) PROVE Accounted'
  <2>1. keys' \subseteq keys /\ configs' \subseteq configs /\ \A u : Exists(u)' => Exists(u)
    BY <1>9, Zenon DEF DeleteTenant, StoreDeletes, Exists
  <2> QED BY <1>9, <1>a, <2>1, AnswersLess, Zenon DEF DeleteTenant
<1>10. ASSUME NEW action, NEW kind, NEW t, Refuse(h, action, kind, t) PROVE Accounted'
  BY <1>10, <1>a, <1>b, AnswersLess, Zenon DEF Refuse
<1>11. ASSUME NEW t, NEW patch \in TenantPatches, UpdateTenant(h, t, patch) PROVE Accounted'
  <2>1. /\ Serving(h) /\ StoreUpdates(t, patch) /\ Answered(h, "update", "tenant", t, TRUE)
        /\ UNCHANGED <<keys, configs, quotas, audit, next>>
    BY <1>11, Zenon DEF UpdateTenant
  <2>2. Typed' /\ Kept
    BY <2>1, StoreUpdatesStep, Zenon DEF IInv
  <2>3. \A u : Exists(u)' => u \in Drawn
    BY <2>1, <2>2, Zenon DEF Typed, TenantType, Exists, Drawn
  <2>4. \A u : Exists(u)' => Exists(u)
    BY <2>2, <2>3, Zenon DEF Kept
  <2> QED BY <1>a, <2>1, <2>4, AnswersLess, Zenon
<1>12. ASSUME NEW t, NEW plane \in {"data", "admin"}, NEW asksRoot \in BOOLEAN, CreateKey(h, t, plane, asksRoot)
       PROVE  Accounted'
  BY <1>12, KeyCounts, Zenon DEF CreateKey
<1>13. ASSUME NEW t, NEW i \in Ids, RevokeKey(h, t, i) PROVE Accounted'
  BY <1>7, <1>13, Zenon DEF RevokeKey
<1>14. ASSUME NEW kind \in Created, NEW t, NEW n \in Names, Create(h, kind, t, n) PROVE Accounted'
  <2>1. PICK c : c = [kind |-> kind, tenant |-> t, id |-> next, name |-> n]
    BY Zenon
  <2>2. c.kind = kind /\ c.tenant = t /\ configs' \subseteq configs \cup {c}
    BY <1>14, <2>1, Zenon DEF Create
  <2> QED BY <1>14, <2>2, ConfigCounts, Zenon DEF Create
<1>15. ASSUME NEW kind \in Upserted, NEW t, NEW n \in Names, Put(h, kind, t, n) PROVE Accounted'
  <2>1. PICK c : c.kind = kind /\ c.tenant = t /\ configs' \subseteq configs \cup {c}
    <3>1. Upsert(kind, t, n)
      BY <1>15, Zenon DEF Put
    <3>2. \E c : c.kind = kind /\ c.tenant = t /\ c.name = n /\ configs' \subseteq configs \cup {c}
      BY <3>1, UpsertAdds
    <3> QED BY <3>2, Zenon
  <2> QED BY <1>15, <2>1, ConfigCounts, Zenon DEF Put
<1>16. ASSUME NEW kind, NEW t, NEW i \in Ids, Delete(h, kind, t, i) PROVE Accounted'
  BY <1>16, <1>a, <1>b, AnswersLess, Zenon DEF Delete
<1>17. ASSUME NEW t, NEW k, QuotaTarget(h, t, k) PROVE Accounted'
  <2>1. PICK q : q.pc = "quota" /\ handler' = [handler EXCEPT ![h] = q]
    BY <1>17, Zenon DEF QuotaTarget
  <2> QED BY <1>17, <1>a, <1>c, <2>1, Zenon DEF QuotaTarget
<1> QED
  BY Zenon, <1>1, <1>2, SeedCounts, <1>3, <1>4, <1>5, <1>6, <1>8, <1>9, <1>10, <1>11, <1>12, <1>13, <1>14,
     <1>15, <1>16, <1>17
  DEF Write

\* auditMutations records every write that a handler answers: whatever is under way at
\* once, each of a tenant's keys and items of configuration that was not seeded has its
\* own accepted write, in the log or about to enter it, until the log drops entries.
THEOREM Accountable == Spec => []Explained
<1>1. Init => Accounted
  <2> SUFFICES ASSUME Init PROVE Accounted
    BY Zenon
  <2>1. IsFiniteSet(keys) /\ IsFiniteSet(configs)
    <3>1. PICK j, k : keys = {j, k}
      BY Zenon DEF Init
    <3>2. {j, k} = {j} \cup {k} /\ configs = {}
      BY Zenon DEF Init
    <3>3. IsFiniteSet({j}) /\ IsFiniteSet({})
      BY FS_Singleton, FS_EmptySet, Zenon
    <3>4. IsFiniteSet({j} \cup {k})
      BY <3>3, FS_AddElement, Zenon
    <3> QED BY <3>1, <3>2, <3>3, <3>4, Zenon
  <2>2. SeedsLeft
    BY Zenon DEF Init, SeedsLeft, Idle
  <2>3. \A t : Minted(t) = {} /\ \A kind : Items(kind, t) = {}
    BY DEF Init, Minted, Items
  <2>4. Log
    <3>1. audit \in Seq({}) /\ Len(audit) = 0
      BY DEF Init
    <3> QED BY <3>1, AdminSettings DEF Log
  <2>5. \A kind, t : Writes(kind, t) >= 0
    <3>1. \A kind, t : Writes(kind, t) \in Nat
      BY <2>4, Countable, Zenon
    <3> QED BY <3>1
  <2>6. Explained
    BY <2>3, <2>5, FS_EmptySet, Zenon DEF Explained
  <2> QED BY <2>1, <2>2, <2>6, Zenon DEF Accounted
<1>2. IInv /\ Accounted /\ [Next]_vars => Accounted'
  <2> SUFFICES ASSUME IInv, Accounted, [Next]_vars PROVE Accounted'
    BY Zenon
  <2>1. CASE UNCHANGED vars
    <3>1. SeedsLeft' /\ UNCHANGED <<keys, configs, audit, tenants>>
      BY <2>1, Zenon DEF vars, Accounted, SeedsLeft
    <3>2. \A kind, t : /\ Minted(t)' = Minted(t) /\ Items(kind, t)' = Items(kind, t)
                      /\ Entered(kind, t)' = Entered(kind, t)
      BY <3>1, Zenon DEF Minted, Items, Entered
    <3>3. \A kind, t : Entering(kind, t)' = Entering(kind, t)
      BY <2>1, Zenon DEF vars, Entering
    <3> QED BY <3>1, <3>2, <3>3, Zenon DEF Accounted, Explained, Writes
  <2> QED BY <2>1, AccountedStep, Zenon DEF Next
<1>3. Accounted => Explained
  BY Zenon DEF Accounted
<1> QED
  BY <1>1, <1>2, <1>3, Invariance, PTL DEF Spec

-----------------------------------------------------------------------------
(* What a step does to the collections that a client walks *)

LastId == IF audit = <<>> THEN 0 ELSE audit[Len(audit)].id

\* The log is in the order of its identifiers, and all others are among those compared.
Chronicle ==
  /\ Drawn \subseteq Ids
  /\ \A i \in 1..Len(audit) : audit[i].id \in Nat
  /\ \A i, j \in 1..Len(audit) : i < j => audit[i].id < audit[j].id

\* What has an identifier from before the step was there before it, in the same place.
Steady ==
  /\ \A u \in tenants' : u.id \in Drawn => \E v \in tenants : v.id = u.id
  /\ \A k \in keys' : k.id \in Drawn => \E j \in keys : j.id = k.id /\ j.tenant = k.tenant
  /\ \A c \in configs' : c.id \in Drawn => c \in configs
  /\ \A e \in Range(audit') : e.id \in 0..LastId => e \in Range(audit)
  /\ Drawn \subseteq Drawn' /\ LastId' \in Nat /\ LastId <= LastId'

LEMMA LogFacts ==
  ASSUME Log
  PROVE  Len(audit) \in Nat /\ DOMAIN audit = 1..Len(audit) /\ (audit = <<>> <=> Len(audit) = 0)
<1>1. PICK S : audit \in Seq(S)
  BY Zenon DEF Log
<1> QED BY <1>1

LEMMA LastIdIsLast ==
  ASSUME Log, Chronicle
  PROVE  LastId \in Nat /\ \A i \in 1..Len(audit) : audit[i].id \in 0..LastId
<1>1. PICK n : n = Len(audit) /\ n \in Nat /\ (audit = <<>> <=> n = 0)
  BY LogFacts, Zenon
<1>2. n # 0 => n \in 1..n
  BY <1>1
<1>3. LastId \in Nat
  BY <1>1, <1>2, Zenon DEF LastId, Chronicle
<1>4. ASSUME NEW i \in 1..n PROVE audit[i].id \in 0..LastId
  <2>1. PICK a, b : a = audit[i].id /\ b = audit[n].id
    BY Zenon
  <2>2. n \in 1..n /\ n # 0 /\ (i < n \/ i = n)
    BY <1>1
  <2>3. a \in Nat /\ b \in Nat /\ (i < n => a < b) /\ (i = n => a = b)
    BY <1>1, <2>1, <2>2, Zenon DEF Chronicle
  <2>4. LastId = b
    BY <1>1, <2>1, <2>2, Zenon DEF LastId
  <2>5. a \in 0..b
    BY <2>2, <2>3
  <2> QED BY <2>1, <2>4, <2>5, Zenon
<1> QED BY <1>1, <1>3, <1>4, Zenon

\* RecordAudit draws a higher identifier and drops from the other end.
LEMMA AuditRuns ==
  ASSUME Log, Chronicle, NEW e, RecordAudit(e)
  PROVE  /\ \A i \in 1..Len(audit') : audit'[i].id \in Nat
         /\ \A i, j \in 1..Len(audit') : i < j => audit'[i].id < audit'[j].id
         /\ \A x \in Range(audit') : x.id \in 0..LastId => x \in Range(audit)
         /\ LastId' \in Nat /\ LastId <= LastId'
<1>1. PICK S : audit \in Seq(S)
  BY Zenon DEF Log
<1>2. PICK x : /\ x.id = IF audit = <<>> THEN 1 ELSE audit[Len(audit)].id + 1
               /\ audit' = SubSeq(Append(audit, x),
                               Max({1, Len(Append(audit, x)) - MaxAudit + 1}), Len(Append(audit, x)))
  <2>1. PICK id : id = IF audit = <<>> THEN 1 ELSE audit[Len(audit)].id + 1
    BY Zenon
  <2>2. PICK x : x = [id |-> id, action |-> e.action, kind |-> e.kind, tenant |-> e.tenant, ok |-> e.ok]
    BY Zenon
  <2>3. x.id = id
    BY <2>2, Zenon
  <2>4. audit' = SubSeq(Append(audit, x),
                        Max({1, Len(Append(audit, x)) - MaxAudit + 1}), Len(Append(audit, x)))
    BY <2>1, <2>2, Zenon DEF RecordAudit
  <2> QED BY <2>1, <2>3, <2>4, Zenon
<1>3. PICK n : n = Len(audit) /\ n \in Nat /\ (audit = <<>> <=> n = 0) /\ DOMAIN audit = 1..n
  BY LogFacts, Zenon
<1>4. PICK m : m = LastId /\ m \in Nat /\ \A i \in 1..n : audit[i].id \in 0..m
  BY <1>3, LastIdIsLast, Zenon
<1>5. x.id = m + 1
  BY <1>2, <1>3, <1>4 DEF LastId
<1>6. PICK log : log = Append(audit, x)
  BY Zenon
<1>7. PICK from : from = Max({1, Len(log) - MaxAudit + 1})
  BY Zenon
<1>8. audit' = SubSeq(log, from, Len(log))
  BY <1>2, <1>6, <1>7, Zenon
<1>9. audit \in Seq(S \cup {x})
  BY <1>1
<1>10. /\ log \in Seq(S \cup {x}) /\ Len(log) = n + 1 /\ log[n + 1] = x
       /\ \A i \in 1..n : log[i] = audit[i]
  BY <1>3, <1>6, <1>9
<1>11. from \in 1..(n + 1)
  <2>1. PICK y : y = (n + 1) - MaxAudit + 1
    BY Zenon
  <2>2. y \in Int /\ y <= n + 1
    BY <1>3, <2>1, AdminSettings
  <2>3. \E k \in {1, y} : \A z \in {1, y} : k >= z
    BY <2>2
  <2>4. from \in {1, y} /\ \A z \in {1, y} : from >= z
    BY <1>7, <1>10, <2>1, <2>3, Zenon DEF Max
  <2> QED BY <1>3, <2>2, <2>4
<1>12. PICK k \in Nat : k = n + 2 - from
  BY <1>3, <1>11
<1>13. PICK b : b = SubSeq(log, from, n + 1)
  BY Zenon
<1>14. Len(b) = k /\ b \in Seq(S \cup {x}) /\ k > 0
  BY <1>3, <1>10, <1>11, <1>12, <1>13
<1>15. ASSUME NEW i \in 1..k PROVE b[i] = log[from + i - 1]
  BY <1>3, <1>10, <1>11, <1>12, <1>13, <1>14, SMTT(30)
<1>16. audit' = b
  BY <1>8, <1>10, <1>13, Zenon

\* The identifiers of the longer log.
<1>17. ASSUME NEW i \in 1..(n + 1) PROVE log[i].id \in Nat /\ (i = n + 1 => log[i].id = m + 1) /\ (i # n + 1 => log[i].id <= m)
  <2>1. CASE i = n + 1
    BY <1>4, <1>5, <1>10, <2>1
  <2>2. CASE i # n + 1
    <3>1. i \in 1..n
      BY <1>3, <2>2
    <3>2. PICK a : a = log[i].id /\ a \in 0..m
      BY <1>4, <1>10, <3>1, Zenon
    <3>3. a \in Nat /\ a <= m
      BY <1>4, <3>2
    <3> QED BY <2>2, <3>2, <3>3, Zenon
  <2> QED BY <2>1, <2>2, Zenon
<1>18. ASSUME NEW i \in 1..(n + 1), NEW j \in 1..(n + 1), i < j PROVE log[i].id < log[j].id
  <2>1. PICK a, c : a = log[i].id /\ c = log[j].id
    BY Zenon
  <2>2. i \in 1..n /\ i # n + 1
    BY <1>3, <1>18
  <2>3. a \in Nat /\ c \in Nat /\ a <= m
    BY <1>17, <2>1, <2>2, Zenon
  <2>4. CASE j = n + 1
    <3>1. c = m + 1
      BY <1>17, <2>1, <2>4, Zenon
    <3>2. a < c
      BY <1>4, <2>3, <3>1
    <3> QED BY <2>1, <3>2, Zenon
  <2>5. CASE j # n + 1
    <3>1. j \in 1..n
      BY <1>3, <2>5
    <3>2. audit[i].id < audit[j].id
      BY <1>3, <1>18, <2>2, <3>1, Zenon DEF Chronicle
    <3> QED BY <1>10, <2>2, <3>1, <3>2, Zenon
  <2> QED BY <2>4, <2>5, Zenon
<1>19. ASSUME NEW i \in 1..k PROVE from + i - 1 \in 1..(n + 1)
  BY <1>3, <1>11, <1>12
<1>20. \A i \in 1..Len(audit') : audit'[i].id \in Nat
  BY <1>14, <1>15, <1>16, <1>17, <1>19, Zenon
<1>21. ASSUME NEW i \in 1..k, NEW j \in 1..k, i < j PROVE b[i].id < b[j].id
  <2>1. PICK p, q : p = from + i - 1 /\ q = from + j - 1
    BY Zenon
  <2>2. p < q
    BY <1>11, <1>21, <2>1
  <2>3. p \in 1..(n + 1) /\ q \in 1..(n + 1)
    BY <1>19, <2>1, Zenon
  <2>4. log[p].id < log[q].id
    BY <1>18, <2>2, <2>3, Zenon
  <2> QED BY <1>15, <2>1, <2>4, Zenon
<1>22. ASSUME NEW y \in Range(audit'), y.id \in 0..LastId PROVE y \in Range(audit)
  <2>1. DOMAIN b = 1..k
    BY <1>14
  <2>2. PICK i \in 1..k : y = b[i]
    BY <1>16, <2>1, Zenon DEF Range
  <2>3. PICK p \in 1..(n + 1) : y = log[p]
    BY <1>15, <1>19, <2>2, Zenon
  <2>4. p # n + 1
    <3>1. ~(m + 1 \in 0..m)
      BY <1>4
    <3> QED BY <1>4, <1>17, <1>22, <2>3, <3>1, Zenon
  <2>5. p \in 1..n
    BY <1>3, <2>4
  <2> QED BY <1>3, <1>10, <2>3, <2>5, Zenon DEF Range
<1>23. LastId' = m + 1
  <2>1. b # <<>>
    BY <1>14
  <2>2. k \in 1..k /\ from + k - 1 = n + 1
    BY <1>3, <1>11, <1>12, <1>14
  <2>3. b[k] = x
    BY <1>10, <1>15, <2>2, Zenon
  <2>4. LastId' = b[k].id
    BY <1>14, <1>16, <2>1, Zenon DEF LastId
  <2> QED BY <1>5, <2>3, <2>4, Zenon
<1>24. LastId' \in Nat /\ LastId <= LastId'
  BY <1>4, <1>23
<1> QED BY <1>14, <1>16, <1>20, <1>21, <1>22, <1>24, Zenon

\* The store adds at most an item under the identifier drawn, and moves none.
Fresh ==
  /\ next' = next \/ Draw
  /\ \A u \in tenants' : u.id = next \/ \E v \in tenants : v.id = u.id
  /\ \A k \in keys' : k.id = next \/ \E j \in keys : j.id = k.id /\ j.tenant = k.tenant
  /\ \A c \in configs' : c.id = next \/ c \in configs

LEMMA FreshAlone ==
  ASSUME UNCHANGED <<tenants, keys, configs, next>>
  PROVE  Fresh
BY Zenon DEF Fresh

LEMMA KeyFresh ==
  ASSUME NEW h, NEW t, NEW plane, NEW scope, StoreKey(h, t, plane, scope), UNCHANGED <<tenants, configs>>
  PROVE  Fresh
<1>1. PICK new : keys' = keys \cup {new} /\ new.id = next
  <2>1. PICK new : new = [id |-> next, tenant |-> t, plane |-> plane, scope |-> scope,
                          live |-> TRUE, minter |-> ActsAs(h)]
    BY Zenon
  <2>2. new.id = next
    BY <2>1, Zenon
  <2>3. keys' = keys \cup {new}
    BY <2>1, Zenon DEF StoreKey
  <2> QED BY <2>2, <2>3, Zenon
<1> QED BY <1>1, Zenon DEF Fresh, StoreKey

LEMMA RevokeFresh ==
  ASSUME Typed, NEW t, NEW i, StoreRevokes(t, i), UNCHANGED <<tenants, configs, next>>
  PROVE  Fresh
<1> DEFINE new(k) == IF k.id = i THEN [k EXCEPT !.live = FALSE] ELSE k
<1>1. keys' = {new(k) : k \in keys}
  BY Zenon DEF StoreRevokes
<1>2. \A k \in keys : new(k).id = k.id /\ new(k).tenant = k.tenant
  BY Zenon DEF Typed, KeyType
<1> HIDE DEF new
<1> QED BY <1>1, <1>2, Zenon DEF Fresh

LEMMA ConfigFresh ==
  ASSUME NEW kind, NEW t, NEW n, Draw, UNCHANGED <<tenants, keys>>,
         configs' = configs \cup {[kind |-> kind, tenant |-> t, id |-> next, name |-> n]}
  PROVE  Fresh
<1>1. PICK new : new = [kind |-> kind, tenant |-> t, id |-> next, name |-> n]
  BY Zenon
<1>2. new.id = next /\ configs' = configs \cup {new}
  BY <1>1, Zenon
<1> QED BY <1>2, Zenon DEF Fresh

LEMMA UpsertFresh ==
  ASSUME NEW kind, NEW t, NEW n, Upsert(kind, t, n), UNCHANGED <<tenants, keys>>
  PROVE  Fresh
<1>1. CASE UNCHANGED <<configs, next>>
  BY <1>1, FreshAlone, Zenon
<1>2. CASE ~UNCHANGED <<configs, next>>
  BY <1>2, ConfigFresh, Zenon DEF Upsert
<1> QED BY <1>1, <1>2, Zenon

LEMMA UpdateFresh ==
  ASSUME Typed, NEW t, NEW patch \in TenantPatches, StoreUpdates(t, patch), UNCHANGED <<keys, configs, next>>
  PROVE  Fresh
<1> DEFINE new(u) == IF u.id = t THEN Patched(u, patch) ELSE u
<1>1. tenants' = {new(u) : u \in tenants}
  BY Zenon DEF StoreUpdates
<1>2. ASSUME NEW u \in tenants PROVE new(u).id = u.id
  <2>1. "id" \in DOMAIN u /\ "id" \notin DOMAIN patch
    BY AdminSettings, Zenon DEF Typed, TenantType
  <2>2. Patched(u, patch).id = u.id
    BY <2>1, Zenon DEF Patched
  <2> QED BY <2>2, Zenon
<1> HIDE DEF new
<1> QED BY <1>1, <1>2, Zenon DEF Fresh

\* Every write of a handler.
LEMMA WritesFresh ==
  ASSUME IInv, NEW h \in Handlers, Write(h)
  PROVE  Fresh /\ (UNCHANGED audit \/ \E e : RecordAudit(e))
<1>0. Typed
  BY Zenon DEF IInv
<1> DEFINE Good == Fresh /\ (UNCHANGED audit \/ \E e : RecordAudit(e))
<1>1. ASSUME NEW k, Authenticate(h, k) PROVE Good
  BY <1>1, FreshAlone, Zenon DEF Authenticate
<1>2. ASSUME NEW n, CreateTenant(h, n) PROVE Good
  <2>1. PICK new : new = [id |-> next, name |-> n, status |-> "active"]
    BY Zenon
  <2>2. new.id = next /\ tenants' = tenants \cup {new} /\ Draw
    BY <1>2, <2>1, Zenon DEF CreateTenant, StoreTenant
  <2> QED BY <1>2, <2>2, Zenon DEF CreateTenant, Fresh
<1>3. ASSUME SeedAlias(h) PROVE Good
  BY <1>3, UpsertFresh, Zenon DEF SeedAlias
<1>4. ASSUME CreateAdminKey(h) PROVE Good
  BY <1>4, KeyFresh, Zenon DEF CreateAdminKey
<1>5. ASSUME SetQuota(h) \/ DeleteQuota(h) PROVE Good
  BY <1>5, FreshAlone, Zenon DEF SetQuota, DeleteQuota
<1>6. ASSUME AuditMutation(h) PROVE Good
  BY <1>6, FreshAlone, Zenon DEF AuditMutation
<1>7. ASSUME NEW i, RevokeAdminKey(h, i) PROVE Good
  BY <1>0, <1>7, RevokeFresh, Zenon DEF RevokeAdminKey
<1>8. ASSUME NEW t, DeleteTenant(h, t) PROVE Good
  BY <1>8, Zenon DEF DeleteTenant, StoreDeletes, Fresh
<1>9. ASSUME NEW t, NEW action, NEW kind, Refuse(h, action, kind, t) PROVE Good
  BY <1>9, FreshAlone, Zenon DEF Refuse
<1>10. ASSUME NEW t, NEW patch \in TenantPatches, UpdateTenant(h, t, patch) PROVE Good
  BY <1>0, <1>10, UpdateFresh, Zenon DEF UpdateTenant
<1>11. ASSUME NEW t, NEW plane, NEW asksRoot, CreateKey(h, t, plane, asksRoot) PROVE Good
  BY <1>11, KeyFresh, Zenon DEF CreateKey
<1>12. ASSUME NEW t, NEW i, RevokeKey(h, t, i) PROVE Good
  BY <1>0, <1>12, RevokeFresh, Zenon DEF RevokeKey
<1>13. ASSUME NEW kind, NEW t, NEW n, Create(h, kind, t, n) PROVE Good
  BY <1>13, ConfigFresh, Zenon DEF Create
<1>14. ASSUME NEW kind, NEW t, NEW n, Put(h, kind, t, n) PROVE Good
  BY <1>14, UpsertFresh, Zenon DEF Put
<1>15. ASSUME NEW kind, NEW t, NEW i, Delete(h, kind, t, i) PROVE Good
  BY <1>15, Zenon DEF Delete, Fresh
<1>16. ASSUME NEW t, NEW k, QuotaTarget(h, t, k) PROVE Good
  BY <1>16, FreshAlone, Zenon DEF QuotaTarget
<1> HIDE DEF Good
<1>17. Good
  BY <1>1, <1>2, <1>3, <1>4, <1>5, <1>6, <1>7, <1>8, <1>9, <1>10, <1>11, <1>12, <1>13, <1>14, <1>15, <1>16,
     Zenon DEF Write
<1> QED BY <1>17, Zenon DEF Good

LEMMA SteadyStep ==
  ASSUME IInv, Chronicle, [Next]_vars
  PROVE  Chronicle' /\ Steady
<1>1. Fresh /\ (UNCHANGED audit \/ \E e : RecordAudit(e))
  BY WritesFresh, FreshAlone, Zenon DEF Next, vars
<1>2. Log /\ Typed /\ next \in Nat
  BY Zenon DEF IInv, Typed
<1>3. next \notin Drawn
  BY <1>2 DEF Drawn
<1>4. Drawn \subseteq Drawn' /\ (\A i \in Drawn' : i \in Drawn \/ (i = next /\ next \in Ids))
  <2>1. CASE next' = next
    BY <2>1, Zenon DEF Drawn
  <2>2. CASE Draw
    BY <1>2, <2>2 DEF Draw, Drawn
  <2> QED BY <1>1, <2>1, <2>2, Zenon DEF Fresh
<1>5. Drawn' \subseteq Ids
  BY <1>4, Zenon DEF Chronicle
<1>6. /\ \A i \in 1..Len(audit') : audit'[i].id \in Nat
      /\ \A i, j \in 1..Len(audit') : i < j => audit'[i].id < audit'[j].id
      /\ \A x \in Range(audit') : x.id \in 0..LastId => x \in Range(audit)
      /\ LastId' \in Nat /\ LastId <= LastId'
  <2>1. ASSUME NEW e, RecordAudit(e)
        PROVE /\ \A i \in 1..Len(audit') : audit'[i].id \in Nat
              /\ \A i, j \in 1..Len(audit') : i < j => audit'[i].id < audit'[j].id
              /\ \A x \in Range(audit') : x.id \in 0..LastId => x \in Range(audit)
              /\ LastId' \in Nat /\ LastId <= LastId'
    BY <1>2, <2>1, AuditRuns, Zenon
  <2>2. CASE UNCHANGED audit
    <3>1. LastId' = LastId /\ LastId \in Nat
      BY <1>2, <2>2, LastIdIsLast, Zenon DEF LastId
    <3>2. LastId <= LastId'
      BY <3>1
    <3> QED BY <2>2, <3>1, <3>2, Zenon DEF Chronicle
  <2> QED BY <1>1, <2>1, <2>2, Zenon
<1>7. Chronicle'
  BY <1>5, <1>6, Zenon DEF Chronicle
<1> QED BY <1>1, <1>3, <1>4, <1>6, <1>7, Zenon DEF Fresh, Steady

-----------------------------------------------------------------------------
(* The collections and their orders *)

Walkable == {"tenant", "key", "audit"} \cup Kinds

\* Identifiers that the items of a collection may have had until now.
Known(kind) == IF kind = "audit" THEN 0..LastId ELSE Drawn

LEMMA MembersAre ==
  ASSUME NEW t
  PROVE  /\ Members("tenant", t) = tenants /\ Members("key", t) = {k \in keys : k.tenant = t}
         /\ Members("audit", t) = Range(audit)
         /\ \A kind \in Kinds : Members(kind, t) = {c \in configs : c.kind = kind /\ c.tenant = t}
<1>1. \A kind \in Kinds : kind # "tenant" /\ kind # "key" /\ kind # "audit"
  BY AdminSettings, Zenon DEF Kinds
<1> QED BY <1>1, Zenon DEF Members

LEMMA BeforeIs ==
  ASSUME NEW a, NEW b
  PROVE  /\ Before("tenant", a, b) <=> Older(a, b)
         /\ Before("key", a, b) <=> Older(a, b)
         /\ Before("audit", a, b) <=> a.id > b.id
         /\ \A kind \in Created : Before(kind, a, b) <=> a.id < b.id
         /\ \A kind \in Upserted : Before(kind, a, b) <=> a.name < b.name
<1>1. \A kind \in Kinds : kind # "tenant" /\ kind # "key" /\ kind # "audit"
  BY AdminSettings, Zenon DEF Kinds
<1>2. "audit" \notin Created
  BY AdminSettings, Zenon
<1>3. \A kind \in Upserted : kind \notin Created
  BY AdminSettings, Zenon
<1> QED BY <1>1, <1>2, <1>3, Zenon DEF Before, Kinds

\* An identifier is of one item.
Identified(kind, items) ==
  /\ \A x \in items : x.id \in Known(kind)
  /\ \A x, y \in items : x.id = y.id => x = y

LEMMA MemberFacts ==
  ASSUME IInv, Chronicle, NEW kind \in Walkable, NEW t
  PROVE  Identified(kind, Members(kind, t))
<1>1. Typed /\ Unique /\ Log
  BY Zenon DEF IInv
<1>2. CASE kind = "tenant"
  <2>1. \A x \in tenants : x.id \in Drawn
    BY <1>1, Zenon DEF Typed, TenantType
  <2> QED BY <1>1, <1>2, <2>1, MembersAre, Zenon DEF Unique, Identified, Known
<1>3. CASE kind = "key"
  <2>1. \A x \in keys : x.id \in Drawn
    BY <1>1, Zenon DEF Typed, KeyType
  <2> QED BY <1>1, <1>3, <2>1, MembersAre DEF Unique, Identified, Known
<1>4. CASE kind = "audit"
  <2>1. PICK n : n = Len(audit) /\ n \in Nat /\ DOMAIN audit = 1..n
    BY <1>1, LogFacts, Zenon
  <2>2. \A i \in 1..n : audit[i].id \in 0..LastId
    BY <1>1, <2>1, LastIdIsLast, Zenon
  <2>3. ASSUME NEW i \in 1..n, NEW j \in 1..n, audit[i].id = audit[j].id PROVE audit[i] = audit[j]
    <3>1. PICK a, b : a = audit[i].id /\ b = audit[j].id /\ a \in Nat /\ b \in Nat
      BY <2>1, Zenon DEF Chronicle
    <3>2. i < j => a < b
      BY <2>1, <3>1, Zenon DEF Chronicle
    <3>3. j < i => b < a
      BY <2>1, <3>1, Zenon DEF Chronicle
    <3>4. a = b
      BY <2>3, <3>1, Zenon
    <3>5. i = j
      BY <2>1, <3>1, <3>2, <3>3, <3>4
    <3> QED BY <3>5, Zenon
  <2>4. Members(kind, t) = Range(audit) /\ Known(kind) = 0..LastId
    BY <1>4, MembersAre, Zenon DEF Known
  <2>5. \A x \in Range(audit) : \E i \in 1..n : x = audit[i]
    BY <2>1, Zenon DEF Range
  <2>6. \A x \in Range(audit) : x.id \in 0..LastId
    BY <2>2, <2>5, Zenon
  <2>7. ASSUME NEW x \in Range(audit), NEW y \in Range(audit), x.id = y.id PROVE x = y
    <3>1. PICK i \in 1..n : x = audit[i]
      BY <2>5, Zenon
    <3>2. PICK j \in 1..n : y = audit[j]
      BY <2>5, Zenon
    <3>3. audit[i].id = audit[j].id
      BY <2>7, <3>1, <3>2, Zenon
    <3>4. audit[i] = audit[j]
      BY <2>3, <3>3, Zenon
    <3> QED BY <3>1, <3>2, <3>4, Zenon
  <2> QED BY <2>4, <2>6, <2>7, Zenon DEF Identified
<1>5. CASE kind \in Kinds
  <2>1. \A x \in configs : x.id \in Drawn
    BY <1>1, Zenon DEF Typed, ConfigType
  <2>2. kind # "audit"
    BY <1>5, AdminSettings, Zenon DEF Kinds
  <2>3. Known(kind) = Drawn
    BY <2>2, Zenon DEF Known
  <2>4. Members(kind, t) = {c \in configs : c.kind = kind /\ c.tenant = t}
    BY <1>5, MembersAre, Zenon
  <2> QED BY <1>1, <2>1, <2>3, <2>4, Zenon DEF Unique, Identified
<1> QED BY <1>2, <1>3, <1>4, <1>5, Zenon DEF Walkable

LEMMA MembersFinite ==
  ASSUME IInv, NEW kind, NEW items, LastId \in Nat, Identified(kind, items)
  PROVE  IsFiniteSet(items)
<1>1. IsFiniteSet(Known(kind))
  <2>1. next \in Nat
    BY Zenon DEF IInv, Typed
  <2>2. 1 \in Int /\ next - 1 \in Int /\ 0 \in Int /\ LastId \in Int
    BY <2>1
  <2>3. IsFiniteSet(1..(next - 1)) /\ IsFiniteSet(0..LastId)
    BY <2>2, FS_Interval, Zenon
  <2> QED BY <2>3, Zenon DEF Known, Drawn
<1>2. PICK g : g = [x \in items |-> x.id]
  BY Zenon
<1>3. g \in [items -> Known(kind)]
  BY <1>2, Zenon DEF Identified
<1>4. \A x, y \in items : g[x] = g[y] => x = y
  BY <1>2, Zenon DEF Identified
<1>5. g \in Injection(items, Known(kind))
  BY <1>3, <1>4, Zenon DEF Injection, IsInjective
<1> QED BY <1>1, <1>5, FS_Injection, Zenon

\* The order is strict and total on a set of items.
Ordered(kind, items) ==
  \A x, y, z \in items : /\ ~Before(kind, x, x)
                         /\ Before(kind, x, y) /\ Before(kind, y, z) => Before(kind, x, z)
                         /\ x # y => Before(kind, x, y) \/ Before(kind, y, x)

Earlier(c, r, d, s) == c < d \/ (c = d /\ r < s)

LEMMA EarlierOrders ==
  ASSUME NEW c \in Int, NEW r \in Int, NEW d \in Int, NEW s \in Int, NEW e \in Int, NEW q \in Int
  PROVE  /\ ~Earlier(c, r, c, r)
         /\ Earlier(c, r, d, s) /\ Earlier(d, s, e, q) => Earlier(c, r, e, q)
         /\ r # s => Earlier(c, r, d, s) \/ Earlier(d, s, c, r)
BY DEF Earlier

LEMMA OlderOrders ==
  ASSUME NEW items, \A x \in items : x.id \in Ids /\ x.id \in Nat, \A x, y \in items : x.id = y.id => x = y
  PROVE  \A x, y, z \in items : /\ ~Older(x, x)
                                /\ Older(x, y) /\ Older(y, z) => Older(x, z)
                                /\ x # y => Older(x, y) \/ Older(y, x)
<1> SUFFICES ASSUME NEW x \in items, NEW y \in items, NEW z \in items
             PROVE  /\ ~Older(x, x)
                    /\ Older(x, y) /\ Older(y, z) => Older(x, z)
                    /\ x # y => Older(x, y) \/ Older(y, x)
  BY Zenon
<1>1. ASSUME NEW w \in items PROVE CreatedAt(w) \in Int /\ Rank[w.id] \in Int
  <2>1. PICK i : i = w.id /\ i \in Nat /\ i \in Ids
    BY Zenon
  <2>2. i \div PerTick \in Int
    BY <2>1, PagesSettings
  <2>3. Rank[i] \in Int
    <3>1. Rank[i] \in Nat
      BY <2>1, PagesSettings, Zenon
    <3> QED BY <3>1
  <2> QED BY <2>1, <2>2, <2>3, Zenon DEF CreatedAt
<1>2. PICK c, r : c = CreatedAt(x) /\ r = Rank[x.id] /\ c \in Int /\ r \in Int
  BY <1>1, Zenon
<1>3. PICK d, s : d = CreatedAt(y) /\ s = Rank[y.id] /\ d \in Int /\ s \in Int
  BY <1>1, Zenon
<1>4. PICK e, q : e = CreatedAt(z) /\ q = Rank[z.id] /\ e \in Int /\ q \in Int
  BY <1>1, Zenon
<1>5. x # y => r # s
  BY <1>2, <1>3, PagesSettings, Zenon
<1>6. /\ ~Earlier(c, r, c, r)
      /\ Earlier(c, r, d, s) /\ Earlier(d, s, e, q) => Earlier(c, r, e, q)
      /\ r # s => Earlier(c, r, d, s) \/ Earlier(d, s, c, r)
  BY <1>2, <1>3, <1>4, EarlierOrders
<1>7. /\ Older(x, x) <=> Earlier(c, r, c, r)
      /\ Older(x, y) <=> Earlier(c, r, d, s)
      /\ Older(y, z) <=> Earlier(d, s, e, q)
      /\ Older(x, z) <=> Earlier(c, r, e, q)
      /\ Older(y, x) <=> Earlier(d, s, c, r)
  BY <1>2, <1>3, <1>4, Zenon DEF Older, Earlier
<1> QED BY <1>5, <1>6, <1>7, Zenon

LEMMA PageOrder ==
  ASSUME IInv, Chronicle, NEW kind \in Walkable, NEW t
  PROVE  Ordered(kind, Members(kind, t))
<1>1. PICK items : items = Members(kind, t)
  BY Zenon
<1>2. Identified(kind, items) /\ Typed /\ Unique /\ LastId \in Nat
  BY <1>1, MemberFacts, LastIdIsLast, Zenon DEF IInv
<1>3. Drawn \subseteq Nat /\ Drawn \subseteq Ids
  BY <1>2 DEF Typed, Drawn, Chronicle
<1>4. CASE kind = "tenant" \/ kind = "key"
  <2>1. Known(kind) = Drawn
    BY <1>4, Zenon DEF Known
  <2>2. \A x \in items : x.id \in Ids /\ x.id \in Nat
    BY <1>2, <1>3, <2>1, Zenon DEF Identified
  <2>3. \A x, y \in items : x.id = y.id => x = y
    BY <1>2, Zenon DEF Identified
  <2>4. \A x, y : Before(kind, x, y) <=> Older(x, y)
    BY <1>4, BeforeIs, Zenon
  <2>5. \A x, y, z \in items : /\ ~Older(x, x)
                               /\ Older(x, y) /\ Older(y, z) => Older(x, z)
                               /\ x # y => Older(x, y) \/ Older(y, x)
    BY <2>2, <2>3, OlderOrders, Zenon
  <2> QED BY <1>1, <2>4, <2>5, Zenon DEF Ordered
<1>5. CASE kind = "audit" \/ kind \in Created
  <2>1. Known(kind) \subseteq Nat
    <3>1. 0..LastId \subseteq Nat
      BY <1>2
    <3> QED BY <1>3, <3>1, Zenon DEF Known
  <2>2. ASSUME NEW x \in items, NEW y \in items, NEW z \in items
        PROVE  /\ ~Before(kind, x, x)
               /\ Before(kind, x, y) /\ Before(kind, y, z) => Before(kind, x, z)
               /\ x # y => Before(kind, x, y) \/ Before(kind, y, x)
    <3>1. PICK a, b, c : a = x.id /\ b = y.id /\ c = z.id
      BY Zenon
    <3>2. a \in Nat /\ b \in Nat /\ c \in Nat /\ (x # y => a # b)
      BY <1>2, <2>1, <3>1, Zenon DEF Identified
    <3>3. CASE kind = "audit"
      <4>1. \A u, v : Before(kind, u, v) <=> u.id > v.id
        BY <3>3, BeforeIs, Zenon
      <4>2. ~(a > a) /\ (a > b /\ b > c => a > c) /\ (a # b => a > b \/ b > a)
        BY <3>2
      <4> QED BY <3>1, <3>2, <4>1, <4>2, Zenon
    <3>4. CASE kind \in Created
      <4>1. \A u, v : Before(kind, u, v) <=> u.id < v.id
        BY <3>4, BeforeIs, Zenon
      <4>2. ~(a < a) /\ (a < b /\ b < c => a < c) /\ (a # b => a < b \/ b < a)
        BY <3>2
      <4> QED BY <3>1, <3>2, <4>1, <4>2, Zenon
    <3> QED BY <1>5, <3>3, <3>4, Zenon
  <2> QED BY <1>1, <2>2, Zenon DEF Ordered
<1>6. CASE kind \in Upserted
  <2>0. kind \in Kinds
    BY <1>6, Zenon DEF Kinds
  <2>1. items = {c \in configs : c.kind = kind /\ c.tenant = t}
    BY <1>1, <2>0, MembersAre, Zenon
  <2>2. kind # "webhook"
    BY <1>6, AdminSettings, Zenon
  <2>3. \A u, v : Before(kind, u, v) <=> u.name < v.name
    BY <1>6, BeforeIs, Zenon
  <2>4. ASSUME NEW x \in items, NEW y \in items, NEW z \in items
        PROVE  /\ ~Before(kind, x, x)
               /\ Before(kind, x, y) /\ Before(kind, y, z) => Before(kind, x, z)
               /\ x # y => Before(kind, x, y) \/ Before(kind, y, x)
    <3>1. PICK a, b, c : a = x.name /\ b = y.name /\ c = z.name
      BY Zenon
    <3>2. a \in Nat /\ b \in Nat /\ c \in Nat
      BY <1>2, <2>1, <3>1, Zenon DEF Typed, ConfigType
    <3>3. x # y => a # b
      BY <1>2, <2>1, <2>2, <3>1, Zenon DEF Unique
    <3>4. ~(a < a) /\ (a < b /\ b < c => a < c) /\ (a # b => a < b \/ b < a)
      BY <3>2
    <3> QED BY <2>3, <3>1, <3>3, <3>4, Zenon
  <2> QED BY <1>1, <2>4, Zenon DEF Ordered
<1> QED BY <1>4, <1>5, <1>6, Zenon DEF Walkable, Kinds

\* The items before another are fewer.
LEMMA AheadGrows ==
  ASSUME NEW kind, NEW items, IsFiniteSet(items), Ordered(kind, items),
         NEW x \in items, NEW y \in items, Before(kind, x, y)
  PROVE  /\ Ahead(kind, items, x) \in Nat /\ Ahead(kind, items, y) \in Nat
         /\ Ahead(kind, items, x) < Ahead(kind, items, y)
<1> DEFINE A == {z \in items : Before(kind, z, x)}
<1> DEFINE B == {z \in items : Before(kind, z, y)}
<1>1. A \subseteq items /\ B \subseteq items /\ A \subseteq B /\ x \in B /\ x \notin A
  BY Zenon DEF Ordered
<1>2. Ahead(kind, items, x) = Cardinality(A) /\ Ahead(kind, items, y) = Cardinality(B)
  BY Zenon DEF Ahead
<1> HIDE DEF A, B
<1>3. IsFiniteSet(B)
  BY <1>1, FS_Subset, Zenon
<1>4. Cardinality(A) <= Cardinality(B) /\ Cardinality(A) # Cardinality(B) /\ IsFiniteSet(A)
  BY <1>1, <1>3, FS_Subset, Zenon
<1>5. Cardinality(A) \in Nat /\ Cardinality(B) \in Nat
  BY <1>3, <1>4, FS_CardinalityType, Zenon
<1> QED BY <1>2, <1>4, <1>5

LEMMA AheadDiffers ==
  ASSUME NEW kind, NEW items, IsFiniteSet(items), Ordered(kind, items),
         NEW x \in items, NEW y \in items, Before(kind, x, y)
  PROVE  Ahead(kind, items, x) # Ahead(kind, items, y)
<1>1. PICK k, m : k = Ahead(kind, items, x) /\ m = Ahead(kind, items, y)
  BY Zenon
<1>2. k \in Nat /\ m \in Nat /\ k < m
  BY <1>1, AheadGrows, Zenon
<1>3. k # m
  BY <1>2
<1> QED BY <1>1, <1>3, Zenon

\* A list of n identifiers, at[i] being the item in place i.
Sequenced(kind, items, list, n, at) ==
  /\ n \in Nat /\ list = [i \in 1..n |-> at[i].id]
  /\ \A i \in 1..n : at[i] \in items
  /\ \A i, j \in 1..n : i < j => Before(kind, at[i], at[j])
  /\ \A x \in items : \E i \in 1..n : at[i] = x

LEMMA Listing ==
  ASSUME NEW kind, NEW t, NEW items, items = Members(kind, t), IsFiniteSet(items), Ordered(kind, items)
  PROVE  \E n, at : Sequenced(kind, items, List(kind, t), n, at)
<1>1. PICK n : n = Cardinality(items) /\ n \in Nat
  BY FS_CardinalityType, Zenon
<1>2. ASSUME NEW x \in items PROVE Ahead(kind, items, x) \in 0..(n - 1)
  <2> DEFINE A == {y \in items : Before(kind, y, x)}
  <2>1. A \subseteq items \ {x}
    BY Zenon DEF Ordered
  <2> HIDE DEF A
  <2>2. IsFiniteSet(items \ {x}) /\ Cardinality(items \ {x}) = n - 1
    BY <1>1, FS_RemoveElement, Zenon
  <2>3. IsFiniteSet(A) /\ Cardinality(A) <= Cardinality(items \ {x})
    BY <2>1, <2>2, FS_Subset, Zenon
  <2>4. PICK k : k = Cardinality(A) /\ k \in Nat /\ k <= n - 1
    BY <2>2, <2>3, FS_CardinalityType, Zenon
  <2>5. k \in 0..(n - 1)
    BY <1>1, <2>4
  <2> QED BY <2>4, <2>5, Zenon DEF Ahead, A
<1>3. PICK r : r = [x \in items |-> Ahead(kind, items, x)]
  BY Zenon
<1>4. r \in [items -> 0..(n - 1)]
  BY <1>2, <1>3, Zenon
<1>5. ASSUME NEW x \in items, NEW y \in items, x # y PROVE Ahead(kind, items, x) # Ahead(kind, items, y)
  <2>1. Before(kind, x, y) \/ Before(kind, y, x)
    BY <1>5, Zenon DEF Ordered
  <2> QED BY <2>1, AheadDiffers, Zenon
<1>6. r \in Injection(items, 0..(n - 1))
  <2>1. \A x, y \in items : r[x] = r[y] => x = y
    BY <1>3, <1>5, Zenon
  <2> QED BY <1>4, <2>1, Zenon DEF Injection, IsInjective
<1>7. IsFiniteSet(0..(n - 1)) /\ Cardinality(0..(n - 1)) = n
  <2>1. 0 \in Int /\ n - 1 \in Int
    BY <1>1
  <2>2. IsFiniteSet(0..(n - 1)) /\ Cardinality(0..(n - 1)) = IF 0 > n - 1 THEN 0 ELSE (n - 1) - 0 + 1
    BY <2>1, FS_Interval, Zenon
  <2> QED BY <1>1, <2>2
<1>8. r \in Surjection(items, 0..(n - 1))
  BY <1>1, <1>6, <1>7, FS_Injection, Zenon
<1>9. \A k \in 0..(n - 1) : \E x \in items : r[x] = k
  BY <1>8, Zenon DEF Surjection
<1>10. PICK at : at = [i \in 1..n |-> CHOOSE x \in items : Ahead(kind, items, x) = i - 1]
  BY Zenon
<1>11. ASSUME NEW i \in 1..n PROVE at[i] \in items /\ Ahead(kind, items, at[i]) = i - 1
  <2>1. i - 1 \in 0..(n - 1)
    BY <1>1
  <2>2. \E x \in items : Ahead(kind, items, x) = i - 1
    BY <1>3, <1>9, <2>1, Zenon
  <2>3. at[i] = CHOOSE x \in items : Ahead(kind, items, x) = i - 1
    BY <1>10, Zenon
  <2> QED BY <2>2, <2>3, Zenon
<1>12. ASSUME NEW i \in 1..n, NEW j \in 1..n, i < j PROVE Before(kind, at[i], at[j])
  <2>1. i - 1 \in Nat /\ j - 1 \in Nat /\ i - 1 # j - 1 /\ ~(j - 1 < i - 1)
    BY <1>1, <1>12
  <2>2. at[i] # at[j]
    BY <1>11, <2>1, Zenon
  <2>3. ~Before(kind, at[j], at[i])
    <3> SUFFICES ASSUME Before(kind, at[j], at[i]) PROVE FALSE
      BY Zenon
    <3>1. Ahead(kind, items, at[j]) < Ahead(kind, items, at[i])
      BY <1>11, AheadGrows, Zenon
    <3> QED BY <1>11, <2>1, <3>1, Zenon
  <2> QED BY <1>11, <2>2, <2>3, Zenon DEF Ordered
<1>13. ASSUME NEW x \in items PROVE \E i \in 1..n : at[i] = x
  <2>1. PICK k : k = Ahead(kind, items, x) /\ k \in 0..(n - 1)
    BY <1>2, Zenon
  <2>2. k + 1 \in 1..n /\ (k + 1) - 1 = k
    BY <1>1, <2>1
  <2>3. Ahead(kind, items, at[k + 1]) = k /\ at[k + 1] \in items
    BY <1>11, <2>2, Zenon
  <2>4. at[k + 1] = x
    BY <1>5, <2>1, <2>3, Zenon
  <2> QED BY <2>2, <2>4, Zenon
<1>14. List(kind, t) = [i \in 1..n |-> at[i].id]
  <2>0. List(kind, t) = [i \in 1..Cardinality(Members(kind, t)) |->
                           (CHOOSE x \in Members(kind, t) : Ahead(kind, Members(kind, t), x) = i - 1).id]
    BY Zenon DEF List
  <2>1. List(kind, t) = [i \in 1..n |-> (CHOOSE x \in items : Ahead(kind, items, x) = i - 1).id]
    BY <1>1, <2>0, Zenon
  <2>2. \A i \in 1..n : at[i] = CHOOSE x \in items : Ahead(kind, items, x) = i - 1
    BY <1>10, Zenon
  <2> QED BY <2>1, <2>2, Zenon
<1>15. Sequenced(kind, items, List(kind, t), n, at)
  BY <1>1, <1>11, <1>12, <1>13, <1>14, Zenon DEF Sequenced
<1> QED BY <1>15, Zenon

-----------------------------------------------------------------------------
(* A page *)

\* The page holds the k places after place a of a list of n.
Cut(list, n, data, a, k) ==
  /\ a \in Nat /\ k \in Nat /\ a + k <= n
  /\ data \in Seq(Range(list)) /\ Len(data) = k
  /\ \A i \in 1..k : data[i] = list[a + i]

LEMMA Slice ==
  ASSUME NEW n \in Nat, NEW list, DOMAIN list = 1..n, list \in Seq(Range(list)), NEW a \in 0..n,
         NEW limit \in Nat
  PROVE  LET rest == SubSeq(list, a + 1, Len(list))
         IN  /\ Len(rest) = n - a /\ Cut(list, n, rest, a, n - a)
             /\ n - a > limit => Cut(list, n, SubSeq(rest, 1, limit), a, limit)
<1>1. PICK S : S = Range(list)
  BY Zenon
<1>2. list \in Seq(S) /\ Len(list) = n
  BY <1>1
<1>3. PICK rest : rest = SubSeq(list, a + 1, Len(list))
  BY Zenon
<1>4. PICK m \in Nat : m = n - a
  OBVIOUS
<1>5. rest \in Seq(S) /\ Len(rest) = m
  BY <1>2, <1>3, <1>4
<1>6. ASSUME NEW i \in 1..m PROVE rest[i] = list[a + i]
  BY <1>2, <1>3, <1>4, <1>5
<1>7. Cut(list, n, rest, a, m)
  <2>1. a \in Nat /\ m \in Nat /\ a + m <= n
    BY <1>4
  <2> QED BY <1>1, <1>5, <1>6, <2>1, Zenon DEF Cut
<1>8. ASSUME m > limit PROVE Cut(list, n, SubSeq(rest, 1, limit), a, limit)
  <2>1. PICK d : d = SubSeq(rest, 1, limit)
    BY Zenon
  <2>2. d \in Seq(S) /\ Len(d) = limit
    BY <1>4, <1>5, <1>8, <2>1
  <2>3. ASSUME NEW i \in 1..limit PROVE d[i] = list[a + i]
    <3>1. i \in 1..m
      BY <1>4, <1>8
    <3>2. d[i] = rest[i]
      BY <1>4, <1>5, <1>8, <2>1, <2>2
    <3> QED BY <1>6, <3>1, <3>2, Zenon
  <2>4. a \in Nat /\ limit \in Nat /\ a + limit <= n
    BY <1>4, <1>8
  <2> QED BY <1>1, <2>1, <2>2, <2>3, <2>4, Zenon DEF Cut
<1> QED BY <1>3, <1>4, <1>5, <1>7, <1>8, Zenon

\* Where the page begins, and what it comes to.
Turned(list, n, seen, page) ==
  \/ page = [pc |-> "refused", data |-> <<>>]
  \/ \E a, k : /\ Cut(list, n, page.data, a, k)
               /\ seen = <<>> => a = 0
               /\ seen # <<>> => a \in 1..n /\ list[a] = seen[Len(seen)]
               /\ (page.pc = "more" /\ k # 0) \/ (page.pc = "done" /\ a + k = n)

LEMMA PageTurned ==
  ASSUME NEW n \in Nat, NEW list, DOMAIN list = 1..n, list \in Seq(Range(list)), NEW seen,
         NEW limit \in Nat \ {0}
  PROVE  Turned(list, n, seen, Paginate(list, seen, limit))
<1>1. PICK a : a = After(list, seen)
  BY Zenon
<1>2. PICK rest : rest = SubSeq(list, a + 1, Len(list))
  BY Zenon
<1>3. PICK page : page = Paginate(list, seen, limit)
  BY Zenon
<1>4. page = IF a < 0 THEN [pc |-> "refused", data |-> <<>>]
             ELSE IF Len(rest) > limit THEN [pc |-> "more", data |-> SubSeq(rest, 1, limit)]
             ELSE [pc |-> "done", data |-> rest]
  BY <1>1, <1>2, <1>3, Zenon DEF Paginate
<1>5. /\ a \in 0..n \/ a = -1
      /\ seen = <<>> => a = 0
      /\ seen # <<>> /\ a # -1 => a \in 1..n /\ list[a] = seen[Len(seen)]
  <2>1. CASE seen = <<>>
    <3>1. a = 0
      BY <1>1, <2>1, Zenon DEF After
    <3> QED BY <2>1, <3>1
  <2>2. CASE seen # <<>>
    <3> DEFINE at == {i \in DOMAIN list : list[i] = seen[Len(seen)]}
    <3>1. a = IF at = {} THEN -1 ELSE CHOOSE i \in at : TRUE
      BY <1>1, <2>2, Zenon DEF After
    <3>2. a = -1 \/ a \in at
      BY <3>1, Zenon
    <3>3. a = -1 \/ (a \in 1..n /\ list[a] = seen[Len(seen)])
      BY <3>2, Zenon
    <3>4. 1..n \subseteq 0..n
      OBVIOUS
    <3> QED BY <2>2, <3>3, <3>4, Zenon
  <2> QED BY <2>1, <2>2, Zenon
<1>6. CASE a = -1
  <2>1. a < 0
    BY <1>6
  <2> QED BY <1>3, <1>4, <2>1, Zenon DEF Turned
<1>7. CASE a \in 0..n
  <2>1. ~(a < 0) /\ limit \in Nat /\ a # -1
    BY <1>7
  <2>2. /\ Len(rest) = n - a /\ Cut(list, n, rest, a, n - a)
        /\ n - a > limit => Cut(list, n, SubSeq(rest, 1, limit), a, limit)
    BY <1>2, <1>7, <2>1, Slice, Zenon
  <2>3. CASE n - a > limit
    <3>1. page = [pc |-> "more", data |-> SubSeq(rest, 1, limit)]
      BY <1>4, <2>1, <2>2, <2>3, Zenon
    <3>2. page.pc = "more" /\ page.data = SubSeq(rest, 1, limit) /\ limit # 0
      BY <3>1, Zenon
    <3>3. Cut(list, n, page.data, a, limit)
      BY <2>2, <2>3, <3>2, Zenon
    <3>4. /\ seen = <<>> => a = 0
          /\ seen # <<>> => a \in 1..n /\ list[a] = seen[Len(seen)]
      BY <1>5, <2>1, Zenon
    <3>5. Turned(list, n, seen, page)
      BY <3>2, <3>3, <3>4 DEF Turned
    <3> QED BY <1>3, <3>5, Zenon
  <2>4. CASE ~(n - a > limit)
    <3>1. page = [pc |-> "done", data |-> rest]
      BY <1>4, <2>1, <2>2, <2>4, Zenon
    <3>2. page.pc = "done" /\ page.data = rest
      BY <3>1, Zenon
    <3>3. a + (n - a) = n
      BY <1>7
    <3> QED BY <1>3, <1>5, <2>1, <2>2, <3>2, <3>3, Zenon DEF Turned
  <2> QED BY <2>3, <2>4, Zenon
<1> QED BY <1>5, <1>6, <1>7, Zenon

LEMMA Joined ==
  ASSUME NEW S, NEW s \in Seq(S), NEW d \in Seq(S)
  PROVE  /\ s \o d \in Seq(S) /\ Range(s \o d) = Range(s) \cup Range(d)
         /\ (d # <<>> => s \o d # <<>> /\ (s \o d)[Len(s \o d)] = d[Len(d)])
         /\ IsInjective(s) /\ IsInjective(d) /\ Range(s) \cap Range(d) = {} => IsInjective(s \o d)
<1>0. Len(s) \in Nat /\ Len(d) \in Nat
  OBVIOUS
<1>1. PICK m, n : m = Len(s) /\ n = Len(d) /\ m \in Nat /\ n \in Nat
  BY <1>0, Zenon
<1>2. PICK c : c = s \o d
  BY Zenon
<1>3. /\ c \in Seq(S) /\ Len(c) = m + n /\ DOMAIN c = 1..(m + n) /\ DOMAIN s = 1..m /\ DOMAIN d = 1..n
      /\ d # <<>> => n # 0
  BY <1>1, <1>2
<1>4. ASSUME NEW i \in 1..(m + n) PROVE c[i] = IF i <= m THEN s[i] ELSE d[i - m]
  BY <1>1, <1>2
<1>5. \A i \in 1..m : i \in 1..(m + n) /\ i <= m
  BY <1>1
<1>6. \A i \in 1..n : m + i \in 1..(m + n) /\ ~(m + i <= m) /\ (m + i) - m = i
  BY <1>1
<1>7. \A i \in 1..(m + n) : (i <= m => i \in 1..m) /\ (~(i <= m) => i - m \in 1..n)
  BY <1>1
<1>8. Range(c) = Range(s) \cup Range(d)
  <2>1. \A x \in Range(s) : x \in Range(c)
    BY <1>3, <1>4, <1>5, Zenon DEF Range
  <2>2. ASSUME NEW x \in Range(d) PROVE x \in Range(c)
    <3>1. PICK i \in 1..n : x = d[i]
      BY <1>3, Zenon DEF Range
    <3>2. c[m + i] = x /\ m + i \in 1..(m + n)
      BY <1>4, <1>6, <3>1, Zenon
    <3> QED BY <1>3, <3>2, Zenon DEF Range
  <2>3. \A x \in Range(c) : x \in Range(s) \cup Range(d)
    BY <1>3, <1>4, <1>7, Zenon DEF Range
  <2> QED BY <2>1, <2>2, <2>3, Zenon
<1>9. ASSUME d # <<>> PROVE c # <<>> /\ c[Len(c)] = d[Len(d)]
  <2>1. n \in 1..n /\ m + n # 0
    BY <1>1, <1>3, <1>9
  <2>2. c[m + n] = d[n]
    BY <1>4, <1>6, <2>1, Zenon
  <2>3. c # <<>>
    BY <1>3, <2>1, Zenon
  <2> QED BY <1>1, <1>3, <2>2, <2>3, Zenon
<1>10. ASSUME IsInjective(s), IsInjective(d), Range(s) \cap Range(d) = {} PROVE IsInjective(c)
  <2> SUFFICES ASSUME NEW i \in 1..(m + n), NEW j \in 1..(m + n), c[i] = c[j] PROVE i = j
    BY <1>3, Zenon DEF IsInjective
  <2>1. CASE i <= m /\ j <= m
    BY <1>3, <1>4, <1>7, <1>10, <2>1, Zenon DEF IsInjective
  <2>2. CASE i <= m /\ ~(j <= m)
    <3>1. s[i] \in Range(s) /\ d[j - m] \in Range(d) /\ s[i] = d[j - m]
      BY <1>3, <1>4, <1>7, <2>2, Zenon DEF Range
    <3> QED BY <1>10, <3>1, Zenon
  <2>3. CASE ~(i <= m) /\ j <= m
    <3>1. s[j] \in Range(s) /\ d[i - m] \in Range(d) /\ s[j] = d[i - m]
      BY <1>3, <1>4, <1>7, <2>3, Zenon DEF Range
    <3> QED BY <1>10, <3>1, Zenon
  <2>4. CASE ~(i <= m) /\ ~(j <= m)
    <3>1. i - m = j - m
      BY <1>3, <1>4, <1>7, <1>10, <2>4, Zenon DEF IsInjective
    <3> QED BY <1>1, <3>1
  <2> QED BY <2>1, <2>2, <2>3, <2>4, Zenon
<1> QED BY <1>2, <1>3, <1>8, <1>9, <1>10, Zenon

-----------------------------------------------------------------------------
(* A walk *)

\* Around the last item seen, if it is still there: what was seen comes before it, and what
\* was there all the time and is yet to be seen comes after it.
Midway(kind, items, seen, still) ==
  \A x, c \in items : c.id = seen[Len(seen)] =>
    /\ x.id \in Range(seen) /\ x.id # c.id => Before(kind, x, c)
    /\ x.id \in still /\ x.id \notin Range(seen) => Before(kind, c, x)

\* What the walk has come to, K being the identifiers there have been.
OnTheWay(kind, items, K, seen, still) ==
  /\ seen \in Seq(K) /\ IsInjective(seen)
  /\ \A i \in still : \E x \in items : x.id = i
  /\ seen # <<>> => Midway(kind, items, seen, still)

LEMMA FromIndex ==
  ASSUME NEW kind, NEW items, Ordered(kind, items), NEW list, NEW n, NEW at,
         Sequenced(kind, items, list, n, at), NEW i \in 1..n, NEW j \in 1..n, Before(kind, at[i], at[j])
  PROVE  i < j
<1>1. i = j \/ j < i \/ i < j
  BY DEF Sequenced
<1>2. i # j
  BY Zenon DEF Ordered, Sequenced
<1>3. ~(j < i)
  BY Zenon DEF Ordered, Sequenced
<1> QED BY <1>1, <1>2, <1>3, Zenon

\* What the lemmas below are about: a collection in order, and the places of its list.
Shelf(kind, items, K, list, n, at) ==
  /\ Ordered(kind, items) /\ Sequenced(kind, items, list, n, at)
  /\ \A x \in items : x.id \in K
  /\ \A x, y \in items : x.id = y.id => x = y

Places(items, K, list, n, at) ==
  /\ n \in Nat /\ DOMAIN list = 1..n /\ list \in Seq(Range(list)) /\ Range(list) \subseteq K
  /\ \A i \in 1..n : list[i] = at[i].id /\ at[i] \in items
  /\ \A i, j \in 1..n : list[i] = list[j] => i = j

LEMMA ShelfFacts ==
  ASSUME NEW kind, NEW items, NEW K, NEW list, NEW n, NEW at, Shelf(kind, items, K, list, n, at)
  PROVE  Places(items, K, list, n, at)
<1>1. n \in Nat /\ list = [i \in 1..n |-> at[i].id] /\ DOMAIN list = 1..n
  BY Zenon DEF Shelf, Sequenced
<1>2. \A i \in 1..n : list[i] = at[i].id /\ at[i] \in items
  BY <1>1, Zenon DEF Shelf, Sequenced
<1>3. ASSUME NEW i \in 1..n, NEW j \in 1..n, list[i] = list[j] PROVE i = j
  <2>1. at[i] = at[j]
    BY <1>2, <1>3, Zenon DEF Shelf
  <2>2. ~(i < j) /\ ~(j < i)
    BY <1>2, <2>1, Zenon DEF Shelf, Sequenced, Ordered
  <2> QED BY <1>1, <2>2
<1>4. Range(list) \subseteq K
  BY <1>1, <1>2, Zenon DEF Range, Shelf
<1>5. list \in Seq(Range(list))
  <2>1. \A i \in 1..n : list[i] \in Range(list)
    BY <1>1, Zenon DEF Range
  <2>2. PICK S : S = Range(list)
    BY Zenon
  <2>3. list \in [1..n -> S]
    BY <1>1, <2>1, <2>2, Zenon
  <2>4. list \in Seq(S)
    BY <1>1, <2>3
  <2> QED BY <2>2, <2>4, Zenon
<1> QED BY <1>1, <1>2, <1>3, <1>4, <1>5, Zenon DEF Places

\* The items of a page come after the last one seen.
LEMMA PageIsNew ==
  ASSUME NEW kind, NEW items, NEW K, NEW list, NEW n, NEW at, Shelf(kind, items, K, list, n, at),
         NEW seen, NEW still, OnTheWay(kind, items, K, seen, still),
         NEW j \in 1..n, list[j] \in Range(seen), NEW a \in 1..n, list[a] = seen[Len(seen)], a < j
  PROVE  FALSE
<1>0. Places(items, K, list, n, at)
  BY ShelfFacts, Zenon
<1>1. seen # <<>>
  <2>1. Range(<<>>) = {}
    BY DEF Range
  <2> QED BY <2>1, Zenon
<1>2. Midway(kind, items, seen, still)
  BY <1>1, Zenon DEF OnTheWay
<1>3. at[a] \in items /\ at[j] \in items /\ at[a].id = list[a] /\ at[j].id = list[j]
  BY <1>0, Zenon DEF Places
<1>4. Before(kind, at[a], at[j]) /\ Ordered(kind, items)
  BY Zenon DEF Shelf, Sequenced
<1>5. CASE at[j].id = at[a].id
  BY <1>3, <1>4, <1>5, Zenon DEF Shelf, Ordered
<1>6. CASE at[j].id # at[a].id
  <2>1. Before(kind, at[j], at[a])
    BY <1>2, <1>3, <1>6, Zenon DEF Midway
  <2> QED BY <1>3, <1>4, <2>1, Zenon DEF Ordered
<1> QED BY <1>5, <1>6, Zenon

Follows(list, n, seen, a) ==
  /\ seen = <<>> => a = 0
  /\ seen # <<>> => a \in 1..n /\ list[a] = seen[Len(seen)]

\* What is still to come is beyond the page.
LEMMA PageLeaves ==
  ASSUME NEW kind, NEW items, NEW K, NEW list, NEW n, NEW at, Shelf(kind, items, K, list, n, at),
         NEW seen, NEW still, OnTheWay(kind, items, K, seen, still),
         NEW data, NEW a, NEW k, Cut(list, n, data, a, k),
         Follows(list, n, seen, a),
         NEW x \in items, x.id \in still, x.id \notin Range(seen), x.id \notin Range(data)
  PROVE  \E j \in 1..n : x = at[j] /\ a + k < j
<1>0. Places(items, K, list, n, at)
  BY ShelfFacts, Zenon
<1>1. PICK j \in 1..n : x = at[j]
  BY Zenon DEF Shelf, Sequenced
<1>2. n \in Nat /\ a \in Nat /\ k \in Nat /\ a + k <= n /\ list[j] = x.id
  BY <1>0, <1>1, Zenon DEF Cut, Places
<1>3. a < j
  <2>1. CASE seen = <<>>
    <3>1. a = 0
      BY <2>1, Zenon DEF Follows
    <3> QED BY <1>2, <3>1
  <2>2. CASE seen # <<>>
    <3>1. at[a] \in items /\ at[a].id = seen[Len(seen)] /\ a \in 1..n
      BY <1>0, <2>2, Zenon DEF Places, Follows
    <3>2. Before(kind, at[a], x)
      BY <2>2, <3>1, Zenon DEF OnTheWay, Midway
    <3> QED BY <1>1, <3>1, <3>2, FromIndex, Zenon DEF Shelf
  <2> QED BY <2>1, <2>2, Zenon
<1>4. ~(j <= a + k)
  <2> SUFFICES ASSUME j <= a + k PROVE FALSE
    BY Zenon
  <2>1. PICK i \in 1..k : a + i = j
    <3>1. j - a \in 1..k /\ a + (j - a) = j
      BY <1>2, <1>3
    <3> QED BY <3>1, Zenon
  <2>2. data[i] = x.id /\ data \in Seq(Range(list)) /\ Len(data) = k
    BY <1>2, <2>1, Zenon DEF Cut
  <2>3. DOMAIN data = 1..k
    BY <1>2, <2>2
  <2> QED BY <2>2, <2>3, Zenon DEF Range
<1>5. a + k < j
  BY <1>2, <1>4
<1> QED BY <1>1, <1>5, Zenon

\* A page that is not refused takes the walk on, and the last page ends it with all that
\* was there throughout.
LEMMA TurnKeeps ==
  ASSUME NEW kind, NEW items, NEW K, NEW list, NEW n, NEW at, Shelf(kind, items, K, list, n, at),
         NEW seen, NEW still, OnTheWay(kind, items, K, seen, still),
         NEW page, Turned(list, n, seen, page), page # [pc |-> "refused", data |-> <<>>]
  PROVE  /\ OnTheWay(kind, items, K, seen \o page.data, still)
         /\ page.pc = "more" => seen \o page.data # <<>>
         /\ page.pc = "done" => still \subseteq Range(seen \o page.data)
         /\ page.pc \in {"more", "done"}
<1>0. Places(items, K, list, n, at)
  BY ShelfFacts, Zenon
<1>1. PICK a, k : /\ Cut(list, n, page.data, a, k)
                  /\ seen = <<>> => a = 0
                  /\ seen # <<>> => a \in 1..n /\ list[a] = seen[Len(seen)]
                  /\ (page.pc = "more" /\ k # 0) \/ (page.pc = "done" /\ a + k = n)
  BY Zenon DEF Turned
<1>2. PICK data : data = page.data
  BY Zenon
<1>3. /\ a \in Nat /\ k \in Nat /\ a + k <= n /\ n \in Nat
      /\ data \in Seq(Range(list)) /\ Len(data) = k /\ \A i \in 1..k : data[i] = list[a + i]
  BY <1>0, <1>1, <1>2, Zenon DEF Cut, Places
<1>4. /\ data \in Seq(K) /\ DOMAIN data = 1..k /\ (data = <<>> <=> k = 0)
  <2>1. Range(list) \subseteq K
    BY <1>0, Zenon DEF Places
  <2>2. data \in Seq(K)
    BY <1>3, <2>1
  <2> QED BY <1>3, <2>2
<1>5. seen \in Seq(K) /\ IsInjective(seen)
  BY Zenon DEF OnTheWay
<1>6. \A i \in 1..k : a + i \in 1..n /\ a < a + i
  BY <1>3
<1>7. ASSUME NEW i \in 1..k PROVE data[i] \notin Range(seen)
  <2> SUFFICES ASSUME data[i] \in Range(seen) PROVE FALSE
    BY Zenon
  <2>1. seen # <<>>
    <3>1. Range(<<>>) = {}
      BY DEF Range
    <3> QED BY <3>1, Zenon
  <2>2. a \in 1..n /\ list[a] = seen[Len(seen)] /\ list[a + i] \in Range(seen)
    BY <1>1, <1>3, <2>1, Zenon
  <2> QED BY <1>6, <2>2, PageIsNew, Zenon
<1>8. Range(seen) \cap Range(data) = {}
  BY <1>4, <1>7, Zenon DEF Range
<1>9. IsInjective(data)
  <2> SUFFICES ASSUME NEW i \in 1..k, NEW j \in 1..k, data[i] = data[j] PROVE i = j
    BY <1>4, Zenon DEF IsInjective
  <2>0. PICK p \in 1..n, q \in 1..n : p = a + i /\ q = a + j
    BY <1>6, Zenon
  <2>1. a + i = a + j
    <3>1. list[p] = list[q]
      BY <1>3, <2>0, Zenon
    <3>2. p = q
      BY <1>0, <3>1, Zenon DEF Places
    <3> QED BY <2>0, <3>2, Zenon
  <2> QED BY <1>3, <2>1
<1>10. PICK now : now = seen \o data
  BY Zenon
<1>11. /\ now \in Seq(K) /\ Range(now) = Range(seen) \cup Range(data) /\ IsInjective(now)
       /\ data # <<>> => now # <<>> /\ now[Len(now)] = data[Len(data)]
  BY <1>4, <1>5, <1>8, <1>9, <1>10, Joined
<1>12. ASSUME NEW x \in items, x.id \in still, x.id \notin Range(now)
       PROVE  \E j \in 1..n : x = at[j] /\ a + k < j
  <2>1. x.id \notin Range(seen) /\ x.id \notin Range(data) /\ Cut(list, n, data, a, k)
    BY <1>1, <1>2, <1>11, <1>12, Zenon
  <2>2. Follows(list, n, seen, a)
    BY <1>1, Zenon DEF Follows
  <2> QED BY <1>12, <2>1, <2>2, PageLeaves
<1>13. page.pc = "done" => still \subseteq Range(now)
  <2> SUFFICES ASSUME page.pc = "done", NEW id \in still, id \notin Range(now) PROVE FALSE
    BY Zenon
  <2>1. PICK x \in items : x.id = id
    BY Zenon DEF OnTheWay
  <2>2. PICK j \in 1..n : a + k < j
    BY <1>12, <2>1, Zenon
  <2>3. a + k = n
    BY <1>1, Zenon
  <2> QED BY <1>3, <2>2, <2>3
<1>14. now # <<>> => Midway(kind, items, now, still)
  <2>1. CASE k = 0
    <3>1. data = <<>>
      BY <1>4, <2>1, Zenon
    <3>2. now = seen
      BY <1>5, <1>10, <3>1
    <3> QED BY <3>2, Zenon DEF OnTheWay
  <2>2. CASE k # 0
    <3>1. k \in 1..k
      BY <1>3, <2>2
    <3>2. now[Len(now)] = list[a + k] /\ a + k \in 1..n
      BY <1>3, <1>4, <1>6, <1>11, <2>2, <3>1, Zenon
    <3>3. at[a + k] \in items /\ at[a + k].id = now[Len(now)]
      BY <1>0, <3>2, Zenon DEF Places
    <3> SUFFICES ASSUME NEW x \in items, NEW c \in items, c.id = now[Len(now)]
                 PROVE  /\ x.id \in Range(now) /\ x.id # c.id => Before(kind, x, c)
                        /\ x.id \in still /\ x.id \notin Range(now) => Before(kind, c, x)
      BY Zenon DEF Midway
    <3>4. c = at[a + k]
      BY <3>3, Zenon DEF Shelf
    <3>5. ASSUME x.id \in Range(seen) PROVE Before(kind, x, c)
      <4>1. seen # <<>>
        <5>1. Range(<<>>) = {}
          BY DEF Range
        <5> QED BY <3>5, <5>1, Zenon
      <4>2. a \in 1..n /\ at[a] \in items /\ at[a].id = seen[Len(seen)]
        BY <1>0, <1>1, <4>1, Zenon DEF Places
      <4>3. Before(kind, at[a], c)
        BY <1>6, <3>1, <3>2, <3>4, <4>2, Zenon DEF Shelf, Sequenced
      <4>4. x = at[a] \/ Before(kind, x, at[a])
        BY <3>5, <4>1, <4>2, Zenon DEF OnTheWay, Midway, Shelf
      <4> QED BY <4>2, <4>3, <4>4, Zenon DEF Shelf, Ordered
    <3>6. ASSUME x.id \in Range(data), x.id # c.id PROVE Before(kind, x, c)
      <4>1. PICK i \in 1..k : x.id = data[i]
        BY <1>4, <3>6, Zenon DEF Range
      <4>2. a + i \in 1..n /\ at[a + i] \in items /\ at[a + i].id = x.id
        BY <1>0, <1>3, <1>6, <4>1, Zenon DEF Places
      <4>3. x = at[a + i]
        BY <4>2, Zenon DEF Shelf
      <4>4. i # k
        BY <3>4, <3>6, <4>3, Zenon
      <4>5. a + i < a + k
        BY <1>3, <4>4
      <4> QED BY <3>2, <3>4, <4>2, <4>3, <4>5, Zenon DEF Shelf, Sequenced
    <3>7. ASSUME x.id \in still, x.id \notin Range(now) PROVE Before(kind, c, x)
      <4>1. PICK j \in 1..n : x = at[j] /\ a + k < j
        BY <1>12, <3>7, Zenon
      <4> QED BY <3>2, <3>4, <4>1, Zenon DEF Shelf, Sequenced
    <3> QED BY <1>11, <3>5, <3>6, <3>7, Zenon
  <2> QED BY <2>1, <2>2, Zenon
<1>15. OnTheWay(kind, items, K, now, still)
  BY <1>11, <1>14, Zenon DEF OnTheWay
<1>16. page.pc = "more" => now # <<>>
  BY <1>1, <1>4, <1>11, Zenon
<1>17. page.pc \in {"more", "done"}
  BY <1>1, Zenon
<1> QED BY <1>2, <1>10, <1>13, <1>15, <1>16, <1>17, Zenon

-----------------------------------------------------------------------------
(* A walk while handlers write *)

\* An item with the place in the order that another has.
Same(kind, x, y) == x.id = y.id /\ (kind \notin {"tenant", "key"} => x = y)

LEMMA SamePlace ==
  ASSUME NEW kind \in Walkable, NEW x, NEW y, NEW c, NEW d, Same(kind, x, y), Same(kind, c, d)
  PROVE  Before(kind, x, c) <=> Before(kind, y, d)
<1>1. CASE kind \in {"tenant", "key"}
  <2>1. Older(x, c) <=> Older(y, d)
    BY Zenon DEF Same, Older, CreatedAt
  <2> QED BY <1>1, <2>1, BeforeIs, Zenon
<1>2. CASE kind \notin {"tenant", "key"}
  BY <1>2, Zenon DEF Same
<1> QED BY <1>1, <1>2, Zenon

LEMMA KnownGrows ==
  ASSUME Steady, LastId \in Nat, NEW kind
  PROVE  Known(kind) \subseteq Known(kind)'
<1>1. PICK m, n : m = LastId /\ n = LastId'
  BY Zenon
<1>2. m \in Nat /\ n \in Nat /\ m <= n
  BY <1>1, Zenon DEF Steady
<1>3. 0..m \subseteq 0..n
  BY <1>2
<1> QED BY <1>1, <1>3, Zenon DEF Known, Steady

\* An item with a known identifier was in the collection before the step.
LEMMA WasThere ==
  ASSUME Steady, NEW kind \in Walkable, NEW t, NEW x \in Members(kind, t)', x.id \in Known(kind)
  PROVE  \E y \in Members(kind, t) : Same(kind, x, y)
<1>1. /\ Members("tenant", t)' = tenants' /\ Members("key", t)' = {k \in keys' : k.tenant = t}
      /\ Members("audit", t)' = Range(audit')
      /\ \A k \in Kinds : Members(k, t)' = {c \in configs' : c.kind = k /\ c.tenant = t}
  <2>1. \A k \in Kinds : k # "tenant" /\ k # "key" /\ k # "audit"
    BY AdminSettings, Zenon DEF Kinds
  <2> QED BY <2>1, Zenon DEF Members
<1>2. CASE kind = "tenant"
  <2>1. x \in tenants' /\ x.id \in Drawn
    BY <1>1, <1>2, Zenon DEF Known
  <2>2. PICK y \in tenants : y.id = x.id
    BY <2>1, Zenon DEF Steady
  <2> QED BY <1>2, <2>2, MembersAre, Zenon DEF Same
<1>3. CASE kind = "key"
  <2>1. x \in keys' /\ x.tenant = t /\ x.id \in Drawn
    BY <1>1, <1>3, Zenon DEF Known
  <2>2. PICK y \in keys : y.id = x.id /\ y.tenant = t
    BY <2>1, Zenon DEF Steady
  <2>3. y \in Members(kind, t)
    BY <1>3, <2>2, MembersAre, Zenon
  <2> QED BY <1>3, <2>2, <2>3, Zenon DEF Same
<1>4. CASE kind = "audit"
  <2>1. x \in Range(audit') /\ x.id \in 0..LastId
    BY <1>1, <1>4, Zenon DEF Known
  <2>2. x \in Members(kind, t)
    BY <1>4, <2>1, MembersAre, Zenon DEF Steady
  <2> QED BY <2>2, Zenon DEF Same
<1>5. CASE kind \in Kinds
  <2>1. kind # "audit"
    BY <1>5, AdminSettings, Zenon DEF Kinds
  <2>2. x \in configs' /\ x.kind = kind /\ x.tenant = t /\ x.id \in Drawn
    BY <1>1, <1>5, <2>1, Zenon DEF Known
  <2>3. x \in {c \in configs : c.kind = kind /\ c.tenant = t}
    BY <2>2, Zenon DEF Steady
  <2>4. Members(kind, t) = {c \in configs : c.kind = kind /\ c.tenant = t}
    BY <1>5, MembersAre, Zenon
  <2> QED BY <2>3, <2>4, Zenon DEF Same
<1> QED BY <1>2, <1>3, <1>4, <1>5, Zenon DEF Walkable

LEMMA WritesKeep ==
  ASSUME Steady, LastId \in Nat, NEW kind \in Walkable, NEW t, NEW seen, NEW still,
         Identified(kind, Members(kind, t)), Identified(kind, Members(kind, t))',
         OnTheWay(kind, Members(kind, t), Known(kind), seen, still)
  PROVE  OnTheWay(kind, Members(kind, t)', Known(kind)', seen, still \cap {x.id : x \in Members(kind, t)'})
<1>1. PICK K, L, M, N : /\ K = Known(kind) /\ L = Known(kind)' /\ M = Members(kind, t) /\ N = Members(kind, t)'
  BY Zenon
<1>2. PICK rest : rest = still \cap {x.id : x \in N}
  BY Zenon
<1>3. K \subseteq L
  BY <1>1, KnownGrows, Zenon
<1>4. seen \in Seq(K) /\ IsInjective(seen) /\ Range(seen) \subseteq K
  <2>1. seen \in Seq(K) /\ IsInjective(seen)
    BY <1>1, Zenon DEF OnTheWay
  <2>2. \A i \in DOMAIN seen : seen[i] \in K
    BY <2>1
  <2> QED BY <2>1, <2>2, Zenon DEF Range
<1>5. seen \in Seq(L)
  BY <1>3, <1>4
<1>6. \A i \in rest : \E x \in N : x.id = i
  BY <1>2, Zenon
<1>7. \A i \in still : i \in K
  <2>1. \A i \in still : \E x \in Members(kind, t) : x.id = i
    BY Zenon DEF OnTheWay
  <2>2. \A x \in Members(kind, t) : x.id \in Known(kind)
    BY Zenon DEF Identified
  <2> QED BY <1>1, <2>1, <2>2, Zenon
<1>8. ASSUME NEW x \in N, x.id \in K PROVE \E y \in M : Same(kind, x, y)
  BY <1>1, <1>8, WasThere, Zenon
<1>9. ASSUME seen # <<>> PROVE Midway(kind, N, seen, rest)
  <2>1. seen[Len(seen)] \in K
    BY <1>4, <1>9
  <2> SUFFICES ASSUME NEW x \in N, NEW c \in N, c.id = seen[Len(seen)]
               PROVE  /\ x.id \in Range(seen) /\ x.id # c.id => Before(kind, x, c)
                      /\ x.id \in rest /\ x.id \notin Range(seen) => Before(kind, c, x)
    BY Zenon DEF Midway
  <2>2. PICK d \in M : Same(kind, c, d)
    BY <1>8, <2>1, Zenon
  <2>3. c.id = d.id /\ Midway(kind, M, seen, still)
    BY <1>1, <1>9, <2>2, Zenon DEF Same, OnTheWay
  <2>4. ASSUME x.id \in Range(seen), x.id # c.id PROVE Before(kind, x, c)
    <3>1. PICK y \in M : Same(kind, x, y)
      BY <1>4, <1>8, <2>4, Zenon
    <3>2. Before(kind, y, d)
      BY <2>3, <2>4, <3>1, Zenon DEF Same, Midway
    <3> QED BY <2>2, <3>1, <3>2, SamePlace, Zenon
  <2>5. ASSUME x.id \in rest, x.id \notin Range(seen) PROVE Before(kind, c, x)
    <3>1. x.id \in still
      BY <1>2, <2>5, Zenon
    <3>2. PICK y \in M : Same(kind, x, y)
      BY <1>7, <1>8, <3>1, Zenon
    <3>3. Before(kind, d, y)
      BY <2>3, <2>5, <3>1, <3>2, Zenon DEF Same, Midway
    <3> QED BY <2>2, <3>2, <3>3, SamePlace, Zenon
  <2> QED BY <2>4, <2>5, Zenon
<1>10. OnTheWay(kind, N, L, seen, rest)
  BY <1>4, <1>5, <1>6, <1>9, Zenon DEF OnTheWay
<1> QED BY <1>1, <1>2, <1>10, Zenon

\* What a walk has come to.
Walking ==
  /\ walk.pc \in {"idle", "more", "done", "refused"}
  /\ walk.pc = "more" =>
       /\ walk.kind \in Walkable /\ walk.seen # <<>>
       /\ OnTheWay(walk.kind, Members(walk.kind, walk.tenant), Known(walk.kind), walk.seen, held)
  /\ WalkComplete

LEMMA ShelfOf ==
  ASSUME IInv, Chronicle, NEW kind \in Walkable, NEW t
  PROVE  \E n, at : Shelf(kind, Members(kind, t), Known(kind), List(kind, t), n, at)
<1>1. PICK items : items = Members(kind, t)
  BY Zenon
<1>2. Identified(kind, items) /\ Ordered(kind, items) /\ LastId \in Nat
  BY <1>1, MemberFacts, PageOrder, LastIdIsLast, Zenon DEF IInv
<1>3. IsFiniteSet(items)
  BY <1>2, MembersFinite, Zenon
<1>4. PICK n, at : Sequenced(kind, items, List(kind, t), n, at)
  BY <1>1, <1>2, <1>3, Listing, Zenon
<1>5. Shelf(kind, items, Known(kind), List(kind, t), n, at)
  BY <1>2, <1>4, Zenon DEF Shelf, Identified
<1> QED BY <1>1, <1>5, Zenon

\* A page of a collection, for a client that has seen part of it.
LEMMA TurnStep ==
  ASSUME IInv, Chronicle, NEW kind \in Walkable, NEW t, NEW seen, NEW asked, NEW still,
         Turn(kind, t, seen, asked), OnTheWay(kind, Members(kind, t), Known(kind), seen, still)
  PROVE  /\ walk'.pc \in {"more", "done", "refused"} /\ walk'.kind = kind /\ walk'.tenant = t
         /\ IsInjective(walk'.seen)
         /\ walk'.pc = "more" => /\ walk'.seen # <<>>
                                 /\ OnTheWay(kind, Members(kind, t), Known(kind), walk'.seen, still)
         /\ walk'.pc = "done" => still \subseteq Range(walk'.seen)
<1>1. PICK page : page = Paginate(List(kind, t), seen, PageLimit(asked))
  BY Zenon
<1>2. walk' = [pc |-> page.pc, kind |-> kind, tenant |-> t, seen |-> seen \o page.data]
  BY <1>1, Zenon DEF Turn
<1>3. walk'.pc = page.pc /\ walk'.kind = kind /\ walk'.tenant = t /\ walk'.seen = seen \o page.data
  BY <1>2, Zenon
<1>4. PICK items, K, list : items = Members(kind, t) /\ K = Known(kind) /\ list = List(kind, t)
  BY Zenon
<1>5. PICK n, at : Shelf(kind, items, K, list, n, at)
  BY <1>4, ShelfOf, Zenon
<1>6. Places(items, K, list, n, at)
  BY <1>5, ShelfFacts, Zenon
<1>7. PageLimit(asked) \in Nat \ {0}
  <2>1. PICK limit : limit = PageLimit(asked) /\ limit \in 1..MaxPageLimit
    BY Zenon DEF Turn, ValidLimit
  <2>2. limit \in Nat \ {0}
    BY <2>1, PagesSettings
  <2> QED BY <2>1, <2>2, Zenon
<1>8. Turned(list, n, seen, page)
  <2>1. n \in Nat /\ DOMAIN list = 1..n /\ list \in Seq(Range(list))
    BY <1>6, Zenon DEF Places
  <2> QED BY <1>1, <1>4, <1>7, <2>1, PageTurned, Zenon
<1>9. OnTheWay(kind, items, K, seen, still)
  BY <1>4, Zenon
<1>10. CASE page = [pc |-> "refused", data |-> <<>>]
  <2>1. page.pc = "refused" /\ page.data = <<>>
    BY <1>10, Zenon
  <2>2. seen \in Seq(K) /\ IsInjective(seen)
    BY <1>9, Zenon DEF OnTheWay
  <2>3. seen \o page.data = seen
    BY <2>1, <2>2
  <2> QED BY <1>3, <2>1, <2>2, <2>3, Zenon
<1>11. CASE page # [pc |-> "refused", data |-> <<>>]
  <2>1. PICK now : now = seen \o page.data
    BY Zenon
  <2>2. /\ OnTheWay(kind, items, K, now, still) /\ (page.pc = "more" => now # <<>>)
        /\ page.pc = "done" => still \subseteq Range(now)
        /\ page.pc \in {"more", "done"}
    BY <1>5, <1>8, <1>9, <1>11, <2>1, TurnKeeps, Zenon
  <2>3. IsInjective(now)
    BY <2>2, Zenon DEF OnTheWay
  <2> QED BY <1>3, <1>4, <2>1, <2>2, <2>3, Zenon
<1> QED BY <1>10, <1>11, Zenon

LEMMA FewerHeld ==
  ASSUME NEW kind, NEW items, NEW K, NEW seen, NEW still, NEW rest, rest \subseteq still,
         OnTheWay(kind, items, K, seen, still)
  PROVE  OnTheWay(kind, items, K, seen, rest)
<1>1. seen # <<>> => Midway(kind, items, seen, rest)
  BY Zenon DEF OnTheWay, Midway
<1> QED BY <1>1, Zenon DEF OnTheWay

\* The lists that a client reads depend on the store alone.
LEMMA SameLists ==
  ASSUME UNCHANGED vars, NEW kind, NEW t
  PROVE  Members(kind, t)' = Members(kind, t) /\ Known(kind)' = Known(kind)
<1>1. UNCHANGED <<tenants, keys, configs, audit, next>>
  BY Zenon DEF vars
<1>2. Members(kind, t)' = Members(kind, t)
  BY <1>1, Zenon DEF Members
<1>3. Known(kind)' = Known(kind)
  BY <1>1, Zenon DEF Known, LastId, Drawn
<1> QED BY <1>2, <1>3, Zenon

LEMMA WalkedNow ==
  ASSUME NEW kind, NEW t, walk'.kind = kind, walk'.tenant = t
  PROVE  /\ Members(walk.kind, walk.tenant)' = Members(kind, t)'
         /\ Known(walk.kind)' = Known(kind)'
         /\ walk'.pc # "idle" => Walked' = {x.id : x \in Members(kind, t)'}
<1>1. Members(walk.kind, walk.tenant)' = Members(kind, t)'
  BY Zenon DEF Members
<1>2. Known(walk.kind)' = Known(kind)'
  BY Zenon DEF Known
<1>3. walk'.pc # "idle" => Walked' = {x.id : x \in Members(walk.kind, walk.tenant)'}
  BY Zenon DEF Walked
<1> QED BY <1>1, <1>2, <1>3, Zenon

LEMMA HeldNow ==
  ASSUME Holding, walk.pc \in {"idle", "more"}
  PROVE  held' = IF walk.pc = "idle" THEN Walked' ELSE held \cap Walked'
BY Zenon DEF Holding

\* What will be held once the page is read.
Covers(still, kind, t) ==
  LET ids == {x.id : x \in Members(kind, t)}
  IN  (IF walk.pc = "idle" THEN ids ELSE held \cap ids) \subseteq still

LEMMA ReadStep ==
  ASSUME IInv, Chronicle, Walking, NEW kind \in Walkable, NEW t, NEW seen, NEW asked, NEW still,
         walk.pc \in {"idle", "more"}, Holding, Turn(kind, t, seen, asked),
         OnTheWay(kind, Members(kind, t), Known(kind), seen, still),
         Covers(still, kind, t)
  PROVE  Walking'
<1>1. PICK M, K : M = Members(kind, t) /\ K = Known(kind)
  BY Zenon
<1>2. UNCHANGED vars
  BY Zenon DEF Turn
<1>3. Members(kind, t)' = M /\ Known(kind)' = K
  BY <1>1, <1>2, SameLists, Zenon
<1>4. /\ walk'.pc \in {"more", "done", "refused"} /\ walk'.kind = kind /\ walk'.tenant = t
      /\ IsInjective(walk'.seen)
      /\ walk'.pc = "more" => walk'.seen # <<>> /\ OnTheWay(kind, M, K, walk'.seen, still)
      /\ walk'.pc = "done" => still \subseteq Range(walk'.seen)
  BY <1>1, TurnStep, Zenon
<1>5. Members(walk.kind, walk.tenant)' = M /\ Known(walk.kind)' = K /\ Walked' = {x.id : x \in M}
  BY <1>3, <1>4, WalkedNow, Zenon
<1>6. held' \subseteq still
  BY <1>1, <1>5, HeldNow, Zenon DEF Covers
<1>7. walk'.pc = "more" => OnTheWay(kind, M, K, walk'.seen, held')
  BY <1>4, <1>6, FewerHeld, Zenon
<1>8. walk'.pc = "more" =>
        OnTheWay(walk'.kind, Members(walk.kind, walk.tenant)', Known(walk.kind)', walk'.seen, held')
  BY <1>4, <1>5, <1>7, Zenon
<1>9. WalkComplete'
  BY <1>4, <1>6, Zenon DEF WalkComplete
<1> QED BY <1>4, <1>8, <1>9, Zenon DEF Walking

AllIdentified == \A kind \in Walkable : \A t : Identified(kind, Members(kind, t))

LEMMA WalkStep ==
  ASSUME IInv, Chronicle, Walking, WNext, Steady, AllIdentified'
  PROVE  Walking'
<1>1. walk.pc \in {"idle", "more"} /\ Holding
  BY Zenon DEF WNext
<1>2. CASE Next /\ UNCHANGED walk
  <2>1. CASE walk.pc = "idle"
    <3>1. walk'.pc = "idle" /\ "idle" # "more" /\ "idle" # "done"
      BY <1>2, <2>1, Zenon
    <3> QED BY <3>1, Zenon DEF Walking, WalkComplete
  <2>2. CASE walk.pc = "more"
    <3>1. PICK kind, t : kind = walk.kind /\ t = walk.tenant
      BY Zenon
    <3>2. PICK M, K : M = Members(kind, t)' /\ K = Known(kind)'
      BY Zenon
    <3>3. /\ kind \in Walkable /\ walk.seen # <<>>
          /\ OnTheWay(kind, Members(kind, t), Known(kind), walk.seen, held)
      BY <2>2, <3>1, Zenon DEF Walking
    <3>4. Identified(kind, Members(kind, t)) /\ LastId \in Nat
      BY <3>3, MemberFacts, LastIdIsLast, Zenon DEF IInv
    <3>5. Identified(kind, Members(kind, t))'
      BY <3>3, Zenon DEF AllIdentified
    <3>6. OnTheWay(kind, M, K, walk.seen, held \cap {x.id : x \in M})
      BY <3>2, <3>3, <3>4, <3>5, WritesKeep, Zenon
    <3>7. walk' = walk /\ walk'.pc = "more" /\ walk'.kind = kind /\ walk'.tenant = t
      BY <1>2, <2>2, <3>1, Zenon
    <3>8. Members(walk.kind, walk.tenant)' = M /\ Known(walk.kind)' = K /\ Walked' = {x.id : x \in M}
      BY <3>2, <3>7, WalkedNow, Zenon
    <3>9. held' = held \cap {x.id : x \in M}
      BY <1>1, <2>2, <3>8, HeldNow, Zenon
    <3>10. OnTheWay(walk'.kind, Members(walk.kind, walk.tenant)', Known(walk.kind)', walk'.seen, held')
      BY <3>1, <3>6, <3>7, <3>8, <3>9, Zenon
    <3>11. IsInjective(walk'.seen)
      BY <3>3, <3>7, Zenon DEF OnTheWay
    <3>12. WalkComplete'
      BY <3>7, <3>11, Zenon DEF WalkComplete
    <3> QED BY <3>1, <3>3, <3>7, <3>10, <3>12, Zenon DEF Walking
  <2> QED BY <1>1, <2>1, <2>2, Zenon
<1>3. ASSUME NEW asked, NextPage(asked) PROVE Walking'
  <2>1. walk.pc = "more" /\ Turn(walk.kind, walk.tenant, walk.seen, asked)
    BY <1>3, Zenon DEF NextPage
  <2>2. /\ walk.kind \in Walkable
        /\ OnTheWay(walk.kind, Members(walk.kind, walk.tenant), Known(walk.kind), walk.seen, held)
    BY <2>1, Zenon DEF Walking
  <2>3. Covers(held, walk.kind, walk.tenant)
    BY <2>1, Zenon DEF Covers
  <2> QED BY <1>1, <2>1, <2>2, <2>3, ReadStep
<1>4. ASSUME NEW kind \in Listed, NEW t, NEW asked, FirstPage(kind, t, asked) PROVE Walking'
  <2>1. kind \in Walkable
    BY PagesSettings, Zenon DEF Walkable
  <2>2. walk.pc = "idle" /\ Turn(kind, t, <<>>, asked)
    BY <1>4, Zenon DEF FirstPage
  <2>3. PICK M, K, all : M = Members(kind, t) /\ K = Known(kind) /\ all = {x.id : x \in M}
    BY Zenon
  <2>4. <<>> \in Seq(K) /\ IsInjective(<<>>)
    BY DEF IsInjective
  <2>5. OnTheWay(kind, M, K, <<>>, all)
    BY <2>3, <2>4, Zenon DEF OnTheWay
  <2>6. Covers(all, kind, t)
    BY <2>2, <2>3, Zenon DEF Covers
  <2> QED BY <1>1, <2>1, <2>2, <2>3, <2>5, <2>6, ReadStep
<1>5. Read => Walking'
  BY <1>3, <1>4, Zenon DEF Read
<1> QED BY <1>2, <1>5, Zenon DEF WNext

\* Whatever handlers write between its pages, a walk through a collection shows no item
\* twice, and one that comes to its end has shown every item that was there throughout.
THEOREM Walks == WSpec => []WalkComplete
<1> DEFINE WInv == IInv /\ Chronicle /\ Walking
<1>1. WInit => WInv
  <2> SUFFICES ASSUME WInit PROVE WInv
    BY Zenon
  <2>1. Init /\ walk.pc = "idle"
    BY Zenon DEF WInit, Idle
  <2>2. IInv
    BY <2>1, InvariantInit, Zenon
  <2>3. Chronicle
    <3>1. Drawn = 1..3 /\ Len(audit) = 0
      BY <2>1 DEF Init, Drawn
    <3>2. \A i \in 1..0 : FALSE
      OBVIOUS
    <3> QED BY <3>1, <3>2, PagesSettings, Zenon DEF Chronicle
  <2>4. Walking
    <3>1. "idle" # "more" /\ "idle" # "done"
      BY Zenon
    <3> QED BY <2>1, <3>1, Zenon DEF Walking, WalkComplete
  <2> QED BY <2>2, <2>3, <2>4, Zenon
<1>2. IInv /\ Chronicle => AllIdentified
  BY MemberFacts, Zenon DEF AllIdentified
<1>3. WInv /\ AllIdentified' /\ [WNext]_<<vars, walk, held>> => Walking'
  <2> SUFFICES ASSUME IInv, Chronicle, Walking, AllIdentified', [WNext]_<<vars, walk, held>> PROVE Walking'
    BY Zenon
  <2>1. CASE WNext
    <3>1. [Next]_vars
      BY <2>1, Zenon DEF WNext, Read, NextPage, FirstPage, Turn
    <3>2. Steady
      BY <3>1, SteadyStep, Zenon
    <3> QED BY <2>1, <3>2, WalkStep, Zenon
  <2>2. CASE UNCHANGED <<vars, walk, held>>
    <3>1. PICK kind, t : kind = walk.kind /\ t = walk.tenant
      BY Zenon
    <3>2. UNCHANGED vars /\ walk' = walk /\ held' = held
      BY <2>2, Zenon
    <3>3. Members(walk.kind, walk.tenant)' = Members(kind, t) /\ Known(walk.kind)' = Known(kind)
      <4>1. walk'.kind = kind /\ walk'.tenant = t
        BY <3>1, <3>2, Zenon
      <4>2. Members(walk.kind, walk.tenant)' = Members(kind, t)' /\ Known(walk.kind)' = Known(kind)'
        BY <4>1, WalkedNow, Zenon
      <4> QED BY <3>2, <4>2, SameLists, Zenon
    <3>4. walk.pc = "more" =>
            /\ walk'.kind \in Walkable /\ walk'.seen # <<>>
            /\ OnTheWay(walk'.kind, Members(walk.kind, walk.tenant)', Known(walk.kind)', walk'.seen, held')
      BY <3>1, <3>2, <3>3, Zenon DEF Walking
    <3>5. WalkComplete'
      BY <3>2, Zenon DEF Walking, WalkComplete
    <3> QED BY <3>2, <3>4, <3>5, Zenon DEF Walking
  <2> QED BY <2>1, <2>2, Zenon
<1>4. WInv /\ [WNext]_<<vars, walk, held>> => IInv' /\ Chronicle'
  <2> SUFFICES ASSUME IInv, Chronicle, [WNext]_<<vars, walk, held>> PROVE IInv' /\ Chronicle'
    BY Zenon
  <2>1. [Next]_vars
    BY Zenon DEF WNext, Read, NextPage, FirstPage, Turn
  <2> QED BY <2>1, InvariantStep, SteadyStep, Zenon
<1>5. Walking => WalkComplete
  BY Zenon DEF Walking
<1> QED
  BY <1>1, <1>2, <1>3, <1>4, <1>5, PTL DEF WSpec
=============================================================================
