-------------------------------- MODULE Admin ---------------------------------
(***************************************************************************)
(* The admin plane (server/admin.go, server/audit.go) over the store's     *)
(* collections (store/memory.go): who may create and remove what, and the  *)
(* audit log behind every write.                                           *)
(*                                                                         *)
(* A handler authenticates, makes its calls of the store one at a time,    *)
(* and is audited afterwards.  What a write means to the catalog, to       *)
(* quotas, webhooks and caches is in the modules of those; reading the     *)
(* collections is in Pages.  next is the next identifier drawn.            *)
(***************************************************************************)
EXTENDS Integers, Sequences, FiniteSets, FiniteSetsExt

CONSTANTS Handlers,
          Names,          \* of tenants, providers, aliases and rules; numbers, for their order
          Seeds,          \* the names of the seeded aliases, in order
          Created, Upserted,  \* the kinds of configuration, by the verb that writes them
          Ids,            \* a bound: the identifiers that may be drawn
          TenantPatches,  \* what updateTenant may be asked for: records with a name or a status
          MaxAudit,
          MaxChanges      \* a bound: the writes received

Kinds == Created \cup Upserted

ASSUME AdminSettings ==
  /\ IsFiniteSet(Handlers) /\ Names \subseteq Nat /\ Seeds \in Seq(Names) /\ Seeds # <<>>
  /\ Created \subseteq {"provider", "webhook"} /\ Upserted \subseteq {"alias", "route"}
  /\ \A p \in TenantPatches : /\ DOMAIN p \subseteq {"name", "status"}
                              /\ "name" \in DOMAIN p => p.name \in Names
                              /\ "status" \in DOMAIN p => p.status \in {"active", "suspended"}
  /\ MaxAudit \in Nat \ {0}

VARIABLES tenants,  \* a set of [id, name, status]
          keys,     \* a set of [id, tenant, plane, scope, live, minter]
          configs,  \* a set of [kind, tenant, id, name]: lists in the order of their appends
          quotas,   \* a set of <<tenant, key>>, key NoOne for the tenant's own
          audit,    \* the log, oldest first
          handler, next, changes

vars == <<tenants, keys, configs, quotas, audit, handler, next, changes>>

NoOne == 0                \* no tenant, no key
Root == 0                 \* the root scope; a tenant's scope is its identifier
NoScope == -1             \* of data plane keys
Idle == [pc |-> "idle"]
Bootstrap == [tenant |-> NoOne, plane |-> "admin", scope |-> Root, live |-> TRUE]

-----------------------------------------------------------------------------
\* seedDev: the tenant and the two credentials a development server starts with.
Init ==
  /\ tenants = {[id |-> 1, name |-> 0, status |-> "active"]}
  /\ keys = {[id |-> 2, tenant |-> 1, plane |-> "data", scope |-> NoScope,
              live |-> TRUE, minter |-> Root],
             [id |-> 3, tenant |-> 1, plane |-> "admin", scope |-> 1,
              live |-> TRUE, minter |-> Root]}
  /\ configs = {} /\ quotas = {} /\ audit = <<>>
  /\ handler = [h \in Handlers |-> Idle]
  /\ next = 4 /\ changes = 0

Exists(t) == \E u \in tenants : u.id = t

Draw == next \in Ids /\ next' = next + 1

\* auth on the admin plane: the bootstrap key, which no store holds, or an active key
\* of a tenant that exists and is not suspended, or of none.  The handler works with the
\* key as read here.
Authenticate(h, k) ==
  /\ handler[h] = Idle /\ changes < MaxChanges
  /\ changes' = changes + 1
  /\ k.plane = "admin" /\ k.live
  /\ k.tenant = NoOne \/ \E u \in tenants : u.id = k.tenant /\ u.status = "active"
  /\ handler' = [handler EXCEPT ![h] = [pc |-> "serve", scope |-> k.scope]]
  /\ UNCHANGED <<tenants, keys, configs, quotas, audit, next>>

Serving(h) == handler[h].pc = "serve"
ActsAs(h) == handler[h].scope
IsRoot(h) == ActsAs(h) = Root

\* tenantScope: root reaches every tenant, another admin key its own.
Reaches(h, t) == IsRoot(h) \/ ActsAs(h) = t

\* The handler has answered; auditMutations knows the outcome.
Answered(h, action, kind, t, ok) ==
  handler' = [handler EXCEPT ![h] =
    [pc |-> "audit", entry |-> [action |-> action, kind |-> kind, tenant |-> t, ok |-> ok]]]

\* RecordAudit: the oldest entries go when the log is full.
RecordAudit(e) ==
  LET id == IF audit = <<>> THEN 1 ELSE audit[Len(audit)].id + 1
      log == Append(audit, [id |-> id, action |-> e.action, kind |-> e.kind,
                            tenant |-> e.tenant, ok |-> e.ok])
  IN  audit' = SubSeq(log, Max({1, Len(log) - MaxAudit + 1}), Len(log))

AuditMutationNoPut(h) ==
  /\ handler[h].pc = "audit"
  /\ IF handler[h].entry.action = "upsert" THEN UNCHANGED audit ELSE RecordAudit(handler[h].entry)
  /\ handler' = [handler EXCEPT ![h] = Idle]
  /\ UNCHANGED <<tenants, keys, configs, quotas, next, changes>>

\* auditMutations: every write, accepted or refused.
AuditMutation(h) ==
  /\ handler[h].pc = "audit"
  /\ RecordAudit(handler[h].entry)
  /\ handler' = [handler EXCEPT ![h] = Idle]
  /\ UNCHANGED <<tenants, keys, configs, quotas, next, changes>>

\* A write turned away: by its scope, by the body's validation, for want of the
\* confirmation, or by the store, which does not know the tenant or the item or knows
\* the name already.  The guards of the writes below are the other side of this.
Refuse(h, action, kind, t) ==
  /\ Serving(h)
  /\ Answered(h, action, kind, t, FALSE)
  /\ UNCHANGED <<tenants, keys, configs, quotas, audit, next, changes>>

-----------------------------------------------------------------------------
(* Tenants *)

\* CreateTenant: the name must be free.
StoreTenant(n) ==
  /\ \A u \in tenants : u.name # n
  /\ Draw
  /\ tenants' = tenants \cup {[id |-> next, name |-> n, status |-> "active"]}

\* createTenant, first the store; the aliases follow one by one.
CreateTenant(h, n) ==
  /\ Serving(h) /\ IsRoot(h)
  /\ StoreTenant(n)
  /\ handler' = [handler EXCEPT ![h] = [pc |-> "seed", tenant |-> next, left |-> Seeds]]
  /\ UNCHANGED <<keys, configs, quotas, audit, changes>>

UpsertUnchecked(kind, t, n) ==
  IF \E c \in configs : c.kind = kind /\ c.tenant = t /\ c.name = n THEN UNCHANGED <<configs, next>>
  ELSE /\ Draw
       /\ configs' = configs \cup {[kind |-> kind, tenant |-> t, id |-> next, name |-> n]}

\* UpsertAlias and UpsertRoute: one that has the name keeps its identifier and place.
Upsert(kind, t, n) ==
  IF ~Exists(t) \/ \E c \in configs : c.kind = kind /\ c.tenant = t /\ c.name = n
  THEN UNCHANGED <<configs, next>>
  ELSE /\ Draw
       /\ configs' = configs \cup {[kind |-> kind, tenant |-> t, id |-> next, name |-> n]}

\* seedAliases: a failure, such as the tenant being gone, is passed over.
SeedAlias(h) ==
  /\ handler[h].pc = "seed"
  /\ LET q == handler[h] IN
       /\ Upsert("alias", q.tenant, Head(q.left))
       /\ IF Tail(q.left) = <<>> THEN Answered(h, "create", "tenant", NoOne, TRUE)
          ELSE handler' = [handler EXCEPT ![h].left = Tail(@)]
  /\ UNCHANGED <<tenants, keys, quotas, audit, changes>>

\* A PATCH changes the fields it names.
Patched(u, patch) == [f \in DOMAIN u |-> IF f \in DOMAIN patch THEN patch[f] ELSE u[f]]

\* UpdateTenant: a new name must be free, though the tenant's own is no conflict.
StoreUpdates(t, patch) ==
  /\ Exists(t)
  /\ "name" \in DOMAIN patch => \A u \in tenants : u.id # t => u.name # patch.name
  /\ tenants' = {IF u.id = t THEN Patched(u, patch) ELSE u : u \in tenants}

\* updateTenant: root renames a tenant, suspends it or lets it back in.
UpdateTenant(h, t, patch) ==
  /\ Serving(h) /\ IsRoot(h)
  /\ StoreUpdates(t, patch)
  /\ Answered(h, "update", "tenant", t, TRUE)
  /\ UNCHANGED <<keys, configs, quotas, audit, next, changes>>

\* DeleteTenant: keys and configuration go with the tenant.  Quotas do not: they are
\* deleted under the tenant's identifier and kept under quotaKey's.
StoreDeletes(t) ==
  /\ Exists(t)
  /\ tenants' = {u \in tenants : u.id # t}
  /\ keys' = {k \in keys : k.tenant # t}
  /\ configs' = {c \in configs : c.tenant # t}

DeleteTenant(h, t) ==
  /\ Serving(h) /\ IsRoot(h)
  /\ StoreDeletes(t)
  /\ Answered(h, "delete", "tenant", t, TRUE)
  /\ UNCHANGED <<quotas, audit, next, changes>>

-----------------------------------------------------------------------------
(* Keys *)

\* CreateAPIKey: the tenant exists, or the key is a root key and has none.
StoreKey(h, t, plane, scope) ==
  /\ Exists(t) \/ (t = NoOne /\ plane = "admin" /\ scope = Root)
  /\ Draw
  /\ keys' = keys \cup {[id |-> next, tenant |-> t, plane |-> plane, scope |-> scope,
                         live |-> TRUE, minter |-> ActsAs(h)]}

CreateKeyAnyScope(h, t, plane, asksRoot) ==
  /\ Serving(h) /\ Reaches(h, t)
  /\ asksRoot => plane = "admin"
  /\ StoreKey(h, t, plane, IF plane = "data" THEN NoScope ELSE IF asksRoot THEN Root ELSE t)
  /\ Answered(h, "create", "key", t, TRUE)
  /\ UNCHANGED <<tenants, configs, quotas, audit, changes>>

\* createKey: an admin key is confined to its tenant unless a root key asks for a root
\* key.
CreateKey(h, t, plane, asksRoot) ==
  /\ Serving(h) /\ Reaches(h, t)
  /\ asksRoot => plane = "admin" /\ IsRoot(h)
  /\ StoreKey(h, t, plane, IF plane = "data" THEN NoScope ELSE IF asksRoot THEN Root ELSE t)
  /\ Answered(h, "create", "key", t, TRUE)
  /\ UNCHANGED <<tenants, configs, quotas, audit, changes>>

CreateAdminKey(h) ==
  /\ Serving(h) /\ IsRoot(h)
  /\ StoreKey(h, NoOne, "admin", Root)
  /\ Answered(h, "create", "key", NoOne, TRUE)
  /\ UNCHANGED <<tenants, configs, quotas, audit, changes>>

\* RevokeAPIKey: the key stays in the list; revoking it again is no error.
StoreRevokes(t, i) ==
  /\ \E k \in keys : k.id = i /\ k.tenant = t
  /\ keys' = {IF k.id = i THEN [k EXCEPT !.live = FALSE] ELSE k : k \in keys}

RevokeKey(h, t, i) ==
  /\ Serving(h) /\ t # NoOne /\ Reaches(h, t)
  /\ StoreRevokes(t, i)
  /\ Answered(h, "delete", "key", t, TRUE)
  /\ UNCHANGED <<tenants, configs, quotas, audit, next, changes>>

RevokeAdminKey(h, i) ==
  /\ Serving(h) /\ IsRoot(h)
  /\ StoreRevokes(NoOne, i)
  /\ Answered(h, "delete", "key", NoOne, TRUE)
  /\ UNCHANGED <<tenants, configs, quotas, audit, next, changes>>

-----------------------------------------------------------------------------
(* Configuration *)

\* CreateProvider and CreateWebhook: a provider's name must be free in its tenant.
Create(h, kind, t, n) ==
  /\ Serving(h) /\ Reaches(h, t) /\ Exists(t)
  /\ kind = "provider" => \A c \in configs : c.kind = kind /\ c.tenant = t => c.name # n
  /\ Draw
  /\ configs' = configs \cup {[kind |-> kind, tenant |-> t, id |-> next, name |-> n]}
  /\ Answered(h, "create", kind, t, TRUE)
  /\ UNCHANGED <<tenants, keys, quotas, audit, changes>>

\* upsertAlias and upsertRoute, once the body is valid.
Put(h, kind, t, n) ==
  /\ Serving(h) /\ Reaches(h, t) /\ Exists(t)
  /\ Upsert(kind, t, n)
  /\ Answered(h, "upsert", kind, t, TRUE)
  /\ UNCHANGED <<tenants, keys, quotas, audit, changes>>

\* deleteProvider, deleteWebhook, deleteAlias and deleteRoute.
Delete(h, kind, t, i) ==
  /\ Serving(h) /\ Reaches(h, t)
  /\ \E c \in configs : c.kind = kind /\ c.tenant = t /\ c.id = i
  /\ configs' = {c \in configs : c.id # i}
  /\ Answered(h, "delete", kind, t, TRUE)
  /\ UNCHANGED <<tenants, keys, quotas, audit, next, changes>>

\* quotaTarget: the key addressed is one of the tenant's, when looked for.
QuotaTarget(h, t, k) ==
  /\ Serving(h) /\ Reaches(h, t)
  /\ k = NoOne \/ \E j \in keys : j.tenant = t /\ j.id = k
  /\ handler' = [handler EXCEPT ![h] = [pc |-> "quota", tenant |-> t, key |-> k]]
  /\ UNCHANGED <<tenants, keys, configs, quotas, audit, next, changes>>

\* setQuota: by now the tenant may be gone.
SetQuota(h) ==
  /\ handler[h].pc = "quota"
  /\ LET q == handler[h] IN
       /\ quotas' = IF Exists(q.tenant) THEN quotas \cup {<<q.tenant, q.key>>} ELSE quotas
       /\ Answered(h, "upsert", "quota", q.tenant, Exists(q.tenant))
  /\ UNCHANGED <<tenants, keys, configs, audit, next, changes>>

\* deleteQuota: no quota is not found.
DeleteQuota(h) ==
  /\ handler[h].pc = "quota"
  /\ LET q == handler[h] IN
       /\ quotas' = quotas \ {<<q.tenant, q.key>>}
       /\ Answered(h, "delete", "quota", q.tenant, <<q.tenant, q.key>> \in quotas)
  /\ UNCHANGED <<tenants, keys, configs, audit, next, changes>>

Write(h) ==
  \/ \E k \in keys \cup {Bootstrap} : Authenticate(h, k)
  \/ \E n \in Names : CreateTenant(h, n)
  \/ SeedAlias(h) \/ CreateAdminKey(h) \/ SetQuota(h) \/ DeleteQuota(h) \/ AuditMutation(h)
  \/ \E i \in Ids : RevokeAdminKey(h, i)
  \/ \E t \in {u.id : u \in tenants} :
       \/ DeleteTenant(h, t) \/ Refuse(h, "delete", "tenant", t)
       \/ \E patch \in TenantPatches : UpdateTenant(h, t, patch)
       \/ \E plane \in {"data", "admin"}, asksRoot \in BOOLEAN : CreateKey(h, t, plane, asksRoot)
       \/ \E i \in Ids : RevokeKey(h, t, i)
       \/ \E n \in Names :
            \/ \E kind \in Created : Create(h, kind, t, n)
            \/ \E kind \in Upserted : Put(h, kind, t, n)
       \/ \E kind \in Kinds, i \in Ids : Delete(h, kind, t, i)
       \/ \E k \in {j.id : j \in keys} \cup {NoOne} : QuotaTarget(h, t, k)

Next == \E h \in Handlers : Write(h)

Spec == Init /\ [][Next]_vars

-----------------------------------------------------------------------------
(* Properties *)

\* Whatever is created at once, identifiers are unique, and so are the names of
\* tenants and, within a tenant, of providers, aliases and rules.
TypeOK ==
  /\ \A u, v \in tenants : u # v => u.id # v.id /\ u.name # v.name
  /\ \A j, k \in keys : j # k => j.id # k.id
  /\ \A c, d \in configs : c # d =>
       /\ c.id # d.id
       /\ c.kind = d.kind /\ c.tenant = d.tenant /\ c.kind # "webhook" => c.name # d.name
  /\ Len(audit) <= MaxAudit

\* DeleteTenant "removes the tenant and everything scoped to it": even with writes under
\* way, no key and no configuration is of a tenant that is gone, and a quota that is in
\* force on a key names a key of its own tenant; identifiers and names stay unique.
NothingOrphaned ==
  /\ TypeOK
  /\ \A k \in keys : k.tenant = NoOne \/ Exists(k.tenant)
  /\ \A c \in configs : Exists(c.tenant)
  /\ \A q \in quotas : Exists(q[1]) /\ q[2] # NoOne => \E k \in keys : k.id = q[2] /\ k.tenant = q[1]

\* A key that a tenant's admin key has minted, or a key minted by that one and so on,
\* belongs to that tenant and never reaches further.
ScopeConfined ==
  \A k \in keys : k.minter # Root => k.tenant = k.minter /\ k.scope \in {NoScope, k.minter}

\* An accepted write of an item of the kind in the tenant.
Accepts(e, kind, t) ==
  e.action \in {"create", "upsert"} /\ e.kind = kind /\ e.tenant = t /\ e.ok

\* Those in the log, and those about to enter it.
Entered(kind, t) == {i \in DOMAIN audit : Accepts(audit[i], kind, t)}
Entering(kind, t) == {h \in Handlers : handler[h].pc = "audit" /\ Accepts(handler[h].entry, kind, t)}
Writes(kind, t) == Cardinality(Entered(kind, t)) + Cardinality(Entering(kind, t))

\* A tenant's items that were not seeded.
Minted(t) == {k \in keys : k.tenant = t /\ k.id > 3}
Items(kind, t) ==
  {c \in configs : c.kind = kind /\ c.tenant = t
                   /\ ~(kind = "alias" /\ \E i \in DOMAIN Seeds : Seeds[i] = c.name)}

\* "No mutation goes unrecorded": every item of a tenant's that was not seeded is accounted
\* for by an accepted write in the log or by one about to enter it, unless the log
\* has dropped entries.
Explained ==
  Len(audit) < MaxAudit => \A t \in {u.id : u \in tenants} :
    /\ Cardinality(Minted(t)) <= Writes("key", t)
    /\ \A kind \in Kinds : Cardinality(Items(kind, t)) <= Writes(kind, t)
=============================================================================
