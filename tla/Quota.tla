-------------------------------- MODULE Quota ---------------------------------
(***************************************************************************)
(* Quota evaluation of one tenant (gateway/internal/server/quota.go): the  *)
(* cached position of every key, the lock that lets one request compute    *)
(* it, the admin API's changes with their invalidation, and the event that *)
(* announces a crossing.                                                   *)
(*                                                                         *)
(* The three units of a window are placed in the same way, so a window has *)
(* one cap and every metered request uses one of it.  A state is its gauge *)
(* (quotaGauge): 0 ok, 1 soft exceeded, 2 hard exceeded.  A quota lookup   *)
(* takes less than a tick.                                                 *)
(***************************************************************************)
EXTENDS Integers, FiniteSets, FiniteSetsExt

CONSTANTS Keys,         \* the tenant's API keys, each a scope of the cache
          Tenant,       \* the owner of the tenant-level quota
          Offers,       \* [owner -> what its administrator may set, None to delete it]
          Configured,   \* [owner -> its quota or None] at first
          Handlers,     \* requests that are served at the same time
          Enforcement,  \* quotas.enforcement is "on"
          SoftPct,
          TTL,
          DaysPerMonth,
          MaxDay, MaxUse, MaxChanges,  \* bounds
          None

Windows == {"day", "month"}
Days == 0..MaxDay
Owners == Keys \cup {Tenant}

SlotType == [window : Windows, state : 0..2, since : Nat, resets : Nat, owner : Owners]
RowType == [key : Keys, day : Days, nr : Nat]

\* The cap of each window, or None; setQuota refuses a negative one.
QuotaType == [Windows -> Nat \cup {None}]

ASSUME QuotaSettings ==
  /\ TTL \in Nat \ {0} /\ SoftPct \in 1..100 /\ DaysPerMonth \in Nat \ {0} /\ MaxDay \in Nat
  /\ Enforcement \in BOOLEAN /\ Tenant \notin Keys
  /\ Configured \in [Owners -> QuotaType \cup {None}]
  /\ \A o \in Owners : Offers[o] \subseteq QuotaType \cup {None}
  /\ None \notin Handlers /\ None \notin SlotType /\ None \notin [since : Nat, state : 0..2]

VARIABLES day,
          used,       \* the usage records: whose and of what day, numbered within those
          quota,      \* [owner -> quota or None], the store's
          dirty,      \* an admin write whose invalidation is still to come
          entries,    \* quotaCache.entries
          inflight,   \* quotaCache.inflight: the handler holding the key's lock
          announced,  \* quotaCache.announced
          handler,
          told, twice,  \* the crossings announced, and those announced again
          changes,    \* admin writes so far
          quiet       \* ticks since usage, a quota or the day changed

vars == <<day, used, quota, dirty, entries, inflight, announced, handler, told, twice,
          changes, quiet>>

Idle == [pc |-> "idle", key |-> None, now |-> 0, slots |-> {}, asof |-> 0]

AtMost(bound, n) == IF n > bound THEN bound ELSE n

Since(window, now) == IF window = "day" THEN now ELSE DaysPerMonth * (now \div DaysPerMonth)
ResetsAt(window, now) == Since(window, now) + (IF window = "day" THEN 1 ELSE DaysPerMonth)

Position(use, cap) ==
  IF cap <= 0 THEN 0
  ELSE IF use >= cap THEN 2
  ELSE IF use * 100 >= cap * SoftPct THEN 1 ELSE 0

InWindow(d, window, now) == d >= Since(window, now) /\ d < ResetsAt(window, now)

KeyUsage(k, window, now) ==
  Cardinality({u \in used : u.key = k /\ InWindow(u.day, window, now)})

\* The records of all the tenant's keys.
Usage(window, now) == Cardinality({u \in used : InWindow(u.day, window, now)})

Used(owner, window, now) ==
  IF owner = Tenant THEN Usage(window, now) ELSE KeyUsage(owner, window, now)

Slot(owner, window, now) ==
  [window |-> window, state |-> Position(Used(owner, window, now), quota[owner][window]),
   since |-> Since(window, now), resets |-> ResetsAt(window, now), owner |-> owner]

\* The slots of one owner's quota: the windows it caps.
Positions(owner, now) ==
  IF quota[owner] = None THEN {}
  ELSE {Slot(owner, w, now) : w \in {v \in Windows : quota[owner][v] # None}}

States(slots) == {0} \cup {p.state : p \in slots}

BindingAny(slots) ==
  LET over == {p \in slots : p.state > 0}
  IN  IF over = {} THEN None ELSE Max({p.resets : p \in over})

\* The binding slot resets last among those in the entry's state.
Binding(slots) ==
  LET worst == {p \in slots : p.state = Max(States(slots)) /\ p.state > 0}
  IN  IF worst = {} THEN None ELSE Max({p.resets : p \in worst})

Entry(slots, asof) ==
  [state |-> Max(States(slots)), resets |-> Binding(slots), age |-> 0, asof |-> asof, late |-> asof # changes]

Live(k) == entries[k] # None

\* handleUsage, read past the cache: the caps on the caller and what is left of them.
Limits(k) ==
  {[owner |-> x[1], window |-> x[2], resets |-> ResetsAt(x[2], day),
    remaining |-> Max({0, quota[x[1]][x[2]] - Used(x[1], x[2], day)})] :
     x \in {y \in {Tenant, k} \X Windows :
              quota[y[1]] # None /\ quota[y[1]][y[2]] # None /\ quota[y[1]][y[2]] > 0}}

-----------------------------------------------------------------------------
Init ==
  /\ day = 0
  /\ used = {}
  /\ quota = Configured
  /\ dirty = FALSE
  /\ entries = [k \in Keys |-> None]
  /\ inflight = [k \in Keys |-> None]
  /\ announced = [k \in Keys |-> [w \in Windows |-> None]]
  /\ handler = [h \in Handlers |-> Idle]
  /\ told = {} /\ twice = {}
  /\ changes = 0
  /\ quiet = 0

\* evaluateQuota on a position: the request is rejected or goes upstream.
Verdict(h, k, state) ==
  handler' = [handler EXCEPT ![h] =
    IF state = 2 /\ Enforcement THEN Idle ELSE [Idle EXCEPT !.pc = "upstream", !.key = k]]

ArriveSliding(h, k) ==
  /\ handler[h].pc = "idle"
  /\ IF Live(k)
     THEN /\ handler' = [handler EXCEPT ![h] =
                IF entries[k].state = 2 /\ Enforcement THEN Idle
                ELSE [Idle EXCEPT !.pc = "upstream", !.key = k]]
          /\ entries' = [entries EXCEPT ![k].age = 0]
     ELSE /\ handler' = [handler EXCEPT ![h] = [Idle EXCEPT !.pc = "lock", !.key = k]]
          /\ UNCHANGED entries
  /\ UNCHANGED <<day, used, quota, dirty, inflight, announced, told, twice, changes, quiet>>

\* A chat completion arrives with key k: a live entry decides it at once.
Arrive(h, k) ==
  /\ handler[h].pc = "idle"
  /\ IF Live(k) THEN Verdict(h, k, entries[k].state)
     ELSE handler' = [handler EXCEPT ![h] = [Idle EXCEPT !.pc = "lock", !.key = k]]
  /\ UNCHANGED <<day, used, quota, dirty, entries, inflight, announced, told, twice, changes, quiet>>

\* The lock is free: the entry is looked at again and, if it is still missing, the
\* tenant's quota and usage are read.
Lock(h) ==
  LET k == handler[h].key IN
  /\ handler[h].pc = "lock" /\ inflight[k] = None
  /\ IF Live(k)
     THEN Verdict(h, k, entries[k].state) /\ UNCHANGED inflight
     ELSE /\ handler' = [handler EXCEPT ![h].pc = "key", ![h].now = day, ![h].asof = changes,
                                        ![h].slots = Positions(Tenant, day)]
          /\ inflight' = [inflight EXCEPT ![k] = h]
  /\ UNCHANGED <<day, used, quota, dirty, entries, announced, told, twice, changes, quiet>>

RisesAlways(prev, p) == p.state > 0 /\ (prev = None \/ prev.since # p.since \/ p.state >= prev.state)

\* shouldAnnounce: the memory of a scope and window, whichever quota the slot is from.
Rises(prev, p) == p.state > 0 /\ (prev = None \/ prev.since # p.since \/ p.state > prev.state)

\* The slots of one window in order, tenant's first, and what each leaves in memory.
Announce(prev, first, second) ==
  LET after == IF first # None /\ Rises(prev, first) THEN first ELSE prev
  IN  [memory |-> IF second # None /\ Rises(after, second) THEN second ELSE after,
       events |-> (IF first # None /\ Rises(prev, first) THEN {first} ELSE {})
                  \cup (IF second # None /\ Rises(after, second) THEN {second} ELSE {})]

SlotOf(slots, owner, w) ==
  LET found == {p \in slots : p.owner = owner /\ p.window = w}
  IN  IF found = {} THEN None ELSE CHOOSE p \in found : TRUE

\* The key's quota and usage complete the position, and crossings are announced.
ReadKey(h) ==
  LET k == handler[h].key
      slots == handler[h].slots \cup Positions(k, handler[h].now)
      heard == [w \in Windows |->
                  Announce(announced[k][w], SlotOf(slots, Tenant, w), SlotOf(slots, k, w))]
      news == {[scope |-> k, window |-> p.window, since |-> p.since, state |-> p.state] :
                 p \in UNION {heard[w].events : w \in Windows}}
  IN  /\ handler[h].pc = "key"
      /\ handler' = [handler EXCEPT ![h].pc = "store", ![h].slots = slots, ![h].now = 0]
      /\ announced' = [announced EXCEPT ![k] = [w \in Windows |->
           IF heard[w].memory = None THEN None
           ELSE [since |-> heard[w].memory.since, state |-> heard[w].memory.state]]]
      /\ twice' = twice \cup (news \cap told)
      /\ told' = told \cup news
      /\ UNCHANGED <<day, used, quota, dirty, entries, inflight, changes, quiet>>

\* The entry is stored, whatever happened meanwhile, and the lock released.
StoreEntry(h) ==
  LET k == handler[h].key
      e == Entry(handler[h].slots, handler[h].asof)
  IN  /\ handler[h].pc = "store"
      /\ entries' = [entries EXCEPT ![k] = e]
      /\ inflight' = [inflight EXCEPT ![k] = None]
      /\ Verdict(h, k, e.state)
      /\ UNCHANGED <<day, used, quota, dirty, announced, told, twice, changes, quiet>>

\* The store fails: the request is allowed and nothing is cached.
LookupFails(h) ==
  /\ handler[h].pc = "key"
  /\ inflight' = [inflight EXCEPT ![handler[h].key] = None]
  /\ Verdict(h, handler[h].key, 0)
  /\ UNCHANGED <<day, used, quota, dirty, entries, announced, told, twice, changes, quiet>>

\* The request was served and metered, or failed and used nothing.
Served(h) ==
  /\ handler[h].pc = "upstream"
  /\ Cardinality(used) < MaxUse
  /\ LET k == handler[h].key IN
     used' = used \cup {[key |-> k, day |-> day,
                         nr  |-> Cardinality({u \in used : u.key = k /\ u.day = day})]}
  /\ handler' = [handler EXCEPT ![h] = Idle]
  /\ quiet' = 0
  /\ UNCHANGED <<day, quota, dirty, entries, inflight, announced, told, twice, changes>>

Unserved(h) ==
  /\ handler[h].pc = "upstream"
  /\ handler' = [handler EXCEPT ![h] = Idle]
  /\ UNCHANGED <<day, used, quota, dirty, entries, inflight, announced, told, twice, changes, quiet>>

-----------------------------------------------------------------------------
\* setQuota and deleteQuota write the store first and invalidate after it.
SetQuota(o, q) ==
  /\ ~dirty /\ changes < MaxChanges /\ q # quota[o]
  /\ quota' = [quota EXCEPT ![o] = q]
  /\ dirty' = TRUE
  /\ changes' = changes + 1
  /\ quiet' = 0
  /\ UNCHANGED <<day, used, entries, inflight, announced, handler, told, twice>>

InvalidateOne ==
  /\ dirty /\ dirty' = FALSE
  /\ \E k \in Keys : entries' = [entries EXCEPT ![k] = None]
  /\ UNCHANGED <<day, used, quota, inflight, announced, handler, told, twice, changes, quiet>>

\* invalidate: every key of the tenant loses its entry, and no announcement is forgotten.
Invalidate ==
  /\ dirty /\ dirty' = FALSE
  /\ entries' = [k \in Keys |-> None]
  /\ UNCHANGED <<day, used, quota, inflight, announced, handler, told, twice, changes, quiet>>

Computing == \E h \in Handlers : handler[h].pc \in {"key", "store"}

\* An entry that reaches its time to live is never served again.
Tick ==
  /\ ~Computing /\ ~dirty
  /\ entries' = [k \in Keys |-> IF ~Live(k) \/ entries[k].age + 1 = TTL THEN None
                                ELSE [entries[k] EXCEPT !.age = @ + 1]]
  /\ quiet' = AtMost(TTL, quiet + 1)
  /\ UNCHANGED <<day, used, quota, dirty, inflight, announced, handler, told, twice, changes>>

Midnight ==
  /\ day < MaxDay
  /\ day' = day + 1
  /\ quiet' = 0
  /\ UNCHANGED <<used, quota, dirty, entries, inflight, announced, handler, told, twice, changes>>

Next ==
  \/ \E h \in Handlers :
       \/ \E k \in Keys : Arrive(h, k)
       \/ Lock(h) \/ ReadKey(h) \/ StoreEntry(h) \/ LookupFails(h)
       \/ Served(h) \/ Unserved(h)
  \/ \E o \in Owners : \E q \in Offers[o] : SetQuota(o, q)
  \/ Invalidate \/ Tick \/ Midnight

Spec == Init /\ [][Next]_vars

-----------------------------------------------------------------------------
(* Properties *)

\* Only the handler that holds a key's lock computes its position, and no entry
\* outlives its time to live.
TypeOK ==
  /\ \A h \in Handlers : handler[h].pc \in {"key", "store"} <=> \E k \in Keys : inflight[k] = h
  /\ \A k \in Keys : inflight[k] # None => handler[inflight[k]].key = k
  /\ \A k \in Keys : entries[k] # None => entries[k].age \in 0..(TTL - 1)
  /\ day \in Days /\ used \subseteq RowType /\ IsFiniteSet(used)

Now(k) == Positions(Tenant, day) \cup Positions(k, day)

\* Once usage, quotas and the day have been still for a time to live, a position the
\* cache still serves is the true one: an overshoot past a hard cap, a rejection
\* after the window reset and a missed invalidation last no longer than that.
SettlesWithinTTL ==
  \A k \in Keys : quiet >= TTL /\ Live(k) => entries[k].state = Max(States(Now(k)))

\* After an admin change of a quota is invalidated, the cache serves a position from
\* before it only where the request computing it overlapped the change.
ChangeTakesEffect ==
  \A k \in Keys : Live(k) /\ ~dirty => entries[k].asof = changes \/ entries[k].late

\* A rejection is explained: until the reset it names, and with the quotas as they
\* are, GET /v1/usage shows the caller a cap with nothing left that resets just then,
\* and every later evaluation rejects it too.
RejectedUntilReset ==
  \A k \in Keys :
    Live(k) /\ entries[k].state = 2 /\ entries[k].asof = changes
      /\ day < entries[k].resets
    => /\ Max(States(Now(k))) = 2
       /\ \E l \in Limits(k) : l.remaining = 0 /\ l.resets = entries[k].resets

\* A scope announces a crossing once for a window and state, whatever admin writes,
\* expiries and concurrent requests come between, and stores no position past a
\* threshold without having announced that state or a worse one.  It takes the lock of
\* the scope (TypeOK), which is given back on every way out.
AnnouncedOnce ==
  /\ TypeOK
  /\ twice = {}
  /\ \A h \in Handlers : handler[h].pc = "store" =>
       \A p \in handler[h].slots : p.state > 0 =>
         \E e \in told : /\ e.scope = handler[h].key /\ e.window = p.window
                         /\ e.since = p.since /\ e.state >= p.state
=============================================================================
