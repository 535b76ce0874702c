----------------------------- MODULE QuotaProofs ------------------------------
(***************************************************************************)
(* The quota cache for every number of keys, requests and periods, every   *)
(* quota and every time to live: one request computes a position,          *)
(* positions settle, a change takes effect, and what shouldAnnounce lets   *)
(* through is remembered and made once.                                    *)
(***************************************************************************)
EXTENDS Quota, TLAPS

PCs == {"idle", "lock", "key", "store", "upstream"}
HandlerType == [pc : PCs, key : Keys \cup {None}, now : Nat, slots : SUBSET SlotType, asof : Nat]

EntryShape(e) ==
  /\ e = [state |-> e.state, resets |-> e.resets, age |-> e.age, asof |-> e.asof, late |-> e.late]
  /\ e.age \in 0..(TTL - 1)

Typed ==
  /\ day \in Days /\ quiet \in 0..TTL /\ changes \in Nat /\ dirty \in BOOLEAN
  /\ entries = [k \in Keys |-> entries[k]] /\ \A k \in Keys : entries[k] = None \/ EntryShape(entries[k])
  /\ inflight \in [Keys -> Handlers \cup {None}]
  /\ handler \in [Handlers -> HandlerType]
  /\ \A h \in Handlers : handler[h].pc # "idle" => handler[h].key \in Keys

Computes(q) == q.pc \in {"key", "store"}

\* A key's lock is held by the one handler that computes its position.
Locked ==
  /\ \A h \in Handlers : Computes(handler[h]) => inflight[handler[h].key] = h
  /\ \A k \in Keys : inflight[k] # None => Computes(handler[inflight[k]]) /\ handler[inflight[k]].key = k

\* What was computed, or read so far, since the last change is true.
Current ==
  /\ \A h \in Handlers : quiet > 0 =>
       /\ handler[h].pc = "key" => handler[h].now = day /\ handler[h].slots = Positions(Tenant, day)
       /\ handler[h].pc = "store" => handler[h].slots = Now(handler[h].key)
  /\ \A k \in Keys : Live(k) /\ quiet > entries[k].age => entries[k].state = Max(States(Now(k)))

\* An entry from before a change is late, or about to be dropped.
Dated == \A k \in Keys : Live(k) => entries[k].asof = changes \/ entries[k].late \/ dirty

\* The inductive invariant.
IInv == Typed /\ Locked /\ Current /\ Dated

-----------------------------------------------------------------------------
(* Periods and slots *)

LEMMA PeriodStart ==
  ASSUME NEW w \in Windows, NEW a \in Nat
  PROVE  Since(w, a) \in Nat /\ ResetsAt(w, a) \in Nat
<1>1. DaysPerMonth \in Nat \ {0}
  BY QuotaSettings, Zenon
<1>2. a \div DaysPerMonth \in Nat
  BY <1>1
<1>3. DaysPerMonth * (a \div DaysPerMonth) \in Nat
  BY <1>1, <1>2
<1> QED BY <1>1, <1>3 DEF Since, ResetsAt

\* A later day is not in an earlier period.
LEMMA PeriodsAdvance ==
  ASSUME NEW w \in Windows, NEW a \in Nat, NEW b \in Nat, a <= b
  PROVE  Since(w, a) <= Since(w, b)
<1>1. PICK d \in Nat \ {0} : d = DaysPerMonth
  BY QuotaSettings, Zenon
<1>2. PICK x \in Nat : x = a \div d
  OBVIOUS
<1>3. PICK y \in Nat : y = b \div d
  OBVIOUS
<1>4. d * x <= a /\ b < d * (y + 1) /\ d * (y + 1) = d * y + d
  BY <1>2, <1>3
<1>5. x <= y
  <2> SUFFICES ASSUME ~(x <= y) PROVE FALSE
    BY Zenon
  <2>1. x >= y + 1
    OBVIOUS
  <2>2. d * x >= d * (y + 1)
    BY <2>1
  <2> QED BY <1>4, <2>2
<1>6. d * x <= d * y
  BY <1>5
<1> QED BY <1>1, <1>2, <1>3, <1>6, Zenon DEF Since

LEMMA PositionTyped == \A use, cap : Position(use, cap) \in 0..2
BY DEF Position

\* The slots of one owner's quota: one for a window, of the period that now is in.
LEMMA PositionsTyped ==
  ASSUME NEW o \in Owners, NEW now \in Nat
  PROVE  /\ Positions(o, now) \subseteq SlotType
         /\ \A p \in Positions(o, now) : p.owner = o /\ p.since = Since(p.window, now)
         /\ \A p, q \in Positions(o, now) : p.window = q.window => p = q
<1>1. ASSUME NEW w \in Windows
      PROVE  /\ Slot(o, w, now) \in SlotType /\ Slot(o, w, now).owner = o
             /\ Slot(o, w, now).window = w /\ Slot(o, w, now).since = Since(w, now)
  BY PeriodStart, PositionTyped, Zenon DEF Slot, SlotType
<1>2. \A p \in Positions(o, now) : \E w \in Windows : p = Slot(o, w, now)
  BY Zenon DEF Positions
<1> QED BY <1>1, <1>2

-----------------------------------------------------------------------------
(* Steps *)

\* Positions depend on usage and quotas alone.
LEMMA PositionsKept ==
  ASSUME UNCHANGED <<used, quota>>
  PROVE  \A o, n : Positions(o, n)' = Positions(o, n)
BY DEF Positions, Slot, Used, Usage, KeyUsage

LEMMA NowKept ==
  ASSUME UNCHANGED <<used, quota, day>>
  PROVE  \A k : Now(k)' = Now(k)
BY PositionsKept, Zenon DEF Now

LEMMA IdleTyped == Idle \in HandlerType /\ Idle.pc = "idle"
BY Zenon DEF Idle, HandlerType, PCs

\* What evaluateQuota leaves of a handler.
LEMMA VerdictTyped ==
  ASSUME handler \in [Handlers -> HandlerType], NEW h \in Handlers, NEW k \in Keys, NEW state, Verdict(h, k, state)
  PROVE  \E q \in HandlerType : /\ handler' = [handler EXCEPT ![h] = q] /\ q.pc \in {"idle", "upstream"}
                                /\ q.pc # "idle" => q.key \in Keys
<1>1. [Idle EXCEPT !.pc = "upstream", !.key = k] \in HandlerType
  BY Zenon DEF Idle, HandlerType, PCs
<1>2. /\ [Idle EXCEPT !.pc = "upstream", !.key = k].pc = "upstream"
      /\ [Idle EXCEPT !.pc = "upstream", !.key = k].key = k
  BY Zenon DEF Idle
<1>3. CASE state = 2 /\ Enforcement
  BY <1>3, IdleTyped, Zenon DEF Verdict
<1>4. CASE ~(state = 2 /\ Enforcement)
  BY <1>1, <1>2, <1>4, Zenon DEF Verdict
<1> QED BY <1>3, <1>4, Zenon

\* A handler that holds no lock, before and after.
Light(h) ==
  /\ ~Computes(handler[h])
  /\ \E q \in HandlerType : /\ handler' = [handler EXCEPT ![h] = q] /\ q.pc \in {"idle", "lock", "upstream"}
                            /\ q.pc # "idle" => q.key \in Keys
  /\ UNCHANGED <<day, quota, dirty, entries, inflight, changes>>
  /\ \/ UNCHANGED <<used, quiet>>
     \/ quiet' = 0

LEMMA LightStep == ASSUME IInv, NEW h \in Handlers, Light(h) PROVE IInv'
<1>1. PICK q \in HandlerType : /\ handler' = [handler EXCEPT ![h] = q] /\ q.pc \in {"idle", "lock", "upstream"}
                               /\ q.pc # "idle" => q.key \in Keys
  BY Zenon DEF Light
<1>0. handler \in [Handlers -> HandlerType]
  BY Zenon DEF IInv, Typed
<1>2. /\ handler \in [Handlers -> HandlerType] /\ handler' \in [Handlers -> HandlerType]
      /\ handler'[h] = q /\ \A g \in Handlers \ {h} : handler'[g] = handler[g]
  BY <1>0, <1>1, Zenon
<1>3. ~Computes(handler[h]) /\ ~Computes(handler'[h])
  BY <1>1, <1>2, Zenon DEF Light, Computes
<1>4. Typed'
  <2>1. quiet' \in 0..TTL
    BY QuotaSettings DEF Light, IInv, Typed
  <2>2. \A g \in Handlers : handler'[g].pc # "idle" => handler'[g].key \in Keys
    BY <1>1, <1>2, Zenon DEF IInv, Typed
  <2> QED BY <1>2, <2>1, <2>2, Zenon DEF Light, IInv, Typed, EntryShape
<1>5. Locked'
  <2>1. inflight' = inflight /\ inflight \in [Keys -> Handlers \cup {None}] /\ \A k \in Keys : inflight[k] # h
    BY <1>3, QuotaSettings DEF Light, IInv, Locked, Typed
  <2> QED BY <1>2, <1>3, <2>1 DEF IInv, Locked
<1>6. Current'
  <2>1. \/ quiet' = 0
        \/ quiet' = quiet /\ (\A k : Now(k)' = Now(k)) /\ (\A o, n : Positions(o, n)' = Positions(o, n)) /\ day' = day
    BY PositionsKept, NowKept, Zenon DEF Light
  <2>2. \A k \in Keys : Live(k)' => Live(k) /\ entries'[k] = entries[k] /\ entries[k].age \in Nat
    BY DEF Light, Live, IInv, Typed, EntryShape
  <2>3. handler'[h].pc \notin {"key", "store"}
    BY <1>1, <1>2, Zenon
  <2>4. CASE quiet' = 0
    BY <2>2, <2>4 DEF Current
  <2>5. CASE quiet' # 0
    BY <1>2, <2>1, <2>2, <2>3, <2>5 DEF IInv, Current
  <2> QED BY <2>4, <2>5, Zenon
<1>7. Dated'
  BY Zenon DEF Light, IInv, Dated, Live
<1> QED BY <1>4, <1>5, <1>6, <1>7, Zenon DEF IInv

LEMMA ArriveLight == ASSUME IInv, NEW h \in Handlers, NEW k \in Keys, Arrive(h, k) PROVE Light(h)
<1>1. handler[h].pc = "idle" /\ handler \in [Handlers -> HandlerType]
  BY Zenon DEF Arrive, IInv, Typed
<1>2. CASE Live(k)
  <2>1. Verdict(h, k, entries[k].state)
    BY <1>2, Zenon DEF Arrive
  <2> QED BY <1>1, <2>1, VerdictTyped, Zenon DEF Arrive, Light, Computes
<1>3. CASE ~Live(k)
  <2>1. /\ [Idle EXCEPT !.pc = "lock", !.key = k] \in HandlerType
        /\ [Idle EXCEPT !.pc = "lock", !.key = k].pc = "lock"
        /\ [Idle EXCEPT !.pc = "lock", !.key = k].key = k
    BY Zenon DEF Idle, HandlerType, PCs
  <2> QED BY <1>1, <1>3, <2>1, Zenon DEF Arrive, Light, Computes
<1> QED BY <1>2, <1>3, Zenon

LEMMA ServedLight == ASSUME NEW h \in Handlers, Served(h) \/ Unserved(h) PROVE Light(h)
BY IdleTyped, Zenon DEF Served, Unserved, Light, Computes

\* A handler that takes its key's lock and reads the tenant's position.
Takes(h, k, q) ==
  /\ k = handler[h].key /\ handler[h].pc = "lock" /\ handler' = [handler EXCEPT ![h] = q]
  /\ q.pc = "key" /\ q.key = k /\ q.now = day /\ q.slots = Positions(Tenant, day) /\ q.asof = changes
  /\ inflight[k] = None /\ inflight' = [inflight EXCEPT ![k] = h]
  /\ UNCHANGED <<day, used, quota, dirty, entries, changes, quiet>>

LEMMA LockMoves ==
  ASSUME IInv, NEW h \in Handlers, Lock(h)
  PROVE  Light(h) \/ \E k \in Keys, q \in HandlerType : Takes(h, k, q)
<1>0. /\ handler \in [Handlers -> HandlerType] /\ handler[h].pc = "lock" /\ handler[h].key \in Keys
      /\ day \in Nat /\ changes \in Nat /\ inflight \in [Keys -> Handlers \cup {None}] /\ Tenant \in Owners
  BY QuotaSettings DEF Lock, IInv, Typed, Days, Owners
<1>1. PICK k \in Keys : k = handler[h].key
  BY <1>0, Zenon
<1>2. CASE Live(k)
  <2>1. Verdict(h, k, entries[k].state)
    BY <1>1, <1>2, Zenon DEF Lock
  <2>2. Light(h)
    BY <1>0, <1>1, <1>2, <2>1, VerdictTyped, Zenon DEF Lock, Light, Computes
  <2> QED BY <2>2, Zenon
<1>3. CASE ~Live(k)
  <2>0. Positions(Tenant, day) \in SUBSET SlotType
    BY <1>0, PositionsTyped, Zenon
  <2>a. PICK x \in HandlerType : x = handler[h]
    BY <1>0, Zenon
  <2>b. PICK read \in SUBSET SlotType, today \in Nat, seen \in Nat, at \in PCs :
          read = Positions(Tenant, day) /\ today = day /\ seen = changes /\ at = "key"
    BY <1>0, <2>0, Zenon DEF PCs
  <2>c. PICK q : q = [x EXCEPT !.pc = at, !.now = today, !.asof = seen, !.slots = read]
    BY Zenon
  <2>2. /\ q \in HandlerType
        /\ q.pc = at /\ q.key = x.key /\ q.now = today /\ q.slots = read /\ q.asof = seen
    <3>1. x \in HandlerType /\ read \in SUBSET SlotType /\ today \in Nat /\ seen \in Nat /\ at \in PCs
      BY <2>a, <2>b, Zenon
    <3>2. q \in HandlerType
      BY <2>c, <3>1, Zenon DEF HandlerType
    <3>3. q.pc = at /\ q.key = x.key /\ q.now = today
      BY <2>c, <3>1, Zenon DEF HandlerType
    <3>4. q.slots = read /\ q.asof = seen
      BY <2>c, <3>1, Zenon DEF HandlerType
    <3> QED BY <3>2, <3>3, <3>4, Zenon
  <2>1. q.pc = "key" /\ q.key = k /\ q.now = day /\ q.slots = Positions(Tenant, day) /\ q.asof = changes
    BY <1>1, <2>2, <2>a, <2>b, Zenon
  <2>3. handler' = [handler EXCEPT ![h] = q]
    <3>1. handler' = [handler EXCEPT ![h].pc = "key", ![h].now = day, ![h].asof = changes,
                                     ![h].slots = Positions(Tenant, day)]
      BY <1>1, <1>3, Zenon DEF Lock
    <3> QED BY <1>0, <2>a, <2>b, <2>c, <3>1, Zenon
  <2>4. /\ inflight[k] = None /\ inflight' = [inflight EXCEPT ![k] = h]
        /\ UNCHANGED <<day, used, quota, dirty, entries, changes, quiet>>
    BY <1>1, <1>3, Zenon DEF Lock
  <2>5. Takes(h, k, q)
    BY <1>0, <1>1, <2>1, <2>3, <2>4, Zenon DEF Takes
  <2> QED BY <2>2, <2>5, Zenon
<1> QED BY <1>2, <1>3, Zenon

LEMMA TakesStep ==
  ASSUME IInv, NEW h \in Handlers, NEW k \in Keys, NEW q \in HandlerType, Takes(h, k, q)
  PROVE  IInv'
<1>0. /\ handler \in [Handlers -> HandlerType] /\ handler[h].pc = "lock" /\ handler[h].key \in Keys
      /\ inflight \in [Keys -> Handlers \cup {None}]
  BY Zenon DEF Takes, IInv, Typed
<1>1. q.pc = "key" /\ q.key = k /\ q.now = day /\ q.slots = Positions(Tenant, day) /\ handler' = [handler EXCEPT ![h] = q]
  BY Zenon DEF Takes
<1>4. handler'[h] = q /\ \A g \in Handlers \ {h} : handler'[g] = handler[g]
  BY <1>0, <1>1, Zenon
<1>5. /\ inflight[k] = None /\ inflight' = [inflight EXCEPT ![k] = h]
      /\ UNCHANGED <<day, used, quota, dirty, entries, changes, quiet>>
  BY Zenon DEF Takes
<1>6. Typed'
  <2>1. inflight' \in [Keys -> Handlers \cup {None}] /\ handler' \in [Handlers -> HandlerType]
    BY <1>0, <1>1, <1>5, Zenon
  <2>2. \A g \in Handlers : handler'[g].pc # "idle" => handler'[g].key \in Keys
    BY <1>1, <1>4, Zenon DEF IInv, Typed
  <2> QED BY <1>5, <2>1, <2>2, Zenon DEF IInv, Typed, EntryShape
<1>7. Locked'
  <2>1. inflight'[k] = h /\ \A j \in Keys \ {k} : inflight'[j] = inflight[j]
    BY <1>0, <1>5, Zenon
  <2>2. \A j \in Keys : inflight[j] # h
    BY <1>0, QuotaSettings DEF IInv, Locked, Computes
  <2>3. Computes(handler'[h]) /\ handler'[h].key = k
    BY <1>1, <1>4, Zenon DEF Computes
  <2>4. \A g \in Handlers : Computes(handler'[g]) => inflight'[handler'[g].key] = g
    <3> SUFFICES ASSUME NEW g \in Handlers \ {h}, Computes(handler'[g]) PROVE inflight'[handler'[g].key] = g
      BY <2>1, <2>3, Zenon
    <3>1. Computes(handler[g]) /\ inflight[handler[g].key] = g /\ handler[g].key \in Keys
      BY <1>4, Zenon DEF IInv, Locked, Typed, Computes
    <3>2. handler[g].key # k
      BY <1>5, <3>1, QuotaSettings, Zenon
    <3> QED BY <1>4, <2>1, <3>1, <3>2, Zenon
  <2>5. \A j \in Keys : inflight'[j] # None => Computes(handler'[inflight'[j]]) /\ handler'[inflight'[j]].key = j
    <3> SUFFICES ASSUME NEW j \in Keys \ {k}, inflight'[j] # None
                 PROVE  Computes(handler'[inflight'[j]]) /\ handler'[inflight'[j]].key = j
      BY <2>1, <2>3, Zenon
    <3>1. PICK g \in Handlers \ {h} : g = inflight[j] /\ g = inflight'[j]
      BY <1>0, <2>1, <2>2, Zenon
    <3>2. Computes(handler[g]) /\ handler[g].key = j
      BY <2>1, <3>1, Zenon DEF IInv, Locked
    <3> QED BY <1>4, <3>1, <3>2, Zenon
  <2> QED BY <2>4, <2>5, Zenon DEF Locked
<1>8. Current'
  <2>1. (\A j : Now(j)' = Now(j)) /\ \A o, n : Positions(o, n)' = Positions(o, n)
    BY <1>5, PositionsKept, NowKept, Zenon
  <2>2. ASSUME NEW g \in Handlers, quiet' > 0
        PROVE  /\ handler'[g].pc = "key" => handler'[g].now = day' /\ handler'[g].slots = Positions(Tenant, day)
               /\ handler'[g].pc = "store" => handler'[g].slots = Now(handler'[g].key)
    <3>1. CASE g = h
      BY <1>1, <1>4, <1>5, <3>1, Zenon
    <3>2. CASE g # h
      BY <1>4, <1>5, <2>2, <3>2, Zenon DEF IInv, Current
    <3> QED BY <3>1, <3>2, Zenon
  <2> QED BY <1>5, <2>1, <2>2, Zenon DEF IInv, Current, Live
<1>9. Dated'
  BY <1>5, Zenon DEF IInv, Dated, Live
<1> QED BY <1>6, <1>7, <1>8, <1>9, Zenon DEF IInv

\* A handler that gives its lock back: nothing is left of what it read.
LEMMA Release ==
  ASSUME IInv, NEW h \in Handlers, Computes(handler[h]), NEW k \in Keys, k = handler[h].key, NEW state,
         Verdict(h, k, state), inflight' = [inflight EXCEPT ![k] = None],
         UNCHANGED <<day, used, quota, quiet>>
  PROVE  /\ handler' \in [Handlers -> HandlerType] /\ inflight' \in [Keys -> Handlers \cup {None}]
         /\ \A g \in Handlers : handler'[g].pc # "idle" => handler'[g].key \in Keys
         /\ \A g \in Handlers : Computes(handler'[g]) => handler'[g] = handler[g]
         /\ Locked'
<1>0. handler \in [Handlers -> HandlerType] /\ inflight \in [Keys -> Handlers \cup {None}]
  BY Zenon DEF IInv, Typed
<1>1. PICK q \in HandlerType : /\ handler' = [handler EXCEPT ![h] = q] /\ q.pc \in {"idle", "upstream"}
                               /\ q.pc # "idle" => q.key \in Keys
  BY <1>0, VerdictTyped, Zenon
<1>2. handler'[h] = q /\ \A g \in Handlers \ {h} : handler'[g] = handler[g]
  BY <1>0, <1>1, Zenon
<1>3. ~Computes(handler'[h])
  BY <1>1, <1>2, Zenon DEF Computes
<1>4. inflight'[k] = None /\ \A j \in Keys \ {k} : inflight'[j] = inflight[j]
  BY <1>0, Zenon
<1>5. inflight[k] = h
  BY Zenon DEF IInv, Locked
<1>6. \A g \in Handlers : Computes(handler'[g]) => inflight'[handler'[g].key] = g
  <2> SUFFICES ASSUME NEW g \in Handlers \ {h}, Computes(handler'[g]) PROVE inflight'[handler'[g].key] = g
    BY <1>3, Zenon
  <2>1. Computes(handler[g]) /\ inflight[handler[g].key] = g /\ handler[g].key \in Keys
    BY <1>2, Zenon DEF IInv, Locked, Typed, Computes
  <2> QED BY <1>2, <1>4, <1>5, <2>1, Zenon
<1>7. \A j \in Keys : inflight'[j] # None => Computes(handler'[inflight'[j]]) /\ handler'[inflight'[j]].key = j
  <2> SUFFICES ASSUME NEW j \in Keys \ {k}, inflight'[j] # None
               PROVE  Computes(handler'[inflight'[j]]) /\ handler'[inflight'[j]].key = j
    BY <1>4, Zenon
  <2>1. PICK g \in Handlers : g = inflight[j] /\ g = inflight'[j]
    BY <1>0, <1>4, Zenon
  <2>2. Computes(handler[g]) /\ handler[g].key = j
    BY <1>4, <2>1 DEF IInv, Locked
  <2>3. g # h
    BY <2>2, Zenon
  <2> QED BY <1>2, <2>1, <2>2, <2>3, Zenon
<1> QED
  <2>1. handler' \in [Handlers -> HandlerType] /\ inflight' \in [Keys -> Handlers \cup {None}]
    BY <1>0, <1>1, Zenon
  <2>2. \A g \in Handlers : handler'[g].pc # "idle" => handler'[g].key \in Keys
    BY <1>1, <1>2, Zenon DEF IInv, Typed
  <2>3. \A g \in Handlers : Computes(handler'[g]) => handler'[g] = handler[g]
    BY <1>2, <1>3, Zenon
  <2> QED BY <1>6, <1>7, <2>1, <2>2, <2>3, Zenon DEF Locked

\* What handlers have read stays current where nothing that counts has changed.
LEMMA ReadingsKept ==
  ASSUME IInv, UNCHANGED <<day, used, quota, quiet>>,
         \A g \in Handlers : Computes(handler'[g]) => handler'[g] = handler[g]
  PROVE  \A g \in Handlers : (quiet > 0 =>
           /\ handler[g].pc = "key" => handler[g].now = day /\ handler[g].slots = Positions(Tenant, day)
           /\ handler[g].pc = "store" => handler[g].slots = Now(handler[g].key))'
<1>1. (\A j : Now(j)' = Now(j)) /\ \A o, n : Positions(o, n)' = Positions(o, n)
  BY PositionsKept, NowKept, Zenon
<1>2. ASSUME NEW g \in Handlers, quiet' > 0
      PROVE  /\ handler'[g].pc = "key" => handler'[g].now = day' /\ handler'[g].slots = Positions(Tenant, day)
             /\ handler'[g].pc = "store" => handler'[g].slots = Now(handler'[g].key)
  BY <1>2, Zenon DEF IInv, Current, Computes
<1> QED BY <1>1, <1>2, Zenon

LEMMA LookupFailsStep == ASSUME IInv, NEW h \in Handlers, LookupFails(h) PROVE IInv'
<1>1. PICK k \in Keys : k = handler[h].key
  BY Zenon DEF LookupFails, IInv, Typed
<1>2. /\ Computes(handler[h]) /\ Verdict(h, k, 0) /\ inflight' = [inflight EXCEPT ![k] = None]
      /\ UNCHANGED <<day, used, quota, dirty, entries, announced, told, twice, changes, quiet>>
  BY <1>1, Zenon DEF LookupFails, Computes
<1>3. /\ handler' \in [Handlers -> HandlerType] /\ inflight' \in [Keys -> Handlers \cup {None}]
      /\ \A g \in Handlers : handler'[g].pc # "idle" => handler'[g].key \in Keys
      /\ \A g \in Handlers : Computes(handler'[g]) => handler'[g] = handler[g]
      /\ Locked'
  BY <1>1, <1>2, Release, Zenon
<1>4. Typed'
  BY <1>2, <1>3, Zenon DEF IInv, Typed, EntryShape
<1>5. Current'
  <2>1. \A j \in Keys : Live(j)' /\ quiet' > entries'[j].age => entries'[j].state = Max(States(Now(j)))
    BY <1>2, Zenon DEF IInv, Current, Live
  <2>2. \A j : Now(j)' = Now(j)
    BY <1>2, NowKept, Zenon
  <2> QED BY <1>2, <1>3, <2>1, <2>2, ReadingsKept, Zenon DEF Current
<1>6. Dated'
  BY <1>2, Zenon DEF IInv, Dated, Live
<1> QED BY <1>3, <1>4, <1>5, <1>6, Zenon DEF IInv

LEMMA StoreEntryStep == ASSUME IInv, NEW h \in Handlers, StoreEntry(h) PROVE IInv'
<1>1. PICK k \in Keys : k = handler[h].key
  BY Zenon DEF StoreEntry, IInv, Typed
<1>2. PICK e : e = Entry(handler[h].slots, handler[h].asof)
  BY Zenon
<1>3. /\ Computes(handler[h]) /\ handler[h].pc = "store" /\ Verdict(h, k, e.state)
      /\ inflight' = [inflight EXCEPT ![k] = None] /\ entries' = [entries EXCEPT ![k] = e]
      /\ UNCHANGED <<day, used, quota, dirty, announced, told, twice, changes, quiet>>
  BY <1>1, <1>2, Zenon DEF StoreEntry, Computes
<1>4. /\ handler' \in [Handlers -> HandlerType] /\ inflight' \in [Keys -> Handlers \cup {None}]
      /\ \A g \in Handlers : handler'[g].pc # "idle" => handler'[g].key \in Keys
      /\ \A g \in Handlers : Computes(handler'[g]) => handler'[g] = handler[g]
      /\ Locked'
  BY <1>1, <1>3, Release, Zenon
<1>5. /\ entries' = [j \in Keys |-> entries'[j]] /\ entries'[k] = e
      /\ \A j \in Keys \ {k} : entries'[j] = entries[j]
  BY <1>3, Zenon DEF IInv, Typed
<1>6. EntryShape(e) /\ e.age = 0 /\ e.state = Max(States(handler[h].slots)) /\ (e.asof = changes \/ e.late)
  <2>1. e.age = 0 /\ e.state = Max(States(handler[h].slots)) /\ e.asof = handler[h].asof
    BY <1>2, Zenon DEF Entry
  <2>2. e.late = (handler[h].asof # changes)
    BY <1>2, Zenon DEF Entry
  <2>3. e.asof = changes \/ e.late
    BY <2>1, <2>2, Zenon
  <2>4. e = [state |-> e.state, resets |-> e.resets, age |-> e.age, asof |-> e.asof, late |-> e.late]
    BY <1>2, Zenon DEF Entry
  <2> QED BY <2>1, <2>3, <2>4, QuotaSettings DEF EntryShape
<1>7. Typed'
  <2>1. \A j \in Keys : entries'[j] = None \/ EntryShape(entries'[j])
    BY <1>5, <1>6, Zenon DEF IInv, Typed
  <2> QED BY <1>3, <1>4, <1>5, <2>1, Zenon DEF IInv, Typed
<1>8. Current'
  <2>1. \A j \in Keys : Live(j)' /\ quiet' > entries'[j].age => entries'[j].state = Max(States(Now(j)))
    <3>1. quiet > 0 => e.state = Max(States(Now(k)))
      BY <1>1, <1>3, <1>6, Zenon DEF IInv, Current
    <3> QED BY <1>3, <1>5, <1>6, <3>1, Zenon DEF IInv, Current, Live
  <2>2. \A j : Now(j)' = Now(j)
    BY <1>3, NowKept, Zenon
  <2> QED BY <1>3, <1>4, <2>1, <2>2, ReadingsKept, Zenon DEF Current
<1>9. Dated'
  BY <1>3, <1>5, <1>6, Zenon DEF IInv, Dated, Live
<1> QED BY <1>4, <1>7, <1>8, <1>9, Zenon DEF IInv


\* A handler that has read its key's position too.
Reads(h, k, q) ==
  /\ k = handler[h].key /\ handler[h].pc = "key" /\ handler' = [handler EXCEPT ![h] = q]
  /\ q.pc = "store" /\ q.key = k /\ q.asof = handler[h].asof
  /\ q.slots = handler[h].slots \cup Positions(k, handler[h].now)
  /\ UNCHANGED <<day, used, quota, dirty, entries, inflight, changes, quiet>>

LEMMA ReadKeyMoves ==
  ASSUME IInv, NEW h \in Handlers, ReadKey(h)
  PROVE  \E k \in Keys, q \in HandlerType : Reads(h, k, q)
<1>1. PICK k \in Keys : k = handler[h].key
  BY Zenon DEF ReadKey, IInv, Typed
<1>2. PICK now \in Nat : now = handler[h].now
  BY Zenon DEF IInv, Typed, HandlerType
<1>3. PICK slots : slots = handler[h].slots \cup Positions(k, now)
  BY Zenon
<1>4. k \in Owners /\ Typed /\ Positions(k, now) \subseteq SlotType
  BY PositionsTyped, Zenon DEF Owners, IInv
<1>5. /\ handler[h].pc = "key" /\ handler \in [Handlers -> HandlerType]
      /\ handler' = [handler EXCEPT ![h].pc = "store", ![h].slots = slots, ![h].now = 0]
      /\ UNCHANGED <<day, used, quota, dirty, entries, inflight, changes, quiet>>
  BY <1>1, <1>2, <1>3, Zenon DEF ReadKey, IInv, Typed
<1>6. PICK q : q = handler'[h]
  BY Zenon
<1>7. q.pc = "store" /\ q.slots = slots /\ q.key = k /\ q.asof = handler[h].asof
  BY <1>1, <1>5, <1>6 DEF HandlerType
<1>8. handler' = [handler EXCEPT ![h] = q]
  BY <1>5, <1>6, Zenon
<1>9. q = [pc |-> "store", key |-> k, now |-> 0, slots |-> slots, asof |-> handler[h].asof]
  BY <1>1, <1>5, <1>6, Zenon DEF HandlerType
<1>10. handler[h].asof \in Nat /\ slots \in SUBSET SlotType
  BY <1>3, <1>4, <1>5, Zenon DEF HandlerType
<1>11. q \in HandlerType
  BY <1>9, <1>10, Zenon DEF HandlerType, PCs
<1> QED BY <1>1, <1>2, <1>3, <1>5, <1>7, <1>8, <1>11, ZenonT(30) DEF Reads

LEMMA ReadsStep ==
  ASSUME IInv, NEW h \in Handlers, NEW k \in Keys, NEW q \in HandlerType, Reads(h, k, q)
  PROVE  IInv'
<1>1. PICK slots, now : slots = q.slots /\ now = handler[h].now
  BY Zenon
<1>5. /\ handler[h].pc = "key" /\ handler[h].key = k /\ handler \in [Handlers -> HandlerType]
      /\ UNCHANGED <<day, used, quota, dirty, entries, inflight, changes, quiet>>
  BY Zenon DEF Reads, IInv, Typed
<1>11. q.pc = "store" /\ q.key = k /\ slots = handler[h].slots \cup Positions(k, now)
  BY <1>1, Zenon DEF Reads
<1>10. handler'[h] = q
  BY <1>5, Zenon DEF Reads
<1>13. /\ handler' \in [Handlers -> HandlerType] /\ \A g \in Handlers \ {h} : handler'[g] = handler[g]
  BY <1>5, Zenon DEF Reads
<1>14. Typed'
  <2>1. \A g \in Handlers : handler'[g].pc # "idle" => handler'[g].key \in Keys
    BY <1>10, <1>11, <1>13, Zenon DEF IInv, Typed
  <2> QED BY <1>5, <1>13, <2>1, Zenon DEF IInv, Typed, EntryShape
<1>15. \A g \in Handlers : (Computes(handler'[g]) <=> Computes(handler[g])) /\ handler'[g].key = handler[g].key
  BY <1>1, <1>5, <1>10, <1>11, <1>13, Zenon DEF Computes
<1>16. Locked'
  BY <1>5, <1>15, QuotaSettings, SMTT(30) DEF IInv, Locked, Typed
<1>17. Current'
  <2>1. quiet > 0 => slots = Now(k)
    BY <1>1, <1>5, <1>11, Zenon DEF IInv, Current, Now
  <2>2. /\ \A j : Now(j)' = Now(j)
        /\ \A o, n : Positions(o, n)' = Positions(o, n)
    BY <1>5, NowKept, PositionsKept, Zenon
  <2>3. \A g \in Handlers : quiet > 0 =>
          /\ handler'[g].pc = "key" => handler'[g].now = day /\ handler'[g].slots = Positions(Tenant, day)
          /\ handler'[g].pc = "store" => handler'[g].slots = Now(handler'[g].key)
    BY <1>1, <1>10, <1>11, <1>13, <2>1, Zenon DEF IInv, Current
  <2>4. \A j \in Keys : Live(j)' /\ quiet > entries[j].age => entries[j].state = Max(States(Now(j)))
    BY <1>5, Zenon DEF IInv, Current, Live
  <2> QED BY <1>5, <2>2, <2>3, <2>4, Zenon DEF Current
<1>18. Dated'
  BY <1>5, Zenon DEF IInv, Dated, Live
<1> QED BY <1>14, <1>16, <1>17, <1>18, Zenon DEF IInv

-----------------------------------------------------------------------------
(* The administrator and the clock *)

LEMMA HandlersStill ==
  ASSUME IInv, UNCHANGED <<handler, inflight>>
  PROVE  Locked'
BY Zenon DEF IInv, Locked

LEMMA QuietEnds ==
  ASSUME IInv, quiet' = 0, UNCHANGED entries
  PROVE  Current'
BY DEF IInv, Typed, EntryShape, Current, Live

LEMMA SetQuotaStep ==
  ASSUME IInv, NEW o, NEW q, SetQuota(o, q)
  PROVE  IInv'
<1>1. Locked'
  BY HandlersStill, Zenon DEF SetQuota
<1>2. Typed'
  <2>2. dirty' \in BOOLEAN
    BY Zenon DEF SetQuota
  <2>3. quiet' \in 0..TTL /\ changes' \in Nat
    BY QuotaSettings DEF SetQuota, IInv, Typed
  <2> QED BY <2>2, <2>3, Zenon DEF SetQuota, IInv, Typed, EntryShape
<1>3. Current'
  BY QuietEnds, Zenon DEF SetQuota
<1>4. Dated'
  BY Zenon DEF SetQuota, Dated
<1> QED BY <1>1, <1>2, <1>3, <1>4, Zenon DEF IInv

LEMMA MidnightStep == ASSUME IInv, Midnight PROVE IInv'
<1>0. day' \in Days /\ day <= day'
  BY QuotaSettings DEF Midnight, IInv, Typed, Days
<1>1. Locked'
  BY HandlersStill, Zenon DEF Midnight
<1>2. Typed'
  BY <1>0, QuotaSettings DEF Midnight, IInv, Typed, EntryShape
<1>3. Current'
  BY QuietEnds, Zenon DEF Midnight
<1>4. Dated'
  BY Zenon DEF Midnight, IInv, Dated, Live
<1> QED BY <1>1, <1>2, <1>3, <1>4, Zenon DEF IInv

LEMMA InvalidateStep == ASSUME IInv, Invalidate PROVE IInv'
<1>0. \A k \in Keys : entries'[k] = None /\ ~Live(k)'
  BY Zenon DEF Invalidate, Live
<1>1. Locked'
  BY HandlersStill, Zenon DEF Invalidate
<1>2. Typed'
  BY <1>0, ZenonT(30) DEF Invalidate, IInv, Typed
<1>3. Current'
  <2>1. /\ \A j : Now(j)' = Now(j)
        /\ \A p, n : Positions(p, n)' = Positions(p, n)
    BY NowKept, PositionsKept, Zenon DEF Invalidate
  <2> QED BY <1>0, <2>1, Zenon DEF Invalidate, IInv, Current
<1>4. Dated'
  BY <1>0, Zenon DEF Dated
<1> QED BY <1>1, <1>2, <1>3, <1>4, Zenon DEF IInv

\* An entry that survives a tick is one older, and otherwise as it was.
LEMMA TickAges ==
  ASSUME IInv, Tick, NEW k \in Keys, Live(k)'
  PROVE  /\ Live(k) /\ EntryShape(entries'[k]) /\ entries'[k].age = entries[k].age + 1 /\ entries[k].age \in Nat
         /\ entries'[k].state = entries[k].state /\ entries'[k].asof = entries[k].asof
         /\ entries'[k].late = entries[k].late /\ entries'[k].resets = entries[k].resets
<1>1. /\ Live(k) /\ entries[k].age + 1 # TTL /\ entries'[k] = [entries[k] EXCEPT !.age = entries[k].age + 1]
  BY Zenon DEF Tick, Live
<1>2. EntryShape(entries[k])
  BY <1>1, Zenon DEF IInv, Typed, Live
<1>3. PICK e : e = entries[k]
  BY Zenon
<1>4. e = [state |-> e.state, resets |-> e.resets, age |-> e.age, asof |-> e.asof, late |-> e.late]
      /\ e.age \in 0..(TTL - 1) /\ e.age + 1 # TTL
  BY <1>1, <1>2, <1>3, Zenon DEF EntryShape
<1>5. PICK f : f = [e EXCEPT !.age = e.age + 1]
  BY Zenon
<1>6. f = [state |-> e.state, resets |-> e.resets, age |-> e.age + 1, asof |-> e.asof, late |-> e.late]
  BY <1>4, <1>5, Zenon
<1>7. f.state = e.state /\ f.resets = e.resets /\ f.age = e.age + 1 /\ f.asof = e.asof /\ f.late = e.late
  BY <1>6, Zenon
<1>8. f = [state |-> f.state, resets |-> f.resets, age |-> f.age, asof |-> f.asof, late |-> f.late]
  BY <1>6, <1>7, Zenon
<1>9. e.age \in Nat /\ f.age \in 0..(TTL - 1)
  BY <1>4, <1>7, QuotaSettings
<1> QED BY <1>1, <1>3, <1>5, <1>7, <1>8, <1>9, Zenon DEF EntryShape

LEMMA TickStep == ASSUME IInv, Tick PROVE IInv'
<1>1. Locked'
  BY HandlersStill, Zenon DEF Tick
<1>2. ASSUME NEW k \in Keys, Live(k)'
      PROVE  /\ Live(k) /\ EntryShape(entries'[k]) /\ entries'[k].age = entries[k].age + 1 /\ entries[k].age \in Nat
             /\ entries'[k].state = entries[k].state /\ entries'[k].asof = entries[k].asof
             /\ entries'[k].late = entries[k].late /\ entries'[k].resets = entries[k].resets
  BY <1>2, TickAges, Zenon
<1>3. quiet' \in 0..TTL /\ quiet \in Nat /\ quiet' <= quiet + 1
  BY QuotaSettings DEF Tick, AtMost, IInv, Typed
<1>4. Typed'
  <2>1. \A k \in Keys : entries'[k] = None \/ EntryShape(entries'[k])
    BY <1>2, Zenon DEF Live
  <2> QED BY <1>3, <2>1, Zenon DEF Tick, IInv, Typed
<1>5. Current'
  <2>1. \A h \in Handlers : handler'[h].pc \notin {"key", "store"}
    BY Zenon DEF Tick, Computing
  <2>2. \A j : Now(j)' = Now(j)
    BY NowKept, Zenon DEF Tick
  <2>3. \A k \in Keys : Live(k)' /\ quiet' > entries'[k].age => entries'[k].state = Max(States(Now(k)))
    BY <1>2, <1>3 DEF IInv, Current
  <2> QED BY <2>1, <2>2, <2>3, Zenon DEF Current
<1>6. Dated'
  <2>1. dirty' = dirty /\ changes' = changes
    BY Zenon DEF Tick
  <2> QED BY <1>2, <2>1, Zenon DEF IInv, Dated
<1> QED BY <1>1, <1>4, <1>5, <1>6, Zenon DEF IInv

LEMMA InitHolds == Init => IInv
<1> SUFFICES ASSUME Init PROVE IInv
  BY Zenon
<1>1. Typed
  <2>1. handler \in [Handlers -> HandlerType] /\ \A h \in Handlers : handler[h].pc = "idle"
    BY IdleTyped, Zenon DEF Init
  <2>2. day \in Days /\ quiet \in 0..TTL /\ changes \in Nat
    BY QuotaSettings DEF Init, Days
  <2>4. dirty \in BOOLEAN
    BY Zenon DEF Init
  <2> QED BY <2>1, <2>2, <2>4, Zenon DEF Init, Typed
<1>2. \A h \in Handlers : handler[h].pc = "idle"
  BY IdleTyped, Zenon DEF Init
<1>3. Locked /\ Current /\ Dated
  BY <1>2, Zenon DEF Init, Locked, Current, Dated, Computes, Live
<1> QED BY <1>1, <1>3, Zenon DEF IInv

LEMMA Unmoved == ASSUME IInv, UNCHANGED vars PROVE IInv'
<1>1. Locked'
  BY HandlersStill, Zenon DEF vars
<1>2. Typed' /\ Dated'
  BY Zenon DEF vars, IInv, Typed, Dated, EntryShape, Live
<1>3. Current'
  <2>1. /\ \A j : Now(j)' = Now(j)
        /\ \A p, n : Positions(p, n)' = Positions(p, n)
    BY NowKept, PositionsKept, Zenon DEF vars
  <2> QED BY <2>1, Zenon DEF vars, IInv, Current, Live
<1> QED BY <1>1, <1>2, <1>3, Zenon DEF IInv

LEMMA StepHolds == IInv /\ [Next]_vars => IInv'
<1> SUFFICES ASSUME IInv, [Next]_vars PROVE IInv'
  BY Zenon
<1>1. ASSUME NEW h \in Handlers,
             \/ \E k \in Keys : Arrive(h, k)
             \/ Lock(h) \/ ReadKey(h) \/ StoreEntry(h) \/ LookupFails(h)
             \/ Served(h) \/ Unserved(h)
      PROVE  IInv'
  <2>1. Light(h) => IInv'
    BY <1>1, LightStep, Zenon
  <2>2. CASE (\E k \in Keys : Arrive(h, k)) \/ Served(h) \/ Unserved(h)
    BY <1>1, <2>1, <2>2, ArriveLight, ServedLight, Zenon
  <2>3. CASE Lock(h)
    BY <1>1, <2>1, <2>3, LockMoves, TakesStep, Zenon
  <2>4. CASE ReadKey(h)
    BY <1>1, <2>4, ReadKeyMoves, ReadsStep, Zenon
  <2> QED BY <1>1, <2>2, <2>3, <2>4, StoreEntryStep, LookupFailsStep, Zenon
<1>2. ASSUME NEW o, NEW q, SetQuota(o, q) PROVE IInv'
  BY <1>2, SetQuotaStep, Zenon
<1>3. CASE Invalidate \/ Tick \/ Midnight
  BY <1>3, InvalidateStep, TickStep, MidnightStep, Zenon
<1>4. CASE UNCHANGED vars
  BY <1>4, Unmoved, Zenon
<1> QED BY <1>1, <1>2, <1>3, <1>4, Zenon DEF Next

-----------------------------------------------------------------------------
(* The theorems *)

\* Whatever requests, admin writes and midnights come between, a key's lock is held by
\* the one request that computes its position, what was computed since the last change
\* is true, and an entry from before a change is marked.
THEOREM Invariance == Spec => []IInv
<1> QED BY InitHolds, StepHolds, PTL DEF Spec

\* quotaCache serves nothing stale for longer than its time to live, with any number of
\* keys and requests, any quotas and any usage.
THEOREM Settles == Spec => []SettlesWithinTTL
<1>1. IInv => SettlesWithinTTL
  <2> SUFFICES ASSUME IInv, NEW k \in Keys, quiet >= TTL, Live(k)
               PROVE  entries[k].state = Max(States(Now(k)))
    BY Zenon DEF SettlesWithinTTL
  <2>1. entries[k].age \in 0..(TTL - 1) /\ quiet \in 0..TTL
    BY Zenon DEF IInv, Typed, Live, EntryShape
  <2>2. quiet > entries[k].age
    BY <2>1, QuotaSettings
  <2> QED BY <2>2, Zenon DEF IInv, Current
<1> QED BY <1>1, Invariance, PTL

\* setQuota and deleteQuota take effect with their invalidation, but for the requests
\* that were computing when they came.
THEOREM TakesEffect == Spec => []ChangeTakesEffect
<1>1. IInv => ChangeTakesEffect
  BY Zenon DEF IInv, Dated, ChangeTakesEffect
<1> QED BY <1>1, Invariance, PTL

-----------------------------------------------------------------------------
(* Announcements *)

MemoryType == [since : Nat, state : 0..2]
NewsType == [scope : Keys, window : Windows, since : Nat, state : 0..2]

\* What is told of a scope is remembered: nothing told is newer or worse than the memory.
Behind(e, m) == m # None /\ (e.since < m.since \/ (e.since = m.since /\ e.state <= m.state))

\* The slots a handler has read are of the periods of its day, one for a window and owner.
Coherent(slots, now) ==
  /\ \A p \in slots : p.owner = Tenant /\ p.since = Since(p.window, now)
  /\ \A p, q \in slots : p.window = q.window => p = q

ToldOf(all, k, w, p) == \E e \in all : /\ e.scope = k /\ e.window = w /\ e.since = p.since /\ e.state >= p.state

\* Announcements are remembered, and none was made twice.
Heard ==
  /\ announced \in [Keys -> [Windows -> MemoryType \cup {None}]]
  /\ told \subseteq NewsType /\ twice = {}
  /\ \A e \in told : Behind(e, announced[e.scope][e.window])
  /\ \A k \in Keys, w \in Windows : announced[k][w] # None =>
       announced[k][w].since <= Since(w, day) /\ ToldOf(told, k, w, announced[k][w])
  /\ \A h \in Handlers : handler[h].pc = "key" =>
       /\ handler[h].now <= day /\ Coherent(handler[h].slots, handler[h].now)
       /\ \A w \in Windows : announced[handler[h].key][w] # None =>
            announced[handler[h].key][w].since <= Since(w, handler[h].now)
  /\ \A h \in Handlers : handler[h].pc = "store" =>
       \A p \in handler[h].slots : p.state > 0 => ToldOf(told, handler[h].key, p.window, p)

KeepsUp(prev, first, second, s, m, ev) ==
  /\ ev \subseteq {first, second} \ {None}
  /\ m # None => /\ m.since \in Nat /\ m.state \in 0..2 /\ m.since <= s
                 /\ m = prev \/ m \in ev
  /\ prev # None => Behind(prev, m)
  /\ \A p \in ev : /\ Behind(p, m) /\ p.since = s
                   /\ prev # None => ~Behind(p, prev)
  /\ \A p \in {first, second} \ {None} : p.state > 0 => m.since = s /\ Behind(p, m)

\* shouldAnnounce on the two slots of a window, whose period is no earlier than the one
\* remembered: an event is newer or worse than the memory, the memory keeps up with the
\* events and the slots, and is of something announced now or before.
LEMMA AnnounceOnce ==
  ASSUME NEW s \in Nat, NEW prev \in MemoryType \cup {None}, prev # None => prev.since <= s,
         NEW first \in SlotType \cup {None}, first # None => first.since = s,
         NEW second \in SlotType \cup {None}, second # None => second.since = s,
         NEW m, m = Announce(prev, first, second).memory,
         NEW ev, ev = Announce(prev, first, second).events
  PROVE  KeepsUp(prev, first, second, s, m, ev)
<1>1. None \notin SlotType /\ None \notin MemoryType
  BY QuotaSettings, Zenon DEF MemoryType
<1>2. /\ prev # None => prev.since \in Nat /\ prev.state \in 0..2
      /\ first # None => first.since \in Nat /\ first.state \in 0..2
      /\ second # None => second.since \in Nat /\ second.state \in 0..2
  BY Zenon DEF MemoryType, SlotType
<1>3. PICK mid : mid = IF first # None /\ Rises(prev, first) THEN first ELSE prev
  BY Zenon
<1>4. /\ m = IF second # None /\ Rises(mid, second) THEN second ELSE mid
      /\ ev = (IF first # None /\ Rises(prev, first) THEN {first} ELSE {})
              \cup (IF second # None /\ Rises(mid, second) THEN {second} ELSE {})
  BY <1>3, Zenon DEF Announce
<1>5. /\ mid # None => mid.since \in Nat /\ mid.state \in 0..2 /\ mid.since <= s
      /\ prev # None => Behind(prev, mid)
      /\ first # None /\ first.state > 0 => mid # None /\ mid.since = s /\ Behind(first, mid)
      /\ first # None /\ Rises(prev, first) /\ prev # None => ~Behind(first, prev)
      /\ mid = prev \/ (mid = first /\ first # None /\ Rises(prev, first))
  BY <1>2, <1>3 DEF Rises, Behind
<1>6. /\ m # None => m.since \in Nat /\ m.state \in 0..2 /\ m.since <= s
      /\ mid # None => Behind(mid, m)
      /\ second # None /\ second.state > 0 => m # None /\ m.since = s /\ Behind(second, m)
      /\ second # None /\ Rises(mid, second) /\ mid # None => ~Behind(second, mid)
      /\ m = mid \/ (m = second /\ second # None /\ Rises(mid, second))
  BY <1>2, <1>4, <1>5 DEF Rises, Behind
<1>7. prev # None => Behind(prev, m)
  BY <1>2, <1>5, <1>6 DEF Behind
<1>8. first # None /\ first.state > 0 => m # None /\ m.since = s /\ Behind(first, m)
  BY <1>2, <1>5, <1>6 DEF Behind
<1>9. second # None /\ Rises(mid, second) /\ prev # None => ~Behind(second, prev)
  BY <1>2, <1>5, <1>6 DEF Behind
<1>10. /\ first # None /\ Rises(prev, first) => first.state > 0
       /\ second # None /\ Rises(mid, second) => second.state > 0
  BY Zenon DEF Rises
<1>11. ASSUME NEW p \in ev
       PROVE  \/ p = first /\ first # None /\ Rises(prev, first)
              \/ p = second /\ second # None /\ Rises(mid, second)
  <2>1. CASE p \in (IF first # None /\ Rises(prev, first) THEN {first} ELSE {})
    BY <2>1, Zenon
  <2>2. CASE p \in (IF second # None /\ Rises(mid, second) THEN {second} ELSE {})
    BY <2>2, Zenon
  <2> QED BY <1>4, <2>1, <2>2, Zenon
<1>12. m # None => m = prev \/ m \in ev
  BY <1>4, <1>5, <1>6, Zenon
<1> QED BY <1>5, <1>6, <1>7, <1>8, <1>9, <1>10, <1>11, <1>12 DEF KeepsUp

SlotsOf(slots, o, w) == {p \in slots : p.owner = o /\ p.window = w}

LEMMA SlotFound ==
  ASSUME NEW slots \in SUBSET SlotType, NEW o, NEW w
  PROVE  /\ SlotOf(slots, o, w) \in SlotsOf(slots, o, w) \cup {None}
         /\ SlotsOf(slots, o, w) # {} => SlotOf(slots, o, w) \in SlotsOf(slots, o, w)
BY Zenon DEF SlotOf, SlotsOf

\* What computeQuota has to say of a window w of key k, and what it remembers.
Saying(k, slots, w) == Announce(announced[k][w], SlotOf(slots, Tenant, w), SlotOf(slots, k, w))
Events(k, slots, w) == Saying(k, slots, w).events
Memory(k, slots, w) == Saying(k, slots, w).memory

Remembered(m) == IF m = None THEN None ELSE [since |-> m.since, state |-> m.state]

\* The slots of both owners.
Read(slots, k, now) ==
  /\ slots \subseteq SlotType
  /\ \A p \in slots : p.owner \in {Tenant, k} /\ p.since = Since(p.window, now)
  /\ \A p, r \in slots : p.owner = r.owner /\ p.window = r.window => p = r

LEMMA BothRead ==
  ASSUME NEW some \in SUBSET SlotType, NEW k \in Keys, NEW now \in Nat, Coherent(some, now)
  PROVE  Read(some \cup Positions(k, now), k, now)
<1>1. k \in Owners /\ k # Tenant
  BY QuotaSettings, Zenon DEF Owners
<1>2. /\ Positions(k, now) \subseteq SlotType
      /\ \A p \in Positions(k, now) : p.owner = k /\ p.since = Since(p.window, now)
      /\ \A p, q \in Positions(k, now) : p.window = q.window => p = q
  BY <1>1, PositionsTyped, Zenon
<1> QED BY <1>1, <1>2, Zenon DEF Read, Coherent

\* One window: its events are news, and its memory keeps up.
LEMMA WindowSaid ==
  ASSUME IInv, Heard, NEW k \in Keys, NEW slots, NEW now \in Nat, Read(slots, k, now), NEW w \in Windows,
         announced[k][w] # None => announced[k][w].since <= Since(w, now)
  PROVE  LET s == Since(w, now)  m == Memory(k, slots, w)  ev == Events(k, slots, w)
             prev == announced[k][w]  IN
         /\ \A p \in ev : p \in slots /\ p.window = w /\ p.since = s /\ Behind(p, m)
                          /\ (prev # None => ~Behind(p, prev))
         /\ m # None => m.since \in Nat /\ m.state \in 0..2 /\ m.since <= s /\ (m = prev \/ m \in ev)
         /\ prev # None => Behind(prev, m)
         /\ \A p \in slots : p.window = w /\ p.state > 0 => m.since = s /\ Behind(p, m)
<1>1. PICK s \in Nat : s = Since(w, now)
  BY PeriodStart, Zenon
<1>2. PICK prev : prev = announced[k][w]
  BY Zenon
<1>3. prev \in MemoryType \cup {None} /\ (prev # None => prev.since <= s)
  BY <1>1, <1>2, Zenon DEF Heard
<1>4. PICK first : first = SlotOf(slots, Tenant, w)
  BY Zenon
<1>5. PICK second : second = SlotOf(slots, k, w)
  BY Zenon
<1>6. slots \in SUBSET SlotType
  BY Zenon DEF Read
<1>7. /\ first \in SlotsOf(slots, Tenant, w) \cup {None} /\ second \in SlotsOf(slots, k, w) \cup {None}
      /\ SlotsOf(slots, Tenant, w) # {} => first \in SlotsOf(slots, Tenant, w)
      /\ SlotsOf(slots, k, w) # {} => second \in SlotsOf(slots, k, w)
  BY <1>4, <1>5, <1>6, SlotFound, Zenon
<1>8. /\ first \in SlotType \cup {None} /\ (first # None => first \in slots /\ first.window = w /\ first.since = s)
      /\ second \in SlotType \cup {None} /\ (second # None => second \in slots /\ second.window = w /\ second.since = s)
  BY <1>1, <1>6, <1>7, Zenon DEF SlotsOf, Read
<1>9. \A p \in slots : p.window = w => p \in {first, second} \ {None}
  <2> SUFFICES ASSUME NEW p \in slots, p.window = w PROVE p \in {first, second} \ {None}
    BY Zenon
  <2>1. p # None
    BY <1>6, QuotaSettings
  <2>2. CASE p.owner = Tenant
    BY <1>7, <2>1, <2>2, Zenon DEF SlotsOf, Read
  <2>3. CASE p.owner = k
    BY <1>7, <2>1, <2>3, Zenon DEF SlotsOf, Read
  <2> QED BY <2>2, <2>3, Zenon DEF Read
<1>10. PICK m, ev : m = Announce(prev, first, second).memory /\ ev = Announce(prev, first, second).events
  BY Zenon
<1>11. KeepsUp(prev, first, second, s, m, ev)
  BY <1>1, <1>3, <1>8, <1>10, AnnounceOnce, Zenon
<1>12. m = Memory(k, slots, w) /\ ev = Events(k, slots, w)
  BY <1>2, <1>4, <1>5, <1>10, Zenon DEF Memory, Events, Saying
<1>13. \A p \in ev : p \in slots /\ p.window = w /\ p.since = s /\ Behind(p, m) /\ (prev # None => ~Behind(p, prev))
  BY <1>8, <1>11, Zenon DEF KeepsUp
<1>14. \A p \in slots : p.window = w /\ p.state > 0 => m.since = s /\ Behind(p, m)
  BY <1>9, <1>11, Zenon DEF KeepsUp
<1>15. m # None => m.since \in Nat /\ m.state \in 0..2 /\ m.since <= s /\ (m = prev \/ m \in ev)
  BY <1>11, Zenon DEF KeepsUp
<1>16. prev # None => Behind(prev, m)
  BY <1>11, Zenon DEF KeepsUp
<1> QED BY <1>1, <1>2, <1>12, <1>13, <1>14, <1>15, <1>16, Zenon

\* The same of what is kept of a memory.
Followed(prev, a, ev, slots, w, s) ==
  /\ a \in MemoryType \cup {None}
  /\ \A p \in ev : p \in slots /\ p.window = w /\ p.since = s /\ Behind(p, a) /\ (prev # None => ~Behind(p, prev))
  /\ a # None => /\ a.since <= s
                 /\ \/ prev # None /\ a.since = prev.since /\ a.state = prev.state
                    \/ \E p \in ev : a.since = p.since /\ a.state = p.state
  /\ prev # None => Behind(prev, a)
  /\ \A p \in slots : p.window = w /\ p.state > 0 => a.since = p.since /\ Behind(p, a)

LEMMA MemoryFollows ==
  ASSUME IInv, Heard, NEW k \in Keys, NEW slots, NEW now \in Nat, Read(slots, k, now), NEW w \in Windows,
         announced[k][w] # None => announced[k][w].since <= Since(w, now)
  PROVE  Followed(announced[k][w], Remembered(Memory(k, slots, w)), Events(k, slots, w), slots, w, Since(w, now))
<1>1. PICK m, ev, prev, s : /\ m = Memory(k, slots, w) /\ ev = Events(k, slots, w)
                            /\ prev = announced[k][w] /\ s = Since(w, now)
  BY Zenon
<1>2. /\ \A p \in ev : p \in slots /\ p.window = w /\ p.since = s /\ Behind(p, m)
                        /\ (prev # None => ~Behind(p, prev))
      /\ m # None => m.since \in Nat /\ m.state \in 0..2 /\ m.since <= s /\ (m = prev \/ m \in ev)
      /\ prev # None => Behind(prev, m)
      /\ \A p \in slots : p.window = w /\ p.state > 0 => m.since = s /\ Behind(p, m)
  BY <1>1, WindowSaid DEF Memory, Events
<1>3. PICK a : a = Remembered(m)
  BY Zenon
<1>4. m # None => a \in MemoryType /\ a # None /\ a.since = m.since /\ a.state = m.state
  BY <1>2, <1>3, QuotaSettings DEF Remembered, MemoryType
<1>5. m = None => a = None
  BY <1>3, Zenon DEF Remembered
<1>6. \A p : Behind(p, m) => Behind(p, a)
  BY <1>4, Zenon DEF Behind
<1>7. a # None => /\ a.since <= s
                  /\ \/ prev # None /\ a.since = prev.since /\ a.state = prev.state
                     \/ \E p \in ev : a.since = p.since /\ a.state = p.state
  BY <1>2, <1>4, <1>5, Zenon
<1>8. \A p \in slots : p.window = w /\ p.state > 0 => a.since = p.since /\ Behind(p, a)
  <2> SUFFICES ASSUME NEW p \in slots, p.window = w, p.state > 0 PROVE a.since = p.since /\ Behind(p, a)
    BY Zenon
  <2>1. m.since = s /\ Behind(p, m) /\ p.since = s
    BY <1>1, <1>2, Zenon DEF Read
  <2> QED BY <1>4, <1>6, <2>1, Zenon DEF Behind
<1> QED BY <1>1, <1>2, <1>3, <1>4, <1>5, <1>6, <1>7, <1>8, Zenon DEF Followed

\* What ReadKey announces, and what it leaves in memory.
News(k, slots) == {[scope |-> k, window |-> p.window, since |-> p.since, state |-> p.state] :
                     p \in UNION {Events(k, slots, w) : w \in Windows}}
Memories(k, slots) == [w \in Windows |-> Remembered(Memory(k, slots, w))]

Announces(k, slots, now) ==
  /\ now <= day /\ Read(slots, k, now)
  /\ \A w \in Windows : announced[k][w] # None => announced[k][w].since <= Since(w, now)
  /\ announced' = [announced EXCEPT ![k] = Memories(k, slots)]
  /\ twice' = twice \cup (News(k, slots) \cap told) /\ told' = told \cup News(k, slots) /\ day' = day

\* What Heard says of the announcements themselves.
Remembers ==
  /\ \A e \in told : Behind(e, announced[e.scope][e.window])
  /\ \A k \in Keys, w \in Windows : announced[k][w] # None =>
       announced[k][w].since <= Since(w, day) /\ ToldOf(told, k, w, announced[k][w])

\* What is announced is new, and worse than anything told.
LEMMA NewsHeard ==
  ASSUME IInv, Heard, NEW k \in Keys, NEW slots, NEW now \in Nat, Announces(k, slots, now)
  PROVE  /\ announced' \in [Keys -> [Windows -> MemoryType \cup {None}]]
         /\ \A j \in Keys \ {k} : announced'[j] = announced[j]
         /\ told' \subseteq NewsType /\ twice' = {}
         /\ Remembers'
         /\ \A p \in slots : p.state > 0 => ToldOf(told', k, p.window, p)
<1>0. /\ announced \in [Keys -> [Windows -> MemoryType \cup {None}]] /\ day \in Nat
      /\ told \subseteq NewsType /\ twice = {} /\ slots \subseteq SlotType
      /\ Remembers /\ now <= day /\ day' = day
  BY DEF Announces, IInv, Typed, Heard, Remembers, Read, Days
<1>1. \A w \in Windows :
        Followed(announced[k][w], Remembered(Memory(k, slots, w)), Events(k, slots, w), slots, w, Since(w, now))
  BY MemoryFollows, Zenon DEF Announces
<1>a. announced' = [announced EXCEPT ![k] = Memories(k, slots)]
  BY Zenon DEF Announces
<1>b. told' = told \cup News(k, slots) /\ twice' = twice \cup (News(k, slots) \cap told)
  BY Zenon DEF Announces
<1>2. /\ announced'[k] = Memories(k, slots)
      /\ \A j \in Keys \ {k} : announced'[j] = announced[j]
  BY <1>0, <1>a, Zenon
<1>c. \A w \in Windows : announced'[k][w] = Remembered(Memory(k, slots, w))
  BY <1>2, Zenon DEF Memories
<1>3. \A w \in Windows : Followed(announced[k][w], announced'[k][w], Events(k, slots, w), slots, w, Since(w, now))
  BY <1>1, <1>c, Zenon
<1>4. announced' \in [Keys -> [Windows -> MemoryType \cup {None}]]
  <2>1. Memories(k, slots) \in [Windows -> MemoryType \cup {None}]
    BY <1>1, Zenon DEF Followed, Memories
  <2> QED BY <1>0, <1>a, <2>1, Zenon
<1>5. ASSUME NEW e \in News(k, slots)
      PROVE  /\ e \in NewsType /\ e.scope = k /\ Behind(e, announced'[k][e.window])
             /\ announced[k][e.window] # None => ~Behind(e, announced[k][e.window])
  <2>0. PICK w \in Windows : \E p \in Events(k, slots, w) :
          e = [scope |-> k, window |-> p.window, since |-> p.since, state |-> p.state]
    BY <1>5, Zenon DEF News
  <2>1. PICK p \in Events(k, slots, w) :
          e = [scope |-> k, window |-> p.window, since |-> p.since, state |-> p.state]
    BY <2>0, Zenon
  <2>2. /\ p \in SlotType /\ p.window = w /\ Behind(p, announced'[k][w])
        /\ announced[k][w] # None => ~Behind(p, announced[k][w])
    BY <1>0, <1>3, <2>1, ZenonT(30) DEF Followed
  <2>3. e.scope = k /\ e.window = w /\ e.since = p.since /\ e.state = p.state
    BY <2>1, <2>2, Zenon
  <2>4. e \in NewsType
    BY <2>1, <2>2, Zenon DEF NewsType, SlotType
  <2> QED BY <2>2, <2>3, <2>4, Zenon DEF Behind
<1>6. News(k, slots) \cap told = {}
  <2> SUFFICES ASSUME NEW e \in News(k, slots), e \in told PROVE FALSE
    BY Zenon
  <2>1. Behind(e, announced[k][e.window])
    BY <1>0, <1>5, Zenon DEF Remembers
  <2> QED BY <1>5, <2>1, Zenon DEF Behind
<1>7. ASSUME NEW e \in told' PROVE Behind(e, announced'[e.scope][e.window])
  <2>1. CASE e \in News(k, slots)
    BY <1>5, <2>1, Zenon
  <2>2. CASE e \in told
    <3>1. e \in NewsType /\ Behind(e, announced[e.scope][e.window])
      BY <1>0, <2>2, Zenon DEF Remembers
    <3>2. CASE e.scope # k
      BY <1>2, <3>1, <3>2, Zenon DEF NewsType
    <3>3. CASE e.scope = k
      <4>1. PICK w \in Windows : w = e.window
        BY <3>1, Zenon DEF NewsType
      <4>2. PICK b \in MemoryType : b = announced[k][w]
        BY <1>0, <3>1, <3>3, <4>1 DEF Behind
      <4>3. Behind(e, b) /\ Behind(b, announced'[k][w]) /\ announced'[k][w] \in MemoryType
        BY <1>3, <3>1, <3>3, <4>1, <4>2, Zenon DEF Followed, Behind
      <4>4. PICK a \in MemoryType : a = announced'[k][w]
        BY <4>3, Zenon
      <4>5. /\ e.since \in Nat /\ e.state \in 0..2 /\ b.since \in Nat /\ b.state \in 0..2
            /\ a.since \in Nat /\ a.state \in 0..2
        BY <3>1, <4>2, <4>4, Zenon DEF NewsType, MemoryType
      <4>6. Behind(e, a)
        BY <4>3, <4>4, <4>5 DEF Behind
      <4> QED BY <3>3, <4>1, <4>4, <4>6, Zenon
    <3> QED BY <3>2, <3>3, Zenon
  <2> QED BY <1>b, <2>1, <2>2, Zenon
<1>8. ASSUME NEW w \in Windows, announced'[k][w] # None
      PROVE  announced'[k][w].since <= Since(w, day) /\ ToldOf(told', k, w, announced'[k][w])
  <2>1. PICK a \in MemoryType : a = announced'[k][w]
    BY <1>4, <1>8, Zenon
  <2>2. a.since \in Nat /\ a.state \in 0..2 /\ a.since <= Since(w, now)
    BY <1>3, <1>8, <2>1, Zenon DEF Followed, MemoryType
  <2>3. a.since <= Since(w, day)
    BY <1>0, <2>2, PeriodStart, PeriodsAdvance
  <2>4. ASSUME announced[k][w] # None, a.since = announced[k][w].since, a.state = announced[k][w].state
        PROVE  ToldOf(told', k, w, a)
    <3>1. PICK e \in told : /\ e.scope = k /\ e.window = w
                            /\ e.since = announced[k][w].since /\ e.state >= announced[k][w].state
      BY <1>0, <2>4, Zenon DEF Remembers, ToldOf
    <3> QED BY <1>b, <2>4, <3>1, Zenon DEF ToldOf
  <2>5. ASSUME \E p \in Events(k, slots, w) : a.since = p.since /\ a.state = p.state
        PROVE  ToldOf(told', k, w, a)
    <3>1. PICK p \in Events(k, slots, w) : a.since = p.since /\ a.state = p.state
      BY <2>5, Zenon
    <3>2. PICK e : e = [scope |-> k, window |-> p.window, since |-> p.since, state |-> p.state]
      BY Zenon
    <3>3. e \in News(k, slots)
      BY <3>1, <3>2, Zenon DEF News
    <3>4. e.scope = k /\ e.window = w /\ e.since = a.since /\ e.state = a.state
      BY <1>3, <3>1, <3>2, Zenon DEF Followed
    <3> QED BY <1>b, <2>2, <3>3, <3>4 DEF ToldOf
  <2>6. Followed(announced[k][w], a, Events(k, slots, w), slots, w, Since(w, now)) /\ a # None
    BY <1>3, <1>8, <2>1, Zenon
  <2>7. \/ announced[k][w] # None /\ a.since = announced[k][w].since /\ a.state = announced[k][w].state
        \/ \E p \in Events(k, slots, w) : a.since = p.since /\ a.state = p.state
    BY <2>6, Zenon DEF Followed
  <2>8. ToldOf(told', k, w, a)
    BY <2>4, <2>5, <2>7, Zenon
  <2> QED BY <2>1, <2>3, <2>8, Zenon
<1>9. ASSUME NEW j \in Keys \ {k}, NEW w \in Windows, announced'[j][w] # None
      PROVE  announced'[j][w].since <= Since(w, day) /\ ToldOf(told', j, w, announced'[j][w])
  <2>1. PICK a : a = announced[j][w] /\ a = announced'[j][w]
    BY <1>2, <1>9, Zenon
  <2>2. a.since <= Since(w, day) /\ ToldOf(told, j, w, a)
    BY <1>0, <1>9, <2>1, Zenon DEF Remembers
  <2> QED BY <1>b, <2>1, <2>2, Zenon DEF ToldOf
<1>10. ASSUME NEW p \in slots, p.state > 0 PROVE ToldOf(told', k, p.window, p)
  <2>1. PICK w \in Windows : w = p.window
    BY <1>0, Zenon DEF SlotType
  <2>2. announced'[k][w] # None /\ announced'[k][w].since = p.since /\ Behind(p, announced'[k][w])
    BY <1>3, <1>10, <2>1 DEF Followed, Behind
  <2>3. PICK a \in MemoryType : a = announced'[k][w]
    BY <1>4, <2>2, Zenon
  <2>4. p.since \in Nat /\ p.state \in 0..2 /\ a.since = p.since /\ a.state \in 0..2 /\ p.state <= a.state
    BY <1>0, <2>2, <2>3 DEF SlotType, MemoryType, Behind
  <2>5. PICK e \in told' : e.scope = k /\ e.window = w /\ e.since = a.since /\ e.state >= a.state
    BY <1>8, <2>2, <2>3, Zenon DEF ToldOf
  <2>6. e.state \in 0..2
    BY <1>0, <1>5, <1>b, <2>5, Zenon DEF NewsType
  <2>7. e.state >= p.state
    BY <2>4, <2>5, <2>6
  <2> QED BY <2>1, <2>4, <2>5, <2>7, Zenon DEF ToldOf
<1>11. told' \subseteq NewsType /\ twice' = {}
  BY <1>0, <1>5, <1>6, <1>b, Zenon
<1>12. Remembers'
  <2>1. \A j \in Keys, w \in Windows : announced'[j][w] # None =>
          announced'[j][w].since <= Since(w, day') /\ ToldOf(told', j, w, announced'[j][w])
    BY <1>0, <1>8, <1>9, Zenon
  <2>2. \A e \in told' : Behind(e, announced'[e.scope][e.window])
    BY <1>7, Zenon
  <2> QED BY <2>1, <2>2, Zenon DEF Remembers
<1> QED BY <1>2, <1>4, <1>10, <1>11, <1>12, Zenon

-----------------------------------------------------------------------------
(* What the steps do to the announcements *)

\* A step that reads no position.
Still ==
  /\ \A h \in Handlers : Computes(handler'[h]) => handler'[h] = handler[h]
  /\ day <= day' /\ UNCHANGED <<announced, told, twice>>

TakesOne == \E h \in Handlers, k \in Keys, q \in HandlerType :
              Takes(h, k, q) /\ UNCHANGED <<announced, told, twice>>
ReadsOne == \E h \in Handlers, k \in Keys, q \in HandlerType : ReadKey(h) /\ Reads(h, k, q)

LEMMA LightStill ==
  ASSUME IInv, NEW h \in Handlers, Light(h), UNCHANGED <<announced, told, twice>>
  PROVE  Still
<1>1. PICK q \in HandlerType : handler' = [handler EXCEPT ![h] = q] /\ q.pc \in {"idle", "lock", "upstream"}
  BY Zenon DEF Light
<1>2. handler \in [Handlers -> HandlerType] /\ day \in Nat
  BY DEF IInv, Typed, Days
<1>3. \A g \in Handlers : Computes(handler'[g]) => handler'[g] = handler[g]
  BY <1>1, <1>2, Zenon DEF Computes
<1>4. day <= day'
  BY <1>2 DEF Light
<1> QED BY <1>3, <1>4, Zenon DEF Still

\* A step computes nothing, takes a lock, or completes a position.
LEMMA Moves == ASSUME IInv, [Next]_vars PROVE Still \/ TakesOne \/ ReadsOne
<1>0. day \in Nat
  BY DEF IInv, Typed, Days
<1>1. ASSUME NEW h \in Handlers, (\E k \in Keys : Arrive(h, k)) \/ Served(h) \/ Unserved(h) PROVE Still
  <2>1. Light(h)
    BY <1>1, ArriveLight, ServedLight, Zenon
  <2>2. UNCHANGED <<announced, told, twice>>
    BY <1>1, Zenon DEF Arrive, Served, Unserved
  <2> QED BY <2>1, <2>2, LightStill, Zenon
<1>2. ASSUME NEW h \in Handlers, Lock(h) PROVE Still \/ TakesOne
  <2>1. UNCHANGED <<announced, told, twice>>
    BY <1>2, Zenon DEF Lock
  <2> QED BY <1>2, <2>1, LockMoves, LightStill, Zenon DEF TakesOne
<1>3. ASSUME NEW h \in Handlers, ReadKey(h) PROVE ReadsOne
  BY <1>3, ReadKeyMoves, Zenon DEF ReadsOne
<1>4. ASSUME NEW h \in Handlers, StoreEntry(h) \/ LookupFails(h) PROVE Still
  <2>1. PICK k \in Keys : k = handler[h].key
    BY <1>4, Zenon DEF StoreEntry, LookupFails, IInv, Typed
  <2>2. /\ Computes(handler[h]) /\ (\E state : Verdict(h, k, state)) /\ inflight' = [inflight EXCEPT ![k] = None]
        /\ UNCHANGED <<day, used, quota, announced, told, twice, quiet>>
    BY <1>4, <2>1, Zenon DEF StoreEntry, LookupFails, Computes
  <2>3. \A g \in Handlers : Computes(handler'[g]) => handler'[g] = handler[g]
    BY <2>1, <2>2, Release, Zenon
  <2> QED BY <1>0, <2>2, <2>3 DEF Still
<1>5. CASE \/ \E o \in Owners : \E q \in Offers[o] : SetQuota(o, q)
           \/ Invalidate \/ Tick \/ Midnight \/ UNCHANGED vars
  <2>1. handler' = handler /\ UNCHANGED <<announced, told, twice>> /\ day <= day'
    BY <1>0, <1>5 DEF SetQuota, Invalidate, Tick, Midnight, vars
  <2> QED BY <2>1, Zenon DEF Still
<1> QED BY <1>1, <1>2, <1>3, <1>4, <1>5, Zenon DEF Next

\* As long as the day does not go back, the announcements stay heard.
LEMMA StillHeard ==
  ASSUME IInv, IInv', Heard, day <= day', UNCHANGED <<announced, told, twice>>,
         NEW S \in SUBSET Handlers,
         \A h \in S : Computes(handler'[h]) => handler'[h] = handler[h],
         \A h \in Handlers \ S :
           /\ handler'[h].pc = "key" /\ handler'[h].now = day /\ Coherent(handler'[h].slots, day)
  PROVE  Heard'
<1>0. day \in Nat /\ day' \in Nat /\ \A h \in Handlers : handler[h].now \in Nat /\ (handler'[h].pc = "key" => handler'[h].key \in Keys)
  BY DEF IInv, Typed, Days, HandlerType
<1>1. ASSUME NEW k \in Keys, NEW w \in Windows, announced[k][w] # None
      PROVE  /\ announced[k][w].since <= Since(w, day') /\ announced[k][w].since <= Since(w, day)
             /\ ToldOf(told, k, w, announced[k][w])
  <2>1. announced[k][w].since <= Since(w, day) /\ ToldOf(told, k, w, announced[k][w])
    BY <1>1, ZenonT(30) DEF Heard
  <2>2. announced[k][w].since \in Nat
    BY <1>1, SMTT(30) DEF Heard, MemoryType
  <2>3. Since(w, day) \in Nat /\ Since(w, day') \in Nat /\ Since(w, day) <= Since(w, day')
    BY <1>0, PeriodStart, PeriodsAdvance, Zenon
  <2> QED BY <2>1, <2>2, <2>3
<1>2. ASSUME NEW h \in Handlers, handler'[h].pc = "key"
      PROVE  /\ handler'[h].now <= day' /\ Coherent(handler'[h].slots, handler'[h].now)
             /\ \A w \in Windows : announced[handler'[h].key][w] # None =>
                  announced[handler'[h].key][w].since <= Since(w, handler'[h].now)
  <2>1. CASE h \in S
    <3>1. handler'[h] = handler[h]
      BY <1>2, <2>1, Zenon DEF Computes
    <3> QED BY <1>0, <1>2, <3>1 DEF Heard
  <2>2. CASE h \notin S
    BY <1>0, <1>1, <1>2, <2>2, Zenon
  <2> QED BY <2>1, <2>2, Zenon
<1>3. ASSUME NEW h \in Handlers, handler'[h].pc = "store", NEW p \in handler'[h].slots, p.state > 0
      PROVE  ToldOf(told, handler'[h].key, p.window, p)
  BY <1>3, Zenon DEF Computes, Heard
<1>4. /\ announced \in [Keys -> [Windows -> MemoryType \cup {None}]] /\ told \subseteq NewsType /\ twice = {}
      /\ \A e \in told : Behind(e, announced[e.scope][e.window])
  BY Zenon DEF Heard
<1> QED BY <1>1, <1>2, <1>3, <1>4, Zenon DEF Heard

\* The lock is taken, and the tenant's slots are read on this day.
LEMMA TakesHeard == ASSUME IInv, IInv', Heard, TakesOne PROVE Heard'
<1>0. PICK h \in Handlers, k \in Keys, q \in HandlerType : Takes(h, k, q) /\ UNCHANGED <<announced, told, twice>>
  BY Zenon DEF TakesOne
<1>1. handler \in [Handlers -> HandlerType] /\ day \in Nat /\ Tenant \in Owners
  BY DEF IInv, Typed, Days, Owners
<1>2. q.pc = "key" /\ q.now = day /\ q.slots = Positions(Tenant, day) /\ day' = day
  BY <1>0, Zenon DEF Takes
<1>3. handler'[h] = q /\ \A g \in Handlers \ {h} : handler'[g] = handler[g]
  BY <1>0, <1>1, Zenon DEF Takes
<1>4. Coherent(q.slots, day)
  BY <1>1, <1>2, PositionsTyped DEF Coherent
<1>5. PICK S \in SUBSET Handlers : S = Handlers \ {h}
  BY Zenon
<1>6. \A g \in Handlers \ S :
        handler'[g].pc = "key" /\ handler'[g].now = day /\ Coherent(handler'[g].slots, day)
  BY <1>2, <1>3, <1>4, <1>5, Zenon
<1>7. \A g \in S : Computes(handler'[g]) => handler'[g] = handler[g]
  BY <1>3, <1>5, Zenon
<1>8. day <= day' /\ UNCHANGED <<announced, told, twice>>
  BY <1>0, <1>1, <1>2
<1> QED BY <1>6, <1>7, <1>8, StillHeard, Zenon

\* The key's slots complete the position, and what they cross is announced.
LEMMA ReadsHeard == ASSUME IInv, Heard, ReadsOne PROVE Heard'
<1>0. PICK h \in Handlers, k \in Keys, q \in HandlerType : ReadKey(h) /\ Reads(h, k, q)
  BY Zenon DEF ReadsOne
<1>1. /\ handler[h].pc = "key" /\ handler[h].key = k /\ handler \in [Handlers -> HandlerType]
      /\ day' = day /\ k \in Owners
  BY <1>0, Zenon DEF Reads, IInv, Typed, Owners
<1>2. PICK now \in Nat : now = handler[h].now
  BY <1>1, Zenon DEF HandlerType
<1>3. PICK slots : slots = handler[h].slots \cup Positions(k, now)
  BY Zenon
<1>4. q.pc = "store" /\ q.slots = slots /\ q.key = k /\ q.asof = handler[h].asof
  BY <1>0, <1>2, <1>3, ZenonT(30) DEF Reads
<1>5. handler'[h] = q /\ \A g \in Handlers \ {h} : handler'[g] = handler[g]
  BY <1>0, <1>1, Zenon DEF Reads
<1>8. /\ announced' = [announced EXCEPT ![k] = Memories(k, slots)]
      /\ twice' = twice \cup (News(k, slots) \cap told) /\ told' = told \cup News(k, slots)
  BY <1>0, <1>1, <1>2, <1>3, ZenonT(30) DEF ReadKey, News, Memories, Memory, Events, Saying, Remembered
<1>9. now <= day /\ Coherent(handler[h].slots, now) /\ handler[h].slots \in SUBSET SlotType
      /\ \A w \in Windows : announced[k][w] # None => announced[k][w].since <= Since(w, now)
  BY <1>1, <1>2, Zenon DEF Heard, HandlerType
<1>10. Read(slots, k, now)
  BY <1>3, <1>9, BothRead, Zenon
<1>11. /\ announced' \in [Keys -> [Windows -> MemoryType \cup {None}]]
       /\ \A j \in Keys \ {k} : announced'[j] = announced[j]
       /\ told' \subseteq NewsType /\ twice' = {}
       /\ Remembers'
       /\ \A p \in slots : p.state > 0 => ToldOf(told', k, p.window, p)
  <2>1. Announces(k, slots, now) /\ Heard
    BY <1>1, <1>8, <1>9, <1>10, Zenon DEF Announces
  <2> QED BY <2>1, NewsHeard, Zenon
<1>12. Heard'
  <2>1. ASSUME NEW g \in Handlers, handler'[g].pc = "key"
        PROVE  /\ handler'[g].now <= day' /\ Coherent(handler'[g].slots, handler'[g].now)
               /\ \A w \in Windows : announced'[handler'[g].key][w] # None =>
                    announced'[handler'[g].key][w].since <= Since(w, handler'[g].now)
    <3>1. g # h /\ handler'[g] = handler[g] /\ handler[g].pc = "key"
      BY <1>4, <1>5, <2>1, Zenon
    <3>2. handler[g].key # k /\ handler[g].key \in Keys
      BY <1>1, <3>1, SMTT(30) DEF IInv, Locked, Typed, Computes
    <3>3. /\ handler[g].now <= day /\ Coherent(handler[g].slots, handler[g].now)
          /\ \A w \in Windows : announced[handler[g].key][w] # None =>
               announced[handler[g].key][w].since <= Since(w, handler[g].now)
      BY <3>1, Zenon DEF Heard
    <3> QED BY <1>1, <1>11, <3>1, <3>2, <3>3
  <2>2. ASSUME NEW g \in Handlers, handler'[g].pc = "store", NEW p \in handler'[g].slots, p.state > 0
        PROVE  ToldOf(told', handler'[g].key, p.window, p)
    <3>1. CASE g = h
      BY <1>4, <1>5, <1>11, <2>2, <3>1, Zenon
    <3>2. CASE g # h
      <4>1. ToldOf(told, handler[g].key, p.window, p)
        BY <1>5, <2>2, <3>2, Zenon DEF Heard
      <4> QED BY <1>5, <1>8, <3>2, <4>1, Zenon DEF ToldOf
    <3> QED BY <3>1, <3>2, Zenon
  <2> QED BY <1>11, <2>1, <2>2, ZenonT(30) DEF Heard, Remembers
<1> QED BY <1>12, Zenon

LEMMA HeardStep == IInv /\ IInv' /\ Heard /\ [Next]_vars => Heard'
<1> SUFFICES ASSUME IInv, IInv', Heard, [Next]_vars PROVE Heard'
  BY Zenon
<1>1. CASE Still
  <2>1. \A h \in Handlers : Computes(handler'[h]) => handler'[h] = handler[h]
    BY <1>1, Zenon DEF Still
  <2> QED BY <1>1, <2>1, StillHeard, Zenon DEF Still
<1> QED BY <1>1, Moves, TakesHeard, ReadsHeard, Zenon

LEMMA HeardInit == Init => Heard
<1> SUFFICES ASSUME Init PROVE Heard
  BY Zenon
<1>1. \A h \in Handlers : handler[h].pc = "idle"
  BY IdleTyped, Zenon DEF Init
<1> QED BY <1>1, Zenon DEF Init, Heard

-----------------------------------------------------------------------------
(* The theorem *)

\* What shouldAnnounce lets through is remembered and made once, with any number of
\* keys, requests and periods.
THEOREM HeardAlways == Spec => []Heard
<1> QED BY HeardInit, HeardStep, Invariance, PTL DEF Spec

-----------------------------------------------------------------------------
(* Why a request is rejected.  The finite sets of usage records are met here alone. *)

INSTANCE FiniteSetTheorems


\* Usage records are finitely many, and a quota caps its windows by numbers.
Metered ==
  /\ used \subseteq RowType /\ IsFiniteSet(used)
  /\ quota \in [Owners -> QuotaType \cup {None}]

\* The owner's cap on the window of day n is used up.
Spent(o, w, n) ==
  /\ quota[o] # None /\ quota[o][w] # None
  /\ quota[o][w] > 0 /\ Used(o, w, n) >= quota[o][w]

\* The slots were read on day n, and those in the hard state still are there if no
\* quota has changed since.
Founded(slots, k, n, asof) ==
  \A p \in slots : /\ p.owner \in {Tenant, k} /\ p.resets = ResetsAt(p.window, n)
                   /\ asof = changes /\ p.state = 2 => Spent(p.owner, p.window, n)

ReadOn(q, n) == (q.pc = "key" => n = q.now) /\ Founded(q.slots, q.key, n, q.asof)

\* The entry names the reset of a cap that is used up.
Reasoned(e, k) ==
  \E o \in {Tenant, k}, w \in Windows, n \in 0..day :
    e.resets = ResetsAt(w, n) /\ Spent(o, w, n)

\* What a request computes was read on one day, and is true while the quotas last.
Sound(h) ==
  Computes(handler[h]) => handler[h].asof <= changes /\ \E n \in 0..day : ReadOn(handler[h], n)

\* What is cached has a reason while the quotas last.
Earned(k) ==
  Live(k) => /\ entries[k].asof \in Nat /\ entries[k].asof <= changes
             /\ entries[k].asof = changes /\ entries[k].state = 2 => Reasoned(entries[k], k)

Grounded == (\A h \in Handlers : Sound(h)) /\ (\A k \in Keys : Earned(k))

-----------------------------------------------------------------------------
(* Periods *)

\* Until its window resets, a day is in the same period.
LEMMA SamePeriod ==
  ASSUME NEW w \in Windows, NEW a \in Nat, NEW b \in Nat, a <= b, b < ResetsAt(w, a)
  PROVE  Since(w, b) = Since(w, a) /\ ResetsAt(w, b) = ResetsAt(w, a)
<1>1. PICK d \in Nat \ {0} : d = DaysPerMonth
  BY QuotaSettings, Zenon
<1>2. PICK x \in Nat : x = a \div d
  OBVIOUS
<1>3. PICK y \in Nat : y = b \div d
  OBVIOUS
<1>4. CASE w = "day"
  BY <1>4 DEF Since, ResetsAt
<1>5. CASE w = "month"
  <2>1. Since(w, a) = d * x /\ Since(w, b) = d * y /\ ResetsAt(w, a) = d * x + d /\ ResetsAt(w, b) = d * y + d
    BY <1>1, <1>2, <1>3, <1>5, Zenon DEF Since, ResetsAt
  <2>2. d * y <= b /\ b < d * x + d /\ d * (x + 1) = d * x + d
    BY <1>1, <1>3, <2>1
  <2>3. d * x <= d * y
    BY <1>1, <1>2, <1>3, <2>1, PeriodsAdvance, Zenon
  <2>4. ~(y >= x + 1)
    <3> SUFFICES ASSUME y >= x + 1 PROVE FALSE
      BY Zenon
    <3>1. d * y >= d * (x + 1)
      OBVIOUS
    <3> QED BY <2>2, <3>1
  <2>5. ~(x >= y + 1)
    <3> SUFFICES ASSUME x >= y + 1 PROVE FALSE
      BY Zenon
    <3>1. d * x >= d * (y + 1) /\ d * (y + 1) = d * y + d
      OBVIOUS
    <3> QED BY <2>3, <3>1
  <2>6. x = y
    BY <2>4, <2>5
  <2> QED BY <2>1, <2>6, Zenon
<1> QED BY <1>4, <1>5, Zenon DEF Windows

-----------------------------------------------------------------------------
(* Usage *)

\* Usage counts records, and records are only ever added.
LEMMA UsageGrows ==
  ASSUME used \subseteq used', IsFiniteSet(used'), NEW o, NEW w, NEW n
  PROVE  Used(o, w, n) \in Nat /\ Used(o, w, n)' \in Nat /\ Used(o, w, n) <= Used(o, w, n)'
<1> DEFINE R(rows) == {u \in rows : InWindow(u.day, w, n)}
           K(rows) == {u \in rows : u.key = o /\ InWindow(u.day, w, n)}
<1>1. R(used) \subseteq R(used') /\ K(used) \subseteq K(used')
  BY Zenon
<1>2. IsFiniteSet(R(used')) /\ IsFiniteSet(K(used'))
  BY FS_Subset, Zenon
<1>3. /\ IsFiniteSet(R(used)) /\ Cardinality(R(used)) <= Cardinality(R(used'))
      /\ IsFiniteSet(K(used)) /\ Cardinality(K(used)) <= Cardinality(K(used'))
  BY <1>1, <1>2, FS_Subset, Zenon
<1>4. /\ Cardinality(R(used)) \in Nat /\ Cardinality(R(used')) \in Nat
      /\ Cardinality(K(used)) \in Nat /\ Cardinality(K(used')) \in Nat
  BY <1>2, <1>3, FS_CardinalityType, Zenon
<1>5. /\ Used(o, w, n) = IF o = Tenant THEN Cardinality(R(used)) ELSE Cardinality(K(used))
      /\ Used(o, w, n)' = IF o = Tenant THEN Cardinality(R(used')) ELSE Cardinality(K(used'))
  BY Zenon DEF Used, Usage, KeyUsage, InWindow, Since, ResetsAt
<1> HIDE DEF R, K
<1> QED BY <1>3, <1>4, <1>5, Zenon

\* A cap that is used up stays so while the quotas stay.
LEMMA SpentStays ==
  ASSUME Metered, UNCHANGED quota, used \subseteq used', IsFiniteSet(used'),
         NEW o \in Owners, NEW w \in Windows, NEW n, Spent(o, w, n)
  PROVE  Spent(o, w, n)'
<1>1. Used(o, w, n) \in Nat /\ Used(o, w, n)' \in Nat /\ Used(o, w, n) <= Used(o, w, n)'
  BY UsageGrows, Zenon
<1>2. quota[o] # None /\ quota[o][w] # None /\ quota[o][w] > 0 /\ Used(o, w, n) >= quota[o][w]
  BY Zenon DEF Spent
<1>3. quota[o][w] \in Nat
  BY <1>2, Zenon DEF Metered, QuotaType
<1>4. Used(o, w, n)' >= quota'[o][w]
  BY <1>1, <1>2, <1>3
<1> QED BY <1>2, <1>4, Zenon DEF Spent

\* A slot in the hard state is of a cap that is used up.
LEMMA HardIsSpent ==
  ASSUME Metered, NEW o \in Owners, NEW now \in Nat, NEW p \in Positions(o, now)
  PROVE  p.resets = ResetsAt(p.window, now) /\ (p.state = 2 => Spent(o, p.window, now))
<1>1. PICK w \in Windows : p = Slot(o, w, now) /\ quota[o] # None /\ quota[o][w] # None
  BY Zenon DEF Positions
<1>2. /\ p.window = w /\ p.resets = ResetsAt(w, now)
      /\ p.state = Position(Used(o, w, now), quota[o][w])
  BY <1>1, Zenon DEF Slot
<1>3. quota[o][w] \in Nat /\ Used(o, w, now) \in Nat
  <2>1. quota[o][w] \in Nat
    BY <1>1, Zenon DEF Metered, QuotaType
  <2>2. IsFiniteSet(used)
    BY Zenon DEF Metered
  <2>3. \A T \in SUBSET used : Cardinality(T) \in Nat
    BY <2>2, FS_Subset, FS_CardinalityType, Zenon
  <2> QED BY <2>1, <2>3, Zenon DEF Used, Usage, KeyUsage
<1>4. p.state = 2 => quota[o][w] > 0 /\ Used(o, w, now) >= quota[o][w]
  BY <1>2, <1>3 DEF Position
<1> QED BY <1>1, <1>2, <1>4, Zenon DEF Spent

\* A request that computes, and an entry, is as it was or has what Grounded asks for.
StaySound == \A h \in Handlers : (Computes(handler'[h]) => handler'[h] = handler[h]) \/ Sound(h)'
StayEarned ==
  \A k \in Keys : Live(k)' /\ ~Earned(k)' =>
    /\ Live(k) /\ entries'[k].asof = entries[k].asof
    /\ entries'[k].state = entries[k].state /\ entries'[k].resets = entries[k].resets

\* What was grounded stays so as long as requests only use more and days only pass;
\* a change of a quota dates everything that was read before it.
LEMMA GroundedKept ==
  ASSUME IInv, IInv', Metered, Metered', Grounded, day <= day',
         \/ UNCHANGED <<quota, changes>> /\ used \subseteq used'
         \/ changes' = changes + 1,
         StaySound, StayEarned
  PROVE  Grounded'
<1>1. changes \in Nat /\ 0..day \subseteq 0..day' /\ IsFiniteSet(used')
  BY DEF IInv, Typed, Days, Metered
<1>2. changes' = changes \/ changes' = changes + 1
  BY Zenon
<1>3. ASSUME NEW o \in Owners, NEW w \in Windows, NEW n, Spent(o, w, n), changes' = changes
      PROVE  Spent(o, w, n)'
  BY <1>1, <1>3, SpentStays
<1>4. ASSUME NEW h \in Handlers, Computes(handler'[h]), ~Sound(h)'
      PROVE  (handler[h].asof <= changes /\ \E n \in 0..day : ReadOn(handler[h], n))'
  <2>1. handler'[h] = handler[h] /\ handler[h] \in HandlerType /\ Computes(handler[h])
    BY <1>4, Zenon DEF StaySound, IInv, Typed
  <2>2. handler[h].asof \in Nat /\ handler[h].key \in Keys /\ handler[h].slots \subseteq SlotType
    BY <2>1, Zenon DEF HandlerType, IInv, Typed, Computes
  <2>3. handler[h].asof <= changes
    BY <2>1, Zenon DEF Grounded, Sound, Earned
  <2>4. PICK n \in 0..day : ReadOn(handler[h], n)
    BY <2>1, Zenon DEF Grounded, Sound, Earned
  <2>5. Founded(handler[h].slots, handler[h].key, n, handler[h].asof)'
    <3> SUFFICES ASSUME NEW p \in handler[h].slots
                 PROVE  /\ p.owner \in {Tenant, handler[h].key} /\ p.resets = ResetsAt(p.window, n)
                        /\ handler[h].asof = changes' /\ p.state = 2 => Spent(p.owner, p.window, n)'
      BY <2>1, Zenon DEF Founded, ResetsAt, Since
    <3>1. /\ p.owner \in {Tenant, handler[h].key} /\ p.resets = ResetsAt(p.window, n)
          /\ handler[h].asof = changes /\ p.state = 2 => Spent(p.owner, p.window, n)
      BY <2>4, Zenon DEF ReadOn, Founded
    <3>2. p.owner \in Owners /\ p.window \in Windows
      BY <2>2, Zenon DEF SlotType
    <3>3. handler[h].asof = changes' => changes' = changes
      BY <1>1, <1>2, <2>2, <2>3
    <3> QED BY <1>3, <3>1, <3>2, <3>3, Zenon
  <2>6. ReadOn(handler[h], n)'
    BY <2>1, <2>4, <2>5, Zenon DEF ReadOn
  <2> QED BY <1>1, <1>2, <2>1, <2>2, <2>3, <2>6, SMTT(30)
<1>5. ASSUME NEW k \in Keys, Live(k)', ~Earned(k)'
      PROVE  /\ entries'[k].asof \in Nat /\ entries'[k].asof <= changes'
             /\ entries'[k].asof = changes' /\ entries'[k].state = 2 => Reasoned(entries[k], k)'
  <2>1. /\ Live(k) /\ entries'[k].asof = entries[k].asof
        /\ entries'[k].state = entries[k].state /\ entries'[k].resets = entries[k].resets
    BY <1>5, Zenon DEF StayEarned
  <2>2. /\ entries[k].asof \in Nat /\ entries[k].asof <= changes
        /\ entries[k].asof = changes /\ entries[k].state = 2 => Reasoned(entries[k], k)
    BY <2>1, Zenon DEF Grounded, Sound, Earned
  <2>3. ASSUME Reasoned(entries[k], k), changes' = changes PROVE Reasoned(entries[k], k)'
    <3>1. PICK o \in {Tenant, k}, w \in Windows, n \in 0..day :
            entries[k].resets = ResetsAt(w, n) /\ Spent(o, w, n)
      BY <2>3, Zenon DEF Reasoned
    <3>2. o \in Owners /\ n \in 0..day'
      BY <1>1, Zenon DEF Owners
    <3>3. Spent(o, w, n)'
      BY <1>3, <2>3, <3>1, <3>2, Zenon
    <3>4. entries'[k].resets = ResetsAt(w, n)'
      BY <2>1, <3>1, Zenon DEF ResetsAt, Since
    <3> QED BY <3>2, <3>3, <3>4, Zenon DEF Reasoned
  <2>4. entries[k].asof = changes' => changes' = changes
    BY <1>1, <1>2, <2>2
  <2>5. entries'[k].asof <= changes'
    BY <1>1, <1>2, <2>1, <2>2
  <2> QED BY <2>1, <2>2, <2>3, <2>4, <2>5, ZenonT(30)
<1> QED BY <1>4, <1>5, Zenon DEF Grounded, Sound, Earned

LEMMA MaxStates ==
  ASSUME NEW S \in SUBSET (0..2), S # {}
  PROVE  Max(S) \in S /\ \A y \in S : Max(S) >= y
<1>1. \E x \in S : \A y \in S : x >= y
  <2>1. CASE 2 \in S
    BY <2>1
  <2>2. CASE 2 \notin S /\ 1 \in S
    BY <2>2
  <2>3. CASE 2 \notin S /\ 1 \notin S
    <3>1. \A y \in S : y \in 0..2 /\ y # 2 /\ y # 1
      BY <2>3, Zenon
    <3>2. \A y \in S : y = 0
      BY <3>1
    <3>3. PICK z \in S : TRUE
      BY Zenon
    <3>4. z = 0 /\ \A y \in S : z >= y
      BY <3>2
    <3> QED BY <3>4, Zenon
  <2> QED BY <2>1, <2>2, <2>3, Zenon
<1> QED BY <1>1, Zenon DEF Max

LEMMA MaxOfTwo ==
  ASSUME NEW a \in Nat, NEW b \in Nat, NEW S \in SUBSET {a, b}, S # {}
  PROVE  Max(S) \in S
<1>1. \E x \in S : \A y \in S : x >= y
  <2>1. CASE a \in S /\ b \in S
    <3>1. CASE a >= b
      BY <2>1, <3>1
    <3>2. CASE b >= a
      BY <2>1, <3>2
    <3> QED BY <3>1, <3>2
  <2>2. CASE a \notin S \/ b \notin S
    <3>1. \E x \in S : S = {x}
      BY <2>2, Zenon
    <3> QED BY <3>1
  <2> QED BY <2>1, <2>2, Zenon
<1> QED BY <1>1, Zenon DEF Max

\* A hard entry names the reset of a slot in the hard state.
LEMMA BindingFound ==
  ASSUME NEW slots \in SUBSET SlotType, NEW n \in Nat,
         \A p \in slots : p.resets = ResetsAt(p.window, n), Max(States(slots)) = 2
  PROVE  \E p \in slots : p.state = 2 /\ p.resets = Binding(slots)
<1>1. States(slots) \in SUBSET (0..2) /\ States(slots) # {}
  BY DEF States, SlotType
<1>2. 2 \in States(slots)
  BY <1>1, MaxStates, Zenon
<1>3. PICK worst : worst = {p \in slots : p.state = Max(States(slots)) /\ p.state > 0}
  BY Zenon
<1>4. worst # {} /\ \A p \in worst : p \in slots /\ p.state = 2
  <2>1. PICK p \in slots : p.state = 2
    BY <1>2 DEF States
  <2>2. p \in worst
    BY <1>3, <2>1
  <2> QED BY <1>3, <2>2, Zenon
<1>5. PICK R : R = {p.resets : p \in worst}
  BY Zenon
<1>6. PICK a \in Nat, b \in Nat : a = ResetsAt("day", n) /\ b = ResetsAt("month", n)
  BY PeriodStart, Zenon DEF Windows
<1>7. R \in SUBSET {a, b} /\ R # {}
  <2>1. \A p \in worst : p.window \in {"day", "month"} /\ p.resets = ResetsAt(p.window, n)
    BY <1>4, Zenon DEF SlotType, Windows
  <2>2. \A p \in worst : p.resets \in {a, b}
    BY <1>6, <2>1, Zenon
  <2> QED BY <1>4, <1>5, <2>2, Zenon
<1>8. Max(R) \in R
  BY <1>7, MaxOfTwo, Zenon
<1>9. Binding(slots) = Max(R)
  BY <1>3, <1>4, <1>5, Zenon DEF Binding
<1> QED BY <1>4, <1>5, <1>8, <1>9, Zenon

-----------------------------------------------------------------------------
(* Steps *)

\* Only a metered request adds a record, and only the administrator changes a quota.
LEMMA MeteredStep ==
  ASSUME IInv, Metered, [Next]_vars
  PROVE  /\ Metered' /\ day <= day'
         /\ (UNCHANGED <<quota, changes>> /\ used \subseteq used') \/ changes' = changes + 1
<1>0. day \in Nat /\ used \subseteq RowType /\ IsFiniteSet(used) /\ day \in Days
      /\ quota \in [Owners -> QuotaType \cup {None}]
  BY DEF IInv, Typed, Days, Metered
<1>1. ASSUME NEW h \in Handlers, Served(h)
      PROVE  used \subseteq used' /\ Metered' /\ UNCHANGED <<day, quota, changes>>
  <2>1. PICK k \in Keys : k = handler[h].key
    BY <1>1, Zenon DEF Served, IInv, Typed
  <2>2. PICK nr : nr = Cardinality({u \in used : u.key = k /\ u.day = day})
    BY Zenon
  <2>3. nr \in Nat
    BY <1>0, <2>2, FS_Subset, FS_CardinalityType, Zenon
  <2>4. used' = used \cup {[key |-> k, day |-> day, nr |-> nr]} /\ UNCHANGED <<day, quota, changes>>
    BY <1>1, <2>1, <2>2, Zenon DEF Served
  <2>5. [key |-> k, day |-> day, nr |-> nr] \in RowType
    BY <1>0, <2>3, Zenon DEF RowType
  <2>6. IsFiniteSet(used')
    BY <1>0, <2>4, FS_AddElement, Zenon
  <2> QED BY <1>0, <2>4, <2>5, <2>6, Zenon DEF Metered
<1>2. ASSUME NEW o \in Owners, NEW q \in Offers[o], SetQuota(o, q)
      PROVE  Metered' /\ UNCHANGED day /\ changes' = changes + 1
  <2>1. q \in QuotaType \cup {None}
    BY QuotaSettings, Zenon
  <2> QED BY <1>0, <1>2, <2>1, Zenon DEF SetQuota, Metered
<1>3. ASSUME UNCHANGED <<used, quota>> PROVE Metered'
  BY <1>3, Zenon DEF Metered
<1>4. CASE Midnight
  <2>1. day' = day + 1 /\ UNCHANGED <<used, quota, changes>>
    BY <1>4, Zenon DEF Midnight
  <2> QED BY <1>0, <1>3, <2>1
<1>5. ASSUME UNCHANGED <<day, used, quota, changes>>
      PROVE  Metered' /\ day <= day' /\ UNCHANGED <<quota, changes>> /\ used \subseteq used'
  BY <1>0, <1>3, <1>5
<1>6. ASSUME NEW h \in Handlers,
             \/ \E k \in Keys : Arrive(h, k)
             \/ Lock(h) \/ ReadKey(h) \/ StoreEntry(h) \/ LookupFails(h) \/ Unserved(h)
      PROVE  UNCHANGED <<day, used, quota, changes>>
  BY <1>6, Zenon DEF Arrive, Lock, ReadKey, StoreEntry, LookupFails, Unserved
<1>7. ASSUME Invalidate \/ Tick \/ UNCHANGED vars PROVE UNCHANGED <<day, used, quota, changes>>
  BY <1>7, Zenon DEF Invalidate, Tick, vars
<1>8. CASE Next
  <2>1. CASE \E h \in Handlers : Served(h)
    BY <1>0, <1>1, <2>1
  <2>2. CASE \E o \in Owners : \E q \in Offers[o] : SetQuota(o, q)
    BY <1>0, <1>2, <2>2
  <2> QED BY <1>4, <1>5, <1>6, <1>7, <1>8, <2>1, <2>2, ZenonT(30) DEF Next
<1> QED BY <1>5, <1>7, <1>8, Zenon

\* The lock is taken, and the tenant's slots are read on this day.
LEMMA TakesSound ==
  ASSUME IInv, Metered, TakesOne
  PROVE  StaySound
<1>a. PICK h \in Handlers, k \in Keys, q \in HandlerType : Takes(h, k, q)
  BY Zenon DEF TakesOne
<1>0. handler \in [Handlers -> HandlerType] /\ day \in Nat /\ changes \in Nat /\ Tenant \in Owners
  BY DEF IInv, Typed, Days, Owners
<1>1. q.pc = "key" /\ q.key = k /\ q.now = day /\ q.slots = Positions(Tenant, day) /\ q.asof = changes
  BY <1>a, Zenon DEF Takes
<1>2. handler'[h] = q /\ \A g \in Handlers \ {h} : handler'[g] = handler[g]
  BY <1>a, <1>0, Zenon DEF Takes
<1>3. UNCHANGED <<day, used, quota, entries, changes>>
  BY <1>a, Zenon DEF Takes
<1>4. \A p \in Positions(Tenant, day) : p.owner = Tenant
  BY <1>0, PositionsTyped, Zenon
<1>5. Sound(h)'
  <2>1. ASSUME NEW p \in q.slots
        PROVE  /\ p.owner \in {Tenant, q.key} /\ p.resets = ResetsAt(p.window, day)
               /\ p.state = 2 => Spent(p.owner, p.window, day)
    BY <1>0, <1>1, <1>4, <2>1, HardIsSpent, SMTT(30)
  <2>2. \A o, w, n : Spent(o, w, n)' <=> Spent(o, w, n)
    BY <1>3 DEF Spent, Used, Usage, KeyUsage
  <2>3. Founded(q.slots, q.key, day, q.asof)'
    BY <1>3, <2>1, <2>2, Zenon DEF Founded, ResetsAt, Since
  <2>4. ReadOn(q, day)'
    BY <1>1, <1>3, <2>3, Zenon DEF ReadOn
  <2>5. q.asof <= changes' /\ day' = day /\ day \in 0..day'
    BY <1>0, <1>1, <1>3
  <2> QED BY <1>2, <2>4, <2>5, Zenon DEF Sound
<1> QED BY <1>2, <1>5, Zenon DEF StaySound

\* The key's slots complete a position, of the day it was begun on.
LEMMA ReadsSound ==
  ASSUME IInv, Metered, Grounded, ReadsOne
  PROVE  StaySound
<1>a. PICK h \in Handlers, k \in Keys, q \in HandlerType : Reads(h, k, q)
  BY Zenon DEF ReadsOne
<1>1. /\ handler[h].pc = "key" /\ handler[h].key = k /\ handler \in [Handlers -> HandlerType]
      /\ UNCHANGED <<day, used, quota, entries, changes>> /\ k \in Owners
  BY <1>a, Zenon DEF Reads, IInv, Typed, Owners
<1>2. PICK now \in Nat : now = handler[h].now
  BY <1>1, Zenon DEF HandlerType
<1>3. PICK slots : slots = handler[h].slots \cup Positions(k, now)
  BY Zenon
<1>4. q.pc = "store" /\ q.slots = slots /\ q.key = k /\ q.asof = handler[h].asof
  BY <1>a, <1>2, <1>3, Zenon DEF Reads
<1>5. handler'[h] = q /\ \A g \in Handlers \ {h} : handler'[g] = handler[g]
  BY <1>a, <1>1, Zenon DEF Reads
<1>6. Sound(h)'
  <2>1. Computes(handler[h]) /\ now \in 0..day
        /\ Founded(handler[h].slots, k, now, handler[h].asof) /\ handler[h].asof <= changes
    BY <1>1, <1>2, Zenon DEF Grounded, Sound, Computes, ReadOn
  <2>2. \A p \in Positions(k, now) : /\ p.owner = k /\ p.resets = ResetsAt(p.window, now)
                                     /\ p.state = 2 => Spent(p.owner, p.window, now)
    BY <1>1, PositionsTyped, HardIsSpent
  <2>3. Founded(slots, k, now, q.asof)
    BY <1>3, <1>4, <2>1, <2>2, Zenon DEF Founded
  <2>4. Founded(slots, k, now, q.asof)'
    <3>1. \A o, w, n : Spent(o, w, n)' <=> Spent(o, w, n)
      BY <1>1 DEF Spent, Used, Usage, KeyUsage
    <3> QED BY <1>1, <2>3, <3>1, ZenonT(30) DEF Founded, ResetsAt, Since
  <2>5. ReadOn(q, now)'
    BY <1>4, <2>4, Zenon DEF ReadOn
  <2> QED BY <1>1, <1>4, <1>5, <2>1, <2>5, Zenon DEF Sound
<1> QED BY <1>5, <1>6, Zenon DEF StaySound

\* The entry is stored: what it rejects for is a slot that was read.
LEMMA StoreEarned == ASSUME IInv, Grounded, NEW h \in Handlers, StoreEntry(h) PROVE StayEarned
<1>1. PICK k \in Keys : k = handler[h].key
  BY Zenon DEF StoreEntry, IInv, Typed
<1>2. PICK e : e = Entry(handler[h].slots, handler[h].asof)
  BY Zenon
<1>3. /\ Computes(handler[h]) /\ Verdict(h, k, e.state)
      /\ inflight' = [inflight EXCEPT ![k] = None] /\ entries' = [entries EXCEPT ![k] = e]
      /\ UNCHANGED <<day, used, quota, announced, told, twice, changes, quiet>>
  BY <1>1, <1>2, Zenon DEF StoreEntry, Computes
<1>5. entries'[k] = e /\ \A j \in Keys \ {k} : entries'[j] = entries[j]
  BY <1>3, Zenon DEF IInv, Typed
<1>6. e.asof = handler[h].asof /\ e.resets = Binding(handler[h].slots) /\ e.state = Max(States(handler[h].slots))
  BY <1>2, Zenon DEF Entry
<1>7. Earned(k)'
  <2>2. e.asof \in Nat /\ handler[h].slots \in SUBSET SlotType /\ handler[h].key = k
    BY <1>1, <1>6, Zenon DEF IInv, Typed, HandlerType
  <2>3. PICK n \in 0..day : ReadOn(handler[h], n)
    BY <1>3, Zenon DEF Grounded, Sound
  <2>4. e.asof <= changes
    BY <1>3, <1>6, Zenon DEF Grounded, Sound
  <2>5. n \in Nat /\ \A p \in handler[h].slots :
          /\ p.owner \in {Tenant, k} /\ p.resets = ResetsAt(p.window, n) /\ p.window \in Windows
          /\ e.asof = changes /\ p.state = 2 => Spent(p.owner, p.window, n)
    BY <1>6, <2>2, <2>3 DEF ReadOn, Founded, SlotType
  <2>6. ASSUME e.asof = changes, e.state = 2 PROVE Reasoned(e, k)
    <3>1. PICK p \in handler[h].slots : p.state = 2 /\ p.resets = Binding(handler[h].slots)
      BY <1>6, <2>2, <2>5, <2>6, BindingFound, ZenonT(30)
    <3>2. e.resets = ResetsAt(p.window, n) /\ Spent(p.owner, p.window, n) /\ p.owner \in {Tenant, k}
      BY <1>6, <2>5, <2>6, <3>1, Zenon
    <3> QED BY <2>3, <2>5, <3>1, <3>2, Zenon DEF Reasoned
  <2>7. Reasoned(e, k)' <=> Reasoned(e, k)
    BY <1>3 DEF Reasoned, Spent, Used, Usage, KeyUsage
  <2> QED BY <1>3, <1>5, <2>2, <2>4, <2>6, <2>7, SMTT(30) DEF Earned
<1> QED BY <1>5, <1>7, Zenon DEF StayEarned, Live

\* No other step makes an entry: one that lives on is at most a tick older.
LEMMA EarnedStays == ASSUME IInv, Grounded, [Next]_vars PROVE StayEarned
<1>1. ASSUME UNCHANGED entries PROVE StayEarned
  BY <1>1, Zenon DEF StayEarned, Live
<1>2. ASSUME NEW h \in Handlers,
             \/ \E k \in Keys : Arrive(h, k)
             \/ Lock(h) \/ ReadKey(h) \/ LookupFails(h) \/ Served(h) \/ Unserved(h)
      PROVE  UNCHANGED entries
  BY <1>2, Zenon DEF Arrive, Lock, ReadKey, LookupFails, Served, Unserved
<1>3. ASSUME \/ \E o \in Owners : \E q \in Offers[o] : SetQuota(o, q)
             \/ Midnight \/ UNCHANGED vars
      PROVE  UNCHANGED entries
  BY <1>3, Zenon DEF SetQuota, Midnight, vars
<1>4. CASE Invalidate
  BY <1>4, Zenon DEF StayEarned, Invalidate, Live
<1>5. CASE Tick
  <2>1. ASSUME NEW k \in Keys, Live(k)'
        PROVE  /\ Live(k) /\ entries'[k].asof = entries[k].asof
               /\ entries'[k].state = entries[k].state /\ entries'[k].resets = entries[k].resets
    BY <1>5, <2>1, TickAges, Zenon
  <2> QED BY <2>1, ZenonT(30) DEF StayEarned
<1> QED BY <1>1, <1>2, <1>3, <1>4, <1>5, StoreEarned, ZenonT(30) DEF Next

LEMMA GroundedStep ==
  IInv /\ IInv' /\ Metered /\ Grounded /\ [Next]_vars => Metered' /\ Grounded'
<1> SUFFICES ASSUME IInv, IInv', Metered, Grounded, [Next]_vars PROVE Metered' /\ Grounded'
  BY Zenon
<1>1. /\ Metered' /\ day <= day'
      /\ (UNCHANGED <<quota, changes>> /\ used \subseteq used') \/ changes' = changes + 1
  BY MeteredStep, Zenon
<1>2. Still => StaySound
  BY Zenon DEF Still, StaySound
<1>3. StaySound
  BY <1>2, Moves, TakesSound, ReadsSound, Zenon
<1>4. StayEarned
  BY EarnedStays, Zenon
<1> QED BY <1>1, <1>3, <1>4, GroundedKept, Zenon

LEMMA GroundedInit == Init => Metered /\ Grounded
<1> SUFFICES ASSUME Init PROVE Metered /\ Grounded
  BY Zenon
<1>1. \A h \in Handlers : handler[h].pc = "idle"
  BY IdleTyped, Zenon DEF Init
<1>2. Grounded
  BY <1>1, Zenon DEF Init, Grounded, Sound, Earned, Computes, Live
<1>3. Metered
  BY QuotaSettings, FS_EmptySet, Zenon DEF Init, Metered
<1> QED BY <1>2, <1>3, Zenon

-----------------------------------------------------------------------------
(* The theorems *)

\* What rejects a request has a reason as long as the quotas stay, whatever requests,
\* admin writes and midnights come between.
THEOREM ReasonsHold == Spec => [](Metered /\ Grounded)
<1> QED BY GroundedInit, GroundedStep, Invariance, PTL DEF Spec

\* A rejection that evaluateQuota takes from the cache names the reset of a cap that is
\* used up, and until then every evaluation rejects and GET /v1/usage shows why.
THEOREM Rejections == Spec => []RejectedUntilReset
<1>1. IInv /\ Metered /\ Grounded => RejectedUntilReset
  <2> SUFFICES ASSUME IInv, Metered, Grounded, NEW k \in Keys,
                      Live(k), entries[k].state = 2, entries[k].asof = changes, day < entries[k].resets
               PROVE  /\ Max(States(Now(k))) = 2
                      /\ \E l \in Limits(k) : l.remaining = 0 /\ l.resets = entries[k].resets
    BY Zenon DEF RejectedUntilReset
  <2>1. Reasoned(entries[k], k) /\ day \in Nat
    BY DEF IInv, Grounded, Earned, Typed, Days
  <2>2. PICK o \in {Tenant, k}, w \in Windows, n \in 0..day : entries[k].resets = ResetsAt(w, n) /\ Spent(o, w, n)
    BY <2>1, Zenon DEF Reasoned
  <2>3. o \in Owners /\ n \in Nat /\ n <= day
    BY <2>1 DEF Owners
  <2>4. Since(w, day) = Since(w, n) /\ ResetsAt(w, day) = ResetsAt(w, n)
    BY <2>1, <2>2, <2>3, SamePeriod, Zenon
  <2>5. Used(o, w, day) = Used(o, w, n)
    BY <2>4, Zenon DEF Used, Usage, KeyUsage, InWindow
  <2>6. PICK cap : cap = quota[o][w]
    BY Zenon
  <2>7. quota[o] # None /\ quota[o][w] # None /\ cap \in Nat /\ cap > 0 /\ Used(o, w, day) >= cap
    BY <2>1, <2>2, <2>3, <2>5, <2>6, Zenon DEF Spent, Metered, QuotaType
  <2>8. PICK use \in Nat : use = Used(o, w, day)
    <3>1. \A T \in SUBSET used : Cardinality(T) \in Nat
      BY FS_Subset, FS_CardinalityType, Zenon DEF Metered
    <3> QED BY <3>1, ZenonT(30) DEF Used, Usage, KeyUsage
  <2>9. Max(States(Now(k))) = 2
    <3>1. Slot(o, w, day) \in Now(k)
      BY <2>7, Zenon DEF Now, Positions
    <3>2. Slot(o, w, day).state = 2
      BY <2>6, <2>7, <2>8, SMTT(30) DEF Slot, Position
    <3>3. Now(k) \subseteq SlotType
      BY <2>1, PositionsTyped, Zenon DEF Now, Owners
    <3>4. States(Now(k)) \in SUBSET (0..2) /\ 2 \in States(Now(k))
      BY <3>1, <3>2, <3>3, SMTT(30) DEF States, SlotType
    <3>5. Max(States(Now(k))) \in 0..2 /\ Max(States(Now(k))) >= 2
      BY <3>4, MaxStates, Zenon
    <3> QED BY <3>5
  <2>10. Max({0, cap - use}) = 0
    <3>1. PICK z \in Int : z = cap - use /\ z <= 0
      BY <2>7, <2>8
    <3>2. \A y \in {0, z} : 0 >= y
      BY <3>1
    <3>3. \A x \in {0, z} : (\A y \in {0, z} : x >= y) => x = 0
      BY <3>1
    <3>4. Max({0, z}) \in {0, z} /\ \A y \in {0, z} : Max({0, z}) >= y
      BY <3>2, Zenon DEF Max
    <3> QED BY <3>1, <3>3, <3>4, Zenon
  <2>11. PICK l : l = [owner |-> o, window |-> w, resets |-> ResetsAt(w, day), remaining |-> Max({0, cap - use})]
    BY Zenon
  <2>12. l \in Limits(k)
    <3>1. <<o, w>> \in {y \in {Tenant, k} \X Windows :
                          quota[y[1]] # None /\ quota[y[1]][y[2]] # None /\ quota[y[1]][y[2]] > 0}
      BY <2>6, <2>7, Zenon
    <3>2. PICK x : x = <<o, w>>
      BY Zenon
    <3>3. l = [owner |-> x[1], window |-> x[2], resets |-> ResetsAt(x[2], day),
               remaining |-> Max({0, quota[x[1]][x[2]] - Used(x[1], x[2], day)})]
      <4>1. x[1] = o /\ x[2] = w
        BY <3>2, Zenon
      <4> QED BY <2>6, <2>8, <2>11, <4>1, ZenonT(30)
    <3> QED BY <3>1, <3>2, <3>3, ZenonT(30) DEF Limits
  <2>13. l.remaining = 0 /\ l.resets = entries[k].resets
    BY <2>2, <2>4, <2>10, <2>11, Zenon
  <2> QED BY <2>9, <2>12, <2>13, Zenon
<1> QED BY <1>1, Invariance, ReasonsHold, PTL

\* shouldAnnounce lets a scope announce a crossing once, and lets no position past a
\* threshold be stored in silence, however many requests, quotas and periods there are.
THEOREM Announced == Spec => []AnnouncedOnce
<1>1. IInv /\ Heard /\ Metered => AnnouncedOnce
  <2> SUFFICES ASSUME IInv, Heard, Metered PROVE AnnouncedOnce
    BY Zenon
  <2>1. TypeOK
    <3>1. \A h \in Handlers : handler[h].pc \in {"key", "store"} <=> \E k \in Keys : inflight[k] = h
      <4> SUFFICES ASSUME NEW h \in Handlers
                   PROVE  handler[h].pc \in {"key", "store"} <=> \E k \in Keys : inflight[k] = h
        BY Zenon
      <4>1. ASSUME handler[h].pc \in {"key", "store"} PROVE \E k \in Keys : inflight[k] = h
        BY <4>1, Zenon DEF IInv, Locked, Typed, Computes
      <4>2. ASSUME NEW k \in Keys, inflight[k] = h PROVE handler[h].pc \in {"key", "store"}
        BY <4>2, QuotaSettings, SMTT(30) DEF IInv, Locked, Computes
      <4> QED BY <4>1, <4>2, Zenon
    <3>2. \A k \in Keys : inflight[k] # None => handler[inflight[k]].key = k
      BY Zenon DEF IInv, Locked
    <3>3. \A k \in Keys : entries[k] # None => entries[k].age \in 0..(TTL - 1)
      BY Zenon DEF IInv, Typed, EntryShape
    <3>4. day \in Days /\ used \subseteq RowType /\ IsFiniteSet(used)
      BY Zenon DEF IInv, Typed, Metered
    <3> QED BY <3>1, <3>2, <3>3, <3>4, Zenon DEF TypeOK
  <2>2. twice = {} /\ \A h \in Handlers : handler[h].pc = "store" =>
          \A p \in handler[h].slots : p.state > 0 => ToldOf(told, handler[h].key, p.window, p)
    BY Zenon DEF Heard
  <2> QED BY <2>1, <2>2, Zenon DEF AnnouncedOnce, ToldOf
<1> QED BY <1>1, Invariance, HeardAlways, ReasonsHold, PTL
=============================================================================
