----------------------------- MODULE CatalogProofs ------------------------------
(***************************************************************************)
(* What the catalog of a tenant serves, for every number of providers,     *)
(* models, callers and changes: the providers as the last write that has   *)
(* returned left them, and the models that its events have made known.     *)
(* And what a chain of model references comes to in any catalog served:    *)
(* the first candidates, each of them listed, are those of the diagnosis.  *)
(***************************************************************************)
EXTENDS Routing, TLAPS

Typed ==
  /\ upstream \in [Names -> Listings] /\ providers \in Seq(ProviderType)
  /\ dirty \in Nat /\ changes \in Nat
  /\ lock # None => poll \in PollType
  /\ snapshot # None => snapshot \in SnapshotType

EnabledOf(s) == {p.name : p \in {q \in Range(s) : q.enabled}}
ListedIn(s) == {l.name : l \in Range(s)}

\* A poll answers, or has still to ask, for every enabled provider, and so does a snapshot,
\* unless an Invalidate is still to come.
PollCurrent ==
  lock # None /\ dirty = 0 =>
    /\ poll.asof = changes
    /\ EnabledOf(providers) = ListedIn(poll.lists) \cup poll.errors \cup EnabledOf(poll.todo)

\* The inductive invariant.
IInv == Typed /\ PollCurrent /\ PolledAfterChange /\ EventsTellTheCatalog

-----------------------------------------------------------------------------
(* Sequences as the sets of their elements *)

LEMMA HeadAndTail ==
  ASSUME NEW S, NEW s \in Seq(S), s # <<>>
  PROVE  /\ Head(s) \in S /\ Tail(s) \in Seq(S)
         /\ Range(s) = {Head(s)} \cup Range(Tail(s))
<1>1. Len(s) \in Nat \ {0} /\ Head(s) = s[1] /\ Len(Tail(s)) = Len(s) - 1
  OBVIOUS
<1>2. /\ Head(s) \in S /\ Tail(s) \in Seq(S) /\ DOMAIN s = 1..Len(s) /\ DOMAIN Tail(s) = 1..(Len(s) - 1)
      /\ \A i \in 1..(Len(s) - 1) : Tail(s)[i] = s[i + 1]
  OBVIOUS
<1>3. \A i \in 1..(Len(s) - 1) : i + 1 \in 1..Len(s)
  BY <1>1
<1>4. \A i \in 1..Len(s) : i = 1 \/ \E j \in 1..(Len(s) - 1) : i = j + 1
  <2> TAKE i \in 1..Len(s)
  <2>1. i = 1 \/ (i - 1 \in 1..(Len(s) - 1) /\ i = (i - 1) + 1)
    BY <1>1
  <2> QED BY <2>1, Zenon
<1>5. 1 \in 1..Len(s)
  BY <1>1
<1>6. Range(s) \subseteq {Head(s)} \cup Range(Tail(s))
  <2>1. ASSUME NEW i \in DOMAIN s PROVE s[i] \in {Head(s)} \cup Range(Tail(s))
    <3>1. CASE i = 1
      BY <1>1, <3>1, Zenon
    <3>2. ASSUME NEW j \in 1..(Len(s) - 1), i = j + 1 PROVE s[i] \in Range(Tail(s))
      BY <1>2, <3>2, Zenon DEF Range
    <3> QED BY <1>2, <1>4, <3>1, <3>2, Zenon
  <2> QED BY <2>1, Zenon DEF Range
<1>7. {Head(s)} \cup Range(Tail(s)) \subseteq Range(s)
  BY <1>1, <1>2, <1>3, <1>5, Zenon DEF Range
<1> QED BY <1>2, <1>6, <1>7, Zenon

LEMMA Appended ==
  ASSUME NEW S, NEW s \in Seq(S), NEW x \in S
  PROVE  Append(s, x) \in Seq(S) /\ Range(Append(s, x)) = Range(s) \cup {x}
<1>1. /\ Append(s, x) \in Seq(S) /\ DOMAIN s = 1..Len(s) /\ DOMAIN Append(s, x) = 1..(Len(s) + 1)
      /\ Append(s, x)[Len(s) + 1] = x /\ \A i \in 1..Len(s) : Append(s, x)[i] = s[i]
  OBVIOUS
<1>2. Len(s) \in Nat
  OBVIOUS
<1>3. \A i \in 1..(Len(s) + 1) : i = Len(s) + 1 \/ i \in 1..Len(s)
  BY <1>2
<1>4. Len(s) + 1 \in 1..(Len(s) + 1) /\ \A i \in 1..Len(s) : i \in 1..(Len(s) + 1)
  BY <1>2
<1> QED BY <1>1, <1>3, <1>4, Zenon DEF Range

-----------------------------------------------------------------------------
(* Snapshots *)

\* The models of a snapshot are those of its lists.
LEMMA ModelsOfLists ==
  ASSUME NEW s, NEW r, s.lists = r.lists
  PROVE  ModelIds(s) = ModelIds(r)
<1>1. \A ref : Claims(s, ref) = Claims(r, ref)
  BY Zenon DEF Claims
<1>2. \A ref : Lookup(s, ref) = Lookup(r, ref)
  BY <1>1, Zenon DEF Lookup
<1>3. Entries(s) = Entries(r)
  BY <1>1, <1>2 DEF Entries
<1> QED BY <1>3, Zenon DEF ModelIds

\* The events of a poll turn the models of the old snapshot into those of the new one.
LEMMA EventsTell ==
  ASSUME NEW old, NEW fresh, NEW known, known = ModelIds(old)
  PROVE  (known \ Diff(old, fresh).removed) \cup Diff(old, fresh).added = ModelIds(fresh)
<1>1. /\ Diff(old, fresh).removed = ModelIds(old) \ ModelIds(fresh)
      /\ Diff(old, fresh).added = ModelIds(fresh) \ ModelIds(old)
  BY Zenon DEF Diff
<1> QED BY <1>1, Zenon

\* A snapshot that only grows older or stale serves what it did.
LEMMA SameSnapshot ==
  ASSUME snapshot \in SnapshotType, PolledAfterChange, EventsTellTheCatalog, snapshot # None,
         NEW age \in Nat, NEW stale \in BOOLEAN,
         snapshot' = [lists |-> snapshot.lists, errors |-> snapshot.errors, asof |-> snapshot.asof,
                      age |-> age, stale |-> stale],
         UNCHANGED <<providers, dirty, changes, told>>
  PROVE  snapshot' \in SnapshotType /\ PolledAfterChange' /\ EventsTellTheCatalog'
<1>1. /\ snapshot'.lists = snapshot.lists /\ snapshot'.errors = snapshot.errors
      /\ snapshot'.asof = snapshot.asof
  BY Zenon
<1>2. snapshot' \in SnapshotType
  BY Zenon DEF SnapshotType
<1>3. PolledAfterChange'
  BY <1>1, Zenon DEF PolledAfterChange
<1>4. ModelIds(snapshot') = ModelIds(snapshot)
  BY <1>1, ModelsOfLists, Zenon
<1>5. EventsTellTheCatalog'
  BY <1>4, Zenon DEF EventsTellTheCatalog
<1> QED BY <1>2, <1>3, <1>5, Zenon

LEMMA SnapshotAlone ==
  ASSUME PolledAfterChange, EventsTellTheCatalog, UNCHANGED <<snapshot, providers, dirty, changes, told>>
  PROVE  PolledAfterChange' /\ EventsTellTheCatalog'
<1>1. PolledAfterChange'
  BY Zenon DEF PolledAfterChange
<1>2. EventsTellTheCatalog'
  BY Zenon DEF EventsTellTheCatalog
<1> QED BY <1>1, <1>2, Zenon

-----------------------------------------------------------------------------
(* Steps *)

LEMMA ReloadStep ==
  ASSUME IInv, NEW c, Reload(c)
  PROVE  IInv'
<1>1. /\ poll' = [todo |-> providers, lists |-> <<>>, errors |-> {}, asof |-> changes]
      /\ UNCHANGED <<upstream, providers, dirty, snapshot, told, changes>>
  BY Zenon DEF Reload
<1>2. Typed'
  <2>1. poll' \in PollType
    <3>1. <<>> \in Seq(ListType) /\ {} \in SUBSET Names
      OBVIOUS
    <3> QED BY <1>1, <3>1, Zenon DEF PollType, IInv, Typed
  <2> QED BY <1>1, <2>1, Zenon DEF IInv, Typed
<1>3. PollCurrent'
  <2>1. ListedIn(<<>>) = {}
    BY DEF ListedIn, Range
  <2>2. /\ poll'.asof = changes /\ poll'.lists = <<>> /\ poll'.errors = {} /\ poll'.todo = providers
    BY <1>1, Zenon
  <2> QED BY <1>1, <2>1, <2>2, Zenon DEF PollCurrent
<1>4. PolledAfterChange' /\ EventsTellTheCatalog'
  BY <1>1, SnapshotAlone, Zenon DEF IInv
<1> QED BY <1>2, <1>3, <1>4, Zenon DEF IInv

LEMMA ListModelsStep ==
  ASSUME IInv, ListModels
  PROVE  IInv'
<1> DEFINE p == Head(poll.todo)
<1> DEFINE answers == upstream[p.name] # None
<1> DEFINE one == [name |-> p.name, ids |-> upstream[p.name]]
<1> DEFINE lists == IF p.enabled /\ answers THEN Append(poll.lists, one) ELSE poll.lists
<1> DEFINE errors == IF p.enabled /\ ~answers THEN poll.errors \cup {p.name} ELSE poll.errors
<1>1. /\ lock # None /\ poll.todo # <<>>
      /\ poll' = [todo |-> Tail(poll.todo), asof |-> poll.asof, lists |-> lists, errors |-> errors]
      /\ UNCHANGED <<upstream, providers, dirty, lock, snapshot, told, changes>>
  BY Zenon DEF ListModels
<1>2. /\ poll \in PollType /\ poll.todo \in Seq(ProviderType) /\ poll.lists \in Seq(ListType)
      /\ poll.errors \in SUBSET Names /\ poll.asof \in Nat
  BY <1>1, Zenon DEF IInv, Typed, PollType
<1>3. /\ p \in ProviderType /\ p.name \in Names /\ p.enabled \in BOOLEAN
      /\ Tail(poll.todo) \in Seq(ProviderType)
      /\ Range(poll.todo) = {p} \cup Range(Tail(poll.todo))
  <2>1. /\ p \in ProviderType /\ Tail(poll.todo) \in Seq(ProviderType)
        /\ Range(poll.todo) = {p} \cup Range(Tail(poll.todo))
    BY <1>1, <1>2, HeadAndTail, Zenon
  <2> HIDE DEF p
  <2>2. p.name \in Names /\ p.enabled \in BOOLEAN
    BY <2>1, Zenon DEF ProviderType
  <2> QED BY <2>1, <2>2, Zenon
<1>4. answers => one \in ListType
  <2>1. answers => upstream[p.name] \in SUBSET Ids
    <3> HIDE DEF p
    <3> QED BY <1>3, Zenon DEF Listings, IInv, Typed
  <2> HIDE DEF p
  <2> QED BY <1>3, <2>1, Zenon DEF ListType
<1>5. one.name = p.name
  BY Zenon
<1> HIDE DEF p, one
<1>6. /\ lists \in Seq(ListType) /\ errors \in SUBSET Names
      /\ ListedIn(lists) \cup errors = IF p.enabled THEN ListedIn(poll.lists) \cup poll.errors \cup {p.name}
                                       ELSE ListedIn(poll.lists) \cup poll.errors
  <2>1. CASE p.enabled /\ answers
    <3>1. lists = Append(poll.lists, one) /\ errors = poll.errors
      BY <2>1, Zenon
    <3>a. one \in ListType
      BY <1>4, <2>1, Zenon
    <3>2. lists \in Seq(ListType) /\ Range(lists) = Range(poll.lists) \cup {one}
      <4>1. Append(poll.lists, one) \in Seq(ListType) /\ Range(Append(poll.lists, one)) = Range(poll.lists) \cup {one}
        BY <1>2, <3>a, Appended
      <4> QED BY <3>1, <4>1, Zenon
    <3>3. ListedIn(lists) = ListedIn(poll.lists) \cup {p.name}
      BY <1>5, <3>2, Zenon DEF ListedIn
    <3> QED BY <1>2, <2>1, <3>1, <3>2, <3>3, Zenon
  <2>2. CASE p.enabled /\ ~answers
    BY <1>2, <1>3, <2>2, Zenon
  <2>3. CASE ~p.enabled
    BY <1>2, <2>3, Zenon
  <2> QED BY <2>1, <2>2, <2>3, Zenon
<1> HIDE DEF lists, errors
<1>7. /\ poll'.todo = Tail(poll.todo) /\ poll'.asof = poll.asof /\ poll'.lists = lists
      /\ poll'.errors = errors
  BY <1>1, Zenon
<1>8. Typed'
  <2>1. poll' \in PollType
    BY <1>1, <1>2, <1>3, <1>6, Zenon DEF PollType
  <2> QED BY <1>1, <2>1, Zenon DEF IInv, Typed
<1>9. EnabledOf(poll.todo) = IF p.enabled THEN EnabledOf(Tail(poll.todo)) \cup {p.name}
                             ELSE EnabledOf(Tail(poll.todo))
  BY <1>3, Zenon DEF EnabledOf
<1>10. PollCurrent'
  <2>1. SUFFICES ASSUME dirty = 0
                 PROVE  /\ poll.asof = changes
                        /\ EnabledOf(providers) = ListedIn(lists) \cup errors \cup EnabledOf(Tail(poll.todo))
    BY <1>1, <1>7, Zenon DEF PollCurrent
  <2>2. /\ poll.asof = changes
        /\ EnabledOf(providers) = ListedIn(poll.lists) \cup poll.errors \cup EnabledOf(poll.todo)
    BY <1>1, <2>1, Zenon DEF IInv, PollCurrent
  <2> QED BY <1>6, <1>9, <2>2, Zenon
<1>11. PolledAfterChange' /\ EventsTellTheCatalog'
  BY <1>1, SnapshotAlone, Zenon DEF IInv
<1> QED BY <1>8, <1>10, <1>11, Zenon DEF IInv

LEMMA InstallStep ==
  ASSUME IInv, Install
  PROVE  IInv'
<1> DEFINE fresh == [lists |-> poll.lists, errors |-> poll.errors, asof |-> poll.asof,
                     age |-> 0, stale |-> FALSE]
<1> DEFINE failed == Entries(fresh) = {} /\ poll.errors # {}
<1>1. /\ lock # None /\ poll.todo = <<>> /\ lock' = None
      /\ snapshot' = IF ~failed THEN fresh
                     ELSE IF snapshot = None THEN None ELSE [snapshot EXCEPT !.stale = TRUE]
      /\ told' = IF failed THEN told
                 ELSE IF snapshot = None THEN ModelIds(fresh)
                 ELSE (told \ Diff(snapshot, fresh).removed) \cup Diff(snapshot, fresh).added
      /\ UNCHANGED <<upstream, providers, dirty, changes>>
  BY Zenon DEF Install
<1>2. PollCurrent'
  BY <1>1, Zenon DEF PollCurrent
<1>3. SUFFICES (snapshot # None => snapshot \in SnapshotType)' /\ PolledAfterChange' /\ EventsTellTheCatalog'
  BY <1>1, <1>2, Zenon DEF IInv, Typed
<1>4. CASE ~failed
  <2>1. snapshot' = fresh
    BY <1>1, <1>4, Zenon
  <2>2. /\ poll.lists \in Seq(ListType) /\ poll.errors \in SUBSET Names /\ poll.asof \in Nat
    BY <1>1, Zenon DEF IInv, Typed, PollType
  <2>3. fresh \in SnapshotType
    BY <2>2, Zenon DEF SnapshotType
  <2>4. fresh.lists = poll.lists /\ fresh.errors = poll.errors /\ fresh.asof = poll.asof
    BY Zenon
  <2>5. told' = ModelIds(fresh)
    <3> HIDE DEF fresh
    <3>1. CASE snapshot = None
      BY <1>1, <1>4, <3>1, Zenon
    <3>2. CASE snapshot # None
      <4>1. told = ModelIds(snapshot)
        BY <3>2, Zenon DEF IInv, EventsTellTheCatalog
      <4>2. (told \ Diff(snapshot, fresh).removed) \cup Diff(snapshot, fresh).added = ModelIds(fresh)
        BY <4>1, EventsTell, Zenon
      <4> QED BY <1>1, <1>4, <3>2, <4>2, Zenon
    <3> QED BY <3>1, <3>2, Zenon
  <2> HIDE DEF fresh
  <2>6. EventsTellTheCatalog'
    BY <2>1, <2>5, Zenon DEF EventsTellTheCatalog
  <2>7. PolledAfterChange'
    <3>1. SUFFICES ASSUME dirty = 0
                   PROVE  poll.asof = changes /\ EnabledOf(providers) = ListedIn(poll.lists) \cup poll.errors
      BY <1>1, <2>1, <2>4, Zenon DEF PolledAfterChange, EnabledOf, ListedIn
    <3>2. EnabledOf(<<>>) = {}
      BY DEF EnabledOf, Range
    <3> QED BY <1>1, <3>1, <3>2, Zenon DEF IInv, PollCurrent
  <2> QED BY <2>1, <2>3, <2>6, <2>7, Zenon
<1>5. CASE failed /\ snapshot = None
  <2>1. snapshot' = None
    BY <1>1, <1>5, Zenon
  <2> QED BY <2>1, Zenon DEF PolledAfterChange, EventsTellTheCatalog
<1>6. CASE failed /\ snapshot # None
  <2>1. snapshot \in SnapshotType /\ snapshot.age \in Nat /\ snapshot' = [snapshot EXCEPT !.stale = TRUE] /\ told' = told
    BY <1>1, <1>6, Zenon DEF IInv, Typed, SnapshotType
  <2>2. PICK b \in BOOLEAN : b = TRUE
    BY Zenon
  <2>3. snapshot' = [lists |-> snapshot.lists, errors |-> snapshot.errors,
          asof |-> snapshot.asof, age |-> snapshot.age, stale |-> b]
    BY <2>1, <2>2, Zenon DEF SnapshotType
  <2> QED BY <1>1, <1>6, <2>1, <2>3, SameSnapshot, Zenon DEF IInv
<1> QED BY <1>4, <1>5, <1>6, Zenon

\* An admin write: what was polled before it is not served once its Invalidate returns.
LEMMA WriteStep ==
  ASSUME IInv, NEW new \in Seq(ProviderType), Write(new)
  PROVE  IInv'
<1>1. /\ providers' = new /\ dirty' = dirty + 1 /\ changes' = changes + 1
      /\ UNCHANGED <<upstream, lock, poll, snapshot, told>>
  BY Zenon DEF Write
<1>2. dirty \in Nat /\ changes \in Nat
  BY Zenon DEF IInv, Typed
<1>3. dirty' \in Nat /\ changes' \in Nat /\ dirty' # 0
  BY <1>1, <1>2
<1>4. Typed'
  BY <1>1, <1>3, Zenon DEF IInv, Typed
<1>5. PollCurrent' /\ PolledAfterChange'
  BY <1>3, Zenon DEF PollCurrent, PolledAfterChange
<1>6. EventsTellTheCatalog'
  BY <1>1, Zenon DEF IInv, EventsTellTheCatalog
<1> QED BY <1>4, <1>5, <1>6, Zenon DEF IInv

LEMMA InvalidateStep ==
  ASSUME IInv, Invalidate
  PROVE  IInv'
<1>1. /\ dirty > 0 /\ lock = None /\ dirty' = dirty - 1 /\ snapshot' = None
      /\ UNCHANGED <<upstream, providers, lock, changes>>
  BY Zenon DEF Invalidate
<1>2. dirty \in Nat
  BY Zenon DEF IInv, Typed
<1>3. dirty' \in Nat
  BY <1>1, <1>2
<1> QED BY <1>1, <1>3, Zenon DEF IInv, Typed, PollCurrent, PolledAfterChange, EventsTellTheCatalog

LEMMA TickStep ==
  ASSUME IInv, Tick
  PROVE  IInv'
<1>1. /\ lock = None /\ snapshot # None /\ snapshot' = [snapshot EXCEPT !.age = @ + 1]
      /\ UNCHANGED <<upstream, providers, dirty, lock, told, changes>>
  BY Zenon DEF Tick
<1>2. snapshot \in SnapshotType /\ snapshot.age \in Nat /\ snapshot.stale \in BOOLEAN
  BY <1>1, Zenon DEF IInv, Typed, SnapshotType
<1>3. PICK n \in Nat : n = snapshot.age + 1
  BY <1>2
<1>4. snapshot' = [lists |-> snapshot.lists, errors |-> snapshot.errors,
        asof |-> snapshot.asof, age |-> n, stale |-> snapshot.stale]
  BY <1>1, <1>2, <1>3, Zenon DEF SnapshotType
<1>5. snapshot' \in SnapshotType /\ PolledAfterChange' /\ EventsTellTheCatalog'
  BY <1>1, <1>2, <1>4, SameSnapshot, Zenon DEF IInv
<1> QED BY <1>1, <1>5, Zenon DEF IInv, Typed, PollCurrent

\* Changes of the list of providers.
LEMMA ProvidersStep ==
  ASSUME IInv, \/ \E n \in Names, on \in BOOLEAN : CreateProvider(n, on)
               \/ \E i \in DOMAIN providers : DeleteProvider(i)
               \/ \E i \in DOMAIN providers, on \in BOOLEAN : UpdateProvider(i, on)
  PROVE  IInv'
<1>0. providers \in Seq(ProviderType)
  BY Zenon DEF IInv, Typed
<1>1. ASSUME NEW n \in Names, NEW on \in BOOLEAN, CreateProvider(n, on) PROVE IInv'
  <2>1. PICK p : p = [name |-> n, enabled |-> on]
    BY Zenon
  <2>2. p \in ProviderType
    BY <2>1, Zenon DEF ProviderType
  <2>3. Append(providers, p) \in Seq(ProviderType)
    BY <1>0, <2>2
  <2>4. Write(Append(providers, p))
    BY <1>1, <2>1, Zenon DEF CreateProvider
  <2> QED BY <2>3, <2>4, WriteStep, Zenon
<1>2. ASSUME NEW i \in DOMAIN providers, DeleteProvider(i) PROVE IInv'
  <2>1. i \in 1..Len(providers) /\ Len(providers) \in Nat
    BY <1>0
  <2>2. PICK a, b : a = SubSeq(providers, 1, i - 1) /\ b = SubSeq(providers, i + 1, Len(providers))
    BY Zenon
  <2>3. a \in Seq(ProviderType) /\ b \in Seq(ProviderType)
    BY <1>0, <2>1, <2>2
  <2>4. a \o b \in Seq(ProviderType)
    BY <2>3
  <2>5. Write(a \o b)
    BY <1>2, <2>2, Zenon DEF DeleteProvider
  <2> QED BY <2>4, <2>5, WriteStep, Zenon
<1>3. ASSUME NEW i \in DOMAIN providers, NEW on \in BOOLEAN, UpdateProvider(i, on) PROVE IInv'
  <2>1. PICK p : p = [providers[i] EXCEPT !.enabled = on]
    BY Zenon
  <2>2. providers[i] \in ProviderType
    BY <1>0
  <2>3. p \in ProviderType
    BY <2>1, <2>2, Zenon DEF ProviderType
  <2>4. [providers EXCEPT ![i] = p] \in Seq(ProviderType)
    BY <1>0, <2>3
  <2>5. [providers EXCEPT ![i].enabled = on] = [providers EXCEPT ![i] = p]
    BY <2>1, Zenon
  <2> QED BY <1>3, <2>4, <2>5, WriteStep, Zenon DEF UpdateProvider
<1> QED BY <1>1, <1>2, <1>3, Zenon

LEMMA UpstreamStep ==
  ASSUME IInv, NEW n \in Names, NEW v \in Listings, UpstreamTurns(n, v)
  PROVE  IInv'
<1>1. /\ upstream' = [upstream EXCEPT ![n] = v]
      /\ UNCHANGED <<providers, dirty, lock, poll, snapshot, told, changes>>
  BY Zenon DEF UpstreamTurns
<1>2. upstream' \in [Names -> Listings]
  BY <1>1, Zenon DEF IInv, Typed
<1>3. Typed' /\ PollCurrent'
  BY <1>1, <1>2, Zenon DEF IInv, Typed, PollCurrent
<1> QED BY <1>1, <1>3, SnapshotAlone, Zenon DEF IInv

-----------------------------------------------------------------------------
(* The specification *)

\* However polls, admin writes, their invalidations and changes of the upstream lists
\* interleave, a poll and a snapshot are of the providers as they are unless an
\* Invalidate is still to come.
THEOREM Invariance == Spec => []IInv
<1>1. Init => IInv
  <2> SUFFICES ASSUME Init PROVE IInv
    BY Zenon
  <2>1. /\ upstream \in [Names -> Listings] /\ providers = <<>> /\ dirty = 0 /\ changes = 0
        /\ lock = None /\ snapshot = None
    BY Zenon DEF Init
  <2>2. providers \in Seq(ProviderType) /\ dirty \in Nat /\ changes \in Nat
    BY <2>1
  <2> QED BY <2>1, <2>2, Zenon DEF IInv, Typed, PollCurrent, PolledAfterChange, EventsTellTheCatalog
<1>2. IInv /\ [Next]_vars => IInv'
  <2> SUFFICES ASSUME IInv, [Next]_vars PROVE IInv'
    BY Zenon
  <2>1. CASE UNCHANGED vars
    <3>1. UNCHANGED <<upstream, providers, dirty, lock, poll, snapshot, told, changes>>
      BY <2>1, Zenon DEF vars
    <3>2. Typed' /\ PollCurrent'
      BY <3>1, Zenon DEF IInv, Typed, PollCurrent
    <3> QED BY <3>1, <3>2, SnapshotAlone, Zenon DEF IInv
  <2>2. ASSUME NEW c \in Callers, Get(c) \/ Refresh(c) PROVE IInv'
    BY <2>2, ReloadStep, Zenon DEF Get, Refresh
  <2> QED
    BY <2>1, <2>2, ListModelsStep, InstallStep, ProvidersStep, InvalidateStep, UpstreamStep, TickStep, Zenon
    DEF Next
<1> QED
  BY <1>1, <1>2, PTL DEF Spec

\* Invalidate waits for the poll that is under way: once it has returned for every write,
\* the snapshot served was polled after the last of them and answers for each enabled
\* provider with its models or its error.
THEOREM Current == Spec => []PolledAfterChange
BY Invariance, PTL DEF IInv

\* The model_added and model_removed events are exact: applied in order to the first
\* snapshot they give the models served now.
THEOREM EventsExact == Spec => []EventsTellTheCatalog
BY Invariance, PTL DEF IInv

-----------------------------------------------------------------------------
(* No provider twice *)

Distinct(s) == \A i, j \in DOMAIN s : i # j => s[i].name # s[j].name

\* What a poll has still to ask, what it was told and what failed do not overlap.
PollApart ==
  lock # None =>
    /\ Distinct(poll.todo) /\ Distinct(poll.lists)
    /\ \A n \in ListedIn(poll.todo) : n \notin ListedIn(poll.lists) /\ n \notin poll.errors
    /\ \A n \in ListedIn(poll.lists) : n \notin poll.errors

Clean(snap) ==
  /\ snap.age \in 0..TTL /\ Distinct(snap.lists)
  /\ \A n \in ListedIn(snap.lists) : n \notin snap.errors

Sound ==
  /\ lock \in Callers \cup {None} /\ (lock = None <=> poll = None)
  /\ Distinct(providers) /\ PollApart /\ (snapshot # None => Clean(snapshot))

\* The names of t are some of the names of s, each taken once.
From(s, t, g) ==
  /\ \A j \in DOMAIN t : g[j] \in DOMAIN s /\ t[j].name = s[g[j]].name
  /\ \A j, k \in DOMAIN t : j # k => g[j] # g[k]

LEMMA DistinctFrom ==
  ASSUME NEW s, Distinct(s), NEW t, NEW g, From(s, t, g)
  PROVE  Distinct(t)
<1> SUFFICES ASSUME NEW j \in DOMAIN t, NEW k \in DOMAIN t, j # k PROVE t[j].name # t[k].name
  BY Zenon DEF Distinct
<1>1. /\ g[j] \in DOMAIN s /\ t[j].name = s[g[j]].name /\ g[k] \in DOMAIN s /\ t[k].name = s[g[k]].name
      /\ g[j] # g[k]
  BY Zenon DEF From
<1> QED BY <1>1, Zenon DEF Distinct

LEMMA DistinctTail ==
  ASSUME NEW S, NEW s \in Seq(S), s # <<>>, Distinct(s)
  PROVE  Distinct(Tail(s)) /\ Head(s).name \notin ListedIn(Tail(s))
<1>1. PICK t : t = Tail(s)
  BY Zenon
<1>2. /\ Len(s) \in Nat \ {0} /\ DOMAIN s = 1..Len(s) /\ DOMAIN t = 1..(Len(s) - 1) /\ Head(s) = s[1]
      /\ \A i \in 1..(Len(s) - 1) : t[i] = s[i + 1]
  BY <1>1
<1>3. PICK g : g = [i \in 1..(Len(s) - 1) |-> i + 1]
  BY Zenon
<1>4. \A i \in 1..(Len(s) - 1) : g[i] = i + 1 /\ i + 1 \in 1..Len(s) /\ i + 1 # 1
  BY <1>2, <1>3
<1>5. \A i, j \in 1..(Len(s) - 1) : i # j => i + 1 # j + 1
  BY <1>2
<1>6. Distinct(t)
  <2>1. ASSUME NEW j \in DOMAIN t PROVE g[j] \in DOMAIN s /\ t[j].name = s[g[j]].name
    BY <1>2, <1>4, Zenon
  <2>2. ASSUME NEW j \in DOMAIN t, NEW k \in DOMAIN t, j # k PROVE g[j] # g[k]
    <3>1. j \in 1..(Len(s) - 1) /\ k \in 1..(Len(s) - 1)
      BY <1>2, Zenon
    <3> QED BY <1>4, <1>5, <2>2, <3>1, Zenon
  <2>3. From(s, t, g)
    BY <2>1, <2>2, Zenon DEF From
  <2> QED BY <2>3, DistinctFrom, Zenon
<1>7. 1 \in 1..Len(s)
  BY <1>2
<1>8. ASSUME NEW i \in DOMAIN t PROVE t[i].name # Head(s).name
  <2>1. t[i] = s[i + 1] /\ i + 1 \in DOMAIN s /\ i + 1 # 1 /\ 1 \in DOMAIN s
    BY <1>2, <1>4, <1>7, Zenon
  <2> QED BY <1>2, <2>1, Zenon DEF Distinct
<1>9. Head(s).name \notin ListedIn(t)
  BY <1>8, Zenon DEF ListedIn, Range
<1> QED BY <1>1, <1>6, <1>9, Zenon

LEMMA DistinctAppend ==
  ASSUME NEW S, NEW s \in Seq(S), Distinct(s), NEW x \in S, x.name \notin ListedIn(s)
  PROVE  Distinct(Append(s, x))
<1>1. PICK t : t = Append(s, x)
  BY Zenon
<1>2. /\ Len(s) \in Nat /\ DOMAIN s = 1..Len(s) /\ DOMAIN t = 1..(Len(s) + 1)
      /\ t[Len(s) + 1] = x /\ \A i \in 1..Len(s) : t[i] = s[i]
  BY <1>1
<1>3. \A i \in 1..(Len(s) + 1) : i = Len(s) + 1 \/ i \in 1..Len(s)
  BY <1>2
<1>4. \A i \in 1..Len(s) : t[i].name # x.name
  BY <1>2, Zenon DEF ListedIn, Range
<1>5. ASSUME NEW i \in DOMAIN t, NEW j \in DOMAIN t, i # j PROVE t[i].name # t[j].name
  <2>1. CASE i \in 1..Len(s) /\ j \in 1..Len(s)
    BY <1>2, <1>5, <2>1, Zenon DEF Distinct
  <2>2. CASE i = Len(s) + 1 /\ j \in 1..Len(s)
    BY <1>2, <1>4, <2>2, Zenon
  <2>3. CASE i \in 1..Len(s) /\ j = Len(s) + 1
    BY <1>2, <1>4, <2>3, Zenon
  <2> QED BY <1>2, <1>3, <1>5, <2>1, <2>2, <2>3, Zenon
<1> QED BY <1>1, <1>5, Zenon DEF Distinct

LEMMA DistinctRemoved ==
  ASSUME NEW S, NEW s \in Seq(S), Distinct(s), NEW i \in 1..Len(s)
  PROVE  Distinct(SubSeq(s, 1, i - 1) \o SubSeq(s, i + 1, Len(s)))
<1>0. Len(s) \in Nat /\ DOMAIN s = 1..Len(s)
  OBVIOUS
<1>1. PICK a, b : a = SubSeq(s, 1, i - 1) /\ b = SubSeq(s, i + 1, Len(s))
  BY Zenon
<1>2. a \in Seq(S) /\ Len(a) = i - 1 /\ \A j \in 1..(i - 1) : a[j] = s[j]
  <2>1. a \in Seq(S) /\ Len(a) = i - 1
    BY <1>0, <1>1
  <2>2. ASSUME NEW j \in 1..(i - 1) PROVE a[j] = s[j]
    BY <1>0, <1>1, <2>1
  <2> QED BY <2>1, <2>2, Zenon
<1>3. b \in Seq(S) /\ Len(b) = Len(s) - i /\ \A j \in 1..(Len(s) - i) : b[j] = s[i + j]
  <2>1. PICK n : n = Len(s) /\ n \in Nat
    BY <1>0, Zenon
  <2>2. PICK k : k = i + 1
    BY Zenon
  <2>3. i \in 1..n /\ k \in 1..(n + 1) /\ b = SubSeq(s, k, n)
    BY <1>0, <1>1, <2>1, <2>2
  <2>4. b \in Seq(S) /\ Len(b) = IF k <= n THEN n - k + 1 ELSE 0
    BY <2>1, <2>3
  <2>5. Len(b) = n - i
    BY <2>1, <2>2, <2>3, <2>4
  <2>6. ASSUME NEW j \in 1..(n - i) PROVE b[j] = s[i + j]
    <3>1. k + j - 1 = i + j /\ j \in 1..Len(b)
      BY <2>1, <2>2, <2>3, <2>5
    <3>2. b[j] = s[k + j - 1]
      BY <2>1, <2>3, <2>5
    <3> QED BY <3>1, <3>2, Zenon
  <2> QED BY <2>1, <2>4, <2>5, <2>6, Zenon
<1>4. PICK t : t = a \o b
  BY Zenon
<1>5. /\ DOMAIN t = 1..(Len(s) - 1) /\ \A j \in 1..(i - 1) : t[j] = a[j]
      /\ \A j \in i..(Len(s) - 1) : t[j] = b[j - (i - 1)]
  <2>1. /\ a \in Seq(S) /\ b \in Seq(S) /\ Len(a) = i - 1 /\ Len(b) = Len(s) - i
    BY <1>2, <1>3, Zenon
  <2>2. t \in Seq(S) /\ Len(t) = Len(a) + Len(b) /\ DOMAIN t = 1..Len(t)
    <3>0. a \in Seq(S) /\ b \in Seq(S)
      BY <2>1, Zenon
    <3>1. t \in Seq(S)
      BY <1>4, <3>0
    <3>2. Len(t) = Len(a) + Len(b)
      BY <1>4, <3>0
    <3>3. DOMAIN t = 1..Len(t)
      BY <3>1
    <3> QED BY <3>1, <3>2, <3>3, Zenon
  <2>a. Len(t) = Len(s) - 1
    BY <1>0, <2>1, <2>2
  <2>3. ASSUME NEW j \in 1..(i - 1) PROVE t[j] = a[j]
    BY <1>0, <1>4, <2>1
  <2>4. ASSUME NEW j \in i..(Len(s) - 1) PROVE t[j] = b[j - (i - 1)]
    BY <1>0, <1>4, <2>1
  <2> QED BY <2>2, <2>a, <2>3, <2>4, Zenon
<1>6. PICK g : g = [j \in 1..(Len(s) - 1) |-> IF j < i THEN j ELSE j + 1]
  BY Zenon
<1>7. ASSUME NEW j \in 1..(Len(s) - 1) PROVE g[j] \in 1..Len(s) /\ t[j] = s[g[j]]
  <2>1. CASE j < i
    <3>1. j \in 1..(i - 1) /\ g[j] = j /\ j \in 1..Len(s)
      BY <1>0, <1>6, <2>1
    <3> QED BY <1>2, <1>5, <3>1, Zenon
  <2>2. CASE ~(j < i)
    <3>1. j \in i..(Len(s) - 1) /\ g[j] = j + 1 /\ j + 1 \in 1..Len(s)
      BY <1>0, <1>6, <2>2
    <3>2. j - (i - 1) \in 1..(Len(s) - i) /\ i + (j - (i - 1)) = j + 1
      BY <1>0, <2>2
    <3> QED BY <1>3, <1>5, <3>1, <3>2, Zenon
  <2> QED BY <2>1, <2>2, Zenon
<1>8. \A j, k \in 1..(Len(s) - 1) : j # k => g[j] # g[k]
  BY <1>0, <1>6
<1>9. \A j \in DOMAIN t : g[j] \in DOMAIN s /\ t[j].name = s[g[j]].name
  BY <1>0, <1>5, <1>7, Zenon
<1>10. \A j, k \in DOMAIN t : j # k => g[j] # g[k]
  BY <1>5, <1>8, Zenon
<1>11. From(s, t, g)
  BY <1>9, <1>10, Zenon DEF From
<1>12. Distinct(t)
  BY <1>11, DistinctFrom, Zenon
<1> QED BY <1>1, <1>4, <1>12, Zenon

LEMMA ReloadSound ==
  ASSUME IInv, Sound, NEW c \in Callers, Reload(c)
  PROVE  Sound'
<1>1. /\ lock' = c /\ poll' = [todo |-> providers, lists |-> <<>>, errors |-> {}, asof |-> changes]
      /\ UNCHANGED <<providers, snapshot>>
  BY Zenon DEF Reload
<1>2. c # None /\ None \notin PollType
  BY CatalogSettings, Zenon
<1>3. lock' # None /\ poll' # None
  <2>1. lock' # None => poll' \in PollType
    BY ReloadStep, Zenon DEF IInv, Typed
  <2> QED BY <1>1, <1>2, <2>1, Zenon
<1>4. poll'.todo = providers /\ poll'.lists = <<>> /\ poll'.errors = {}
  BY <1>1, Zenon
<1>5. Distinct(<<>>) /\ ListedIn(<<>>) = {}
  BY DEF Distinct, ListedIn, Range
<1>6. PollApart'
  BY <1>1, <1>4, <1>5, Zenon DEF Sound, PollApart
<1> QED BY <1>1, <1>3, <1>6, Zenon DEF Sound

LEMMA ListModelsSound ==
  ASSUME IInv, Sound, ListModels
  PROVE  Sound'
<1> DEFINE p == Head(poll.todo)
<1> DEFINE answers == upstream[p.name] # None
<1> DEFINE one == [name |-> p.name, ids |-> upstream[p.name]]
<1> DEFINE rest == Tail(poll.todo)
<1>1. /\ lock # None /\ poll.todo # <<>>
      /\ poll' = [todo |-> rest, asof |-> poll.asof,
                  lists |-> IF p.enabled /\ answers THEN Append(poll.lists, one) ELSE poll.lists,
                  errors |-> IF p.enabled /\ ~answers THEN poll.errors \cup {p.name} ELSE poll.errors]
      /\ UNCHANGED <<upstream, providers, lock, snapshot>>
  BY Zenon DEF ListModels
<1>2. poll \in PollType /\ poll.todo \in Seq(ProviderType) /\ poll.lists \in Seq(ListType)
  BY <1>1, Zenon DEF IInv, Typed, PollType
<1>3. /\ p \in ProviderType /\ Range(poll.todo) = {p} \cup Range(rest)
  BY <1>1, <1>2, HeadAndTail, Zenon
<1>4. Distinct(rest) /\ p.name \notin ListedIn(rest)
  BY <1>1, <1>2, DistinctTail, Zenon DEF Sound, PollApart
<1>5. answers => one \in ListType
  <2> HIDE DEF p
  <2>1. p.name \in Names
    BY <1>3, Zenon DEF ProviderType
  <2>2. answers => upstream[p.name] \in SUBSET Ids
    BY <2>1, Zenon DEF Listings, IInv, Typed
  <2> QED BY <2>1, <2>2, Zenon DEF ListType
<1>6. one.name = p.name
  BY Zenon
<1> HIDE DEF p, one, rest
<1>7. ListedIn(poll.todo) = {p.name} \cup ListedIn(rest)
  BY <1>3, Zenon DEF ListedIn
<1>8. /\ Distinct(poll.lists) /\ p.name \notin ListedIn(poll.lists) /\ p.name \notin poll.errors
      /\ \A n \in ListedIn(rest) : n # p.name /\ n \notin ListedIn(poll.lists) /\ n \notin poll.errors
      /\ \A n \in ListedIn(poll.lists) : n # p.name /\ n \notin poll.errors
  BY <1>1, <1>4, <1>7, Zenon DEF Sound, PollApart
<1>9. poll'.todo = rest
  BY <1>1, Zenon
<1>10. PollApart'
  <2>1. CASE p.enabled /\ answers
    <3>1. poll'.lists = Append(poll.lists, one) /\ poll'.errors = poll.errors /\ one \in ListType
      BY <1>1, <1>5, <2>1, Zenon
    <3>2. Distinct(Append(poll.lists, one))
      BY <1>2, <1>6, <1>8, <3>1, DistinctAppend, Zenon
    <3>3. Range(Append(poll.lists, one)) = Range(poll.lists) \cup {one}
      BY <1>2, <3>1, Appended
    <3>4. ListedIn(Append(poll.lists, one)) = ListedIn(poll.lists) \cup {p.name}
      BY <1>6, <3>3, Zenon DEF ListedIn
    <3> QED BY <1>4, <1>8, <1>9, <3>1, <3>2, <3>4, Zenon DEF PollApart
  <2>2. CASE p.enabled /\ ~answers
    <3>1. poll'.lists = poll.lists /\ poll'.errors = poll.errors \cup {p.name}
      BY <1>1, <2>2, Zenon
    <3> QED BY <1>4, <1>8, <1>9, <3>1, Zenon DEF PollApart
  <2>3. CASE ~p.enabled
    <3>1. poll'.lists = poll.lists /\ poll'.errors = poll.errors
      BY <1>1, <2>3, Zenon
    <3> QED BY <1>4, <1>8, <1>9, <3>1, Zenon DEF PollApart
  <2> QED BY <2>1, <2>2, <2>3, Zenon
<1>11. poll' # None
  <2>1. poll' \in PollType
    BY <1>1, ListModelsStep, Zenon DEF IInv, Typed
  <2> QED BY <2>1, CatalogSettings, Zenon
<1> QED BY <1>1, <1>10, <1>11, Zenon DEF Sound

LEMMA InstallSound ==
  ASSUME IInv, Sound, Install
  PROVE  Sound'
<1> DEFINE fresh == [lists |-> poll.lists, errors |-> poll.errors, asof |-> poll.asof,
                     age |-> 0, stale |-> FALSE]
<1>1. /\ lock # None /\ lock' = None /\ poll' = None /\ UNCHANGED providers
      /\ \/ snapshot' = fresh
         \/ snapshot' = None
         \/ snapshot # None /\ snapshot' = [snapshot EXCEPT !.stale = TRUE]
  BY Zenon DEF Install
<1>2. Clean(fresh)
  <2>1. 0 \in 0..TTL
    BY CatalogSettings
  <2>2. fresh.age = 0 /\ fresh.lists = poll.lists /\ fresh.errors = poll.errors
    BY Zenon
  <2> QED BY <1>1, <2>1, <2>2, Zenon DEF Sound, PollApart, Clean
<1>3. ASSUME snapshot # None, snapshot' = [snapshot EXCEPT !.stale = TRUE] PROVE Clean(snapshot')
  <2>1. snapshot \in SnapshotType
    BY <1>3, Zenon DEF IInv, Typed
  <2>2. snapshot'.age = snapshot.age /\ snapshot'.lists = snapshot.lists /\ snapshot'.errors = snapshot.errors
    BY <1>3, <2>1, Zenon DEF SnapshotType
  <2> QED BY <1>3, <2>2, Zenon DEF Sound, Clean
<1> HIDE DEF fresh
<1>4. snapshot' # None => Clean(snapshot')
  BY <1>1, <1>2, <1>3, Zenon
<1> QED BY <1>1, <1>4, Zenon DEF Sound, PollApart

LEMMA WriteSound ==
  ASSUME Sound, NEW new, Distinct(new), Write(new)
  PROVE  Sound'
<1>1. providers' = new /\ UNCHANGED <<lock, poll, snapshot>>
  BY Zenon DEF Write
<1> QED BY <1>1, Zenon DEF Sound, PollApart

LEMMA ProvidersSound ==
  ASSUME IInv, Sound, \/ \E n \in Names, on \in BOOLEAN : CreateProvider(n, on)
                      \/ \E i \in DOMAIN providers : DeleteProvider(i)
                      \/ \E i \in DOMAIN providers, on \in BOOLEAN : UpdateProvider(i, on)
  PROVE  Sound'
<1>0. providers \in Seq(ProviderType) /\ Distinct(providers)
  BY Zenon DEF IInv, Typed, Sound
<1>1. ASSUME NEW n \in Names, NEW on \in BOOLEAN, CreateProvider(n, on) PROVE Sound'
  <2>1. PICK p : p = [name |-> n, enabled |-> on]
    BY Zenon
  <2>2. p \in ProviderType /\ p.name = n
    BY <2>1, Zenon DEF ProviderType
  <2>3. n \notin ListedIn(providers)
    BY <1>1, Zenon DEF CreateProvider, ListedIn, Range
  <2>4. Distinct(Append(providers, p))
    BY <1>0, <2>2, <2>3, DistinctAppend, Zenon
  <2>5. Write(Append(providers, p))
    BY <1>1, <2>1, Zenon DEF CreateProvider
  <2> QED BY <2>4, <2>5, WriteSound, Zenon
<1>2. ASSUME NEW i \in DOMAIN providers, DeleteProvider(i) PROVE Sound'
  <2>1. i \in 1..Len(providers)
    BY <1>0
  <2>2. Distinct(SubSeq(providers, 1, i - 1) \o SubSeq(providers, i + 1, Len(providers)))
    BY <1>0, <2>1, DistinctRemoved, Zenon
  <2> QED BY <1>2, <2>2, WriteSound, Zenon DEF DeleteProvider
<1>3. ASSUME NEW i \in DOMAIN providers, NEW on \in BOOLEAN, UpdateProvider(i, on) PROVE Sound'
  <2>1. PICK t : t = [providers EXCEPT ![i].enabled = on]
    BY Zenon
  <2>2. \A j \in DOMAIN providers : providers[j] \in ProviderType
    BY <1>0
  <2>3. DOMAIN t = DOMAIN providers
    BY <2>1, Zenon
  <2>4. ASSUME NEW j \in DOMAIN providers PROVE t[j].name = providers[j].name
    <3>1. CASE j = i
      <4>1. t[j] = [providers[j] EXCEPT !.enabled = on]
        BY <2>1, <3>1, Zenon
      <4> QED BY <2>2, <4>1, Zenon DEF ProviderType
    <3>2. CASE j # i
      BY <2>1, <3>2, Zenon
    <3> QED BY <3>1, <3>2, Zenon
  <2>5. Distinct(t)
    BY <1>0, <2>3, <2>4, Zenon DEF Distinct
  <2>6. Write(t)
    BY <1>3, <2>1, Zenon DEF UpdateProvider
  <2> QED BY <2>5, <2>6, WriteSound, Zenon
<1> QED BY <1>1, <1>2, <1>3, Zenon

LEMMA TickSound ==
  ASSUME IInv, Sound, Tick
  PROVE  Sound'
<1>1. /\ lock = None /\ snapshot # None /\ snapshot.age < TTL /\ snapshot' = [snapshot EXCEPT !.age = @ + 1]
      /\ UNCHANGED <<providers, lock, poll>>
  BY Zenon DEF Tick
<1>2. snapshot \in SnapshotType /\ Clean(snapshot)
  BY <1>1, Zenon DEF IInv, Typed, Sound
<1>3. /\ snapshot'.age = snapshot.age + 1 /\ snapshot'.lists = snapshot.lists
      /\ snapshot'.errors = snapshot.errors
  BY <1>1, <1>2, Zenon DEF SnapshotType
<1>4. PICK a : a = snapshot.age /\ a \in 0..TTL /\ a < TTL
  BY <1>1, <1>2, Zenon DEF Clean
<1>5. a + 1 \in 0..TTL
  BY <1>4, CatalogSettings
<1>6. Clean(snapshot')
  BY <1>2, <1>3, <1>4, <1>5, Zenon DEF Clean
<1> QED BY <1>1, <1>6, Zenon DEF Sound, PollApart

\* The lock of a tenant is held exactly while a poll is built, the store, a poll and a
\* snapshot hold a provider once, as listed or as failed, and no snapshot outlives the TTL.
THEOREM NoProviderTwice == Spec => []TypeOK
<1>1. Init => Sound
  <2> SUFFICES ASSUME Init PROVE Sound
    BY Zenon
  <2>1. providers = <<>> /\ lock = None /\ poll = None /\ snapshot = None
    BY Zenon DEF Init
  <2>2. Distinct(<<>>)
    BY DEF Distinct
  <2> QED BY <2>1, <2>2, Zenon DEF Sound, PollApart
<1>2. IInv /\ Sound /\ [Next]_vars => Sound'
  <2> SUFFICES ASSUME IInv, Sound, [Next]_vars PROVE Sound'
    BY Zenon
  <2>1. ASSUME UNCHANGED <<lock, poll, providers, snapshot>> PROVE Sound'
    BY <2>1, Zenon DEF Sound, PollApart
  <2>2. CASE UNCHANGED vars
    BY <2>1, <2>2, Zenon DEF vars
  <2>3. ASSUME NEW c \in Callers, Get(c) \/ Refresh(c) PROVE Sound'
    BY <2>3, ReloadSound, Zenon DEF Get, Refresh
  <2>4. ASSUME NEW n \in Names, NEW v \in Listings, UpstreamTurns(n, v) PROVE Sound'
    BY <2>1, <2>4, Zenon DEF UpstreamTurns
  <2>5. CASE Invalidate
    BY <2>5, Zenon DEF Invalidate, Sound, PollApart
  <2> QED
    BY <2>2, <2>3, <2>4, <2>5, ListModelsSound, InstallSound, ProvidersSound, TickSound, Zenon DEF Next
<1>3. Sound => TypeOK
  <2> SUFFICES ASSUME Sound PROVE TypeOK
    BY Zenon
  <2>1. ASSUME snapshot # None, NEW i \in DOMAIN snapshot.lists
        PROVE  snapshot.lists[i].name \notin snapshot.errors
    <3>1. snapshot.lists[i].name \in ListedIn(snapshot.lists)
      BY Zenon DEF ListedIn, Range
    <3> QED BY <2>1, <3>1, Zenon DEF Sound, Clean
  <2> QED BY <2>1, Zenon DEF Sound, Clean, Distinct, TypeOK
<1> QED BY <1>1, <1>2, <1>3, Invariance, PTL DEF Spec

-----------------------------------------------------------------------------
(* Routing.  Well-founded and finite sets are met from here on. *)

INSTANCE WellFoundedInduction
INSTANCE FiniteSetTheorems

\* A set of naturals that has an element has a least one.
LEMMA Least ==
  ASSUME NEW T, T \subseteq Nat, T # {}
  PROVE  \E x \in T : \A y \in T : x <= y
<1> DEFINE R == OpToRel(<, Nat)
<1>1. IsWellFoundedOn(R, Nat)
  BY NatLessThanWellFounded, Zenon
<1>2. PICK x \in T : \A y \in T : ~(<<y, x>> \in R)
  <2> HIDE DEF R
  <2> QED BY <1>1, WFMin, Zenon
<1>3. \A y \in T : ~(y < x)
  BY <1>2, Zenon DEF OpToRel
<1> QED BY <1>3

\* A set that has 0, and with a number below N the next one, has every number up to N.
LEMMA UpTo ==
  ASSUME NEW N \in Nat, NEW T, 0 \in T, \A n \in 0..(N - 1) : n \in T => n + 1 \in T
  PROVE  0..N \subseteq T
<1> DEFINE U == (0..N) \ T
<1>1. SUFFICES ASSUME U # {} PROVE FALSE
  BY Zenon
<1>2. U \subseteq Nat
  OBVIOUS
<1>3. PICK x \in U : \A y \in U : x <= y
  <2> HIDE DEF U
  <2> QED BY <1>1, <1>2, Least, Zenon
<1>4. x \in 0..N /\ x \notin T /\ x # 0
  BY <1>3, Zenon
<1>5. x - 1 \in 0..(N - 1) /\ x - 1 \in 0..N /\ ~(x <= x - 1) /\ (x - 1) + 1 = x
  <2> HIDE DEF U
  <2> QED BY <1>4
<1>6. x - 1 \in T
  BY <1>3, <1>5, Zenon
<1> QED BY <1>4, <1>5, <1>6, Zenon

\* Values each from the one before by a function of the position; they exist.
Stepwise(f, N, V, v, G) ==
  f \in [0..N -> V] /\ f[0] = v /\ \A i \in 1..N : f[i] = G[<<i, f[i - 1]>>]

LEMMA Recursion ==
  ASSUME NEW N \in Nat, NEW V, NEW v \in V, NEW G \in [(1..N) \X V -> V]
  PROVE  \E f : Stepwise(f, N, V, v, G)
<1> DEFINE P(n) == \E f \in [0..n -> V] : f[0] = v /\ \A i \in 1..n : f[i] = G[<<i, f[i - 1]>>]
<1> DEFINE T == {n \in 0..N : P(n)}
<1>1. 0 \in T
  <2>1. PICK f : f = [i \in 0..0 |-> v]
    BY Zenon
  <2>2. f \in [0..0 -> V] /\ f[0] = v /\ \A i \in 1..0 : f[i] = G[<<i, f[i - 1]>>]
    BY <2>1
  <2>3. P(0) /\ 0 \in 0..N
    BY <2>2
  <2> QED BY <2>3, Zenon
<1>2. ASSUME NEW n \in 0..(N - 1), n \in T PROVE n + 1 \in T
  <2>1. PICK f \in [0..n -> V] : f[0] = v /\ \A i \in 1..n : f[i] = G[<<i, f[i - 1]>>]
    BY <1>2, Zenon
  <2>a. n \in Nat /\ n + 1 \in 1..N /\ n + 1 \in 0..N /\ n \in 0..n
    OBVIOUS
  <2>2. PICK w \in V : w = G[<<n + 1, f[n]>>]
    <3>1. <<n + 1, f[n]>> \in (1..N) \X V
      BY <2>1, <2>a, Zenon
    <3> QED BY <3>1, Zenon
  <2>3. PICK g : g = [i \in 0..(n + 1) |-> IF i = n + 1 THEN w ELSE f[i]]
    BY Zenon
  <2>4. g \in [0..(n + 1) -> V]
    BY <2>a, <2>2, <2>3
  <2>5. g[n + 1] = w /\ \A i \in 0..n : g[i] = f[i]
    BY <2>a, <2>3
  <2>6. g[0] = v
    BY <2>1, <2>5, <2>a
  <2>7. ASSUME NEW i \in 1..(n + 1) PROVE g[i] = G[<<i, g[i - 1]>>]
    <3>1. CASE i = n + 1
      <4>1. i - 1 = n
        BY <2>a, <3>1
      <4> QED BY <2>2, <2>5, <2>a, <3>1, <4>1, Zenon
    <3>2. CASE i # n + 1
      <4>1. i \in 1..n /\ i \in 0..n /\ i - 1 \in 0..n
        BY <2>a, <3>2
      <4> QED BY <2>1, <2>5, <4>1, Zenon
    <3> QED BY <3>1, <3>2, Zenon
  <2>8. P(n + 1)
    BY <2>4, <2>6, <2>7, Zenon
  <2> QED BY <2>8, <2>a, Zenon
<1>3. N \in 0..N
  OBVIOUS
<1> HIDE DEF P
<1>4. 0..N \subseteq T
  <2> HIDE DEF T
  <2> QED BY <1>1, <1>2, UpTo, Zenon
<1>5. P(N)
  BY <1>3, <1>4, Zenon
<1> QED BY <1>5, Zenon DEF P, Stepwise

LEMMA FirstIsIn ==
  ASSUME NEW K, K \subseteq Nat, K # {}
  PROVE  First(K) \in K /\ \A k \in K : First(K) <= k
BY Least, Zenon DEF First

-----------------------------------------------------------------------------
(* References and entries *)

\* A provider of the snapshot lists the model of a candidate for it.
Listed(snap, c) ==
  \E j \in DOMAIN snap.lists : snap.lists[j].name = c.provider /\ c.model \in snap.lists[j].ids

LEMMA ListsTyped ==
  ASSUME NEW snap \in SnapshotType
  PROVE  /\ DOMAIN snap.lists \subseteq Nat
         /\ \A i \in DOMAIN snap.lists : snap.lists[i].name \in Names /\ snap.lists[i].ids \subseteq Ids
<1>1. snap.lists \in Seq(ListType)
  BY Zenon DEF SnapshotType
<1>2. DOMAIN snap.lists \subseteq Nat /\ \A i \in DOMAIN snap.lists : snap.lists[i] \in ListType
  BY <1>1
<1> QED BY <1>2, Zenon DEF ListType

\* A reference that is claimed is looked up, and found at its first claim.
LEMMA Found ==
  ASSUME NEW snap \in SnapshotType, NEW ref, Claims(snap, ref) # {}
  PROVE  /\ First(Claims(snap, ref)) \in Claims(snap, ref)
         /\ First(Claims(snap, ref)) \in DOMAIN snap.lists
         /\ Lookup(snap, ref) = [id |-> ref, provider |-> snap.lists[First(Claims(snap, ref))].name]
<1>1. Claims(snap, ref) \subseteq DOMAIN snap.lists
  BY Zenon DEF Claims
<1>2. Claims(snap, ref) \subseteq Nat
  BY <1>1, ListsTyped, Zenon
<1>3. First(Claims(snap, ref)) \in Claims(snap, ref)
  BY <1>2, FirstIsIn, Zenon
<1> QED BY <1>1, <1>3, Zenon DEF Lookup

\* An id is its own model, and so is one behind the name of its provider.
LEMMA Models ==
  ASSUME NEW i \in Ids, NEW n
  PROVE  ProviderOf(i) = i /\ ProviderOf(<<n>> \o i) = i
<1>1. PICK x : i = <<x>>
  BY CatalogSettings, Zenon
<1>2. ProviderOf(<<x>>) = <<x>>
  BY DEF ProviderOf
<1>3. PICK s : s = <<n>> \o <<x>>
  BY Zenon
<1>4. s \in Seq({n, x})
  BY <1>3
<1>5. Len(s) = 2
  BY <1>3
<1>6. s[1] = n
  BY <1>3
<1>7. s[2] = x
  BY <1>3
<1>8. s = <<s[1], s[2]>>
  BY <1>4, <1>5
<1>9. s = <<n, x>>
  BY <1>6, <1>7, <1>8, Zenon
<1>10. Tail(<<n, x>>) = <<x>> /\ 2 > 1
  OBVIOUS
<1>11. ProviderOf(s) = <<x>>
  BY <1>5, <1>9, <1>10, Zenon DEF ProviderOf
<1> QED BY <1>1, <1>2, <1>3, <1>11, Zenon

LEMMA LookupListed ==
  ASSUME NEW snap \in SnapshotType, NEW ref, Lookup(snap, ref) # None
  PROVE  Listed(snap, Candidate(Lookup(snap, ref)))
<1>1. Claims(snap, ref) # {}
  BY Zenon DEF Lookup
<1>2. PICK f : f = First(Claims(snap, ref))
  BY Zenon
<1>3. /\ f \in Claims(snap, ref) /\ f \in DOMAIN snap.lists
      /\ Lookup(snap, ref) = [id |-> ref, provider |-> snap.lists[f].name]
  BY <1>1, <1>2, Found, Zenon
<1>4. /\ Candidate(Lookup(snap, ref)).provider = snap.lists[f].name
      /\ Candidate(Lookup(snap, ref)).model = ProviderOf(ref)
  <2>1. PICK e : e = Lookup(snap, ref)
    BY Zenon
  <2>a. PICK p : p = snap.lists[f].name
    BY Zenon
  <2>b. e = [id |-> ref, provider |-> p]
    BY <1>3, <2>1, <2>a, Zenon
  <2>c. e.id = ref /\ e.provider = p
    BY <2>b
  <2>2. e.id = ref /\ e.provider = snap.lists[f].name
    BY <2>a, <2>c, Zenon
  <2>3. Candidate(e).provider = e.provider /\ Candidate(e).model = ProviderOf(e.id)
    BY Zenon DEF Candidate
  <2> QED BY <2>1, <2>2, <2>3, Zenon
<1>5. ref \in snap.lists[f].ids \/ \E id \in snap.lists[f].ids : ref = <<snap.lists[f].name>> \o id
  BY <1>3, Zenon DEF Claims
<1>6. snap.lists[f].ids \subseteq Ids
  BY <1>3, ListsTyped, Zenon
<1>7. ProviderOf(ref) \in snap.lists[f].ids
  BY <1>5, <1>6, Models, Zenon
<1> QED BY <1>3, <1>4, <1>7, Zenon DEF Listed

LEMMA EntryFacts ==
  ASSUME NEW snap \in SnapshotType, NEW e \in Entries(snap)
  PROVE  /\ e.id \in Ids /\ e.provider \in Names /\ e = Lookup(snap, e.id) /\ e # None
         /\ Listed(snap, Candidate(e))
<1>1. PICK i \in Ids : Claims(snap, i) # {} /\ e = Lookup(snap, i)
  BY Zenon DEF Entries
<1>2. PICK f : f = First(Claims(snap, i))
  BY Zenon
<1>3. f \in DOMAIN snap.lists /\ e = [id |-> i, provider |-> snap.lists[f].name]
  BY <1>1, <1>2, Found, Zenon
<1>4. snap.lists[f].name \in Names
  BY <1>3, ListsTyped, Zenon
<1>5. e.id = i /\ e.provider = snap.lists[f].name
  BY <1>3, Zenon
<1>6. e \in [id : Refs, provider : Names]
  BY <1>3, <1>4, Zenon DEF Refs
<1>7. e # None
  BY <1>6, RoutingSettings, Zenon
<1>8. Listed(snap, Candidate(e))
  BY <1>1, <1>7, LookupListed, Zenon
<1> QED BY <1>1, <1>4, <1>5, <1>7, <1>8, Zenon

LEMMA EntriesFinite ==
  ASSUME NEW snap \in SnapshotType
  PROVE  IsFiniteSet(Entries(snap))
<1>1. PICK g : g = [e \in Entries(snap) |-> e.id]
  BY Zenon
<1>2. g \in [Entries(snap) -> Ids]
  BY <1>1, EntryFacts, Zenon
<1>3. ASSUME NEW e \in Entries(snap), NEW f \in Entries(snap), g[e] = g[f] PROVE e = f
  <2>1. e.id = f.id
    BY <1>1, <1>3, Zenon
  <2> QED BY <2>1, EntryFacts, Zenon
<1>4. g \in Injection(Entries(snap), Ids)
  BY <1>2, <1>3, Zenon DEF Injection, IsInjective
<1> QED BY <1>4, FS_Injection, RoutingSettings, Zenon

-----------------------------------------------------------------------------
(* The selection order of an alias *)

Prec(x, r, c, p, s, d, q) ==
  IF r # s THEN r < s
  ELSE IF c # d THEN IF x = "best" THEN c > d ELSE c < d
  ELSE p < q

LEMMA Lexical ==
  ASSUME NEW x, NEW r \in Nat, NEW c \in Nat, NEW p \in Nat, NEW s \in Nat, NEW d \in Nat, NEW q \in Nat,
         NEW t \in Nat, NEW b \in Nat, NEW u \in Nat
  PROVE  /\ ~Prec(x, r, c, p, r, c, p)
         /\ Prec(x, r, c, p, s, d, q) /\ Prec(x, s, d, q, t, b, u) => Prec(x, r, c, p, t, b, u)
         /\ p # q => Prec(x, r, c, p, s, d, q) \/ Prec(x, s, d, q, r, c, p)
<1>1. CASE x = "best"
  BY <1>1 DEF Prec
<1>2. CASE x # "best"
  BY <1>2 DEF Prec
<1> QED BY <1>1, <1>2, Zenon

LEMMA RankTyped ==
  ASSUME NEW a \in AliasDefs, NEW e
  PROVE  RankOf(a, e) \in Nat
<1> DEFINE at == {i \in DOMAIN a.prefers : a.prefers[i] = e.provider}
<1>1. Len(a.prefers) \in Nat /\ DOMAIN a.prefers = 1..Len(a.prefers)
  BY RoutingSettings, Zenon
<1>2. at \subseteq Nat
  BY <1>1
<1>3. Len(a.prefers) + 1 \in Nat
  BY <1>1
<1>4. at # {} => First(at) \in Nat
  <2> HIDE DEF at
  <2> QED BY <1>2, FirstIsIn, Zenon
<1> QED BY <1>3, <1>4, Zenon DEF RankOf

\* The order is strict and total on the entries E.
Ordered(a, E) ==
  \A e, f, g \in E : /\ ~Before(a, e, e)
                     /\ Before(a, e, f) /\ Before(a, f, g) => Before(a, e, g)
                     /\ e # f => Before(a, e, f) \/ Before(a, f, e)

LEMMA SelectionOrder ==
  ASSUME NEW snap \in SnapshotType, NEW a \in AliasDefs
  PROVE  Ordered(a, Entries(snap))
<1> SUFFICES ASSUME NEW e \in Entries(snap), NEW f \in Entries(snap), NEW g \in Entries(snap)
             PROVE  /\ ~Before(a, e, e)
                    /\ Before(a, e, f) /\ Before(a, f, g) => Before(a, e, g)
                    /\ e # f => Before(a, e, f) \/ Before(a, f, e)
  BY Zenon DEF Ordered
<1>1. \A x, y : Before(a, x, y) <=> Prec(a.tier, RankOf(a, x), Cost[x.id], Position[x.id],
                                         RankOf(a, y), Cost[y.id], Position[y.id])
  BY Zenon DEF Before, Prec
<1>2. /\ RankOf(a, e) \in Nat /\ Cost[e.id] \in Nat /\ Position[e.id] \in Nat
      /\ RankOf(a, f) \in Nat /\ Cost[f.id] \in Nat /\ Position[f.id] \in Nat
      /\ RankOf(a, g) \in Nat /\ Cost[g.id] \in Nat /\ Position[g.id] \in Nat
  BY EntryFacts, RankTyped, RoutingSettings, Zenon
<1>3. e # f => Position[e.id] # Position[f.id]
  <2>1. e.id \in Ids /\ f.id \in Ids /\ e = Lookup(snap, e.id) /\ f = Lookup(snap, f.id)
    BY EntryFacts, Zenon
  <2> QED BY <2>1, RoutingSettings, Zenon
<1>4. PICK re, ce, pe : re = RankOf(a, e) /\ ce = Cost[e.id] /\ pe = Position[e.id]
  BY Zenon
<1>5. PICK rf, cf, pf : rf = RankOf(a, f) /\ cf = Cost[f.id] /\ pf = Position[f.id]
  BY Zenon
<1>6. PICK rg, cg, pg : rg = RankOf(a, g) /\ cg = Cost[g.id] /\ pg = Position[g.id]
  BY Zenon
<1>7. /\ re \in Nat /\ ce \in Nat /\ pe \in Nat /\ rf \in Nat /\ cf \in Nat /\ pf \in Nat
      /\ rg \in Nat /\ cg \in Nat /\ pg \in Nat
  BY <1>2, <1>4, <1>5, <1>6, Zenon
<1>8. PICK x : x = a.tier
  BY Zenon
<1>9. /\ ~Prec(x, re, ce, pe, re, ce, pe)
      /\ Prec(x, re, ce, pe, rf, cf, pf) /\ Prec(x, rf, cf, pf, rg, cg, pg) => Prec(x, re, ce, pe, rg, cg, pg)
      /\ pe # pf => Prec(x, re, ce, pe, rf, cf, pf) \/ Prec(x, rf, cf, pf, re, ce, pe)
  BY <1>7, Lexical
<1>10. /\ Before(a, e, e) <=> Prec(x, re, ce, pe, re, ce, pe)
       /\ Before(a, e, f) <=> Prec(x, re, ce, pe, rf, cf, pf)
       /\ Before(a, f, g) <=> Prec(x, rf, cf, pf, rg, cg, pg)
       /\ Before(a, e, g) <=> Prec(x, re, ce, pe, rg, cg, pg)
       /\ Before(a, f, e) <=> Prec(x, rf, cf, pf, re, ce, pe)
  BY <1>1, <1>4, <1>5, <1>6, <1>8, Zenon
<1> QED BY <1>3, <1>4, <1>5, <1>9, <1>10, Zenon

\* The entries before another are fewer.
LEMMA RankGrows ==
  ASSUME NEW a, NEW E, IsFiniteSet(E), Ordered(a, E), NEW e \in E, NEW f \in E, Before(a, e, f)
  PROVE  Rank(a, E, e) \in Nat /\ Rank(a, E, f) \in Nat /\ Rank(a, E, e) < Rank(a, E, f)
<1> DEFINE A == {x \in E : Before(a, x, e)}
<1> DEFINE B == {x \in E : Before(a, x, f)}
<1>1. A \subseteq E /\ B \subseteq E /\ A \subseteq B /\ e \in B /\ e \notin A
  BY Zenon DEF Ordered
<1>2. Rank(a, E, e) = Cardinality(A) /\ Rank(a, E, f) = Cardinality(B)
  BY Zenon DEF Rank
<1> HIDE DEF A, B
<1>3. IsFiniteSet(B)
  BY <1>1, FS_Subset, Zenon
<1>4. Cardinality(A) <= Cardinality(B) /\ Cardinality(A) # Cardinality(B) /\ IsFiniteSet(A)
  BY <1>1, <1>3, FS_Subset, Zenon
<1>5. Cardinality(A) \in Nat /\ Cardinality(B) \in Nat
  BY <1>3, <1>4, FS_CardinalityType, Zenon
<1> QED BY <1>2, <1>4, <1>5

LEMMA SortedOnto ==
  ASSUME NEW a, NEW E, IsFiniteSet(E), Ordered(a, E)
  PROVE  /\ Cardinality(E) \in Nat /\ DOMAIN Sorted(a, E) = 1..Cardinality(E)
         /\ \A i \in 1..Cardinality(E) : Sorted(a, E)[i] \in E
<1>1. PICK n : n = Cardinality(E) /\ n \in Nat
  BY FS_CardinalityType, Zenon
<1>2. ASSUME NEW e \in E PROVE Rank(a, E, e) \in 0..(n - 1)
  <2> DEFINE A == {x \in E : Before(a, x, e)}
  <2>1. A \subseteq E \ {e}
    BY Zenon DEF Ordered
  <2> HIDE DEF A
  <2>2. IsFiniteSet(E \ {e}) /\ Cardinality(E \ {e}) = n - 1
    BY <1>1, FS_RemoveElement, Zenon
  <2>3. IsFiniteSet(A) /\ Cardinality(A) <= Cardinality(E \ {e})
    BY <2>1, <2>2, FS_Subset, Zenon
  <2>4. PICK k : k = Cardinality(A) /\ k \in Nat /\ k <= n - 1
    BY <2>2, <2>3, FS_CardinalityType, Zenon
  <2>5. k \in 0..(n - 1)
    BY <1>1, <2>4
  <2> QED BY <2>4, <2>5, Zenon DEF Rank, A
<1>3. PICK r : r = [e \in E |-> Rank(a, E, e)]
  BY Zenon
<1>4. r \in [E -> 0..(n - 1)]
  BY <1>2, <1>3, Zenon
<1>5. ASSUME NEW e \in E, NEW f \in E, e # f PROVE Rank(a, E, e) # Rank(a, E, f)
  <2>1. ASSUME NEW x \in E, NEW y \in E, Before(a, x, y) PROVE Rank(a, E, x) # Rank(a, E, y)
    <3>1. PICK k, m : k = Rank(a, E, x) /\ m = Rank(a, E, y)
      BY Zenon
    <3>2. k \in Nat /\ m \in Nat /\ k < m
      BY <2>1, <3>1, RankGrows, Zenon
    <3>3. k # m
      BY <3>2
    <3> QED BY <3>1, <3>3, Zenon
  <2>2. Before(a, e, f) \/ Before(a, f, e)
    BY <1>5, Zenon DEF Ordered
  <2> QED BY <2>1, <2>2, Zenon
<1>6. r \in Injection(E, 0..(n - 1))
  <2>1. \A e, f \in E : r[e] = r[f] => e = f
    BY <1>3, <1>5, Zenon
  <2> QED BY <1>4, <2>1, Zenon DEF Injection, IsInjective
<1>7. IsFiniteSet(0..(n - 1)) /\ Cardinality(0..(n - 1)) = n
  <2>1. 0 \in Int /\ n - 1 \in Int
    BY <1>1
  <2>2. IsFiniteSet(0..(n - 1)) /\ Cardinality(0..(n - 1)) = IF 0 > n - 1 THEN 0 ELSE (n - 1) - 0 + 1
    BY <2>1, FS_Interval, Zenon
  <2> QED BY <1>1, <2>2
<1>8. r \in Surjection(E, 0..(n - 1))
  BY <1>1, <1>6, <1>7, FS_Injection, Zenon
<1>9. \A k \in 0..(n - 1) : \E e \in E : r[e] = k
  BY <1>8, Zenon DEF Surjection
<1>10. ASSUME NEW i \in 1..n PROVE Sorted(a, E)[i] \in E
  <2>1. i - 1 \in 0..(n - 1)
    BY <1>1
  <2>2. \E e \in E : Rank(a, E, e) = i - 1
    BY <1>3, <1>9, <2>1, Zenon
  <2>3. Sorted(a, E)[i] = CHOOSE e \in E : Rank(a, E, e) = i - 1
    BY <1>1, Zenon DEF Sorted
  <2> QED BY <2>2, <2>3, Zenon
<1>11. DOMAIN Sorted(a, E) = 1..Cardinality(E)
  BY Zenon DEF Sorted
<1> QED BY <1>1, <1>10, <1>11, Zenon

-----------------------------------------------------------------------------
(* What a reference resolves to *)

\* The candidates of a position: a list that may be empty, each one listed.
Offer(snap, from) ==
  \E n \in Nat : DOMAIN from = 1..n /\ (from = <<>> <=> n = 0) /\ \A j \in 1..n : Listed(snap, from[j])

LEMMA OneOffer ==
  ASSUME NEW snap, NEW c, Listed(snap, c)
  PROVE  Offer(snap, <<c>>)
<1>1. PICK s : s = <<c>>
  BY Zenon
<1>2. DOMAIN s = 1..1 /\ s # <<>> /\ s[1] = c /\ 1 \in Nat /\ 1 # 0
  BY <1>1
<1>3. \A j \in 1..1 : j = 1
  OBVIOUS
<1>4. \A j \in 1..1 : Listed(snap, s[j])
  BY <1>2, <1>3, Zenon
<1> QED BY <1>1, <1>2, <1>4, Zenon DEF Offer

LEMMA NoOffer ==
  ASSUME NEW snap
  PROVE  Offer(snap, <<>>)
<1>1. DOMAIN <<>> = 1..0 /\ 0 \in Nat /\ \A j \in 1..0 : FALSE
  OBVIOUS
<1> QED BY <1>1, Zenon DEF Offer

LEMMA AliasOffer ==
  ASSUME NEW snap \in SnapshotType, NEW a \in AliasDefs
  PROVE  Offer(snap, ResolveAlias(a, snap))
<1>1. CASE a.pin # None /\ Lookup(snap, a.pin) # None
  <2>1. ResolveAlias(a, snap) = <<Candidate(Lookup(snap, a.pin))>>
    BY <1>1, Zenon DEF ResolveAlias
  <2> QED BY <1>1, <2>1, LookupListed, OneOffer, Zenon
<1>2. CASE ~(a.pin # None /\ Lookup(snap, a.pin) # None)
  <2> DEFINE E == {e \in Entries(snap) : e.id \in a.suits}
  <2> DEFINE m == Sorted(a, E)
  <2>1. E \subseteq Entries(snap)
    BY Zenon
  <2>2. ResolveAlias(a, snap) = [i \in DOMAIN m |-> Candidate(m[i])]
    BY <1>2, Zenon DEF ResolveAlias
  <2> HIDE DEF E
  <2>3. IsFiniteSet(E)
    BY <2>1, EntriesFinite, FS_Subset, Zenon
  <2>4. Ordered(a, E)
    BY <2>1, SelectionOrder, Zenon DEF Ordered
  <2>5. PICK n : n = Cardinality(E) /\ n \in Nat /\ DOMAIN m = 1..n /\ \A i \in 1..n : m[i] \in E
    BY <2>3, <2>4, SortedOnto, Zenon
  <2> HIDE DEF m
  <2>6. PICK from : from = [i \in 1..n |-> Candidate(m[i])]
    BY Zenon
  <2>7. DOMAIN from = 1..n /\ \A i \in 1..n : from[i] = Candidate(m[i])
    BY <2>6, Zenon
  <2>8. \A i \in 1..n : Listed(snap, from[i])
    BY <2>1, <2>5, <2>7, EntryFacts, Zenon
  <2>9. from = <<>> <=> n = 0
    BY <2>5, <2>6
  <2> QED BY <2>2, <2>5, <2>6, <2>7, <2>8, <2>9, Zenon DEF Offer
<1> QED BY <1>1, <1>2, Zenon

LEMMA RefOffer ==
  ASSUME NEW snap \in SnapshotType, NEW a \in AliasDefs \cup {None}, NEW ref
  PROVE  Offer(snap, ResolveRef(ref, a, snap))
<1>1. CASE a # None /\ ref = AliasName
  BY <1>1, AliasOffer, Zenon DEF ResolveRef
<1>2. CASE ~(a # None /\ ref = AliasName) /\ Lookup(snap, ref) # None
  BY <1>2, LookupListed, OneOffer, Zenon DEF ResolveRef
<1>3. CASE ~(a # None /\ ref = AliasName) /\ Lookup(snap, ref) = None
  BY <1>3, NoOffer, Zenon DEF ResolveRef
<1> QED BY <1>1, <1>2, <1>3, Zenon

-----------------------------------------------------------------------------
(* What a chain resolves to *)

Good(C, out) == out \in Seq(C) /\ \A i, j \in DOMAIN out : i # j => out[i] # out[j]

Gives(C, from) == \A j \in DOMAIN from : from[j] \in C

LEMMA AppendGood ==
  ASSUME NEW C, NEW out, Good(C, out), NEW c \in C, \A i \in DOMAIN out : out[i] # c
  PROVE  Good(C, Append(out, c)) /\ Append(out, c) # <<>> /\ (out # <<>> => Append(out, c)[1] = out[1])
<1>1. PICK n, s : n = Len(out) /\ s = Append(out, c)
  BY Zenon
<1>2. out \in Seq(C)
  BY Zenon DEF Good
<1>3. n \in Nat /\ DOMAIN out = 1..n
  BY <1>1, <1>2
<1>4. s \in Seq(C) /\ Len(s) = n + 1 /\ DOMAIN s = 1..(n + 1) /\ s[n + 1] = c
  BY <1>1, <1>2
<1>5. ASSUME NEW i \in 1..n PROVE s[i] = out[i]
  BY <1>1, <1>2, <1>5
<1>6. \A i \in DOMAIN s : i \in 1..n \/ i = n + 1
  BY <1>3, <1>4
<1>7. \A i, j \in DOMAIN s : i # j => s[i] # s[j]
  <2> SUFFICES ASSUME NEW i \in DOMAIN s, NEW j \in DOMAIN s, i # j PROVE s[i] # s[j]
    BY Zenon
  <2>1. CASE i \in 1..n /\ j \in 1..n
    BY <1>3, <1>5, <2>1, Zenon DEF Good
  <2>2. CASE i = n + 1 /\ j \in 1..n
    BY <1>3, <1>4, <1>5, <2>2, Zenon
  <2>3. CASE i \in 1..n /\ j = n + 1
    BY <1>3, <1>4, <1>5, <2>3, Zenon
  <2> QED BY <1>6, <2>1, <2>2, <2>3, Zenon
<1>8. s # <<>>
  BY <1>3, <1>4
<1>9. out # <<>> => 1 \in 1..n
  BY <1>1, <1>2
<1>10. out # <<>> => s[1] = out[1]
  BY <1>5, <1>9, Zenon
<1> QED BY <1>1, <1>4, <1>7, <1>8, <1>10, Zenon DEF Good

\* What was taken first stays first; the first candidate of all is taken first.
Kept(out, from, then) ==
  /\ out # <<>> => then # <<>> /\ then[1] = out[1]
  /\ out = <<>> => IF from = <<>> THEN then = <<>> ELSE then # <<>> /\ then[1] = from[1]

LEMMA TakeGood ==
  ASSUME NEW snap, NEW C, NEW out, Good(C, out), NEW from, Offer(snap, from), Gives(C, from)
  PROVE  Good(C, Take(out, from)) /\ Kept(out, from, Take(out, from))
<1>1. PICK n \in Nat : DOMAIN from = 1..n /\ (from = <<>> <=> n = 0)
  BY Zenon DEF Offer
<1>2. PICK new : new = NewIn(out, from)
  BY Zenon
<1>3. new \subseteq 1..n
  BY <1>1, <1>2, Zenon DEF NewIn
<1>4. new \subseteq Nat
  BY <1>3
<1>5. out = <<>> => new = 1..n
  <2>1. DOMAIN <<>> = {}
    OBVIOUS
  <2> QED BY <1>1, <1>2, <2>1, Zenon DEF NewIn
<1>6. CASE Len(out) >= MaxDepth \/ new = {}
  <2>1. Take(out, from) = out
    BY <1>2, <1>6, Zenon DEF Take
  <2>2. out = <<>> => from = <<>>
    <3>1. ~(Len(<<>>) >= MaxDepth)
      BY RoutingSettings
    <3>2. 1..n = {} => n = 0
      <4>1. n # 0 => 1 \in 1..n
        OBVIOUS
      <4> QED BY <4>1, Zenon
    <3> QED BY <1>1, <1>5, <1>6, <3>1, <3>2, Zenon
  <2> QED BY <2>1, <2>2, Zenon DEF Kept
<1>7. CASE ~(Len(out) >= MaxDepth \/ new = {})
  <2>1. PICK j : j = First(new)
    BY Zenon
  <2>2. j \in new /\ \A k \in new : j <= k
    BY <1>4, <1>7, <2>1, FirstIsIn, Zenon
  <2>3. j \in DOMAIN from /\ \A i \in DOMAIN out : out[i] # from[j]
    BY <1>2, <2>2, Zenon DEF NewIn
  <2>4. from[j] \in C
    BY <2>3, Zenon DEF Gives
  <2>5. Take(out, from) = Append(out, from[j])
    BY <1>2, <1>7, <2>1, Zenon DEF Take
  <2>6. /\ Good(C, Append(out, from[j])) /\ Append(out, from[j]) # <<>>
        /\ out # <<>> => Append(out, from[j])[1] = out[1]
    BY <2>3, <2>4, AppendGood, Zenon
  <2>7. ASSUME out = <<>> PROVE from # <<>> /\ Append(out, from[j])[1] = from[1]
    <3>1. new = 1..n
      BY <1>5, <2>7, Zenon
    <3>2. n # 0 /\ j = 1
      <4>1. j \in 1..n /\ \A k \in 1..n : j <= k
        BY <2>2, <3>1, Zenon
      <4>2. 1 \in 1..n
        BY <4>1
      <4>3. j <= 1
        BY <4>1, <4>2, Zenon
      <4> QED BY <4>1, <4>3
    <3>3. \A c : Append(<<>>, c)[1] = c
      OBVIOUS
    <3> QED BY <1>1, <2>7, <3>2, <3>3, Zenon
  <2> QED BY <2>5, <2>6, <2>7, Zenon DEF Kept
<1> QED BY <1>6, <1>7, Zenon

\* The candidates of the positions of a chain.
Offers(chain, a, snap) == [i \in 1..Len(chain) |-> ResolveRef(chain[i], a, snap)]

\* Everything that any of them offers.
All(F) == UNION {Range(F[i]) : i \in DOMAIN F}

Offering(snap, chain, a, F) ==
  /\ DOMAIN F = 1..Len(chain)
  /\ \A i \in 1..Len(chain) : F[i] = ResolveRef(chain[i], a, snap) /\ Offer(snap, F[i]) /\ Gives(All(F), F[i])
  /\ \A c \in All(F) : Listed(snap, c)

LEMMA OffersGive ==
  ASSUME NEW snap \in SnapshotType, NEW a \in AliasDefs \cup {None}, NEW chain, NEW F, F = Offers(chain, a, snap)
  PROVE  Offering(snap, chain, a, F)
<1>1. DOMAIN F = 1..Len(chain) /\ \A i \in 1..Len(chain) : F[i] = ResolveRef(chain[i], a, snap)
  BY Zenon DEF Offers
<1>2. \A i \in 1..Len(chain) : Offer(snap, F[i])
  BY <1>1, RefOffer, Zenon
<1>a. \A c : c \in All(F) <=> \E i \in 1..Len(chain) : c \in Range(F[i])
  BY <1>1, Zenon DEF All
<1>3. \A i \in 1..Len(chain) : Gives(All(F), F[i])
  <2> SUFFICES ASSUME NEW i \in 1..Len(chain), NEW j \in DOMAIN F[i] PROVE F[i][j] \in All(F)
    BY Zenon DEF Gives
  <2>1. F[i][j] \in Range(F[i])
    BY Zenon DEF Range
  <2> QED BY <1>a, <2>1, Zenon
<1>4. ASSUME NEW c \in All(F) PROVE Listed(snap, c)
  <2>1. PICK i \in 1..Len(chain) : c \in Range(F[i])
    BY <1>a, Zenon
  <2>2. PICK j : j \in DOMAIN F[i] /\ c = F[i][j]
    BY <2>1, Zenon DEF Range
  <2>3. Offer(snap, F[i])
    BY <1>2, Zenon
  <2> QED BY <2>2, <2>3, Zenon DEF Offer
<1> QED BY <1>1, <1>2, <1>3, <1>4, Zenon DEF Offering

Taking(t, chain, a, snap) ==
  t[0] = <<>> /\ \A i \in 1..Len(chain) : t[i] = Take(t[i - 1], ResolveRef(chain[i], a, snap))

LEMMA TakenSteps ==
  ASSUME NEW snap \in SnapshotType, NEW a \in AliasDefs \cup {None}, NEW chain, Len(chain) \in Nat
  PROVE  Taking(Taken(chain, a, snap), chain, a, snap)
<1>0. PICK N : N = Len(chain) /\ N \in Nat
  BY Zenon
<1>1. PICK F : F = Offers(chain, a, snap)
  BY Zenon
<1>2. \A i \in 1..N : F[i] = ResolveRef(chain[i], a, snap) /\ Offer(snap, F[i]) /\ Gives(All(F), F[i])
  <2>1. Offering(snap, chain, a, F)
    BY <1>1, OffersGive, Zenon
  <2> QED BY <1>0, <2>1, Zenon DEF Offering
<1> DEFINE C == All(F)
<1> DEFINE V == {out \in Seq(C) : Good(C, out)}
<1> DEFINE D(f) == [i \in 0..N |-> IF i = 0 THEN <<>> ELSE Take(f[i - 1], ResolveRef(chain[i], a, snap))]
<1> HIDE DEF C
<1>3. <<>> \in V
  <2>1. <<>> \in Seq(C) /\ DOMAIN <<>> = {}
    OBVIOUS
  <2>2. Good(C, <<>>)
    BY <2>1, Zenon DEF Good
  <2> QED BY <2>1, <2>2, Zenon
<1>4. PICK G : G = [p \in (1..N) \X V |-> Take(p[2], F[p[1]])]
  BY Zenon
<1>5. G \in [(1..N) \X V -> V]
  <2>1. ASSUME NEW p \in (1..N) \X V PROVE Take(p[2], F[p[1]]) \in V
    <3>1. p[1] \in 1..N /\ p[2] \in V
      BY Zenon
    <3>2. Good(C, p[2]) /\ Offer(snap, F[p[1]]) /\ Gives(C, F[p[1]])
      BY <1>2, <3>1, Zenon DEF C
    <3>3. Good(C, Take(p[2], F[p[1]]))
      BY <3>2, TakeGood, Zenon
    <3> QED BY <3>3, Zenon DEF Good
  <2> QED BY <1>4, <2>1, Zenon
<1> HIDE DEF V
<1>6. PICK f : f \in [0..N -> V] /\ f[0] = <<>> /\ \A i \in 1..N : f[i] = G[<<i, f[i - 1]>>]
  <2>1. \E f : Stepwise(f, N, V, <<>>, G)
    BY <1>0, <1>3, <1>5, Recursion, Zenon
  <2> QED BY <2>1, Zenon DEF Stepwise
<1>7. ASSUME NEW i \in 0..N PROVE f[i] = IF i = 0 THEN <<>> ELSE Take(f[i - 1], ResolveRef(chain[i], a, snap))
  <2>1. CASE i = 0
    BY <1>6, <2>1, Zenon
  <2>2. CASE i # 0
    <3>1. i \in 1..N /\ i - 1 \in 0..N
      BY <1>0, <2>2
    <3>2. PICK v \in V : v = f[i - 1]
      BY <1>6, <3>1, Zenon
    <3>3. G[<<i, v>>] = Take(v, F[i])
      <4>1. PICK p : p = <<i, v>>
        BY Zenon
      <4>2. p \in (1..N) \X V /\ p[1] = i /\ p[2] = v
        BY <3>1, <3>2, <4>1, Zenon
      <4> QED BY <1>4, <4>1, <4>2, Zenon
    <3> QED BY <1>2, <1>6, <2>2, <3>1, <3>2, <3>3, Zenon
  <2> QED BY <2>1, <2>2, Zenon
<1>8. f = [i \in 0..N |-> f[i]]
  BY <1>6, Zenon
<1>9. f = D(f)
  BY <1>7, <1>8, Zenon
<1>10. Taken(chain, a, snap) = CHOOSE t : t = D(t)
  BY <1>0, Zenon DEF Taken
<1>11. Taken(chain, a, snap) = D(Taken(chain, a, snap))
  <2> HIDE DEF D
  <2> QED BY <1>9, <1>10, Zenon
<1>12. PICK t : t = Taken(chain, a, snap)
  BY Zenon
<1>13. \A i \in 0..N : t[i] = IF i = 0 THEN <<>> ELSE Take(t[i - 1], ResolveRef(chain[i], a, snap))
  BY <1>11, <1>12, Zenon
<1>14. 0 \in 0..N /\ \A i \in 1..N : i \in 0..N /\ i # 0
  BY <1>0
<1>15. Taking(t, chain, a, snap)
  BY <1>0, <1>13, <1>14, Zenon DEF Taking
<1> QED BY <1>12, <1>15, Zenon

\* The invariant of the loop over the chain: nothing is taken twice, and what is taken
\* first is the first candidate of the first position that has one.
Leads(F, i, out) ==
  /\ out = <<>> => \A k \in 1..i : F[k] = <<>>
  /\ out # <<>> => \E k \in 1..i : /\ F[k] # <<>> /\ out[1] = F[k][1]
                                   /\ \A m \in 1..i : m < k => F[m] = <<>>

LEMMA LeadsOn ==
  ASSUME NEW F, NEW i \in Nat, NEW out, Leads(F, i, out), NEW then, Kept(out, F[i + 1], then)
  PROVE  Leads(F, i + 1, then)
<1>1. \A k \in 1..(i + 1) : k \in 1..i \/ k = i + 1
  OBVIOUS
<1>2. \A k \in 1..i : k \in 1..(i + 1) /\ ~(i + 1 < k)
  OBVIOUS
<1>3. i + 1 \in 1..(i + 1) /\ ~(i + 1 < i + 1)
  OBVIOUS
<1>4. CASE out # <<>>
  <2>1. then # <<>> /\ then[1] = out[1]
    BY <1>4, Zenon DEF Kept
  <2>2. PICK k \in 1..i : F[k] # <<>> /\ out[1] = F[k][1] /\ \A m \in 1..i : m < k => F[m] = <<>>
    BY <1>4, Zenon DEF Leads
  <2>3. \A m \in 1..(i + 1) : m < k => F[m] = <<>>
    BY <1>1, <1>2, <2>2, Zenon
  <2> QED BY <1>2, <2>1, <2>2, <2>3, Zenon DEF Leads
<1>5. CASE out = <<>> /\ F[i + 1] = <<>>
  <2>1. then = <<>> /\ \A k \in 1..i : F[k] = <<>>
    BY <1>5, Zenon DEF Kept, Leads
  <2> QED BY <1>1, <1>5, <2>1, Zenon DEF Leads
<1>6. CASE out = <<>> /\ F[i + 1] # <<>>
  <2>1. then # <<>> /\ then[1] = F[i + 1][1] /\ \A k \in 1..i : F[k] = <<>>
    BY <1>6, Zenon DEF Kept, Leads
  <2>2. \A m \in 1..(i + 1) : m < i + 1 => F[m] = <<>>
    BY <1>1, <1>3, <2>1, Zenon
  <2> QED BY <1>3, <1>6, <2>1, <2>2, Zenon DEF Leads
<1> QED BY <1>4, <1>5, <1>6, Zenon

LEMMA Resolved ==
  ASSUME NEW snap \in SnapshotType, NEW a \in AliasDefs \cup {None}, NEW chain, Len(chain) \in Nat,
         NEW F, F = Offers(chain, a, snap)
  PROVE  Good(All(F), Resolve(chain, a, snap)) /\ Leads(F, Len(chain), Resolve(chain, a, snap))
<1>0. PICK N : N = Len(chain) /\ N \in Nat
  BY Zenon
<1>1. \A i \in 1..N : F[i] = ResolveRef(chain[i], a, snap) /\ Offer(snap, F[i]) /\ Gives(All(F), F[i])
  <2>1. Offering(snap, chain, a, F)
    BY OffersGive, Zenon
  <2> QED BY <1>0, <2>1, Zenon DEF Offering
<1>2. PICK t : t = Taken(chain, a, snap)
  BY Zenon
<1>3. t[0] = <<>> /\ \A i \in 1..N : t[i] = Take(t[i - 1], F[i])
  <2>1. Taking(t, chain, a, snap)
    BY <1>2, TakenSteps, Zenon
  <2> QED BY <1>0, <1>1, <2>1, Zenon DEF Taking
<1> DEFINE T == {n \in 0..N : Good(All(F), t[n]) /\ Leads(F, n, t[n])}
<1>4. 0 \in T
  <2>1. <<>> \in Seq(All(F)) /\ DOMAIN <<>> = {} /\ 1..0 = {} /\ 0 \in 0..N
    BY <1>0
  <2>2. Good(All(F), <<>>) /\ Leads(F, 0, <<>>)
    BY <2>1, Zenon DEF Good, Leads
  <2> QED BY <1>3, <2>1, <2>2, Zenon
<1>5. ASSUME NEW n \in 0..(N - 1), n \in T PROVE n + 1 \in T
  <2>1. n \in Nat /\ n + 1 \in 1..N /\ n + 1 \in 0..N /\ (n + 1) - 1 = n
    BY <1>0
  <2>2. t[n + 1] = Take(t[n], F[n + 1])
    BY <1>3, <2>1, Zenon
  <2>3. Good(All(F), t[n + 1]) /\ Kept(t[n], F[n + 1], t[n + 1])
    BY <1>1, <1>5, <2>1, <2>2, TakeGood, Zenon
  <2>4. Leads(F, n + 1, t[n + 1])
    BY <1>5, <2>1, <2>3, LeadsOn, Zenon
  <2> QED BY <2>1, <2>3, <2>4, Zenon
<1>6. 0..N \subseteq T
  <2> HIDE DEF T
  <2> QED BY <1>0, <1>4, <1>5, UpTo, Zenon
<1>7. N \in 0..N
  BY <1>0
<1> QED BY <1>0, <1>2, <1>6, <1>7, Zenon DEF Resolve

\* A chain of one reference leads where the reference does.
LEMMA Single ==
  ASSUME NEW snap \in SnapshotType, NEW a \in AliasDefs \cup {None}, NEW ref
  PROVE  /\ Resolve(<<ref>>, a, snap) = <<>> <=> ResolveRef(ref, a, snap) = <<>>
         /\ Resolve(<<ref>>, a, snap) # <<>> => Resolve(<<ref>>, a, snap)[1] = ResolveRef(ref, a, snap)[1]
<1>1. PICK chain : chain = <<ref>>
  BY Zenon
<1>2. Len(chain) = 1 /\ Len(chain) \in Nat /\ chain[1] = ref /\ 1 \in 1..1 /\ \A k \in 1..1 : k = 1
  BY <1>1
<1>3. PICK F : F = Offers(chain, a, snap)
  BY Zenon
<1>4. F[1] = ResolveRef(ref, a, snap)
  BY <1>2, <1>3, Zenon DEF Offers
<1>5. PICK out : out = Resolve(chain, a, snap)
  BY Zenon
<1>6. Leads(F, 1, out)
  BY <1>2, <1>3, <1>5, Resolved, Zenon
<1>7. out = <<>> => F[1] = <<>>
  BY <1>2, <1>6, Zenon DEF Leads
<1>8. out # <<>> => F[1] # <<>> /\ out[1] = F[1][1]
  BY <1>2, <1>6, Zenon DEF Leads
<1> QED BY <1>1, <1>4, <1>5, <1>7, <1>8, Zenon

-----------------------------------------------------------------------------
(* Diagnosis and listing *)

RouteAgrees(chain, a, snap) ==
  LET out == Resolve(chain, a, snap)
      d == DiagnoseRoute(chain, a, snap)
  IN  (d.state = "unresolvable" <=> out = <<>>) /\ (out # <<>> => d.to = out[1])

LEMMA DiagnosedRoute ==
  ASSUME NEW snap \in SnapshotType, NEW a \in AliasDefs \cup {None}, NEW chain, ValidChain(chain)
  PROVE  RouteAgrees(chain, a, snap)
<1>1. PICK N : N = Len(chain) /\ N \in Nat /\ DOMAIN chain = 1..N
  <2>1. Len(chain) \in 1..MaxDepth /\ DOMAIN chain = 1..Len(chain)
    BY Zenon DEF ValidChain
  <2>2. Len(chain) \in Nat
    BY <2>1, RoutingSettings
  <2> QED BY <2>1, <2>2, Zenon
<1>2. PICK F : F = Offers(chain, a, snap)
  BY Zenon
<1>3. \A i \in 1..N : F[i] = ResolveRef(chain[i], a, snap)
  BY <1>1, <1>2, Zenon DEF Offers
<1>4. PICK out : out = Resolve(chain, a, snap)
  BY Zenon
<1>5. Leads(F, N, out)
  BY <1>1, <1>2, <1>4, Resolved, Zenon
<1>6. PICK live : live = {i \in DOMAIN chain : ResolveRef(chain[i], a, snap) # <<>>}
  BY Zenon
<1>7. \A i : i \in live <=> i \in 1..N /\ F[i] # <<>>
  BY <1>1, <1>3, <1>6, Zenon
<1>8. PICK d : d = DiagnoseRoute(chain, a, snap)
  BY Zenon
<1>9. /\ d.state = "unresolvable" <=> live = {}
      /\ live # {} => d.to = ResolveRef(chain[First(live)], a, snap)[1]
  <2>1. /\ live = {} => d.state = "unresolvable"
        /\ live # {} => d.state = "duplicate" \/ d.state = "ok"
        /\ live # {} => d.to = ResolveRef(chain[First(live)], a, snap)[1]
    BY <1>6, <1>8, Zenon DEF DiagnoseRoute
  <2> QED BY <2>1, Zenon
<1>10. CASE out = <<>>
  <2>1. live = {}
    BY <1>5, <1>7, <1>10, Zenon DEF Leads
  <2> QED BY <1>4, <1>8, <1>9, <1>10, <2>1, Zenon DEF RouteAgrees
<1>11. CASE out # <<>>
  <2>1. PICK k \in 1..N : F[k] # <<>> /\ out[1] = F[k][1] /\ \A m \in 1..N : m < k => F[m] = <<>>
    BY <1>5, <1>11, Zenon DEF Leads
  <2>2. k \in live
    BY <1>7, <2>1, Zenon
  <2>3. PICK f : f = First(live)
    BY Zenon
  <2>4. live \subseteq Nat
    BY <1>1, <1>7
  <2>5. f \in live /\ f <= k
    BY <2>2, <2>3, <2>4, FirstIsIn, Zenon
  <2>6. f \in 1..N /\ F[f] # <<>> /\ ~(f < k)
    BY <1>7, <2>1, <2>5, Zenon
  <2>7. f = k
    BY <1>1, <2>5, <2>6
  <2>8. d.to = out[1]
    BY <1>3, <1>9, <2>1, <2>2, <2>3, <2>7, Zenon
  <2>9. d.state # "unresolvable"
    BY <1>9, <2>2, Zenon
  <2> QED BY <1>4, <1>8, <1>11, <2>8, <2>9, Zenon DEF RouteAgrees
<1> QED BY <1>10, <1>11, Zenon

LEMMA DiagnosedAlias ==
  ASSUME NEW snap \in SnapshotType, NEW a \in AliasDefs
  PROVE  DiagnoseAlias(a, snap).to = AliasObject(a, snap).to
<1>1. a # None
  BY RoutingSettings, Zenon
<1>2. ResolveRef(AliasName, a, snap) = ResolveAlias(a, snap)
  BY <1>1, Zenon DEF ResolveRef
<1>3. PICK out, cands : out = Resolve(<<AliasName>>, a, snap) /\ cands = ResolveAlias(a, snap)
  BY Zenon
<1>4. (out = <<>> <=> cands = <<>>) /\ (out # <<>> => out[1] = cands[1])
  BY <1>2, <1>3, Single, Zenon
<1>5. DiagnoseAlias(a, snap).to = IF cands = <<>> THEN None ELSE cands[1]
  BY <1>3, Zenon DEF DiagnoseAlias
<1>6. AliasObject(a, snap).to = IF out = <<>> THEN None ELSE out[1]
  BY <1>3, Zenon DEF AliasObject
<1> QED BY <1>4, <1>5, <1>6, Zenon

AllOpen(snap) == {Candidate(Lookup(snap, r)) : r \in {q \in Refs : Lookup(snap, q) # None}}

LEMMA NothingReachable ==
  ASSUME NEW snap \in SnapshotType, NEW name
  PROVE  ~Reachable(name, snap, AllOpen(snap))
<1> SUFFICES ASSUME NEW e \in Entries(snap) PROVE Candidate(e) \in AllOpen(snap)
  BY Zenon DEF Reachable
<1>1. e.id \in Ids /\ e = Lookup(snap, e.id) /\ e # None
  BY EntryFacts, Zenon
<1>2. e.id \in Refs
  BY <1>1, Zenon DEF Refs
<1>3. e.id \in {q \in Refs : Lookup(snap, q) # None}
  BY <1>1, <1>2, Zenon
<1>4. Candidate(Lookup(snap, e.id)) \in AllOpen(snap)
  BY <1>3, Zenon DEF AllOpen
<1> QED BY <1>1, <1>4, Zenon

\* diagnoseRoute and diagnoseAlias say of a chain or an alias what a request for it meets,
\* for every chain that upsertRoute accepts, every definition of the alias and every
\* snapshot that is served; and with the breakers open on every candidate a tenant with
\* providers is unavailable.
THEOREM Diagnosed == Spec => []DiagnosisMatchesRouting
<1>1. IInv => DiagnosisMatchesRouting
  <2> SUFFICES ASSUME IInv, Served, NEW a \in AliasDefs \cup {None}
               PROVE  /\ \A ch \in Chains : RouteAgrees(ch, a, snapshot)
                      /\ a # None => DiagnoseAlias(a, snapshot).to = AliasObject(a, snapshot).to
                      /\ providers # <<>> => Unavailable(snapshot, AllOpen(snapshot))
    BY Zenon DEF DiagnosisMatchesRouting, RouteAgrees, AllOpen
  <2>1. snapshot \in SnapshotType /\ snapshot # None
    BY Zenon DEF IInv, Typed, Served
  <2>2. \A ch \in Chains : RouteAgrees(ch, a, snapshot)
    BY <2>1, DiagnosedRoute, RoutingSettings, Zenon
  <2>3. a # None => DiagnoseAlias(a, snapshot).to = AliasObject(a, snapshot).to
    BY <2>1, DiagnosedAlias, Zenon
  <2>4. providers # <<>> => Unavailable(snapshot, AllOpen(snapshot))
    BY <2>1, NothingReachable, Zenon DEF Unavailable
  <2> QED BY <2>2, <2>3, <2>4, Zenon
<1> QED BY <1>1, Invariance, PTL

LEMMA ListedModelServed ==
  ASSUME NEW snap \in SnapshotType, NEW a \in AliasDefs \cup {None}, AliasName \notin Ids,
         NEW m \in ListedModels(a, snap)
  PROVE  IF Resolve(<<m.id>>, a, snap) = <<>> THEN m.to = None ELSE m.to = Resolve(<<m.id>>, a, snap)[1]
<1>1. CASE a # None /\ m = AliasObject(a, snap)
  <2>1. PICK out : out = Resolve(<<AliasName>>, a, snap)
    BY Zenon
  <2>2. m.id = AliasName /\ m.to = IF out = <<>> THEN None ELSE out[1]
    BY <1>1, <2>1, Zenon DEF AliasObject
  <2> QED BY <2>1, <2>2, Zenon
<1>2. ASSUME NEW e \in Entries(snap), m = [id |-> e.id, to |-> Candidate(e)]
      PROVE  m.to = Resolve(<<m.id>>, a, snap)[1] /\ Resolve(<<m.id>>, a, snap) # <<>>
  <2>1. e.id \in Ids /\ e = Lookup(snap, e.id) /\ e # None
    BY EntryFacts, Zenon
  <2>2. m.id = e.id /\ m.to = Candidate(e)
    BY <1>2, Zenon
  <2>3. ResolveRef(e.id, a, snap) = <<Candidate(e)>>
    BY <2>1, Zenon DEF ResolveRef
  <2>4. \A c : <<c>> # <<>> /\ <<c>>[1] = c
    BY Zenon
  <2>5. /\ Resolve(<<e.id>>, a, snap) = <<>> <=> <<Candidate(e)>> = <<>>
        /\ Resolve(<<e.id>>, a, snap) # <<>> => Resolve(<<e.id>>, a, snap)[1] = <<Candidate(e)>>[1]
    BY <2>3, Single, Zenon
  <2> QED BY <2>2, <2>4, <2>5, Zenon
<1> QED BY <1>1, <1>2, Zenon DEF ListedModels

ChainServed(chain, a, snap) ==
  LET out == Resolve(chain, a, snap) IN
  /\ \A i \in DOMAIN out : \E j \in DOMAIN snap.lists :
       snap.lists[j].name = out[i].provider /\ out[i].model \in snap.lists[j].ids
  /\ \A i, j \in DOMAIN out : i # j => out[i] # out[j]

LEMMA ChainIsServed ==
  ASSUME NEW snap \in SnapshotType, NEW a \in AliasDefs \cup {None}, NEW chain, ValidChain(chain)
  PROVE  ChainServed(chain, a, snap)
<1>1. Len(chain) \in Nat
  <2>1. Len(chain) \in 1..MaxDepth
    BY Zenon DEF ValidChain
  <2> QED BY <2>1, RoutingSettings
<1>2. PICK F : F = Offers(chain, a, snap)
  BY Zenon
<1>3. PICK out : out = Resolve(chain, a, snap)
  BY Zenon
<1>4. Good(All(F), out)
  BY <1>1, <1>2, <1>3, Resolved, Zenon
<1>5. Offering(snap, chain, a, F)
  BY <1>2, OffersGive, Zenon
<1>6. out \in Seq(All(F)) /\ \A i, j \in DOMAIN out : i # j => out[i] # out[j]
  BY <1>4, Zenon DEF Good
<1>7. \A i \in DOMAIN out : out[i] \in All(F)
  BY <1>6
<1>8. \A i \in DOMAIN out : Listed(snap, out[i])
  BY <1>5, <1>7, Zenon DEF Offering
<1> QED BY <1>3, <1>6, <1>8, Zenon DEF ChainServed, Listed

\* GET /v1/models lists every id with the provider and model that a request for it goes to
\* first; every candidate is listed by its provider, and no request tries one twice.  No
\* model has the alias's name: upsertAlias refuses the name of a model in the catalog.
THEOREM ListingServed ==
  ASSUME AliasName \notin Ids PROVE Spec => []ListedAsServed
<1>1. IInv /\ TypeOK => ListedAsServed
  <2> SUFFICES ASSUME IInv, TypeOK, Served, NEW a \in AliasDefs \cup {None}
               PROVE  /\ \A m \in ListedModels(a, snapshot) :
                           IF Resolve(<<m.id>>, a, snapshot) = <<>> THEN m.to = None
                           ELSE m.to = Resolve(<<m.id>>, a, snapshot)[1]
                      /\ \A ch \in Chains : ChainServed(ch, a, snapshot)
    BY Zenon DEF ListedAsServed, ChainServed
  <2>1. snapshot \in SnapshotType
    BY Zenon DEF IInv, Typed, Served
  <2>2. \A m \in ListedModels(a, snapshot) :
          IF Resolve(<<m.id>>, a, snapshot) = <<>> THEN m.to = None
          ELSE m.to = Resolve(<<m.id>>, a, snapshot)[1]
    BY <2>1, ListedModelServed, Zenon
  <2>3. \A ch \in Chains : ChainServed(ch, a, snapshot)
    BY <2>1, ChainIsServed, RoutingSettings, Zenon
  <2> QED BY <2>2, <2>3, Zenon
<1> QED BY <1>1, Invariance, NoProviderTwice, PTL
=============================================================================
