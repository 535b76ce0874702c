------------------------------- MODULE Catalog --------------------------------
(***************************************************************************)
(* One tenant's model catalog (catalog/catalog.go) while providers come,   *)
(* go and fail to list.                                                    *)
(*                                                                         *)
(* An id is a sequence of the segments between slashes; the qualified form *)
(* of an id puts the provider's name in front.  Ids that contain a slash   *)
(* themselves are outside the model.  A poll of all providers takes less   *)
(* than a tick.                                                            *)
(***************************************************************************)
EXTENDS Integers, Sequences, Functions

CONSTANTS Names,       \* the names of providers
          Ids,         \* the model ids they may list
          Callers,     \* requests that read or refresh the catalog
          TTL,
          MaxChanges, MaxTurns,  \* bounds: admin changes, upstream changes
          None

\* What a listing endpoint answers: some models, or a failure.
Listings == (SUBSET Ids) \cup {None}

\* What the store knows of a provider, what a poll and then a snapshot know of it, and
\* the two themselves.  Admin changes are numbered, and asof is the last one seen.
ProviderType == [name : Names, enabled : BOOLEAN]
ListType == [name : Names, ids : SUBSET Ids]
PollType == [todo : Seq(ProviderType), lists : Seq(ListType), errors : SUBSET Names, asof : Nat]
SnapshotType ==
  [lists : Seq(ListType), errors : SUBSET Names, asof : Nat, age : Nat, stale : BOOLEAN]

ASSUME CatalogSettings ==
  /\ TTL \in Nat \ {0}
  /\ \A i \in Ids : i = <<i[1]>>
  /\ None \notin Callers \cup PollType

VARIABLES upstream,   \* [name -> what its listing endpoint answers]
          providers,  \* the store's, in the order of their registration
          dirty,      \* the admin writes whose Invalidate is still to come
          lock,       \* tenantState.mu: the caller polling, or None
          poll,       \* the snapshot it is building
          snapshot,   \* tenantState.snapshot
          told,       \* the models that snapshots and events make known
          changes, turns

vars == <<upstream, providers, dirty, lock, poll, snapshot, told, changes, turns>>

-----------------------------------------------------------------------------
(* Snapshots *)

\* The providers of a snapshot that claim a reference, as an id or qualified.
Claims(snap, ref) ==
  {i \in DOMAIN snap.lists : ref \in snap.lists[i].ids
                             \/ \E id \in snap.lists[i].ids : ref = <<snap.lists[i].name>> \o id}

First(S) == CHOOSE i \in S : \A j \in S : i <= j

\* Lookup in byID: the first claim wins.
Lookup(snap, ref) ==
  IF Claims(snap, ref) = {} THEN None
  ELSE [id |-> ref, provider |-> snap.lists[First(Claims(snap, ref))].name]

EntriesLast(snap) ==
  {[id |-> id, provider |-> snap.lists[CHOOSE i \in Claims(snap, id) : \A j \in Claims(snap, id) : i >= j].name] :
     id \in {j \in Ids : Claims(snap, j) # {}}}

\* Snapshot.Models: the entries that won their id unqualified.
Entries(snap) ==
  {Lookup(snap, id) : id \in {j \in Ids : Claims(snap, j) # {}
                                          /\ j \in snap.lists[First(Claims(snap, j))].ids}}

ModelIds(snap) == {e.id : e \in Entries(snap)}

-----------------------------------------------------------------------------
Init ==
  /\ upstream \in [Names -> Listings]
  /\ providers = <<>>
  /\ dirty = 0
  /\ lock = None /\ poll = None
  /\ snapshot = None
  /\ told = {}
  /\ changes = 0 /\ turns = 0

Fresh == snapshot # None /\ snapshot.age < TTL /\ ~snapshot.stale

\* reload under the tenant's lock: the providers are read once.
Reload(c) ==
  /\ lock = None
  /\ lock' = c
  /\ poll' = [todo |-> providers, lists |-> <<>>, errors |-> {}, asof |-> changes]
  /\ UNCHANGED <<upstream, providers, dirty, snapshot, told, changes, turns>>

\* A request, a health report or an alias write reads the catalog; a fresh one is
\* returned as it is.
Get(c) == ~Fresh /\ Reload(c)

\* refreshCatalog asks whatever the age.
Refresh(c) == Reload(c)

\* One provider's list is fetched with its own timeout; one that is not enabled is
\* passed over.
ListModels ==
  LET p == Head(poll.todo)
      answers == upstream[p.name] # None
  IN  /\ lock # None /\ poll.todo # <<>>
      /\ poll' = [todo |-> Tail(poll.todo), asof |-> poll.asof,
                  lists |-> IF p.enabled /\ answers
                            THEN Append(poll.lists, [name |-> p.name, ids |-> upstream[p.name]])
                            ELSE poll.lists,
                  errors |-> IF p.enabled /\ ~answers THEN poll.errors \cup {p.name} ELSE poll.errors]
      /\ UNCHANGED <<upstream, providers, dirty, lock, snapshot, told, changes, turns>>

DiffAddedOnly(old, fresh) == [added |-> ModelIds(fresh) \ ModelIds(old), removed |-> {}]

\* diff, for the catalog events.
Diff(old, fresh) ==
  [added |-> ModelIds(fresh) \ ModelIds(old), removed |-> ModelIds(old) \ ModelIds(fresh)]

\* The poll ends.  Nothing but failures leaves the old snapshot, now stale; otherwise
\* the new one takes its place, and events say what changed if there was an old one.
Install ==
  LET fresh == [lists |-> poll.lists, errors |-> poll.errors, asof |-> poll.asof,
                age |-> 0, stale |-> FALSE]
      failed == Entries(fresh) = {} /\ poll.errors # {}
      change == Diff(snapshot, fresh)
  IN  /\ lock # None /\ poll.todo = <<>>
      /\ snapshot' = IF ~failed THEN fresh
                     ELSE IF snapshot = None THEN None ELSE [snapshot EXCEPT !.stale = TRUE]
      /\ told' = IF failed THEN told
                 ELSE IF snapshot = None THEN ModelIds(fresh)
                 ELSE (told \ change.removed) \cup change.added
      /\ lock' = None /\ poll' = None
      /\ UNCHANGED <<upstream, providers, dirty, changes, turns>>

-----------------------------------------------------------------------------
(* Admin writes, each followed by Invalidate *)

Write(new) ==
  /\ changes < MaxChanges
  /\ providers' = new
  /\ dirty' = dirty + 1
  /\ changes' = changes + 1
  /\ UNCHANGED <<upstream, lock, poll, snapshot, told, turns>>

\* A name is registered once.
CreateProvider(n, on) ==
  /\ \A i \in DOMAIN providers : providers[i].name # n
  /\ Write(Append(providers, [name |-> n, enabled |-> on]))

UpdateProvider(i, on) == Write([providers EXCEPT ![i].enabled = on])

DeleteProvider(i) == Write(SubSeq(providers, 1, i - 1) \o SubSeq(providers, i + 1, Len(providers)))

InvalidateAtOnce ==
  /\ dirty > 0
  /\ dirty' = dirty - 1
  /\ snapshot' = None
  /\ told' = {}
  /\ UNCHANGED <<upstream, providers, lock, poll, changes, turns>>

\* Invalidate waits for a poll that is under way.
Invalidate ==
  /\ dirty > 0 /\ lock = None
  /\ dirty' = dirty - 1
  /\ snapshot' = None
  /\ told' = {}
  /\ UNCHANGED <<upstream, providers, lock, poll, changes, turns>>

UpstreamTurns(n, v) ==
  /\ turns < MaxTurns /\ upstream[n] # v
  /\ upstream' = [upstream EXCEPT ![n] = v]
  /\ turns' = turns + 1
  /\ UNCHANGED <<providers, dirty, lock, poll, snapshot, told, changes>>

Tick ==
  /\ lock = None /\ dirty = 0 /\ snapshot # None /\ snapshot.age < TTL
  /\ snapshot' = [snapshot EXCEPT !.age = @ + 1]
  /\ UNCHANGED <<upstream, providers, dirty, lock, poll, told, changes, turns>>

Next ==
  \/ \E c \in Callers : Get(c) \/ Refresh(c)
  \/ ListModels \/ Install
  \/ \E n \in Names, on \in BOOLEAN : CreateProvider(n, on)
  \/ \E i \in DOMAIN providers : DeleteProvider(i) \/ \E on \in BOOLEAN : UpdateProvider(i, on)
  \/ Invalidate
  \/ \E n \in Names, v \in Listings : UpstreamTurns(n, v)
  \/ Tick

Spec == Init /\ [][Next]_vars

-----------------------------------------------------------------------------
(* Properties *)

\* The lock is held exactly while a poll is being built, and a snapshot holds each
\* provider once.
TypeOK ==
  /\ lock \in Callers \cup {None} /\ (lock = None <=> poll = None)
  /\ \A i, j \in DOMAIN providers : i # j => providers[i].name # providers[j].name
  /\ snapshot # None =>
       /\ snapshot.age \in 0..TTL
       /\ \A i, j \in DOMAIN snapshot.lists : i # j => snapshot.lists[i].name # snapshot.lists[j].name
       /\ \A i \in DOMAIN snapshot.lists : snapshot.lists[i].name \notin snapshot.errors

\* Once the Invalidate of every admin write has returned, no snapshot polled from the
\* providers as they were before the write is served, whichever polls were under way, and
\* the one served answers for every enabled provider: with its models, or with the error
\* that keeps them out.
PolledAfterChange ==
  snapshot # None /\ dirty = 0 =>
    /\ snapshot.asof = changes
    /\ {p.name : p \in {q \in Range(providers) : q.enabled}}
         = {l.name : l \in Range(snapshot.lists)} \cup snapshot.errors

\* A listener that knows the first snapshot after an invalidation and applies every
\* model_added and model_removed event since knows the models served now.
EventsTellTheCatalog == snapshot # None => told = ModelIds(snapshot)

=============================================================================
