------------------------------- MODULE Routing --------------------------------
(***************************************************************************)
(* What routing makes of a tenant's catalog (routing/resolve.go,           *)
(* routing/diagnose.go), what GET /v1/models lists and what health reports *)
(* (server/data.go).  Aliases and routes change at any time and are read   *)
(* anew by each request, so the properties range over all of them.         *)
(***************************************************************************)
EXTENDS Catalog, FiniteSets

CONSTANTS Position,              \* [id -> its place in the order of ids]
          Cost,                  \* [id -> its input cost]
          AliasName, AliasDefs,  \* an alias and its possible definitions
          Chains, MaxDepth       \* the chains of routes, and their longest

Refs == Ids \cup UNION {{<<n>> \o i : i \in Ids} : n \in Names}

\* upsertRoute accepts a chain that is not too long and repeats nothing.
ValidChain(chain) ==
  /\ Len(chain) \in 1..MaxDepth /\ DOMAIN chain = 1..Len(chain)
  /\ \A i, j \in DOMAIN chain : i # j => chain[i] # chain[j]

ASSUME RoutingSettings ==
  /\ MaxDepth \in Nat \ {0} /\ IsFiniteSet(Ids)
  /\ \A i \in Ids : Position[i] \in Nat /\ Cost[i] \in Nat
  /\ \A i, j \in Ids : Position[i] = Position[j] => i = j
  /\ \A a \in AliasDefs : a.suits \subseteq Ids /\ Len(a.prefers) \in Nat /\ DOMAIN a.prefers = 1..Len(a.prefers)
  /\ \A ch \in Chains : ValidChain(ch)
  /\ None \notin [id : Refs, provider : Names] \cup AliasDefs

-----------------------------------------------------------------------------
(* Resolution *)

ProviderOfWhole(ref) == ref

\* ProviderOf: the part after the first slash.
ProviderOf(ref) == IF Len(ref) > 1 THEN Tail(ref) ELSE ref

Candidate(e) == [provider |-> e.provider, model |-> ProviderOf(e.id)]

RankOf(a, e) ==
  LET at == {i \in DOMAIN a.prefers : a.prefers[i] = e.provider}
  IN  IF at = {} THEN Len(a.prefers) + 1 ELSE First(at)

\* The selection order of an alias: preference, cost by tier, id.
Before(a, e, f) ==
  IF RankOf(a, e) # RankOf(a, f) THEN RankOf(a, e) < RankOf(a, f)
  ELSE IF Cost[e.id] # Cost[f.id]
       THEN IF a.tier = "best" THEN Cost[e.id] > Cost[f.id] ELSE Cost[e.id] < Cost[f.id]
  ELSE Position[e.id] < Position[f.id]

\* How many of the entries come before one.
Rank(a, entries, e) == Cardinality({f \in entries : Before(a, f, e)})

\* The entries that suit an alias, best first.
Sorted(a, entries) ==
  [i \in 1..Cardinality(entries) |-> CHOOSE e \in entries : Rank(a, entries, e) = i - 1]

\* A pin that is listed, or else the models that suit.
ResolveAlias(a, snap) ==
  IF a.pin # None /\ Lookup(snap, a.pin) # None THEN <<Candidate(Lookup(snap, a.pin))>>
  ELSE LET matches == Sorted(a, {e \in Entries(snap) : e.id \in a.suits})
       IN  [i \in DOMAIN matches |-> Candidate(matches[i])]

ResolveRef(ref, a, snap) ==
  IF a # None /\ ref = AliasName THEN ResolveAlias(a, snap)
  ELSE IF Lookup(snap, ref) # None THEN <<Candidate(Lookup(snap, ref))>> ELSE <<>>

\* The candidates of one position that no earlier position has taken.
NewIn(out, from) == {j \in DOMAIN from : \A i \in DOMAIN out : out[i] # from[j]}

\* Each position of the chain gives the first candidate not yet taken.
Take(out, from) ==
  LET new == NewIn(out, from)
  IN  IF Len(out) >= MaxDepth \/ new = {} THEN out ELSE Append(out, from[First(new)])

Taken(chain, a, snap) ==
  LET out[i \in 0..Len(chain)] ==
        IF i = 0 THEN <<>> ELSE Take(out[i - 1], ResolveRef(chain[i], a, snap))
  IN  out

Resolve(chain, a, snap) == Taken(chain, a, snap)[Len(chain)]

\* diagnoseAlias: what the alias stands for, even if not what it is pinned to.
DiagnoseAlias(a, snap) ==
  LET cands == ResolveAlias(a, snap)
  IN  [state |-> IF cands = <<>> THEN "unresolvable"
                 ELSE IF a.pin # None /\ Lookup(snap, a.pin) = None THEN "pin_unresolvable" ELSE "ok",
       to |-> IF cands = <<>> THEN None ELSE cands[1]]

DiagnoseWhole(chain, a, snap) ==
  LET first == ResolveRef(chain[1], a, snap)
  IN  [state |-> IF first = <<>> THEN "unresolvable" ELSE "ok",
       to |-> IF first = <<>> THEN None ELSE first[1]]

\* diagnoseRoute: the first choice of each position that resolves, and whether two in
\* a row are the same.
DiagnoseRoute(chain, a, snap) ==
  LET choice(i) == ResolveRef(chain[i], a, snap)[1]
      live == {i \in DOMAIN chain : ResolveRef(chain[i], a, snap) # <<>>}
      again == \E i, j \in live : /\ i < j /\ choice(i) = choice(j)
                                  /\ \A k \in live : k <= i \/ j <= k
  IN  [state |-> IF live = {} THEN "unresolvable" ELSE IF again THEN "duplicate" ELSE "ok",
       to |-> IF live = {} THEN None ELSE choice(First(live))]

\* aliasObjects: an alias is listed with what a request for it resolves to.
AliasObject(a, snap) ==
  LET out == Resolve(<<AliasName>>, a, snap)
  IN  [id |-> AliasName, to |-> IF out = <<>> THEN None ELSE out[1]]

\* handleListModels: the models by the provider that claimed them, and the alias.
ListedModels(a, snap) ==
  {[id |-> e.id, to |-> Candidate(e)] : e \in Entries(snap)}
  \cup (IF a = None THEN {} ELSE {AliasObject(a, snap)})

-----------------------------------------------------------------------------
(* Health, given the candidates whose breakers are open *)

Reachable(name, snap, open) ==
  \E e \in Entries(snap) : e.provider = name /\ Candidate(e) \notin open

Unavailable(snap, open) ==
  /\ snap # None /\ providers # <<>>
  /\ ~ \E i \in DOMAIN providers : providers[i].enabled /\ Reachable(providers[i].name, snap, open)

-----------------------------------------------------------------------------
(* Properties *)

\* A snapshot is served; while it is being replaced it is the same.
Served == snapshot # None /\ lock = None

\* Health and routing agree on a routing rule, and on an alias without one: what is
\* reported unresolvable is what requests fail for, and the target reported is where
\* a request goes first; and when the breakers are open on every candidate that any
\* reference resolves to, a tenant with providers is told that it is unavailable.
DiagnosisMatchesRouting ==
  Served => \A a \in AliasDefs \cup {None} :
    /\ \A ch \in Chains :
         LET out == Resolve(ch, a, snapshot)
             d == DiagnoseRoute(ch, a, snapshot)
         IN  (d.state = "unresolvable" <=> out = <<>>) /\ (out # <<>> => d.to = out[1])
    /\ a # None => DiagnoseAlias(a, snapshot).to = AliasObject(a, snapshot).to
    /\ providers # <<>> =>
         Unavailable(snapshot, {Candidate(Lookup(snapshot, r)) : r \in {q \in Refs : Lookup(snapshot, q) # None}})

\* What GET /v1/models lists is what a request gets: asking for a listed id goes, and
\* goes first, to the provider and model the list names for it.  Every candidate names a
\* model by the id under which the provider it goes to lists it, and no request tries a
\* candidate twice; no snapshot holds a provider twice (TypeOK).
ListedAsServed ==
  /\ TypeOK
  /\ Served => \A a \in AliasDefs \cup {None} :
       /\ \A m \in ListedModels(a, snapshot) :
            LET out == Resolve(<<m.id>>, a, snapshot)
            IN  IF out = <<>> THEN m.to = None ELSE m.to = out[1]
       /\ \A ch \in Chains :
            LET out == Resolve(ch, a, snapshot) IN
            /\ \A i \in DOMAIN out : \E j \in DOMAIN snapshot.lists :
                 snapshot.lists[j].name = out[i].provider /\ out[i].model \in snapshot.lists[j].ids
            /\ \A i, j \in DOMAIN out : i # j => out[i] # out[j]
=============================================================================
