--------------------------------- MODULE Pages ---------------------------------
(***************************************************************************)
(* A client that walks a collection of the admin plane page by page        *)
(* (server/page.go, server/params.go) while handlers change it.  The       *)
(* collections are the ones of Admin, in the orders the store lists them.  *)
(* Identifiers are random: Rank is the order they compare in.  The clock   *)
(* is coarse: PerTick identifiers are drawn while it stands still.         *)
(***************************************************************************)
EXTENDS Admin

CONSTANTS Rank,      \* [identifier -> its place in the order of identifiers]
          PerTick,   \* identifiers drawn between two ticks of the clock
          Listed,    \* the collections that the client walks
          Limits,    \* what a client asks for, 0 for no limit parameter
          DefaultPageLimit, MaxPageLimit

ASSUME PagesSettings ==
  /\ \A i \in Ids : Rank[i] \in Nat
  /\ \A i, j \in Ids : Rank[i] = Rank[j] => i = j
  /\ 1..3 \subseteq Ids /\ PerTick \in Nat \ {0} /\ MaxPageLimit \in Nat
  /\ Listed \subseteq {"tenant", "key", "audit"} \cup Kinds

VARIABLES walk,
          held  \* what the walked collection has held ever since the first page

-----------------------------------------------------------------------------
(* The store's lists *)

CreatedAt(a) == a.id \div PerTick

\* The order of ListTenants and ListAPIKeys: the clock's, ties by identifier.
Older(a, b) ==
  CreatedAt(a) < CreatedAt(b) \/ (CreatedAt(a) = CreatedAt(b) /\ Rank[a.id] < Rank[b.id])

Members(kind, t) ==
  CASE kind = "tenant" -> tenants
    [] kind = "key" -> {k \in keys : k.tenant = t}
    [] kind = "audit" -> Range(audit)
    [] OTHER -> {c \in configs : c.kind = kind /\ c.tenant = t}

\* The log comes newest first, providers and webhooks in the order they were added in,
\* aliases and rules by name.
Before(kind, a, b) ==
  CASE kind \in {"tenant", "key"} -> Older(a, b)
    [] kind = "audit" -> a.id > b.id
    [] kind \in Created -> a.id < b.id
    [] OTHER -> a.name < b.name

\* How many of the items come before one.
Ahead(kind, items, x) == Cardinality({y \in items : Before(kind, y, x)})

\* The identifiers of a collection in its order.
List(kind, t) ==
  LET items == Members(kind, t)
      at(i) == CHOOSE x \in items : Ahead(kind, items, x) = i - 1
  IN  [i \in 1..Cardinality(items) |-> at(i).id]

-----------------------------------------------------------------------------
(* Pages *)

\* pageLimit: none asked for is the default, one out of range is refused.
PageLimit(asked) == IF asked = 0 THEN DefaultPageLimit ELSE asked
ValidLimit(asked) == PageLimit(asked) \in 1..MaxPageLimit

AfterOffset(list, seen) == Min({Len(seen), Len(list)})

\* Where the page begins: after the last item seen, which must still be listed.
After(list, seen) ==
  IF seen = <<>> THEN 0
  ELSE LET at == {i \in DOMAIN list : list[i] = seen[Len(seen)]}
       IN  IF at = {} THEN -1 ELSE CHOOSE i \in at : TRUE

\* paginate: what is left of the list after the cursor, cut at the limit.
Paginate(list, seen, limit) ==
  LET at == After(list, seen)
      rest == SubSeq(list, at + 1, Len(list))
  IN  IF at < 0 THEN [pc |-> "refused", data |-> <<>>]
      ELSE IF Len(rest) > limit THEN [pc |-> "more", data |-> SubSeq(rest, 1, limit)]
      ELSE [pc |-> "done", data |-> rest]

-----------------------------------------------------------------------------
(* A client walking a collection *)

\* The page after what the client has seen of the collection.
Turn(kind, t, seen, asked) ==
  LET page == Paginate(List(kind, t), seen, PageLimit(asked))
  IN  /\ ValidLimit(asked)
      /\ walk' = [pc |-> page.pc, kind |-> kind, tenant |-> t, seen |-> seen \o page.data]
      /\ UNCHANGED vars

FirstPage(kind, t, asked) == walk.pc = "idle" /\ Turn(kind, t, <<>>, asked)

NextPage(asked) == walk.pc = "more" /\ Turn(walk.kind, walk.tenant, walk.seen, asked)

\* What the client could have seen on every page of its walk.
Walked == IF walk.pc = "idle" THEN {} ELSE {x.id : x \in Members(walk.kind, walk.tenant)}
Holding == held' = CASE walk.pc = "idle" -> Walked'
                     [] walk.pc = "more" -> held \cap Walked'
                     [] OTHER -> held

Read ==
  \E asked \in Limits :
    \/ NextPage(asked)
    \/ \E kind \in Listed \cap {"tenant", "audit"} : FirstPage(kind, NoOne, asked)
    \/ \E t \in {u.id : u \in tenants}, kind \in Listed \ {"tenant", "audit"} : FirstPage(kind, t, asked)

\* Once the client has its last page, nothing more happens: what the writers go on to do
\* without a client covers it.
WNext == walk.pc \in {"idle", "more"} /\ ((Next /\ UNCHANGED walk) \/ Read) /\ Holding

WInit == Init /\ walk = Idle /\ held = {}

WSpec == WInit /\ [][WNext]_<<vars, walk, held>>

-----------------------------------------------------------------------------
(* Properties *)

\* A walk that comes to its end, whatever was created and removed between its pages, has
\* shown every item that was there throughout, and no walk shows an item twice.
WalkComplete ==
  /\ walk.pc = "done" => held \subseteq Range(walk.seen)
  /\ walk.pc # "idle" => IsInjective(walk.seen)
=============================================================================
