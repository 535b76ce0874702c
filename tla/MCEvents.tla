------------------------------- MODULE MCEvents -------------------------------
(***************************************************************************)
(* A breaker that opens and a catalog refresh that adds a model and drops  *)
(* one.                                                                    *)
(***************************************************************************)
EXTENDS Events, TLC

CONSTANTS breaker, catalog, live, dead

Callbacks == {breaker, catalog}
Batches == (breaker :> <<"breaker.opened">>)
        @@ (catalog :> <<"catalog.model_added", "catalog.model_removed">>)
Endpoints == {live, dead}
FirstHook == <<live>>
Filters == (live :> {"breaker.opened", "catalog.model_removed"})
        @@ (dead :> {"catalog.model_added"})
DeadOnes == {dead}
=============================================================================
