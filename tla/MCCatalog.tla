------------------------------- MODULE MCCatalog -------------------------------
(***************************************************************************)
(* Two providers, two models that either may list, and an alias defined in *)
(* four ways.                                                              *)
(***************************************************************************)
EXTENDS Routing, TLC

CONSTANT c1

IdsOf == {<<"a">>, <<"b">>}
PositionOf == (<<"a">> :> 1) @@ (<<"b">> :> 2)
CostOf == (<<"a">> :> 1) @@ (<<"b">> :> 2)
TheAlias == <<"fast">>

Alias(pin, suits, prefers, tier) ==
  [pin |-> pin, suits |-> suits, prefers |-> prefers, tier |-> tier]

Defs ==
  {Alias(None, IdsOf, <<>>, "cheapest"), Alias(None, IdsOf, <<"p2">>, "best"),
   Alias(<<"p2", "a">>, {<<"b">>}, <<>>, "best"), Alias(<<"a">>, {}, <<>>, "balanced")}

\* Chains in which the alias comes first and last, and a model is named twice.
ChainsOf ==
  {<<TheAlias, <<"a">>>>, <<<<"a">>, TheAlias>>, <<<<"b">>, TheAlias>>, <<<<"p2", "a">>, <<"a">>>>}
=============================================================================
