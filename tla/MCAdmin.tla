-------------------------------- MODULE MCAdmin --------------------------------
(***************************************************************************)
(* Two handlers and one client.  Of any two identifiers drawn one after    *)
(* the other, the second sorts before the first as often as after it.      *)
(***************************************************************************)
EXTENDS Pages, TLC

CONSTANTS h1, h2

Drawable == 1..12
RandomRank == [i \in Drawable |-> IF i % 4 \in {1, 2} THEN i + 2 ELSE i - 2]
OneSeed == <<1>>
RenamedOrSuspended == {[name |-> 1], [status |-> "suspended"], [status |-> "active"]}
AnyHandler == Permutations({h1, h2})
=============================================================================
