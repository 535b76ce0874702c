------------------------------ MODULE MCDispatch ------------------------------
(***************************************************************************)
(* A chain of two candidates, on a provider each or on one with two keys.   *)
(***************************************************************************)
EXTENDS Dispatch, TLC

CONSTANTS a, b, p, q, k1, k2

TwoCandidates == {a, b}
TwoProviders == {p, q}
TwoKeys == {k1, k2}
OwnProvider == (a :> p) @@ (b :> q)
SameProvider == (a :> p) @@ (b :> p)
SharedPool == p :> <<k1, k2>>
OneKeyEach == (p :> <<k1>>) @@ (q :> <<k1>>)
OnlyP == {p}
NoProvider == {}
AThenB == {<<a, b>>}
OnlyA == {<<a>>}
NoWait == {0}
SomeWaits == {0, 1}
Buffered == {FALSE}
AnyOrder == Permutations(Requests)
NotRequestCaused == {"ok", "broken"}
=============================================================================
