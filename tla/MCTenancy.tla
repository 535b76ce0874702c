------------------------------- MODULE MCTenancy -------------------------------
(***************************************************************************)
(* Two tenants with a key each that share a cache of two small answers or  *)
(* one large one.                                                          *)
(***************************************************************************)
EXTENDS Tenancy, TLC

CONSTANTS t1, t2, k1, k2, m1, m2, b1, r1, r2

OwnerOf == (k1 :> t1) @@ (k2 :> t2)
Asked(kept, cached) == [captures |-> kept, cache |-> cached]

\* Both, captures alone, and one past each ceiling.
AskedOf == {Asked(0, 0), Asked(1, Off), Asked(3, 0), Asked(0, 2)}

AnyOrder == Permutations({r1, r2}) \cup Permutations({m1, m2})
=============================================================================
