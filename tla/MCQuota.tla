-------------------------------- MODULE MCQuota --------------------------------
(***************************************************************************)
(* A tenant with two keys, one of them with a quota of its own.            *)
(***************************************************************************)
EXTENDS Quota, TLC

CONSTANTS k1, k2, h1, h2

Caps(d, m) == [day |-> d, month |-> m]

AtFirst == (Tenant :> Caps(1, 2)) @@ (k1 :> Caps(1, None)) @@ (k2 :> None)
AnyOrder == Permutations({h1, h2})

\* The tenant's quota can be raised, the key's deleted.
OfferedQuotas ==
  (Tenant :> {Caps(2, None)}) @@ (k1 :> {None}) @@ (k2 :> {})
=============================================================================
