-------------------------------- MODULE MCUsage --------------------------------
(***************************************************************************)
(* A tenant with two keys, one of which asks for reports, and a second     *)
(* tenant, over a month of two days and the first day of the next.         *)
(***************************************************************************)
EXTENDS Breakdowns

Served(t, k, m, l, c) == [tenant |-> t, key |-> k, model |-> m, label |-> l, cost |-> c]

Traffic == {Served(1, 1, 1, 1, 6), Served(1, 2, 2, 0, 6), Served(2, 3, 1, 1, 7)}

\* Days 0, 1 and 2-3; months 0-1 and 2-3.
Dates == [day |-> {0, 1, 2, 4}, month |-> {0, 2, 4}]

Asking == {[tenant |-> 1, key |-> 1]}

Slot(t, k, w, u, c) == [tenant |-> t, key |-> k, window |-> w, unit |-> u, cap |-> c]

Quotas == {Slot(1, 0, "day", "cost", 12), Slot(1, 0, "month", "requests", 2),
           Slot(1, 1, "day", "requests", 1)}
=============================================================================
