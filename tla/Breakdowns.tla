------------------------------ MODULE Breakdowns ------------------------------
(***************************************************************************)
(* GET /v1/usage/breakdown (server/data.go) over the two usage stores: one *)
(* groups its rows in a loop (store/memory.go), the other in a query       *)
(* (UsageMetricRepo).                                                      *)
(***************************************************************************)
EXTENDS Usage, SequencesExt

CONSTANT MaxBuckets  \* maxBreakdownBuckets

ASSUME BreakdownSettings == MaxBuckets \in Nat \ {0}

Groupings == {"model", "key", "label"}

Group(r, by) == CASE by = "model" -> r.model [] by = "key" -> r.key [] by = "label" -> r.label

\* A row the caller never labelled is left out of the grouping by labels.
Unlabelled(r, by) == by = "label" /\ r.label = 0

AddTo(buckets, name, r) ==
  [n \in DOMAIN buckets \cup {name} |->
     IF n # name THEN buckets[n]
     ELSE AddUsage(IF n \in DOMAIN buckets THEN buckets[n] ELSE Nothing, r)]

CostFirst(a, b) == a.totals.cost > b.totals.cost \/ (a.totals.cost = b.totals.cost /\ a.name < b.name)

MemoryBreakdown(t, since, until, by) ==
  LET buckets == FoldLeft(
        LAMBDA sofar, r : IF ~InWindow(r, since, until) \/ Unlabelled(r, by) THEN sofar
                          ELSE AddTo(sofar, Group(r, by), r),
        << >>, memory[t])
  IN  SetToSortSeq({[name |-> n, totals |-> buckets[n]] : n \in DOMAIN buckets}, CostFirst)

TableBreakdown(t, since, until, by) ==
  LET grouped == {i \in Selected(t, since, until) : ~Unlabelled(table[i], by)}
      names == {Group(table[i], by) : i \in grouped}
  IN  SetToSortSeq({[name |-> n, totals |-> SumOf(table, {i \in grouped : Group(table[i], by) = n})] :
                      n \in names}, CostFirst)

\* handleUsageBreakdown: the first rows, and whether there were more.
Breakdown(t, since, until, by) ==
  LET all == TableBreakdown(t, since, until, by)
  IN  [rows |-> SubSeq(all, 1, Min({MaxBuckets, Len(all)})), truncated |-> Len(all) > MaxBuckets]

-----------------------------------------------------------------------------
(* Properties *)

Periods(w) == {<<s, Until(w, s)>> : s \in Starts(w) \ {Max(Starts(w))}}

Landed(t) == SelectSeq(SubSeq(metered, 1, landed), LAMBDA r : r.tenant = t)

SumBuckets(rows, field) == FoldLeft(LAMBDA sum, b : sum + b.totals[field], 0, rows)

\* Every way to ask gives the same numbers.  Until its cap makes it forget the oldest
\* rows of a tenant, and no others, the in-process store answers as the analytics
\* service does: totals, one key's totals and breakdowns in the same order.  The
\* buckets of a breakdown add up to the totals of the rows it groups, the days of a
\* month to the month, and a breakdown that is cut short says so and has lost only
\* buckets no dearer than those it shows.  (Reports and the job change no store, so it
\* is looked at between them.)
BackendsAgree ==
  /\ UsageTypeOK
  /\ report.pc = "idle" /\ job.pc = "idle" =>
     \A t \in Tenants :
       /\ IsSuffix(memory[t], Landed(t))
       /\ Len(memory[t]) = Min({MaxRecords, Len(Landed(t))})
       /\ \A w \in Windows : \A p \in Periods(w) :
            LET total == TableTotals(t, 0, p[1], p[2])
                grouped(by) == TableBreakdown(t, p[1], p[2], by)
                days == {d \in Periods("day") : d[1] >= p[1] /\ d[2] <= p[2]}
                dropped(by) == SubSeq(grouped(by), MaxBuckets + 1, Len(grouped(by)))
            IN  /\ total.cost = MapThenSumSet(LAMBDA d : TableTotals(t, 0, d[1], d[2]).cost, days)
                /\ total.requests =
                     Len(SelectSeq(Landed(t), LAMBDA r : r.at \in p[1]..(p[2] - 1)))
                /\ \A by \in {"model", "key"}, f \in DOMAIN total :
                     SumBuckets(grouped(by), f) = total[f]
                /\ \A by \in Groupings :
                     LET shown == Breakdown(t, p[1], p[2], by)
                     IN  /\ shown.truncated <=> dropped(by) # << >>
                         /\ \A x \in ToSet(shown.rows), y \in ToSet(dropped(by)) :
                              x.totals.cost >= y.totals.cost
                /\ \A b \in ToSet(grouped("key")) : b.totals = TableTotals(t, b.name, p[1], p[2])
                /\ HoldsAll(t) =>
                     /\ \A k \in {0} \cup {r.key : r \in Requests} :
                          MemoryTotals(t, k, p[1], p[2]) = TableTotals(t, k, p[1], p[2])
                     /\ \A by \in Groupings : MemoryBreakdown(t, p[1], p[2], by) = grouped(by)
=============================================================================
