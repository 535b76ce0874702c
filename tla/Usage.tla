-------------------------------- MODULE Usage ---------------------------------
(***************************************************************************)
(* What became of the metered requests: the two usage stores              *)
(* (store/memory.go and the analytics service's UsageMetricRepo), the      *)
(* report that GET /v1/usage puts together from several reads of one of    *)
(* them (server/data.go), and the monthly billing job.                     *)
(*                                                                         *)
(* Rows reach a store in the order they were metered and possibly late     *)
(* (Telemetry).  Both stores are fed so that their answers can be          *)
(* compared.  Names are numbers in the order their strings sort, 0 is the  *)
(* empty label; a row's tokens are added up as its cost is and left out.   *)
(* Reports and the job only read, so one of them at a time is under way.   *)
(***************************************************************************)
EXTENDS Integers, Sequences

CONSTANTS Tenants,      \* names, in order
          Requests,     \* what a served request can look like: tenant, key, model, label, cost
          Callers,      \* who asks for a report: tenant and key
          Calendar,     \* [window -> the instants at which its periods start]
          Caps,         \* the quota slots: tenant, key (0 for the tenant's own), window, unit, cap
          BillingMode, MarkupPct,  \* billing.mode and billing.markup_pct
          SoftPct,
          MaxRecords,   \* maxMemoryUsageRecords
          BilledSpan,   \* the length of the job's window
          MaxTime, MaxRows  \* bounds

Windows == {"day", "month"}
Visibilities == {"hidden", "hint", "exact"}
Starts(w) == Calendar[w]

Units == {"cost", "requests"}
Request == [tenant : Tenants, key : Nat \ {0}, model : Nat, label : Nat, cost : Nat]

ASSUME UsageSettings ==
  /\ Tenants \subseteq Nat
  /\ MaxTime \in Nat /\ MaxRows \in Nat
  /\ \A w \in Windows : Starts(w) \subseteq Nat /\ 0 \in Starts(w) /\ \E s \in Starts(w) : s > MaxTime
  /\ Starts("month") \subseteq Starts("day")
  /\ Requests \subseteq Request
  /\ Callers \subseteq [tenant : Tenants, key : Nat \ {0}]
  /\ Caps \subseteq [tenant : Tenants, key : Nat, window : Windows, unit : Units, cap : Int]
  /\ BillingMode \in {"passthrough", "markup", "absorb"} /\ MarkupPct \in Nat
  /\ MaxRecords \in Nat \ {0} /\ BilledSpan \in Nat \ {0}

VARIABLES now,
          metered,   \* the usage rows, in the order the requests were served
          landed,    \* how many of them have reached the store
          memory,    \* Memory.usage: [tenant -> its rows, oldest first]
          table,     \* the rows of the usage_metric table, in the order of their ids
          report,    \* GET /v1/usage under way
          job        \* BillingService.runMonthlyBilling under way

usageVars == <<now, metered, landed, memory, table, report, job>>

Nothing == [requests |-> 0, cost |-> 0, charge |-> 0]
NoReport == [pc |-> "idle", backend |-> "memory", tenant |-> 0, key |-> 0, window |-> "day",
             since |-> 0, until |-> 0, totals |-> Nothing, asof |-> 0, todo |-> {}, slots |-> {}]
NoInvoices == [t \in {} |-> 0]
NoJob(last) == [pc |-> "idle", last |-> last, start |-> 0, end |-> 0, todo |-> {},
                invoices |-> NoInvoices, seen |-> 0]

Lowest(S) == CHOOSE x \in S : \A y \in S : x <= y
Highest(S) == CHOOSE x \in S : \A y \in S : x >= y

Since(w, t) == Highest({s \in Starts(w) : s <= t})
Until(w, t) == Lowest({s \in Starts(w) : s > t})

Charge(cost) ==
  CASE BillingMode = "absorb" -> 0
    [] BillingMode = "markup" -> (cost * (100 + MarkupPct)) \div 100
    [] BillingMode = "passthrough" -> cost

InWindowClosed(r, since, until) == r.at >= since /\ r.at <= until

InWindow(r, since, until) == r.at >= since /\ r.at < until

-----------------------------------------------------------------------------
(* The in-process store: rows in a list, added up one after the other. *)

AddUsage(totals, r) ==
  [requests |-> totals.requests + 1, cost |-> totals.cost + r.cost,
   charge |-> totals.charge + r.charge]

\* The totals after each of the rows, of those at the places in K.
Sums(rows, K) ==
  LET sum[n \in 0..Len(rows)] ==
        IF n = 0 THEN Nothing
        ELSE IF n \in K THEN AddUsage(sum[n - 1], rows[n]) ELSE sum[n - 1]
  IN  sum

SumOf(rows, K) == Sums(rows, K)[Len(rows)]

MemoryTotals(t, key, since, until) ==
  SumOf(memory[t], {i \in DOMAIN memory[t] : /\ InWindow(memory[t][i], since, until)
                                            /\ key \in {0, memory[t][i].key}})

-----------------------------------------------------------------------------
(* The analytics service: queries over the table. *)

Selected(t, since, until) ==
  {i \in DOMAIN table : table[i].tenant = t /\ InWindow(table[i], since, until)}

TenantTotals(t, since, until) == SumOf(table, Selected(t, since, until))
KeyTotals(t, key, since, until) ==
  SumOf(table, {i \in Selected(t, since, until) : table[i].key = key})

\* A blank key prefix asks for the tenant.
TableTotals(t, key, since, until) ==
  IF key = 0 THEN TenantTotals(t, since, until) ELSE KeyTotals(t, key, since, until)

\* In the order of their names, which is how the job takes them.
TenantIdsWithUsage(since, until) ==
  {table[i].tenant : i \in {x \in DOMAIN table : InWindow(table[x], since, until)}}

-----------------------------------------------------------------------------
(* What a caller is shown. *)

Totals(backend, t, key, since, until) ==
  IF backend = "memory" THEN MemoryTotals(t, key, since, until) ELSE TableTotals(t, key, since, until)

\* The place of the first figure of v, and v rounded to it, a half going to the even one.
Place(v) ==
  LET unit[x \in 0..v] == IF x < 10 THEN 1 ELSE 10 * unit[x \div 10]
  IN  unit[v]

OneFigure(v) ==
  LET figure == v \div Place(v)  rest == v % Place(v)
  IN  Place(v) * (figure + IF 2 * rest > Place(v) \/ (2 * rest = Place(v) /\ figure % 2 = 1)
                          THEN 1 ELSE 0)

TenantCost(visibility, v) == IF visibility = "hint" THEN OneFigure(v) ELSE v

Shown(visibility, unit, v) == IF unit = "cost" THEN TenantCost(visibility, v) ELSE v

Position(used, cap) ==
  IF cap <= 0 THEN 0
  ELSE IF used >= cap THEN 2
  ELSE IF used * 100 >= cap * SoftPct THEN 1 ELSE 0

\* The body of the answer, from the slots a report has collected.
UsageAnswer(rep, visibility) ==
  LET limited == {p \in rep.slots : p.cap > 0}
      listed == {p \in limited : ~(visibility = "hidden" /\ p.unit = "cost")}
  IN  [state |-> Highest({0} \cup {p.state : p \in limited}),
       totals |-> [cost |-> TenantCost(visibility, rep.totals.cost), requests |-> rep.totals.requests],
       limits |-> {[slot |-> p, consumed |-> Shown(visibility, p.unit, p.used),
                    remaining |-> Highest({0, p.cap - Shown(visibility, p.unit, p.used)})] : p \in listed}]

-----------------------------------------------------------------------------
UsageInit ==
  /\ now = 0
  /\ metered = << >> /\ landed = 0
  /\ memory = [t \in Tenants |-> << >>] /\ table = << >>
  /\ report = NoReport
  /\ job = NoJob(0)

UsageTick ==
  /\ now < MaxTime
  /\ now' = now + 1
  /\ UNCHANGED <<metered, landed, memory, table, report, job>>

\* record: a request was served, and its row is queued with the time and the charge of now.
MeterRequest(q) ==
  /\ Len(metered) < MaxRows
  /\ metered' = Append(metered, [tenant |-> q.tenant, key |-> q.key, model |-> q.model,
                                 label |-> q.label, cost |-> q.cost,
                                 charge |-> Charge(q.cost), at |-> now])
  /\ UNCHANGED <<now, landed, memory, table, report, job>>

\* The last MaxRecords rows.
Newest(rows) ==
  IF Len(rows) > MaxRecords THEN SubSeq(rows, Len(rows) - MaxRecords + 1, Len(rows)) ELSE rows

RecordUsageStampsArrival ==
  LET r == metered[landed + 1] IN
  /\ landed < Len(metered)
  /\ landed' = landed + 1
  /\ memory' = [memory EXCEPT ![r.tenant] = Newest(Append(@, r))]
  /\ table' = Append(table, [r EXCEPT !.at = now])
  /\ UNCHANGED <<now, metered, report, job>>

\* RecordUsage of either store, called by the telemetry dispatcher.
RecordUsage ==
  LET r == metered[landed + 1] IN
  /\ landed < Len(metered)
  /\ landed' = landed + 1
  /\ memory' = [memory EXCEPT ![r.tenant] = Newest(Append(@, r))]
  /\ table' = Append(table, r)
  /\ UNCHANGED <<now, metered, report, job>>

-----------------------------------------------------------------------------
(* GET /v1/usage: the totals, then the position in every window a quota caps. *)

AskUsage(backend, t, key, w) ==
  /\ report.pc = "idle" /\ job.pc = "idle"
  /\ report' = [NoReport EXCEPT !.pc = "totals", !.backend = backend, !.tenant = t, !.key = key,
                                !.window = w, !.since = Since(w, now), !.until = Until(w, now)]
  /\ UNCHANGED <<now, metered, landed, memory, table, job>>

ReadTotals ==
  /\ report.pc = "totals"
  /\ report' = [report EXCEPT !.pc = "slots",
                !.totals = Totals(report.backend, report.tenant, 0, report.since, report.until)]
  /\ UNCHANGED <<now, metered, landed, memory, table, job>>

\* The windows in the order they are read, the tenant's before the key's, and the
\* places of those that a quota caps.
Scopes(key) == <<<<0, "day">>, <<0, "month">>, <<key, "day">>, <<key, "month">>>>
Capped(t, key) ==
  {i \in 1..4 : \E c \in Caps : c.tenant = t /\ <<c.key, c.window>> = Scopes(key)[i]}

\* quotaSlots starts, with its own idea of the time.
QuotaSlots ==
  /\ report.pc = "slots"
  /\ report' = [report EXCEPT !.pc = "reading", !.asof = now,
                              !.todo = Capped(report.tenant, report.key)]
  /\ UNCHANGED <<now, metered, landed, memory, table, job>>

Slots(rep, key, w) ==
  LET since == Since(w, rep.asof)  until == Until(w, rep.asof)
      used == Totals(rep.backend, rep.tenant, key, since, until)
  IN  {[key |-> key, window |-> w, unit |-> c.unit, cap |-> c.cap, used |-> used[c.unit],
        state |-> Position(used[c.unit], c.cap), since |-> since, resets |-> until] :
         c \in {x \in Caps : x.tenant = rep.tenant /\ x.key = key /\ x.window = w}}

ReadWindowTotalsLast ==
  LET at == Lowest(report.todo)  scope == Scopes(report.key)[at] IN
  /\ report.pc = "reading" /\ report.todo # {}
  /\ report' = [report EXCEPT !.todo = @ \ {at}, !.slots = @ \cup Slots(report, scope[1], scope[2]),
                !.totals = Totals(report.backend, report.tenant, 0, report.since, report.until)]
  /\ UNCHANGED <<now, metered, landed, memory, table, job>>

\* usageFor, one window, and the positions in it.
ReadWindow ==
  LET at == Lowest(report.todo)  scope == Scopes(report.key)[at] IN
  /\ report.pc = "reading" /\ report.todo # {}
  /\ report' = [report EXCEPT !.todo = @ \ {at}, !.slots = @ \cup Slots(report, scope[1], scope[2])]
  /\ UNCHANGED <<now, metered, landed, memory, table, job>>

Answered == report.pc = "reading" /\ report.todo = {}

Respond ==
  /\ Answered
  /\ report' = NoReport
  /\ UNCHANGED <<now, metered, landed, memory, table, job>>

\* A read the analytics service does not answer ends the report in a 503.
Unavailable ==
  /\ report.pc # "idle" /\ ~Answered /\ report.backend = "analytics" /\ report.pc # "slots"
  /\ report' = NoReport
  /\ UNCHANGED <<now, metered, landed, memory, table, job>>

-----------------------------------------------------------------------------
(* The billing job, once on the first day of a month. *)

RunMonthlyBilling ==
  /\ job.pc = "idle" /\ report.pc = "idle"
  /\ Since("day", now) = Since("month", now) /\ job.last < Since("month", now)
  /\ job' = [pc |-> "invoicing", last |-> Since("month", now), start |-> now - BilledSpan, end |-> now,
             todo |-> TenantIdsWithUsage(now - BilledSpan, now), invoices |-> NoInvoices,
             seen |-> landed]
  /\ UNCHANGED <<now, metered, landed, memory, table, report>>

\* The invoices with one more.
Invoice(t, amount) ==
  [x \in DOMAIN job.invoices \cup {t} |-> IF x = t THEN amount ELSE job.invoices[x]]

CalculateTenantInvoiceToDate ==
  LET t == Lowest(job.todo) IN
  /\ job.pc = "invoicing" /\ job.todo # {}
  /\ job' = [job EXCEPT !.todo = @ \ {t},
                        !.invoices = Invoice(t, TenantTotals(t, job.start, now + 1).charge)]
  /\ UNCHANGED <<now, metered, landed, memory, table, report>>

CalculateTenantInvoice ==
  LET t == Lowest(job.todo) IN
  /\ job.pc = "invoicing" /\ job.todo # {}
  /\ job' = [job EXCEPT !.todo = @ \ {t},
                        !.invoices = Invoice(t, TenantTotals(t, job.start, job.end).charge)]
  /\ UNCHANGED <<now, metered, landed, memory, table, report>>

Invoiced == job.pc = "invoicing" /\ job.todo = {}

EndJob ==
  /\ Invoiced
  /\ job' = NoJob(job.last)
  /\ UNCHANGED <<now, metered, landed, memory, table, report>>

\* A query that throws ends the job: the tenants that are left get no invoice.
JobFails ==
  /\ job.pc = "invoicing" /\ job.todo # {}
  /\ job' = NoJob(job.last)
  /\ UNCHANGED <<now, metered, landed, memory, table, report>>

UsageNext ==
  \/ UsageTick \/ RecordUsage
  \/ \E q \in Requests : MeterRequest(q)
  \/ \E b \in {"memory", "analytics"}, c \in Callers, w \in Windows : AskUsage(b, c.tenant, c.key, w)
  \/ ReadTotals \/ QuotaSlots \/ ReadWindow \/ Respond \/ Unavailable
  \/ RunMonthlyBilling \/ CalculateTenantInvoice \/ EndJob \/ JobFails

UsageSpec == UsageInit /\ [][UsageNext]_usageVars

-----------------------------------------------------------------------------
(* Properties *)

UsageTypeOK ==
  /\ now \in 0..MaxTime /\ landed \in 0..Len(metered) /\ Len(metered) <= MaxRows
  /\ \A t \in Tenants : Len(memory[t]) <= MaxRecords
  /\ report.pc \in {"idle", "totals", "slots", "reading"} /\ job.pc \in {"idle", "invoicing"}

\* How many rows of a tenant have landed, and whether the in-process store holds them all.
LandedOf(t) == SumOf(table, {i \in DOMAIN table : table[i].tenant = t}).requests
HoldsAll(t) == LandedOf(t) <= MaxRecords

\* A finished report does not contradict itself, although rows landed and a period may
\* have ended between its reads.  However costs are published, a tenant's limit of the
\* very period of the totals shows no less consumption than the totals, any other limit
\* of that window is of a later period, and the overall state is the same.  A caller
\* past a hard cap finds the cap with nothing left where costs are published exactly.
ReportCoherent ==
  Answered /\ (report.backend = "memory" => HoldsAll(report.tenant)) =>
    \A v \in Visibilities :
      LET answer == UsageAnswer(report, v) IN
      /\ \A l \in answer.limits : l.slot.key = 0 /\ l.slot.window = report.window =>
           IF l.slot.since = report.since THEN l.consumed >= answer.totals[l.slot.unit]
           ELSE l.slot.since >= report.until
      /\ answer.state = UsageAnswer(report, "exact").state
      /\ answer.state = 2 /\ v = "exact" => \E l \in answer.limits : l.remaining = 0

\* A billing job that reaches its end has invoiced every tenant for at least all the rows
\* of its window that had landed when it began, and for none that is outside the window
\* or had not landed when it ended, whatever is metered and lands while it runs.
InvoicesWhatLanded ==
  Invoiced =>
    \A t \in Tenants :
      LET due == {i \in DOMAIN metered : metered[i].tenant = t /\ metered[i].at >= job.start
                                                              /\ metered[i].at < job.end}
          charged(n) == Sums(metered, due)[n].charge
          invoice == IF t \in DOMAIN job.invoices THEN job.invoices[t] ELSE 0
      IN  /\ charged(job.seen) <= invoice /\ invoice <= charged(landed)
          /\ (\E i \in due : i <= job.seen) => t \in DOMAIN job.invoices
=============================================================================
