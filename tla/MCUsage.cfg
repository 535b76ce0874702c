\* Three rows, one more than the in-process store keeps of a tenant; costs whose sum is
\* rounded below its cap; a job that may start late on its day.
SPECIFICATION UsageSpec
CONSTANTS
  Tenants = {1, 2}
  Requests <- Traffic
  Callers <- Asking
  Calendar <- Dates
  Caps <- Quotas
  BillingMode = "markup"
  MarkupPct = 50
  SoftPct = 50
  MaxRecords = 2
  MaxBuckets = 1
  BilledSpan = 2
  MaxTime = 3
  MaxRows = 3
INVARIANTS BackendsAgree ReportCoherent InvoicesWhatLanded
