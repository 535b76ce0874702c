\* Two workers and a dead endpoint that keeps them busy; a queue of one that overflows
\* when an event fans out; a history shorter than the number of events.
SPECIFICATION FairSpec
CONSTANTS
  breaker = breaker
  catalog = catalog
  live = live
  dead = dead
  None = None
  Sources <- Callbacks
  Batch <- Batches
  Hooks <- Endpoints
  Registered <- FirstHook
  Subscribed <- Filters
  Disabled = {}
  Dead <- DeadOnes
  Workers = {w1, w2}
  MaxAttempts = 2
  Queue = 1
  MaxTenantEvents = 2
INVARIANTS OnRecordFirst OneSchedule
PROPERTIES OthersGetTheirs 
CHECK_DEADLOCK FALSE
