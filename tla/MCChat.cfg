\* Two requests for one slot, so that a slot released too early lets the second in
\* beside a stream; one line is enough for the watchdog to be restarted.
SPECIFICATION FairSpec
CONSTANTS
  Requests = {r1, r2}
  Limit = 1
  Idle = 2
  Clients = {"slow", "gone"}
  MaxLines = 1
INVARIANTS InFlightBounded MeteredOnce EndingTruthful
PROPERTY SlotFreed
CHECK_DEADLOCK FALSE
