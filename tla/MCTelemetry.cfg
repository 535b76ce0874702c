\* Three records through a buffer of one: one in hand, one queued and one too many;
\* two handlers, so that a forgotten delivery can race the retry of the same record.
SPECIFICATION FairSpec
CONSTANTS
  Records = {r1, r2, r3}
  Buffer = 1
  Handlers = {h1, h2}
  Malformed = {r2}
  Unstorable = {}
  MayTimeOut = FALSE
  None = None
INVARIANTS BilledOnce 
PROPERTIES KeepsTheBooks CloseReturns BacklogArrives
