\* A development server as it starts, three writes to it, and a client that takes
\* pages of one; a limit of three is refused.
SPECIFICATION WSpec
CONSTANTS
  h1 = h1
  h2 = h2
  Handlers = {h1, h2}
  Names = {1, 2}
  Seeds <- OneSeed
  Created = {"provider"}
  Upserted = {"alias"}
  Ids <- Drawable
  Rank <- RandomRank
  Listed = {"tenant", "provider", "audit"}
  Limits = {0, 3}
  DefaultPageLimit = 1
  MaxPageLimit = 2
  MaxAudit = 3
  MaxChanges = 3
  PerTick = 5
  TenantPatches <- RenamedOrSuspended
INVARIANTS  ScopeConfined WalkComplete Explained
CHECK_DEADLOCK FALSE
SYMMETRY AnyHandler
