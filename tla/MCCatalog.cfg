\* Enough admin changes to register both providers and change one, and upstream
\* changes for a provider to fail and another to change its list.
SPECIFICATION Spec
CONSTANTS
  c1 = c1
  None = None
  Names = {"p1", "p2"}
  Ids <- IdsOf
  Position <- PositionOf
  Cost <- CostOf
  Callers = {c1}
  AliasName <- TheAlias
  AliasDefs <- Defs
  Chains <- ChainsOf
  MaxDepth = 2
  TTL = 1
  MaxChanges = 3
  MaxTurns = 1
INVARIANTS  EventsTellTheCatalog DiagnosisMatchesRouting
 
