\* Room for two small answers or a large one, and two captures.  Tenants ask for the
\* defaults, for less, for none, and for more than the ceilings.
SPECIFICATION Spec
CONSTANTS
  t1 = t1
  t2 = t2
  k1 = k1
  k2 = k2
  m1 = m1
  m2 = m2
  b1 = b1
  r1 = r1
  r2 = r2
  Tenants = {t1, t2}
  Keys = {k1, k2}
  Owner <- OwnerOf
  Requests = {r1, r2}
  Bodies = {b1}
  Models = {m1, m2}
  Sizes = {1, 2, 3}
  MaxBytes = 2
  MaxEntryBytes = 2
  Policies <- AskedOf
  DefaultCacheTTL = 1
  MaxCacheTTL = 1
  DefaultCaptureTTL = 2
  MaxCaptureTTL = 2
  MaxCaptures = 2
  SweepEvery = 1
  Administered = {t1}
  MaxChanges = 2
INVARIANTS AnswersUnderTheirName  DeletedLeavesNothing
SYMMETRY AnyOrder
