SPECIFICATION BackendSpec
CONSTANTS
  u1 = u1
  u2 = u2
  u3 = u3
  u4 = u4
  d1 = d1
  d2 = d2
  alice = alice
  bob = bob
  x0 = x0
  x1 = x1
  c1 = c1
  c2 = c2
  c3 = c3
  NoID = NoID
  NoLock = NoLock
  NoStack = NoStack
  NoData = NoData
  NoUpdate = NoUpdate
  NoCall = NoCall
  Kept = {"nil", "LockHeld", "ErrNoLock", "ErrStackNotFound", "ErrStackExists", "ErrConcurrentMutation", "ErrInvalidUpdateState", "ErrUpdateNotFound", "ErrCheckpointNotFound", "error", "crashed"}
  Kinds = {"preview", "update", "import"}
  SkewedClocks = FALSE
  Fresh = {}
  MaxCalls = 60
  Calls <- BoundedCalls
  Callers = {c1, c2}
  UpdateIDs = {u1, u2}
  DeletionIDs = {d1}
  Owners = {alice, bob}
  Deployments = {x1}
  Empty = {}
  MaxTries = 5
  BatchSize = 2
  FirstStacks <- FirstOfSituations
  Situations <- Creation
  S3Faults = TRUE
  Crashes = TRUE
  MaxInc = 1
  MaxGen = 4
  MaxVersion = 3
SYMMETRY CallerSymmetry
INVARIANTS  StartedVersionsDistinct
PROPERTY ServiceSpec
