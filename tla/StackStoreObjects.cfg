SPECIFICATION MCSpec
CONSTANTS
  u1 = u1
  u2 = u2
  d1 = d1
  d2 = d2
  alice = alice
  bob = bob
  x1 = x1
  x2 = x2
  c1 = c1
  c2 = c2
  c3 = c3
  NoID = NoID
  NoLock = NoLock
  NoStack = NoStack
  NoData = NoData
  NoUpdate = NoUpdate
  NoCall = NoCall
  Kept = {"nil"}
  Callers = {c1, c2, c3}
  UpdateIDs = {u1, u2}
  DeletionIDs = {d1, d2}
  Owners = {alice, bob}
  Deployments = {x1, x2}
  Kinds = {"preview", "update", "import"}
  MaxTries = 2
  SkewedClocks = FALSE
  BatchSize = 2
  Fresh <- FreshCalls
  MaxCalls = 4
  Calls <- ScenarioCalls
  FirstStacks <- ScenarioFirst
  Scenarios = {"deletion", "deletions", "checkpoints", "seeds", "records"}
SYMMETRY CallerSymmetry
INVARIANTS PreviewKept  ReadsCommitted ToldStatus
PROPERTY FencedSpec
