SPECIFICATION MCSpec
CONSTANTS
  KeyIDs = {"k1", "k2"}
  GroupNames = {"g1", "g2"}
  Names = {"n1", "n2"}
  Unsafe = {".."}
  Second = 2
  FiveMinutes = 4
  TTL = 6
  Lease = 6
  MaxTime = 14
  MaxTokens = 3
  Configs <- AllConfigs
  IDTokens <- AllCredentials
  Paths <- AllPaths
INVARIANTS  WhoIsKept RenewalsStayInScope
