SPECIFICATION MCSpec
CONSTANTS
  Absent = Absent
  Half = 32
  MaxPageSize = 7
  Totals = {0, 1, 2, 3, 4, 5}
  PageParams <- SomePages
  SizeParams <- SomePageSizes
  Stacks <- SomeStacks
  Rank <- KeyOrder
  Others <- OtherKeys
  ListPage = 3
  Queries <- SomeQueries
  NoAuth = FALSE
  AccessRules <- SomeRules
  Groups = {"g1"}
  GroupNames = {"g1", "g2"}
  Names = {"n1", "n2"}
  Owners <- SomeOwners
  Sizes <- SomeSizes
  MaxPlaintext = 1048576
  MaxCiphertext = 2097152
  MaxItems = 2
  MaxBatch = 3
  MaxMade = 2
  Clients = {"c1", "c2", "c3"}
INVARIANTS SliceInRange PagesTile ListingExact OpensWhereSealed CleanExit FailureReported
PROPERTY Stops
