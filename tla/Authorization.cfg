SPECIFICATION Spec
CONSTANTS
  GroupNames = {"g1", "g2"}
  Names = {"n1", "n2"}
  Drafts <- SomeDrafts
  MaxRules = 2
 
INVARIANT ProjectGrantsAreReal
INVARIANT GateTurnsAwayTheRest
INVARIANT OnlyNamedGroupsCount
