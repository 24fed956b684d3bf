------------------------- MODULE AuthorizationProofs -------------------------
(***************************************************************************)
(* What Authorization's runs check, for any groups, names and drafts.      *)
(***************************************************************************)
EXTENDS Authorization, TLAPS

\* Only rules that pass ValidateRules are ever served: Start is the one way up,
\* and the rules of a running service stay as they are.
THEOREM ServedRulesPassed == Spec => []RulesOK
<1>1. Init => RulesOK
  BY DEF Init, RulesOK
<1>2. RulesOK /\ [Next]_vars => RulesOK'
  <2> SUFFICES ASSUME RulesOK, [Next]_vars PROVE RulesOK'
    OBVIOUS
  <2>1. ASSUME NEW rule \in Drafts, Edit(rule) PROVE RulesOK'
    BY <2>1, NamesAssumption DEF Edit, RulesOK
  <2>2. CASE Start
    BY <2>2 DEF Start, RulesOK, ValidateRules
  <2>3. CASE Reconfigure
    BY <2>3 DEF Reconfigure, RulesOK
  <2>4. CASE UNCHANGED vars
    BY <2>4 DEF vars, RulesOK, ValidateRules
  <2> QED
    BY <2>1, <2>2, <2>3, <2>4 DEF Next
<1> QED
  BY <1>1, <1>2, PTL DEF Spec

\* A list of names that passed matches some name; this is where ValidateRules'
\* demand for non-empty lists is needed.
LEMMA ValidScopeMatches ==
  ASSUME NEW values \in SUBSET ScopeValues, ValidateStrings(values, TRUE)
  PROVE  \E name \in Names : MatchesScope(values, name)
<1>1. PICK v \in values : TRUE
  BY DEF ValidateStrings
<1>2. CASE v = Wild
  <2>1. PICK name \in Names : TRUE
    BY NamesAssumption
  <2> QED
    BY <1>1, <1>2, <2>1, NamesAssumption DEF MatchesScope
<1>3. CASE v # Wild
  <2>1. v \in Names /\ v # Empty
    BY <1>1, <1>3 DEF ScopeValues, ValidateStrings
  <2> QED
    BY <1>1, <2>1 DEF MatchesScope
<1> QED
  BY <1>2, <1>3

\* The same for a rule's actions.
LEMMA ValidActionsMatch ==
  ASSUME NEW rule, rule.actions # {}, rule.actions \subseteq Actions \cup {Wild}
  PROVE  \E action \in Actions : MatchesAction(rule, action)
<1>1. PICK a \in rule.actions : TRUE
  OBVIOUS
<1>2. CASE a = Wild
  BY <1>1, <1>2 DEF MatchesAction, Actions
<1>3. CASE a # Wild
  BY <1>1, <1>3 DEF MatchesAction
<1> QED
  BY <1>2, <1>3

\* HEAD on a project tells a caller the truth about its stacks, for all rules
\* that pass (AllowsProject, Allows).
THEOREM HeadIsTruthful == Spec => []ProjectGrantsAreReal
<1>1. RulesOK => ProjectGrantsAreReal
  <2> SUFFICES ASSUME RulesOK, running,
                      NEW groups \in SUBSET (GroupNames \cup {Wild, Empty}),
                      NEW action \in Actions, NEW org \in Names, NEW project \in Names
               PROVE  AllowsProject(groups, action, org, project)
                        <=> \E stack \in Names : Allows(groups, action, org, project, stack)
    BY DEF ProjectGrantsAreReal
  <2>1. ASSUME AllowsProject(groups, action, org, project)
        PROVE  \E stack \in Names : Allows(groups, action, org, project, stack)
    <3>1. PICK rule \in rules : /\ Intersects(groups, rule)
                                /\ MatchesAction(rule, action)
                                /\ MatchesScope(rule.organizations, org)
                                /\ MatchesScope(rule.projects, project)
      BY <2>1 DEF AllowsProject
    <3>2. rule.stacks \in SUBSET ScopeValues /\ ValidateStrings(rule.stacks, TRUE)
      BY DEF RulesOK, ValidateRules, Rules
    <3>3. PICK stack \in Names : MatchesScope(rule.stacks, stack)
      BY <3>2, ValidScopeMatches
    <3> QED
      BY <3>1, <3>3 DEF Allows
  <2>2. ASSUME NEW stack \in Names, Allows(groups, action, org, project, stack)
        PROVE  AllowsProject(groups, action, org, project)
    BY <2>2 DEF Allows, AllowsProject
  <2> QED
    BY <2>1, <2>2
<1> QED
  BY <1>1, ServedRulesPassed, PTL

\* The middleware's gate and the later checks agree, for all rules that pass
\* (HasAnyGrant, Allows).
THEOREM GateIsExact == Spec => []GateTurnsAwayTheRest
<1>1. RulesOK => GateTurnsAwayTheRest
  <2> SUFFICES ASSUME RulesOK, running,
                      NEW groups \in SUBSET (GroupNames \cup {Wild, Empty})
               PROVE  HasAnyGrant(groups)
                        <=> \E action \in Actions, org \in Names, project \in Names,
                               stack \in Names : Allows(groups, action, org, project, stack)
    BY DEF GateTurnsAwayTheRest
  <2>1. ASSUME HasAnyGrant(groups)
        PROVE  \E action \in Actions, org \in Names, project \in Names, stack \in Names :
                 Allows(groups, action, org, project, stack)
    <3>1. PICK rule \in rules : Intersects(groups, rule)
      BY <2>1 DEF HasAnyGrant
    <3>2. /\ rule.organizations \in SUBSET ScopeValues
          /\ rule.projects \in SUBSET ScopeValues
          /\ rule.stacks \in SUBSET ScopeValues
      BY DEF RulesOK, Rules
    <3>3. /\ ValidateStrings(rule.organizations, TRUE)
          /\ ValidateStrings(rule.projects, TRUE)
          /\ ValidateStrings(rule.stacks, TRUE)
          /\ rule.actions # {} /\ rule.actions \subseteq Actions \cup {Wild}
      BY DEF RulesOK, ValidateRules
    <3>4. PICK action \in Actions : MatchesAction(rule, action)
      BY <3>3, ValidActionsMatch
    <3>5. PICK org \in Names : MatchesScope(rule.organizations, org)
      BY <3>2, <3>3, ValidScopeMatches
    <3>6. PICK project \in Names : MatchesScope(rule.projects, project)
      BY <3>2, <3>3, ValidScopeMatches
    <3>7. PICK stack \in Names : MatchesScope(rule.stacks, stack)
      BY <3>2, <3>3, ValidScopeMatches
    <3> QED
      BY <3>1, <3>4, <3>5, <3>6, <3>7 DEF Allows
  <2>2. ASSUME NEW action \in Actions, NEW org \in Names, NEW project \in Names,
               NEW stack \in Names, Allows(groups, action, org, project, stack)
        PROVE  HasAnyGrant(groups)
    BY <2>2 DEF Allows, HasAnyGrant
  <2> QED
    BY <2>1, <2>2
<1> QED
  BY <1>1, ServedRulesPassed, PTL

\* No rule that passes is matched by "*" or "" in a token (ValidateRules).
THEOREM NamedGroupsOnly == Spec => []OnlyNamedGroupsCount
<1>1. RulesOK => OnlyNamedGroupsCount
  BY DEF RulesOK, OnlyNamedGroupsCount, ValidateRules, ValidateStrings, HasAnyGrant,
         Intersects
<1> QED
  BY <1>1, ServedRulesPassed, PTL
==============================================================================
