---------------------------- MODULE Authorization ----------------------------
(***************************************************************************)
(* The access rules (internal/authz): a configuration is edited, validated *)
(* when the service starts, and then decides requests.  The service checks *)
(* a request in up to three places: that the caller's groups occur in some *)
(* rule at all (HasAnyGrant, in the middleware), that a rule grants the    *)
(* action on the stack (Allows) or, for HEAD on a project, in the project  *)
(* (AllowsProject).                                                        *)
(***************************************************************************)
EXTENDS Naturals, FiniteSets

CONSTANTS
  GroupNames,   \* names of groups, in rules and in tokens
  Names,        \* names of organizations, projects and stacks
  Drafts,       \* the rules an operator may write, right or wrong
  MaxRules      \* bound on the rules of a configuration

Actions == {"read", "write", "delete", "secrets"}

\* What a YAML list of names can hold besides names.
Wild == "*"
Empty == ""
ScopeValues == Names \cup {Wild, Empty}

\* type Rule: its lists as sets, their order being of no effect.
Rules ==
  [groups : SUBSET (GroupNames \cup {Wild, Empty}),
   organizations : SUBSET ScopeValues, projects : SUBSET ScopeValues,
   stacks : SUBSET ScopeValues, actions : SUBSET (Actions \cup {Wild, "other"})]

ASSUME NamesAssumption ==
  /\ Names # {} /\ Empty \notin Names
  /\ GroupNames \cap {Wild, Empty} = {}
  /\ Drafts \subseteq Rules
  /\ MaxRules \in Nat

VARIABLES
  rules,     \* the configured rules
  running    \* whether the service has accepted them and serves

vars == <<rules, running>>

------------------------------------------------------------------------------

Intersects(groups, rule) == groups \cap rule.groups # {}

MatchesAction(rule, want) == Wild \in rule.actions \/ want \in rule.actions

MatchesScope(values, want) == want # Empty /\ (Wild \in values \/ want \in values)

Allows(groups, action, org, project, stack) ==
  \E rule \in rules :
    /\ Intersects(groups, rule)
    /\ MatchesAction(rule, action)
    /\ MatchesScope(rule.organizations, org)
    /\ MatchesScope(rule.projects, project)
    /\ MatchesScope(rule.stacks, stack)

AllowsProject(groups, action, org, project) ==
  \E rule \in rules :
    /\ Intersects(groups, rule)
    /\ MatchesAction(rule, action)
    /\ MatchesScope(rule.organizations, org)
    /\ MatchesScope(rule.projects, project)

\* HasAnyGrant that looks for read access.
HasReadGrant(groups) ==
  \E rule \in rules : Intersects(groups, rule) /\ MatchesAction(rule, "read")

HasAnyGrant(groups) == \E rule \in rules : Intersects(groups, rule)

\* ValidateStrings that lets an empty list pass.
ValidateElements(values, allowWildcard) ==
  Empty \notin values /\ (Wild \in values => allowWildcard)

ValidateStrings(values, allowWildcard) ==
  /\ values # {}
  /\ Empty \notin values
  /\ Wild \in values => allowWildcard

\* ValidateRules with wildcards allowed among the groups.
ValidateRulesLoosely(rs) ==
  /\ rs # {}
  /\ \A rule \in rs :
       /\ ValidateStrings(rule.groups, TRUE)
       /\ ValidateStrings(rule.organizations, TRUE)
       /\ ValidateStrings(rule.projects, TRUE)
       /\ ValidateStrings(rule.stacks, TRUE)
       /\ rule.actions # {} /\ rule.actions \subseteq Actions \cup {Wild}

ValidateRules(rs) ==
  /\ rs # {}
  /\ \A rule \in rs :
       /\ ValidateStrings(rule.groups, FALSE)
       /\ ValidateStrings(rule.organizations, TRUE)
       /\ ValidateStrings(rule.projects, TRUE)
       /\ ValidateStrings(rule.stacks, TRUE)
       /\ rule.actions # {} /\ rule.actions \subseteq Actions \cup {Wild}

------------------------------------------------------------------------------

Init == rules = {} /\ running = FALSE

\* The operator adds a rule to the configuration of a service that is down.
Edit(rule) ==
  /\ ~running
  /\ Cardinality(rules) < MaxRules
  /\ rules' = rules \cup {rule}
  /\ UNCHANGED running

\* Start without validation.
StartUnchecked ==
  /\ ~running
  /\ running' = TRUE
  /\ UNCHANGED rules

\* The service comes up only with rules that pass.
Start ==
  /\ ~running
  /\ ValidateRules(rules)
  /\ running' = TRUE
  /\ UNCHANGED rules

\* The service goes down, or never came up, and the operator starts over.
Reconfigure ==
  /\ rules # {}
  /\ rules' = {}
  /\ running' = FALSE

Next == (\E rule \in Drafts : Edit(rule)) \/ Start \/ Reconfigure

Spec == Init /\ [][Next]_vars

------------------------------------------------------------------------------

\* What a running service relies on: rules of the right shape that passed.
RulesOK == rules \subseteq Rules /\ (running => ValidateRules(rules))

\* HEAD on a project and the requests on its stacks agree, although
\* AllowsProject never looks at a rule's stacks: a caller is told that it has
\* access to a project exactly if there is a stack name it has access to.
ProjectGrantsAreReal ==
  running =>
    \A groups \in SUBSET (GroupNames \cup {Wild, Empty}), action \in Actions,
       org \in Names, project \in Names :
      AllowsProject(groups, action, org, project)
        <=> \E stack \in Names : Allows(groups, action, org, project, stack)

\* The middleware's first gate turns away exactly the callers that no later
\* check would let do anything.
GateTurnsAwayTheRest ==
  running =>
    \A groups \in SUBSET (GroupNames \cup {Wild, Empty}) :
      HasAnyGrant(groups)
        <=> \E action \in Actions, org \in Names, project \in Names, stack \in Names :
              Allows(groups, action, org, project, stack)

\* Access comes from named groups alone: a token whose groups claim holds "*" or
\* an empty string matches no rule by them, and without a group nothing is
\* allowed (default deny).
OnlyNamedGroupsCount ==
  running => ~HasAnyGrant({Wild, Empty})
==============================================================================
