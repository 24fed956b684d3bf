--------------------------- MODULE MCAuthorization ---------------------------
(***************************************************************************)
(* Configurations of at most MaxRules rules, each field of a rule right or *)
(* wrong in one of the ways ValidateRules knows: a list that is empty, an  *)
(* empty name, a wildcard, an unknown action.                              *)
(***************************************************************************)
EXTENDS Authorization

SomeDrafts ==
  [groups : {{}, {"g1"}, {"g2"}, {"g1", Wild}, {"g1", Empty}},
   organizations : {{}, {"n1"}, {Wild}},
   projects : {{"n1"}, {Wild}},
   stacks : {{}, {"n2"}, {Wild}, {Empty}},
   actions : {{}, {"write"}, {Wild}, {"other"}}]
==============================================================================
