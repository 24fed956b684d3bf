------------------------------ MODULE MCTokens -------------------------------
(***************************************************************************)
(* Instances of Tokens for TLC.  In one scenario one key is replaced by    *)
(* another, in service with authentication; in the other the service also  *)
(* runs without, as on a developer's machine.                              *)
(***************************************************************************)
EXTENDS Tokens

CONSTANTS TTL, Lease   \* tokenTTL and leaseDuration of all configurations

VARIABLE scenario      \* the one that this behaviour belongs to

Rule == [groups |-> {"g1"}, organizations |-> {"n1"}, projects |-> {"*"}, stacks |-> {"*"},
         actions |-> {"write"}]
Key(id) == [id |-> id, long |-> TRUE]
Config(keys, active, noAuth) ==
  [noAuth |-> noAuth, loopback |-> noAuth, oidc |-> ~noAuth, keys |-> keys,
   active |-> active, rules |-> {Rule}, rest |-> TRUE, ttl |-> TTL, lease |-> Lease]

Rotation ==
  {Config(<<Key("k1")>>, "k1", FALSE), Config(<<Key("k1"), Key("k2")>>, "k2", FALSE),
   Config(<<Key("k2")>>, "k2", FALSE),
   Config(<<Key("k1")>>, "k2", FALSE), Config(<<Key("k2"), Key("k2")>>, "k2", FALSE)}
AnyMode ==
  {Config(<<Key("k1")>>, "k1", FALSE), Config(<<Key("k1"), Key("k2")>>, "k2", TRUE),
   Config(<<Key("k1")>>, "", TRUE)}

Credential(kid, claims) == [kid |-> kid, claims |-> claims]
Person ==
  Credential("idp", [typ |-> "id", sub |-> "p", iss |-> "idp", email |-> "p@n1", groups |-> {"g1"}])
Machine ==
  Credential("idp", [typ |-> "id", sub |-> "m", iss |-> "idp", preferred_username |-> "bot",
                     name |-> "m", groups |-> {"g1", "g2"}])
Secret == Credential("secret", Opaque)
Path(org, upd) == [org |-> org, prj |-> "n1", stk |-> "n2", kind |-> "update", upd |-> upd]

Scenario ==
  [rotation |-> [configs |-> Rotation, credentials |-> {Person}, paths |-> {Path("n1", "u1")},
                 time |-> 14, tokens |-> 2],
   modes    |-> [configs |-> AnyMode, credentials |-> {Machine, Secret},
                 paths |-> {Path("n1", "u1"), Path("n1", "u2"), Path("n1", "..")},
                 time |-> 2, tokens |-> 3]]
AllConfigs == Rotation \cup AnyMode
AllCredentials == {Person, Machine, Secret}
AllPaths == Scenario["modes"].paths

\* Spec, each behaviour within one scenario.
MCInit ==
  /\ Init
  /\ scenario \in DOMAIN Scenario
  /\ conf \in Scenario[scenario].configs

MCNext ==
  LET s == Scenario[scenario] IN
  /\ \/ now < s.time /\ Tick
     \/ \E c \in s.configs : Restart(c)
     \/ /\ Cardinality(tokens) < s.tokens
        /\ \E raw \in Presented \ (AllCredentials \ s.credentials) : Request(raw, s.paths)
  /\ UNCHANGED scenario

MCSpec == MCInit /\ [][MCNext]_<<vars, scenario>>
==============================================================================
