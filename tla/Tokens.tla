------------------------------- MODULE Tokens --------------------------------
(***************************************************************************)
(* Tokens (internal/authn, the middleware of internal/api, the checks of   *)
(* internal/config): an ID token is exchanged for a backend token, a       *)
(* backend token starts updates and gets update tokens, an update token is *)
(* renewed.  Meanwhile time passes and the operator restarts the service   *)
(* with other configurations: rotates signing keys, switches noAuth.       *)
(*                                                                         *)
(* Time is in ticks, several to a second, because tokens carry whole       *)
(* seconds.  Signatures are ideal: a token was signed with the key its     *)
(* kid names, or with none of the service's keys.                          *)
(***************************************************************************)
EXTENDS Integers, Sequences, FiniteSets

CONSTANTS
  KeyIDs,         \* names of signing keys
  Configs,        \* configurations that an operator may write, right or wrong
  IDTokens,       \* credentials from elsewhere: ID tokens, opaque strings
  Paths,          \* update routes: organization, project, stack, kind, update
  Unsafe,         \* path segments that validStorageSegment refuses
  GroupNames, Names,
  Second,         \* ticks per second
  FiveMinutes,    \* the shortest leaseDuration, and the longest renewal
  MaxTime,        \* bound on the clock
  MaxTokens       \* bound on the tokens issued

VARIABLES
  now,       \* time.Now()
  up,        \* whether the service runs
  conf,      \* the configuration it runs with, or ran with last
  tokens,    \* the tokens issued
  retained   \* per key: when the previous tokenTTL has elapsed

vars == <<now, up, conf, tokens, retained>>

Access ==
  INSTANCE Authorization WITH rules <- conf.rules, running <- up,
                              Drafts <- {}, MaxRules <- 0

Min2s == 2 * Second
NoIdentity == [iss |-> "", sub |-> "", user |-> "", groups |-> {}]   \* Identity{}
Opaque == [typ |-> "opaque"]   \* a credential that is no JWT
Missing == [kid |-> "", claims |-> Opaque]

------------------------------------------------------------------------------
(* config.go *)

IDs(keys) == {keys[i].id : i \in DOMAIN keys}

resolveSigningKeys(c) ==
  /\ c.active # ""
  /\ \A i \in DOMAIN c.keys : c.keys[i].id # "" /\ c.keys[i].long
  /\ \A i, j \in DOMAIN c.keys : c.keys[i].id = c.keys[j].id => i = j
  /\ c.active \in IDs(c.keys)

validate(c) ==
  /\ IF c.noAuth THEN c.loopback ELSE c.oidc
  /\ resolveSigningKeys(c)
  /\ c.noAuth \/ Access!ValidateRules(c.rules)
  /\ c.rest    \* secretsKey, bucket and region
  /\ c.ttl >= Min2s
  /\ c.lease >= FiveMinutes

------------------------------------------------------------------------------
(* authn.go *)

Claim(claims, name) == IF name \in DOMAIN claims THEN claims[name] ELSE ""

FirstOf(values) ==
  LET given == SelectSeq(values, LAMBDA v : v # "")
  IN  IF given = <<>> THEN "" ELSE Head(given)

identityFromClaims(claims, issuer) ==
  LET sub == Claim(claims, "sub")
      iss == FirstOf(<<issuer, Claim(claims, "oidc_iss"), Claim(claims, "iss")>>)
      user == FirstOf(<<Claim(claims, "preferred_username"), Claim(claims, "name"),
                        Claim(claims, "email"), sub>>)
  IN  IF sub = "" \/ iss = "" THEN NoIdentity
      ELSE [iss |-> iss, sub |-> sub, user |-> user,
            groups |-> IF "groups" \in DOMAIN claims THEN claims.groups ELSE {}]

localIdentity(name) == [iss |-> "local", sub |-> name, user |-> name, groups |-> {}]

\* The digest of an opaque credential stands for the credential.
IdentityFromToken(raw) ==
  LET id == identityFromClaims(raw.claims, "")
  IN  IF raw = Missing THEN localIdentity("local")
      ELSE IF raw.claims = Opaque THEN localIdentity(raw.kid)
      ELSE IF id = NoIdentity THEN localIdentity("local") ELSE id

\* time.Unix: whole seconds.
Unix(t) == (t \div Second) * Second

\* sign, and the claims that Issue and IssueUpdate have in common, without the
\* issuer of the identity.
SignIssuerless(id, ttl, more) ==
  [kid |-> conf.active,
   claims |-> [k \in {"sub", "name", "groups", "iat", "exp"} \cup DOMAIN more |->
                 CASE k = "sub" -> id.sub [] k = "name" -> id.user
                   [] k = "groups" -> id.groups
                   [] k = "iat" -> Unix(now) [] k = "exp" -> Unix(now + ttl)
                   [] OTHER -> more[k]]]

sign(id, ttl, more) ==
  [kid |-> conf.active,
   claims |-> [k \in {"sub", "oidc_iss", "name", "groups", "iat", "exp"} \cup DOMAIN more |->
                 CASE k = "sub" -> id.sub [] k = "oidc_iss" -> id.iss
                   [] k = "name" -> id.user [] k = "groups" -> id.groups
                   [] k = "iat" -> Unix(now) [] k = "exp" -> Unix(now + ttl)
                   [] OTHER -> more[k]]]

\* parse, knowing the active key only.
parseActive(raw) ==
  /\ raw.kid = conf.active
  /\ raw.claims.iat <= now /\ now < raw.claims.exp

parse(raw) ==
  /\ raw.kid \in IDs(conf.keys)
  /\ raw.claims.iat <= now /\ now < raw.claims.exp

Verify(raw) ==
  IF parse(raw) /\ Claim(raw.claims, "typ") = "backend"
                /\ Claim(raw.claims, "aud") = "pulumi-backend"
  THEN identityFromClaims(raw.claims, "") ELSE NoIdentity

\* VerifyScoped and updateTokenScope: the identity of an update token.  That of
\* a backend token is refused by the only caller.
VerifyScoped(raw) ==
  IF parse(raw) /\ Claim(raw.claims, "typ") = "update"
                /\ Claim(raw.claims, "aud") = "pulumi-backend-update"
  THEN identityFromClaims(raw.claims, "") ELSE NoIdentity

------------------------------------------------------------------------------
(* server.go *)

\* InScope, leaving out the update.
InStackScope(raw, path) ==
  \A k \in {"org", "prj", "stk", "kind"} : raw.claims[k] = path[k]

\* The comparison of authMiddleware and, once more, of requireUpdateScope.
InScope(raw, path) ==
  \A k \in {"upd", "org", "prj", "stk", "kind"} : raw.claims[k] = path[k]

validRouteScope(path) == {path.org, path.prj, path.stk, path.upd} \cap Unsafe = {}

\* authMiddleware for a route on path that requires the write action: the
\* identity it hands on, or NoIdentity where it answers itself.
authMiddleware(updateToken, scheme, raw, path) ==
  LET verified == IF updateToken THEN VerifyScoped(raw) ELSE Verify(raw)
      id == IF verified = NoIdentity /\ conf.noAuth THEN IdentityFromToken(raw) ELSE verified
      allowed == /\ Access!HasAnyGrant(id.groups)
                 /\ Access!Allows(id.groups, "write", path.org, path.prj, path.stk)
  IN  IF \/ ~conf.noAuth /\ (updateToken # (scheme = "update-token"))
         \/ id = NoIdentity
         \/ ~validRouteScope(path)
         \/ updateToken /\ verified # NoIdentity /\ ~InScope(raw, path)
      THEN NoIdentity
      ELSE IF conf.noAuth \/ allowed THEN id ELSE NoIdentity

------------------------------------------------------------------------------

\* A token is recorded with when, how and for whom it was issued.
Issued(raw, ttl, who, by) ==
  /\ ttl >= Min2s
  /\ Cardinality(tokens) < MaxTokens
  /\ tokens' = tokens \cup {[raw |-> raw, at |-> now, ttl |-> ttl, who |-> who, by |-> by,
                             auth |-> ~conf.noAuth]}
  /\ UNCHANGED <<now, up, conf, retained>>

\* Credentials that clients may present, and who is behind each.
Presented == {t.raw : t \in tokens} \cup IDTokens \cup {Missing}
Behind(raw) ==
  IF raw \in {t.raw : t \in tokens} THEN (CHOOSE t \in tokens : t.raw = raw).who
                                    ELSE IdentityFromToken(raw)

\* Validate, the library's check of an ID token, is sure of its issuer.
tokenExchange(raw) ==
  LET id == IF conf.noAuth THEN IdentityFromToken(raw)
            ELSE identityFromClaims(raw.claims, Claim(raw.claims, "iss"))
  IN  /\ up
      /\ raw # Missing
      /\ id # NoIdentity
      /\ conf.noAuth \/ (raw \in IDTokens /\ Access!HasAnyGrant(id.groups))
      /\ Issued(sign(id, conf.ttl, [typ |-> "backend", aud |-> "pulumi-backend"]),
                conf.ttl, IF conf.noAuth THEN Behind(raw) ELSE id, "exchange")

IssueUpdate(id, raw, path, ttl, by) ==
  Issued(sign(id, ttl, [typ |-> "update", aud |-> "pulumi-backend-update", upd |-> path.upd,
                        org |-> path.org, prj |-> path.prj, stk |-> path.stk,
                        kind |-> path.kind]),
         ttl, Behind(raw), by)

\* startUpdate, as far as tokens are concerned.
startUpdate(scheme, raw, path) ==
  LET id == authMiddleware(FALSE, scheme, raw, path)
  IN  up /\ id # NoIdentity /\ IssueUpdate(id, raw, path, conf.lease, "start")

\* renewLease: durations that are not positive or too long become five minutes.
renewLease(scheme, raw, path, duration) ==
  LET id == authMiddleware(TRUE, scheme, raw, path)
      d == IF duration <= 0 \/ duration > FiveMinutes THEN FiveMinutes ELSE duration
  IN  up /\ id # NoIdentity /\ IssueUpdate(id, raw, path, d, "renew")

\* The operator's rule for removing keys.  Repository: "leave old keys in the
\* keyring until the previous `tokenTTL` has elapsed."
LeavesOldKeys(c) ==
  \A t \in tokens : t.raw.kid \in IDs(c.keys) \cup {k \in KeyIDs \ {conf.active} : retained[k] <= now}

\* The service is restarted; with a configuration that Load refuses it is down.
Restart(c) ==
  /\ c # conf \/ ~up
  /\ \/ ~validate(c) /\ up' = FALSE /\ UNCHANGED <<conf, retained>>
     \/ /\ validate(c) /\ LeavesOldKeys(c)
        /\ up' = TRUE
        /\ conf' = c
        /\ retained' = IF c.active = conf.active THEN retained
                       ELSE [retained EXCEPT ![conf.active] = now + conf.ttl]
  /\ UNCHANGED <<now, tokens>>

Tick ==
  /\ now < MaxTime
  /\ now' = now + 1
  /\ UNCHANGED <<up, conf, tokens, retained>>

Init ==
  /\ now = 0
  /\ up = TRUE
  /\ conf \in {c \in Configs : validate(c)}
  /\ tokens = {}
  /\ retained = [k \in KeyIDs |-> 0]

\* A request that a token is issued for.
Request(raw, paths) ==
  \/ tokenExchange(raw)
  \/ \E path \in paths, scheme \in {"token", "update-token"} :
       \/ startUpdate(scheme, raw, path)
       \/ \E d \in 0..FiveMinutes + 1 : renewLease(scheme, raw, path, d)

Next ==
  \/ Tick
  \/ \E c \in Configs : Restart(c)
  \/ \E raw \in Presented : Request(raw, Paths)

Spec == Init /\ [][Next]_vars

------------------------------------------------------------------------------
(* Properties *)

\* A token tells who is behind it, as the first credential in its line told it,
\* through exchange, start and renewals, restarts with other keys and expiry
\* (identityFromClaims reads back what Issue and IssueUpdate write).
WhoIsKept == \A t \in tokens : identityFromClaims(t.raw.claims, "") = t.who

\* While authentication is on, a line of renewals stays with the update and the
\* identity it was started for (authMiddleware, requireUpdateScope).
RenewalsStayInScope ==
  (\A t \in tokens : t.auth) =>
    \A t \in tokens : t.by = "renew" =>
      \E s \in tokens : /\ s.by = "start" /\ s.who = t.who
                        /\ \A k \in {"upd", "org", "prj", "stk", "kind"} :
                             s.raw.claims[k] = t.raw.claims[k]

\* A token is good for all of its lifetime but the second that rounding takes,
\* however keys are rotated by the operator's rule (resolveSigningKeys, parse).
TokensLast ==
  up => \A t \in tokens : now <= t.at + t.ttl - Second => parse(t.raw)
==============================================================================
