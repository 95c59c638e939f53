---------------------------- MODULE AccessGuards ----------------------------
(***************************************************************************)
(* The checks a request meets before anything is read or written for it:   *)
(* the middleware and the session (lib/auth/auth.config.ts, auth.ts), the   *)
(* guards on Origin and Host, the secrets of the cron routes and the        *)
(* reporters' keys, the claims of an identity provider, and the rules that  *)
(* make an invite good, of which the repository has three.                 *)
(*                                                                         *)
(* Each is a function of a request, so they are operators.  A header is    *)
(* NoHeader, "null", "garbage" (it does not parse) or the origin of what it *)
(* names.                                                                  *)
(***************************************************************************)
EXTENDS Integers, Sequences, FiniteSets, FiniteSetsExt

CONSTANTS NoHeader, PublicDomains

(* What is missing is not the same as anything that is sent or compared.     *)
ASSUME HeaderAssumption ==
  NoHeader \notin STRING \cup {"", "null", "same-origin", "none", "same-site", "cross-site", "admin"}

(* The request, of some kind, that the guards are asked about. *)
VARIABLE input

AccessRoles == {"member", "manager", "admin"}
ManagerRoles == {"manager", "admin"}

-----------------------------------------------------------------------------
(* Where a request comes from.                                              *)

SameOrigin(header, base) == header \notin {"null", "garbage"} /\ header = base
CheckSigninOrigin(r, base) ==
  LET candidate == IF r.origin # NoHeader THEN r.origin ELSE r.referer
  IN IF r.origin = "null" THEN "null-origin"
     ELSE IF candidate = NoHeader THEN "missing-origin"
     ELSE IF SameOrigin(candidate, base) THEN "ok" ELSE "cross-origin"

CheckSameOriginGet(r, base) ==
  CASE r.fetchSite \in {"same-origin", "none"} -> "ok"
    [] r.fetchSite = "same-site" -> "same-site-rejected"
    [] r.fetchSite = "cross-site" -> "cross-site"
    [] OTHER -> IF r.origin = "null" THEN "null-origin"
                ELSE IF r.origin # NoHeader
                  THEN IF SameOrigin(r.origin, base) THEN "ok" ELSE "cross-origin"
                ELSE IF r.referer # NoHeader
                  THEN IF SameOrigin(r.referer, base) THEN "ok" ELSE "cross-origin"
                ELSE "missing-origin"

(* A Host is [name, port]; only the port is taken off before it is compared. *)
LocalNames == {"localhost", "127.0.0.1", "[::1]"}
IsLocalhostHost(host) == host # NoHeader /\ host.name \in LocalNames
BypassHost(host) == host # NoHeader /\ host.name = "localhost"

(* POSTs to the sign-in are checked against the Host they name themselves;    *)
(* without one, against the address the server is bound to.                  *)
CsrfWrap(r) ==
  IF r.method = "POST" /\ r.path = "/api/auth/signin"
    THEN CheckSigninOrigin(r, IF r.host = NoHeader THEN "bind" ELSE r.host.name)
    ELSE "ok"

-----------------------------------------------------------------------------
(* Who it is.  A token is [email, id, role, org]; the rows are those of its   *)
(* address, the oldest first, and only the ones whose role is known count.   *)

NoUser == [id |-> NoHeader, role |-> NoHeader, org |-> NoHeader]
LoadUserByEmail(rows) == {n \in 1 .. Len(rows) : rows[n].role \in AccessRoles}
LoadUserBySsoIdentity(rows) ==
  CASE Len(rows) > 1 -> "throws"
    [] Len(rows) = 1 /\ rows[1].role \in AccessRoles -> rows[1]
    [] OTHER -> NoUser

(* The rows of an address against an account (evaluateSignIn).               *)
EvaluateSignIn(oauth, rows) ==
  CASE rows = <<>> -> "bootstrap"
    [] Len(rows) > 1 -> "ambiguous-multi-org"
    [] OTHER -> CASE rows[1].sso = NoHeader -> "fill-sso"
                  [] rows[1].sso = oauth -> "allow"
                  [] OTHER -> "reject-mismatch"
SignInDefaultVerdict(decision) == decision \in {"allow", "fill-sso", "bootstrap"}
Jwt(rows) ==
  IF LoadUserByEmail(rows) = {} THEN NoUser ELSE rows[Min(LoadUserByEmail(rows))]
SessionOf(token) == [token EXCEPT !.role = IF @ \in AccessRoles THEN @ ELSE NoHeader]
LocalDevSession == [id |-> "local", role |-> "admin", org |-> "local"]

(* Without AUTH_REQUIRED everybody is the local administrator.               *)
IsAuthRequired(env) == env.authRequired
Auth(env, token) ==
  IF ~IsAuthRequired(env) THEN LocalDevSession ELSE SessionOf(token)

(* A path is the first of these prefixes it starts with.                     *)
Paths == {"/me", "/api/manager", "/manager/admin", "/manager", "/api/auth/signin", "other"}
Authorized(path, signedIn, session) ==
  CASE path = "/me" -> IF signedIn THEN "next" ELSE "signin"
    [] path = "/api/manager" ->
         IF ~signedIn THEN "401" ELSE IF session.role \in ManagerRoles THEN "next" ELSE "403"
    [] path \in {"/manager", "/manager/admin"} ->
         IF ~signedIn THEN "signin"
         ELSE IF path = "/manager/admin" /\ session.role # "admin" THEN "403"
         ELSE IF session.role \in ManagerRoles THEN "next" ELSE "403"
    [] OTHER -> "next"
RootMiddleware(env, r, signedIn, session) ==
  IF ~IsAuthRequired(env)
    THEN IF IsLocalhostHost(r.host) THEN "next" ELSE "403"
    ELSE Authorized(r.path, signedIn, session)
RequireRole(signedIn, session, allowed) ==
  IF ~signedIn THEN "signin" ELSE IF session.role \in allowed THEN "next" ELSE "403"

-----------------------------------------------------------------------------
(* Secrets.                                                                 *)

(* env is [node, e2eBypass, bypassAllowed, cronSecret, authRequired].        *)
IsDevOrTest(env) == env.node \in {"test", "development"}
BypassOptedIn(env) == IsDevOrTest(env) \/ env.bypassAllowed
IsAuthorizeOn(env) == env.e2eBypass /\ BypassOptedIn(env)
RefusesBypass(env) == env.e2eBypass /\ ~IsDevOrTest(env) /\ ~env.bypassAllowed
CreateAuthorize(env, host, rows) ==
  IF IsAuthorizeOn(env) /\ BypassHost(host) /\ Len(rows) > 0 THEN rows[1] ELSE NoUser

RefusesCronSecret(env) == env.node \in {"production", "staging"} /\ env.cronSecret = ""
AssertInternalCronAuth(env, provided) ==
  LET given == IF provided = NoHeader THEN "" ELSE provided
  IN env.cronSecret # "" /\ given = env.cronSecret
AssertCronSecret(env, provided) ==
  env.cronSecret # "" /\ provided \notin {NoHeader, ""} /\ provided = env.cronSecret

(* An Authorization header is [scheme, trimmed, tokens]: how many words      *)
(* follow the scheme.                                                       *)
ParseBearerAuthorization(h) ==
  h # NoHeader /\ h.trimmed /\ h.scheme = "bearer" /\ h.tokens = 1
(* A remembered verification never stands in for the comparison.             *)
VerifyKeySecret(secret, stored) == secret = stored

-----------------------------------------------------------------------------
(* What the identity provider claims.  An account is [direct, token], the     *)
(* claim of the account and of its id_token; either may be missing, and a     *)
(* token may be malformed or too long.                                      *)

ExtractClaim(account) ==
  IF account = NoHeader THEN ""
  ELSE IF account.direct # "" THEN account.direct
  ELSE IF account.token \in {NoHeader, "malformed", "long"} THEN ""
  ELSE account.token
ExtractEmailVerified(account, user) ==
  IF account # NoHeader /\ account.direct \in BOOLEAN THEN account.direct
  ELSE IF account # NoHeader /\ account.token \in BOOLEAN THEN account.token
  ELSE IF user \in BOOLEAN THEN user
  ELSE FALSE

IsPublicDomain(domain) == domain \in PublicDomains

(* A chain of causes; the handler looks at the first eight.                  *)
ReplayDepth == 8
IsStateReplayAuthError(chain) ==
  \E i \in 1 .. Len(chain) : i <= ReplayDepth /\ chain[i] = "replay"

(* Two accepted sign-ins of a subject, the minutes between them, and the      *)
(* kilometres km between two cities.                                        *)
CheckImpossibleTravel(prior, city, minutes, km) ==
  /\ city # NoHeader /\ prior # NoHeader
  /\ minutes < 60 /\ km[prior, city] > 500

(* Only an address that is routable is looked up.                            *)
IpToCity(ip, cityOf) ==
  IF ip.kind \in {"empty", "malformed", "private"} THEN NoHeader ELSE cityOf[ip.net]
(* The first hop a trusted proxy names; it may be blank.                      *)
GetTrustedClientIp(r, trusted) ==
  CASE ~trusted -> NoHeader
    [] trusted /\ r.forwarded = NoHeader -> r.realIp
    [] trusted /\ r.forwarded # NoHeader -> IF r.forwarded = "" THEN NoHeader ELSE r.forwarded
TruncateIpForAudit(ip) == IF ip.kind \in {"empty", "malformed"} THEN NoHeader ELSE ip.net

-----------------------------------------------------------------------------
(* Invites.  A pattern is NoHeader, or [local, domain] where the local part    *)
(* may be "*"; an address is [local, domain, ascii].                         *)

Malformed == [local |-> "", domain |-> ""]
MatchEmailPattern(pattern, email) ==
  \/ pattern = NoHeader
  \/ /\ pattern # Malformed /\ email.local # "" /\ email.domain = pattern.domain
     /\ \/ pattern.local = "*" /\ email.ascii
        \/ pattern.local = email.local

ClassifyInvite(i, email, now) ==
  IF i.revokedAt # NoHeader THEN "token-revoked"
  ELSE IF now > i.expiresAt THEN "token-expired"
  ELSE IF i.used >= i.max THEN "token-exhausted"
  ELSE IF ~MatchEmailPattern(i.pattern, email) THEN "email-mismatch"
  ELSE "ok"

(* Mutant of RevalidateInvite: expiry is compared the other way. *)
RevalidateInviteLate(i, now) ==
  IF i.revokedAt # NoHeader /\ i.revokedAt <= now THEN "revoked"
  ELSE IF i.expiresAt < now THEN "expired"
  ELSE IF i.used >= i.max THEN "exhausted"
  ELSE "valid"

RevalidateInvite(i, now) ==
  IF i.revokedAt # NoHeader /\ i.revokedAt <= now THEN "revoked"
  ELSE IF i.expiresAt <= now THEN "expired"
  ELSE IF i.used >= i.max THEN "exhausted"
  ELSE "valid"
MatchActiveInvite(i, email, now) ==
  /\ i.revokedAt = NoHeader /\ i.expiresAt > now /\ i.used < i.max
  /\ MatchEmailPattern(i.pattern, email)
DeriveInviteStatus(i, now) ==
  IF i.revokedAt # NoHeader THEN "revoked"
  ELSE IF i.expiresAt <= now THEN "expired"
  ELSE IF i.used >= i.max THEN "exhausted"
  ELSE "active"

-----------------------------------------------------------------------------
(* How the checks fit together.                                             *)

(* Three rules say when an invite is good; a fourth labels it for managers.   *)
(* They agree, but at the instant of expiry, when only a redeem is let in     *)
(* (redeem.ts:228), and for an invite revoked after the clock was read.      *)
InviteRulesAgree(i, email, now) ==
  LET matched == MatchEmailPattern(i.pattern, email)
      matches == MatchActiveInvite(i, email, now)
      settled == i.revokedAt = NoHeader \/ i.revokedAt <= now
      redeemed == ClassifyInvite(i, email, now) = "ok"
  IN /\ matches <=> matched /\ DeriveInviteStatus(i, now) = "active"
     /\ settled => (matches <=> matched /\ RevalidateInvite(i, now) = "valid")
     /\ matches => redeemed
     /\ redeemed /\ ~matches => now = i.expiresAt

(* The guard of the sign-in and the one of the exports tell the same of a      *)
(* request whose browser sends no Sec-Fetch-Site.                            *)
OriginGuardsAgree(r, base) ==
  r.fetchSite = NoHeader => CheckSigninOrigin(r, base) = CheckSameOriginGet(r, base)

(* Whoever gets past the middleware with a cookie and past the check of the    *)
(* page with the rows of its address is an administrator today, whatever the   *)
(* cookie still says; or the server asks nobody and the request is local.     *)
(* A cookie that is up to date passes both or neither.                       *)
LayersAgree(env, r, cookieRole, rows) ==
  LET session(who) == [NoUser EXCEPT !.role = who]
      signedIn == cookieRole # NoHeader
      outer == RootMiddleware(env, r, signedIn, session(cookieRole)) = "next"
      inner == RequireRole(~IsAuthRequired(env) \/ signedIn, Auth(env, Jwt(rows)), {"admin"}) = "next"
  IN /\ r.path = "/manager/admin" /\ outer /\ inner =>
          \/ Jwt(rows).role = "admin"
          \/ ~IsAuthRequired(env) /\ IsLocalhostHost(r.host)
     /\ r.path = "/manager/admin" /\ IsAuthRequired(env) /\ cookieRole = Jwt(rows).role
          => (outer <=> inner)

(* A server that boots accepts the bypass exactly when it was asked for it,    *)
(* and in production no caller without a secret; its two checks of the cron   *)
(* secret agree.                                                            *)
SecretsAgree(env, provided) ==
  /\ IsAuthorizeOn(env) <=> env.e2eBypass /\ ~RefusesBypass(env)
  /\ AssertCronSecret(env, provided) <=> AssertInternalCronAuth(env, provided)
  /\ AssertInternalCronAuth(env, provided) => provided \notin {NoHeader, ""}
  /\ env.node = "production" /\ ~RefusesCronSecret(env) => AssertCronSecret(env, env.cronSecret)

(* What may be asked: any request, environment and invite of these shapes.   *)
Maybe(S) == S \cup {NoHeader}
InviteRequests ==
  [kind : {"invite"}, now : Int, email : [local : STRING, domain : STRING, ascii : BOOLEAN],
   i : [revokedAt : Maybe(Int), expiresAt : Int, used : Nat, max : Nat,
        pattern : Maybe([local : STRING, domain : STRING])]]
OriginRequests ==
  [kind : {"origin"}, base : STRING,
   r : [fetchSite : Maybe(STRING), origin : Maybe(STRING), referer : Maybe(STRING)]]
AccessEnvs == [node : STRING, e2eBypass : BOOLEAN, bypassAllowed : BOOLEAN,
               cronSecret : STRING, authRequired : BOOLEAN]
AccessRows == [id : Nat, role : STRING, org : STRING, sso : Maybe(STRING)]
LayerRequests ==
  [kind : {"layer"}, env : AccessEnvs,
   r : [path : Paths, host : Maybe([name : STRING, port : Nat])],
   cookieRole : Maybe(STRING), rows : Seq(AccessRows)]
SecretRequests == [kind : {"secret"}, env : AccessEnvs, provided : Maybe(STRING)]
GuardRequests == InviteRequests \cup OriginRequests \cup LayerRequests \cup SecretRequests

(* The guards that look at the same thing in different places say the same:    *)
(* the rules that make an invite good, the checks of Origin, the middleware    *)
(* and the pages, the secrets of the cron routes and of the bypass.           *)
GuardsAgree ==
  /\ input.kind = "invite" => InviteRulesAgree(input.i, input.email, input.now)
  /\ input.kind = "origin" => OriginGuardsAgree(input.r, input.base)
  /\ input.kind = "layer" => LayersAgree(input.env, input.r, input.cookieRole, input.rows)
  /\ input.kind = "secret" => SecretsAgree(input.env, input.provided)
=============================================================================
