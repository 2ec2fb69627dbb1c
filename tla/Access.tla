------------------------------- MODULE Access -------------------------------
(***************************************************************************)
(* Who may do what: login, bearer tokens, the tenant check in front of     *)
(* every API route, and the administration of users (kenjaku-api handlers  *)
(* and middleware, kenjaku-infra auth and users).  Replicas start, drain   *)
(* and die as in ServerStart, share the users table and keep their own     *)
(* snapshot of the tenants and their own rate buckets.  A request is a     *)
(* sequence of statements: others run between them, and the request may    *)
(* end at any of them.                                                     *)
(***************************************************************************)
EXTENDS ServerStart, Integers

CONSTANTS Users,            \* user rows there may be (an id stands for its unique email)
          SeedAdmin,        \* SeedAdmin[t]: the administrator created with tenant t
          Public,           \* the tenant the migrations seed
          ValidTenants,     \* the ids TenantId::new accepts
          Callers,          \* requests that may be in flight at once
          Ips,              \* client addresses
          Ops,              \* the administrative requests that are made
          Issued,           \* tokens issued elsewhere with the deployment's key
          Ttl, Leeway,      \* jwt.ttl_seconds and jwt.clock_skew_secs
          RequestTimeout,   \* server.request_timeout_secs
          LoginBurst,       \* burst of the login governor
          MaxTokens,        \* bound: tokens in circulation
          MaxClock          \* bound: seconds of a behaviour

None == "none"

ASSUME AccessAssumption ==
  /\ SeedAdmin \in [Tenants -> Users] /\ Public \in Tenants
  /\ Ttl \in Nat /\ Leeway \in Nat /\ RequestTimeout \in Nat /\ MaxClock \in Nat
  \* Minted before the behaviour, by a replica of this deployment.
  /\ \A token \in Issued :
       /\ token.tenant \in Tenants /\ token.principal \in Users \cup {None}
       /\ token.exp \in Int /\ token.exp <= Ttl

VARIABLES users,    \* the users table: the row of each user there is
          tokens,   \* tokens in the hands of clients
          req,      \* req[c]: the request c has in flight, or Idle
          spent,    \* spent[r][k]: cells of bucket k used up at replica r
          now,      \* the clock, in seconds
          offSince  \* history: when u was disabled, Never while it is not

accessVars == <<users, tokens, req, spent, now, offSince>>
vars == <<startVars, accessVars>>

Never == MaxClock + 1
Idle == [pc |-> "idle"]
Roles == {"admin", "member"}

(* The rows a statement finds: by email over all tenants, by id within one.*)
find_by_email(u) == {users[v] : v \in {u} \cap DOMAIN users}
FindUnscoped(u, t) == find_by_email(u)
find_by_id(u, t) == {row \in find_by_email(u) : row.tenant = t}

(* verify_password: a missing row, a disabled user and a wrong password    *)
(* are one refusal.  "short" passwords exist only by the seed scripts.     *)
Passwords == {"short", "long"}
VerifyWithoutEnabled(u, pw) == {row \in find_by_email(u) : row.password = pw}
verify_password(u, pw) == {row \in find_by_email(u) : row.enabled /\ row.password = pw}
Written(u, row) == [v \in DOMAIN users \cup {u} |-> IF v = u THEN row ELSE users[v]]
UserRow(t, role, pw) == [tenant |-> t, role |-> role, enabled |-> TRUE, password |-> pw]

(* What a token is sealed with, and the claims the model tells apart.      *)
Seal(s, pem) == <<Files[pem].pair, s.jwt_algorithm, s.jwt_issuer, s.jwt_audience>>
mint(r, t, u) ==
  [seal |-> Seal(settings[r], settings[r].jwt_private), tenant |-> t, principal |-> u,
   tier |-> cache[r][t], exp |-> now + Ttl]

(* JwtValidator::validate: every refusal is the same 401.                  *)
validate(r, token) ==
  /\ token.seal = Seal(settings[r], settings[r].jwt_public)
  /\ now <= token.exp + Leeway

(* tenant_auth_middleware: no token is a 401, an unknown tenant a 403, and *)
(* the plan tier is the one of the snapshot, not the one of the claim.     *)
TierFromClaim(r, token) == [tenant |-> token.tenant, principal |-> token.principal, tier |-> token.tier]
TenantContext(r, token) ==
  [tenant |-> token.tenant, principal |-> token.principal, tier |-> cache[r][token.tenant]]
tenant_auth(r, token) == validate(r, token) /\ cache[r][token.tenant] # Absent

(* TenantPrincipalIpExtractor: the bucket a request is counted in.         *)
RateKey(r, tctx, ip) ==
  CASE settings[r].key_strategy = "ip"        -> <<"ip", ip>>
    [] settings[r].key_strategy = "tenant_ip" -> <<"tenant_ip", tctx.tenant, ip>>
    [] OTHER -> <<"principal", tctx.tenant,
                  IF tctx.principal = None THEN ip ELSE tctx.principal, ip>>
LoginKey(ip) == <<"login", ip>>
RateKeys ==
  {<<"ip", ip>> : ip \in Ips} \cup {<<"login", ip>> : ip \in Ips}
  \cup {<<"tenant_ip", t, ip>> : t \in Tenants, ip \in Ips}
  \cup {<<"principal", t, p, ip>> : t \in Tenants, p \in Users \cup Ips, ip \in Ips}
Fresh == [k \in RateKeys |-> 0]
(* A cell of an API bucket comes back every rate_limit_per_second seconds, *)
(* here one; one of a login bucket every twelve, which is beyond MaxClock. *)
Refilled(k, n) == IF k[1] = "login" \/ n = 0 THEN n ELSE n - 1
Conforms(r, k, burst) == spent[r][k] < burst
Consume(r, k) == spent' = [spent EXCEPT ![r][k] = @ + 1]

Init ==
  /\ StartInit([t \in Tenants |-> IF t = Public THEN "enterprise" ELSE Absent])
  /\ users = [u \in {SeedAdmin[Public]} |-> UserRow(Public, "admin", "short")]
  /\ tokens = Issued
  /\ req = [c \in Callers |-> Idle]
  /\ spent = [r \in Replicas |-> Fresh]
  /\ now = 0
  /\ offSince = [u \in Users |-> Never]

Free(c, r) == req[c] = Idle /\ stage[r] = "serving"
Begin(c, q) == req' = [req EXCEPT ![c] = q]
Answer(c) == req' = [req EXCEPT ![c] = Idle]
InFlight == {c \in Callers : req[c] # Idle}

(***************************************************************************)
(* POST /auth/login                                                        *)
(***************************************************************************)
Login(c, r, u, pw, ip) ==
  /\ Free(c, r) /\ Conforms(r, LoginKey(ip), LoginBurst)
  /\ Begin(c, [pc |-> "find", at |-> r, since |-> now, user |-> u, password |-> pw])
  /\ Consume(r, LoginKey(ip))
  /\ UNCHANGED <<startVars, users, tokens, now, offSince>>

(* find_by_email and the checks on the row it returned.                    *)
FindByEmail(c) ==
  /\ req[c].pc = "find"
  /\ \/ \E row \in verify_password(req[c].user, req[c].password) :
          /\ row.tenant \in ValidTenants /\ cache[req[c].at][row.tenant] # Absent
          /\ Begin(c, [pc |-> "verified", at |-> req[c].at, since |-> req[c].since,
                       user |-> req[c].user, tenant |-> row.tenant])
     \/ /\ \A row \in verify_password(req[c].user, req[c].password) :
              row.tenant \notin ValidTenants \/ cache[req[c].at][row.tenant] = Absent
        /\ Answer(c)
  /\ UNCHANGED <<startVars, users, tokens, spent, now, offSince>>

(* The token is minted, last_login stamped (a failure of it is ignored)    *)
(* and the answer sent; the client has the token at the earliest now.      *)
MintToken(c) ==
  /\ req[c].pc = "verified" /\ Cardinality(tokens) < MaxTokens
  /\ tokens' = tokens \cup {mint(req[c].at, req[c].tenant, req[c].user)}
  /\ Answer(c)
  /\ UNCHANGED <<startVars, users, spent, now, offSince>>

(***************************************************************************)
(* API routes: authenticated, then counted; only then the handler runs.    *)
(***************************************************************************)
ApiRequest(c, r, token, ip) ==
  LET tctx == TenantContext(r, token) IN
  /\ Free(c, r) /\ tenant_auth(r, token)
  /\ Conforms(r, RateKey(r, tctx, ip), settings[r].burst)
  /\ Begin(c, [pc |-> "api", at |-> r, since |-> now, tctx |-> tctx])
  /\ Consume(r, RateKey(r, tctx, ip))
  /\ UNCHANGED <<startVars, users, tokens, now, offSince>>

ApiAnswer(c) ==
  /\ req[c].pc = "api"
  /\ Answer(c)
  /\ UNCHANGED <<startVars, users, tokens, spent, now, offSince>>

(***************************************************************************)
(* Administration: authenticated, then require_admin, then the handler.    *)
(* No governor is layered on these routes.                                 *)
(***************************************************************************)
AdminOps ==
  [kind : {"list"}]
  \cup [kind : {"create"}, user : Users, role : Roles]
  \cup [kind : {"update"}, user : Users, role : Roles \cup {None}, enabled : {"yes", "no", None}]
  \cup [kind : {"reset"}, user : Users]
  \cup [kind : {"delete"}, user : Users]

ASSUME OpsAssumption == Ops \subseteq AdminOps

(* Bodies the handlers refuse before any statement.                        *)
BadRequest(op) == op.kind = "update" /\ op.role = None /\ op.enabled = None

AdminRequest(c, r, token, ip) ==
  /\ Free(c, r) /\ tenant_auth(r, token)
  /\ Begin(c, [pc |-> "check", at |-> r, since |-> now, tctx |-> TenantContext(r, token), ip |-> ip])
  /\ UNCHANGED <<startVars, users, tokens, spent, now, offSince>>

(* The caller's row is read afresh, within the tenant of its token.        *)
require_admin(tctx) ==
  \E row \in find_by_id(tctx.principal, tctx.tenant) : row.enabled /\ row.role = "admin"

(* Past the check the body is read; a body the handler refuses ends here.  *)
CheckAdmin(c) ==
  /\ req[c].pc = "check"
  /\ \/ /\ require_admin(req[c].tctx)
        /\ \E op \in Ops :
             /\ ~BadRequest(op)
             /\ Begin(c, [pc |-> "admin", at |-> req[c].at, since |-> req[c].since,
                          tctx |-> req[c].tctx, op |-> op])
     \/ ~require_admin(req[c].tctx) /\ Answer(c)
  /\ UNCHANGED <<startVars, users, tokens, spent, now, offSince>>

Handling(c, kind) == req[c].pc = "admin" /\ req[c].op.kind = kind

(* UPDATE ... WHERE tenant_id AND id: at most the one row of the tenant.   *)
Matches(c) == find_by_id(req[c].op.user, req[c].tctx.tenant) # {}
WriteRow(u, row) ==
  /\ users' = Written(u, row)
  /\ offSince' = [offSince EXCEPT ![u] =
       IF row.enabled THEN Never ELSE IF @ = Never THEN now ELSE @]
  /\ UNCHANGED <<startVars, tokens, spent, now>>
WriteNothing == UNCHANGED <<startVars, users, tokens, spent, now, offSince>>

ListUsers(c) == Handling(c, "list") /\ Answer(c) /\ WriteNothing

(* The email is unique over all tenants.                                   *)
CreateUser(c) ==
  /\ Handling(c, "create") /\ Answer(c)
  /\ IF find_by_email(req[c].op.user) = {}
     THEN WriteRow(req[c].op.user, UserRow(req[c].tctx.tenant, req[c].op.role, "long"))
     ELSE WriteNothing

(* update_user is two statements, each of its own.                         *)
UpdateRole(c) ==
  LET op == req[c].op IN
  /\ Handling(c, "update") /\ op.role # None
  /\ IF Matches(c) /\ op.enabled # None
     THEN Begin(c, [req[c] EXCEPT !.op.role = None]) ELSE Answer(c)
  /\ IF Matches(c) THEN WriteRow(op.user, [users[op.user] EXCEPT !.role = op.role])
     ELSE WriteNothing

UpdateEnabled(c) ==
  LET op == req[c].op IN
  /\ Handling(c, "update") /\ op.role = None
  /\ Answer(c)
  /\ IF Matches(c) THEN WriteRow(op.user, [users[op.user] EXCEPT !.enabled = (op.enabled = "yes")])
     ELSE WriteNothing

DeleteUser(c) ==
  /\ Handling(c, "delete") /\ Answer(c)
  /\ IF Matches(c) THEN WriteRow(req[c].op.user, [users[req[c].op.user] EXCEPT !.enabled = FALSE])
     ELSE WriteNothing

ResetPassword(c) ==
  /\ Handling(c, "reset") /\ Answer(c)
  /\ IF Matches(c) THEN WriteRow(req[c].op.user, [users[req[c].op.user] EXCEPT !.password = "long"])
     ELSE WriteNothing

(* A statement fails (500, or 401 and 403 before the handler), the client  *)
(* goes away or the timeout layer drops the handler: what was done stays.  *)
Cut(c) ==
  /\ req[c] # Idle
  /\ Answer(c)
  /\ WriteNothing

(***************************************************************************)
(* Processes, the operator and the clock                                   *)
(***************************************************************************)
Kept == UNCHANGED accessVars

(* Requests, buckets and everything else in the process end with it.       *)
Lost(r) ==
  /\ req' = [c \in Callers |-> IF req[c] # Idle /\ req[c].at = r THEN Idle ELSE req[c]]
  /\ spent' = [spent EXCEPT ![r] = Fresh]
  /\ UNCHANGED <<users, tokens, now, offSince>>

Exit(r) ==
  /\ stage[r] = "draining" /\ \A c \in InFlight : req[c].at # r
  /\ Gone(r) /\ Lost(r)

Kill(r) == stage[r] \in {"serving", "draining"} /\ Gone(r) /\ Lost(r)

(* An operator inserts a tenant and its first administrator, or moves a    *)
(* tenant to another plan; no running replica learns of it.                *)
SeedTenant(t) ==
  /\ tenants[t] = Absent /\ SeedAdmin[t] \notin DOMAIN users
  /\ tenants' = [tenants EXCEPT ![t] = "free"]
  /\ users' = Written(SeedAdmin[t], UserRow(t, "admin", "short"))
  /\ UNCHANGED <<stage, settings, cache, workers, starts, tokens, req, spent, now, offSince>>

ChangePlan(t) ==
  /\ tenants[t] = "enterprise"
  /\ tenants' = [tenants EXCEPT ![t] = "pro"]
  /\ UNCHANGED <<stage, settings, cache, workers, starts>> /\ Kept

(* A second passes: a cell is refilled, and no request outlives the        *)
(* timeout layer.                                                          *)
Tick ==
  /\ now < MaxClock
  /\ \A c \in InFlight : now < req[c].since + RequestTimeout
  /\ now' = now + 1
  /\ spent' = [r \in Replicas |-> [k \in RateKeys |-> Refilled(k, spent[r][k])]]
  /\ UNCHANGED <<startVars, users, tokens, req, offSince>>

ServerStep(r) ==
  \/ Boot(r) /\ Kept
  \/ Advance(r, ValidTenants) /\ Kept
  \/ StartFails(r, ValidTenants) /\ Kept
  \/ shutdown_signal(r) /\ Kept
  \/ Exit(r)
  \/ Kill(r)

(* What a request in flight does next.                                     *)
RequestStep(c) ==
  \/ FindByEmail(c) \/ MintToken(c) \/ ApiAnswer(c) \/ CheckAdmin(c)
  \/ ListUsers(c) \/ CreateUser(c) \/ UpdateRole(c) \/ UpdateEnabled(c)
  \/ DeleteUser(c) \/ ResetPassword(c) \/ Cut(c)

Arrival(c, r, ip) ==
  \/ \E u \in Users, pw \in Passwords : Login(c, r, u, pw, ip)
  \/ \E token \in tokens : ApiRequest(c, r, token, ip)
  \/ \E token \in tokens : AdminRequest(c, r, token, ip)

Next ==
  \/ \E r \in Replicas : ServerStep(r)
  \/ \E c \in Callers : RequestStep(c)
  \/ \E c \in Callers, r \in Replicas, ip \in Ips : Arrival(c, r, ip)
  \/ \E t \in Tenants : SeedTenant(t) \/ ChangePlan(t)
  \/ Tick

Spec == Init /\ [][Next]_vars

(***************************************************************************)
(* Properties                                                              *)
(***************************************************************************)

(* A replica treats a tenant by one plan tier, the one of its snapshot,    *)
(* whatever tier the tokens of that tenant were minted with (auth.rs).     *)
OneTierPerReplica ==
  \A c, d \in Callers :
    /\ req[c].pc \in {"api", "check", "admin"} /\ req[d].pc \in {"api", "check", "admin"}
    /\ req[c].at = req[d].at /\ req[c].tctx.tenant = req[d].tctx.tenant
    => req[c].tctx.tier = req[d].tctx.tier

(* A disabled user keeps the tokens it has: no row is read on API routes.  *)
(* What ends its access is the expiry of the last token it could get, from *)
(* a login that had verified the password before the row was disabled.  A  *)
(* disabled administrator may finish the request that was checked before,  *)
(* and no other: nothing is handled for it once that has timed out.        *)
DisabledRunsOut ==
  \A c \in Callers :
    /\ req[c].pc = "api" /\ req[c].tctx.principal # None
         => req[c].since <= offSince[req[c].tctx.principal] + RequestTimeout + Ttl + Leeway
    /\ req[c].pc = "admin" => now <= offSince[req[c].tctx.principal] + RequestTimeout

(* The administrators of a tenant may disable or demote one another until  *)
(* none is left, and then no request of anyone brings one back: not a      *)
(* stale token, not another tenant's administrator, not a login.           *)
EnabledAdmin(u, t) == users[u].tenant = t /\ users[u].enabled /\ users[u].role = "admin"
LockedOut(t) ==
  /\ tenants[t] # Absent
  /\ \A u \in DOMAIN users : ~EnabledAdmin(u, t)
  /\ \A c \in Callers : req[c].pc = "admin" => req[c].tctx.tenant # t
LockedOutStays == [][\A t \in Tenants : LockedOut(t) => LockedOut(t)']_vars
=============================================================================
