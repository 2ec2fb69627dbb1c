----------------------------- MODULE AccessProofs -----------------------------
(***************************************************************************)
(* Theorems about Access, for any replicas, tenants, users, requests in    *)
(* flight and configurations, and any lifetimes of tokens and requests.    *)
(***************************************************************************)
EXTENDS Access, TLAPS

-----------------------------------------------------------------------------
(***************************************************************************)
(* Types.                                                                  *)
(***************************************************************************)

Rows == [tenant : Tenants, role : Roles, enabled : BOOLEAN, password : Passwords]
Contexts == [tenant : Tenants, principal : Users \cup {None}, tier : Plans \cup {Absent}]

\* A request in flight, by what it does next.
Finding  == [pc : {"find"}, at : Replicas, since : Nat, user : Users, password : Passwords]
Verified == [pc : {"verified"}, at : Replicas, since : Nat, user : Users, tenant : Tenants]
Served   == [pc : {"api"}, at : Replicas, since : Nat, tctx : Contexts]
Checked  == [pc : {"check"}, at : Replicas, since : Nat, tctx : Contexts, ip : Ips]
Handled  == [pc : {"admin"}, at : Replicas, since : Nat, tctx : Contexts, op : AdminOps]
Requests == {Idle} \cup Finding \cup Verified \cup Served \cup Checked \cup Handled

TypeOK ==
  /\ DOMAIN stage = Replicas
  /\ tenants \in TenantTable
  /\ cache \in [Replicas -> TenantTable]
  /\ DOMAIN users \subseteq Users /\ \A u \in DOMAIN users : users[u] \in Rows
  /\ \A token \in tokens :
       token.tenant \in Tenants /\ token.principal \in Users \cup {None} /\ token.exp \in Int
  /\ req \in [Callers -> Requests]
  /\ now \in 0..MaxClock
  /\ offSince \in [Users -> 0..Never]

-----------------------------------------------------------------------------
(***************************************************************************)
(* The invariants.                                                         *)
(***************************************************************************)

\* Just the rows that are disabled have a time since when.
OffTimes == \A u \in Users : (u \in DOMAIN users => users[u].enabled) => offSince[u] = Never

\* No token outlives by more than its lifetime the login that it came from, and
\* none of those was verified after its user had been disabled.
TokensRunOut ==
  \A token \in tokens :
    /\ token.exp <= now + Ttl
    /\ token.principal # None => token.exp <= offSince[token.principal] + RequestTimeout + Ttl

\* A request runs in a process that is up, for as long as the timeout layer lets it,
\* with the tier of the snapshot of its replica, and began before its user was
\* disabled if it has read that user's row.
Timely(c) ==
  req[c] # Idle =>
    /\ stage[req[c].at] \in {"serving", "draining"}
    /\ req[c].since <= now /\ now <= req[c].since + RequestTimeout
OfSnapshot(c) ==
  req[c].pc \in {"api", "check", "admin"} => req[c].tctx.tier = cache[req[c].at][req[c].tctx.tenant]
BeforeOff(c) ==
  /\ req[c].pc = "verified" => req[c].since <= offSince[req[c].user]
  /\ req[c].pc = "api" /\ req[c].tctx.principal # None =>
       req[c].since <= offSince[req[c].tctx.principal] + RequestTimeout + Ttl + Leeway
  /\ req[c].pc = "admin" =>
       req[c].tctx.principal \in Users /\ req[c].since <= offSince[req[c].tctx.principal]

GoodRequest(c) == Timely(c) /\ OfSnapshot(c) /\ BeforeOff(c)
AccessInv == OffTimes /\ TokensRunOut /\ \A c \in Callers : GoodRequest(c)

-----------------------------------------------------------------------------
(***************************************************************************)
(* What the handlers of the administration do.                             *)
(***************************************************************************)

\* One row of the tenant of the caller is written, or none.
WritesOwn(c) ==
  \/ WriteNothing
  \/ \E u \in Users, row \in Rows :
       /\ row.tenant = req[c].tctx.tenant
       /\ u \in DOMAIN users => users[u].tenant = row.tenant
       /\ WriteRow(u, row)

\* The request ends, or goes on to its second statement.
GoesOn(c) == Answer(c) \/ Begin(c, [req[c] EXCEPT !.op.role = None])

AdminStep(c) ==
  ListUsers(c) \/ CreateUser(c) \/ UpdateRole(c) \/ UpdateEnabled(c) \/ DeleteUser(c) \/ ResetPassword(c)

LEMMA ByPhase ==
  ASSUME TypeOK, NEW c \in Callers
  PROVE  /\ req[c] \in Requests
         /\ req[c].pc = "find" => req[c] \in Finding
         /\ req[c].pc = "verified" => req[c] \in Verified
         /\ req[c].pc = "api" => req[c] \in Served
         /\ req[c].pc = "check" => req[c] \in Checked
         /\ req[c].pc = "admin" => req[c] \in Handled
         /\ req[c].pc = "idle" => req[c] = Idle
<1>1. req[c] \in Requests
  BY DEF TypeOK
<1>2. Idle.pc = "idle"
  BY DEF Idle
<1> QED
  BY <1>1, <1>2 DEF Requests, Finding, Verified, Served, Checked, Handled

\* The fields of an operation that names a user.
LEMMA OpFields ==
  ASSUME NEW op \in AdminOps
  PROVE  /\ op.kind \in {"create", "update", "reset", "delete"} => op.user \in Users
         /\ op.kind = "create" => op.role \in Roles
         /\ op.kind = "update" => /\ op.role \in Roles \cup {None}
                                  /\ op.enabled \in {"yes", "no", None}
                                  /\ [op EXCEPT !.role = None] \in AdminOps
BY DEF AdminOps

LEMMA OwnRow ==
  ASSUME TypeOK, NEW c \in Callers, req[c].pc = "admin", Matches(c)
  PROVE  /\ req[c].op.user \in DOMAIN users
         /\ users[req[c].op.user] \in Rows
         /\ users[req[c].op.user].tenant = req[c].tctx.tenant
BY DEF TypeOK, Matches, find_by_id, find_by_email

LEMMA RowsChange ==
  ASSUME NEW row \in Rows
  PROVE  /\ \A r \in Roles : /\ [row EXCEPT !.role = r] \in Rows
                             /\ [row EXCEPT !.role = r].tenant = row.tenant
         /\ \A b \in BOOLEAN : /\ [row EXCEPT !.enabled = b] \in Rows
                               /\ [row EXCEPT !.enabled = b].tenant = row.tenant
         /\ [row EXCEPT !.password = "long"] \in Rows
         /\ [row EXCEPT !.password = "long"].tenant = row.tenant
BY DEF Rows, Passwords

LEMMA AdminEffect ==
  ASSUME TypeOK, NEW c \in Callers, AdminStep(c)
  PROVE  req[c].pc = "admin" /\ WritesOwn(c) /\ GoesOn(c)
<1> DEFINE op == req[c].op
<1>1. req[c].pc = "admin" /\ req[c] \in Handled /\ op \in AdminOps
  <2>1. req[c].pc = "admin"
    BY DEF AdminStep, ListUsers, CreateUser, UpdateRole, UpdateEnabled, DeleteUser, ResetPassword, Handling
  <2> QED
    BY <2>1, ByPhase DEF Handled
<1>2. GoesOn(c)
  BY DEF AdminStep, ListUsers, CreateUser, UpdateRole, UpdateEnabled, DeleteUser, ResetPassword, GoesOn
<1>3. ASSUME Matches(c), NEW row \in Rows, WriteRow(op.user, row), op.user \in Users,
             row.tenant = users[op.user].tenant
      PROVE  WritesOwn(c)
  BY <1>1, <1>3, OwnRow, Zenon DEF WritesOwn
<1> SUFFICES WritesOwn(c)
  BY <1>1, <1>2, Zenon
<1>4. CASE ListUsers(c)
  BY <1>4, Zenon DEF ListUsers, WritesOwn
<1>5. CASE CreateUser(c)
  <2>1. op.user \in Users /\ op.role \in Roles
    BY <1>1, <1>5, OpFields DEF CreateUser, Handling
  <2>2. CASE find_by_email(op.user) # {}
    BY <1>5, <2>2, Zenon DEF CreateUser, WritesOwn
  <2>3. CASE find_by_email(op.user) = {}
    <3> DEFINE row == UserRow(req[c].tctx.tenant, op.role, "long")
    <3>1. row \in Rows /\ row.tenant = req[c].tctx.tenant
      BY <1>1, <2>1 DEF UserRow, Rows, Handled, Contexts, Passwords
    <3>2. WriteRow(op.user, row)
      BY <1>5, <2>3 DEF CreateUser
    <3>3. op.user \notin DOMAIN users
      BY <2>3 DEF find_by_email
    <3> HIDE DEF row
    <3> QED
      BY <2>1, <3>1, <3>2, <3>3, Zenon DEF WritesOwn
  <2> QED
    BY <2>2, <2>3
<1>6. CASE UpdateRole(c)
  <2>1. op.user \in Users /\ op.role \in Roles
    BY <1>1, <1>6, OpFields DEF UpdateRole, Handling
  <2>2. CASE ~Matches(c)
    BY <1>6, <2>2, Zenon DEF UpdateRole, WritesOwn
  <2>3. CASE Matches(c)
    <3> DEFINE row == [users[op.user] EXCEPT !.role = op.role]
    <3>1. WriteRow(op.user, row)
      BY <1>6, <2>3 DEF UpdateRole
    <3>2. row \in Rows /\ row.tenant = users[op.user].tenant
      BY <1>1, <2>1, <2>3, OwnRow, RowsChange
    <3> HIDE DEF row
    <3> QED
      BY <1>3, <2>1, <2>3, <3>1, <3>2, Zenon
  <2> QED
    BY <2>2, <2>3
<1>7. CASE UpdateEnabled(c)
  <2>1. op.user \in Users /\ (op.enabled = "yes") \in BOOLEAN
    BY <1>1, <1>7, OpFields DEF UpdateEnabled, Handling
  <2>2. CASE ~Matches(c)
    BY <1>7, <2>2, Zenon DEF UpdateEnabled, WritesOwn
  <2>3. CASE Matches(c)
    <3> DEFINE row == [users[op.user] EXCEPT !.enabled = (op.enabled = "yes")]
    <3>1. WriteRow(op.user, row)
      BY <1>7, <2>3 DEF UpdateEnabled
    <3>2. row \in Rows /\ row.tenant = users[op.user].tenant
      BY <1>1, <2>1, <2>3, OwnRow, RowsChange
    <3> HIDE DEF row
    <3> QED
      BY <1>3, <2>1, <2>3, <3>1, <3>2, Zenon
  <2> QED
    BY <2>2, <2>3
<1>8. CASE DeleteUser(c)
  <2>1. op.user \in Users
    BY <1>1, <1>8, OpFields DEF DeleteUser, Handling
  <2>2. CASE ~Matches(c)
    BY <1>8, <2>2, Zenon DEF DeleteUser, WritesOwn
  <2>3. CASE Matches(c)
    <3> DEFINE row == [users[op.user] EXCEPT !.enabled = FALSE]
    <3>1. WriteRow(op.user, row)
      BY <1>8, <2>3 DEF DeleteUser
    <3>2. row \in Rows /\ row.tenant = users[op.user].tenant
      BY <1>1, <2>1, <2>3, OwnRow, RowsChange
    <3> HIDE DEF row
    <3> QED
      BY <1>3, <2>1, <2>3, <3>1, <3>2, Zenon
  <2> QED
    BY <2>2, <2>3
<1>9. CASE ResetPassword(c)
  <2>1. op.user \in Users
    BY <1>1, <1>9, OpFields DEF ResetPassword, Handling
  <2>2. CASE ~Matches(c)
    BY <1>9, <2>2, Zenon DEF ResetPassword, WritesOwn
  <2>3. CASE Matches(c)
    <3> DEFINE row == [users[op.user] EXCEPT !.password = "long"]
    <3>1. WriteRow(op.user, row)
      BY <1>9, <2>3 DEF ResetPassword
    <3>2. row \in Rows /\ row.tenant = users[op.user].tenant
      BY <1>1, <2>1, <2>3, OwnRow, RowsChange
    <3> HIDE DEF row
    <3> QED
      BY <1>3, <2>1, <2>3, <3>1, <3>2, Zenon
  <2> QED
    BY <2>2, <2>3
<1> QED
  BY <1>4, <1>5, <1>6, <1>7, <1>8, <1>9 DEF AdminStep

-----------------------------------------------------------------------------
(***************************************************************************)
(* What a step leaves of the invariants.                                   *)
(***************************************************************************)

AccessIInv == TypeOK /\ AccessInv

\* A user is disabled now, or no longer, or as before.
OffStep ==
  /\ offSince' \in [Users -> 0..Never]
  /\ \A u \in Users :
       \/ offSince'[u] = offSince[u] \/ offSince'[u] = Never
       \/ offSince[u] = Never /\ offSince'[u] = now

LEMMA Times ==
  /\ MaxClock \in Nat /\ RequestTimeout \in Nat /\ Ttl \in Nat /\ Leeway \in Nat
  /\ Never \in Nat /\ \A n \in 0..MaxClock : n \in Nat /\ n < Never /\ n \in 0..Never
BY AccessAssumption DEF Never

LEMMA NothingIsOff ==
  ASSUME TypeOK, UNCHANGED offSince
  PROVE  OffStep
BY DEF TypeOK, OffStep

\* A row written by a step.
LEMMA RowIsWritten ==
  ASSUME TypeOK, OffTimes, NEW u \in Users, NEW row \in Rows, users' = Written(u, row),
         \/ offSince' = [offSince EXCEPT ![u] =
              IF row.enabled THEN Never ELSE IF @ = Never THEN now ELSE @]
         \/ row.enabled /\ u \notin DOMAIN users /\ offSince[u] = Never /\ offSince' = offSince
  PROVE  /\ OffTimes' /\ OffStep
         /\ DOMAIN users' \subseteq Users /\ \A v \in DOMAIN users' : users'[v] \in Rows
<1>1. /\ DOMAIN users' = DOMAIN users \cup {u} /\ users'[u] = row
      /\ \A v \in DOMAIN users \ {u} : users'[v] = users[v]
  BY DEF Written
<1>2. /\ \A v \in Users \ {u} : offSince'[v] = offSince[v]
      /\ row.enabled => offSince'[u] = Never
      /\ ~row.enabled => offSince'[u] = IF offSince[u] = Never THEN now ELSE offSince[u]
      /\ DOMAIN offSince' = Users /\ offSince' = [v \in Users |-> offSince'[v]]
  BY DEF TypeOK
<1>3. now \in 0..Never /\ Never \in 0..Never
  BY Times DEF TypeOK
<1>4. OffStep
  <2>1. \A v \in Users : offSince'[v] \in 0..Never
    BY <1>2, <1>3 DEF TypeOK
  <2> QED
    BY <1>2, <2>1 DEF OffStep
<1>5. OffTimes'
  BY <1>1, <1>2 DEF OffTimes, TypeOK
<1> QED
  BY <1>1, <1>4, <1>5 DEF TypeOK

LEMMA TokensStay ==
  ASSUME TypeOK, TokensRunOut, OffStep, UNCHANGED <<tokens, now>>
  PROVE  TokensRunOut'
<1> SUFFICES ASSUME NEW token \in tokens, token.principal # None
             PROVE  token.exp <= offSince'[token.principal] + RequestTimeout + Ttl
  BY DEF TokensRunOut
<1> DEFINE u == token.principal
<1>1. u \in Users /\ token.exp \in Int /\ now \in 0..MaxClock
  BY DEF TypeOK
<1>2. token.exp <= now + Ttl /\ token.exp <= offSince[u] + RequestTimeout + Ttl
  BY DEF TokensRunOut
<1>3. offSince[u] \in Nat /\ offSince'[u] \in Nat
  BY <1>1, Times DEF TypeOK, OffStep
<1>4. offSince'[u] = offSince[u] \/ offSince'[u] = Never \/ offSince'[u] = now
  BY <1>1 DEF OffStep
<1> HIDE DEF u
<1>5. now <= Never
  BY <1>1, Times
<1>6. token.exp <= offSince'[u] + RequestTimeout + Ttl
  BY <1>1, <1>2, <1>3, <1>4, <1>5, Times
<1> QED
  BY <1>6 DEF u

\* A request that does not move.
LEMMA GoodStays ==
  ASSUME TypeOK, NEW d \in Callers, GoodRequest(d), OffStep, UNCHANGED now, req'[d] = req[d],
         req[d] # Idle => /\ stage'[req[d].at] \in {"serving", "draining"}
                          /\ cache'[req[d].at] = cache[req[d].at]
  PROVE  GoodRequest(d)'
<1>1. Timely(d)'
  BY DEF GoodRequest, Timely
<1>2. req[d] # Idle => req[d].since <= now /\ req[d].since \in Nat /\ now \in 0..MaxClock
  BY ByPhase DEF GoodRequest, Timely, Requests, Finding, Verified, Served, Checked, Handled, TypeOK
<1>3. Idle.pc = "idle"
  BY DEF Idle
<1>4. OfSnapshot(d)'
  BY <1>3 DEF GoodRequest, OfSnapshot
<1>5. ASSUME NEW u \in Users, req[d] # Idle, NEW k \in Nat, req[d].since <= offSince[u] + k
      PROVE  req[d].since <= offSince'[u] + k
  <2>1. offSince[u] \in Nat /\ offSince'[u] \in Nat
    BY Times DEF TypeOK, OffStep
  <2>2. offSince'[u] = offSince[u] \/ offSince'[u] = Never \/ offSince'[u] = now
    BY DEF OffStep
  <2>3. now <= Never /\ req[d].since <= now /\ req[d].since \in Nat /\ now \in Nat
    BY <1>2, <1>5, Times
  <2> QED
    BY <1>5, <2>1, <2>2, <2>3, Times
<1>6. req[d].pc = "verified" => req[d].since <= offSince'[req[d].user]
  <2> SUFFICES ASSUME req[d].pc = "verified" PROVE req[d].since <= offSince'[req[d].user]
    OBVIOUS
  <2>1. req[d].user \in Users /\ req[d] # Idle /\ req[d].since \in Nat
    BY <1>2, <1>3, ByPhase DEF Verified
  <2>2. offSince[req[d].user] \in Nat /\ offSince'[req[d].user] \in Nat
    BY <2>1, Times DEF TypeOK, OffStep
  <2>3. req[d].since <= offSince[req[d].user] + 0
    BY <2>1, <2>2 DEF GoodRequest, BeforeOff
  <2> QED
    BY <2>1, <2>2, <2>3, <1>5
<1>7. req[d].pc = "api" /\ req[d].tctx.principal # None =>
        req[d].since <= offSince'[req[d].tctx.principal] + RequestTimeout + Ttl + Leeway
  <2> SUFFICES ASSUME req[d].pc = "api", req[d].tctx.principal # None
               PROVE  req[d].since <= offSince'[req[d].tctx.principal] + RequestTimeout + Ttl + Leeway
    OBVIOUS
  <2>1. req[d].tctx.principal \in Users /\ req[d] # Idle /\ req[d].since \in Nat
    BY <1>2, <1>3, ByPhase DEF Served, Contexts
  <2>2. offSince[req[d].tctx.principal] \in Nat /\ offSince'[req[d].tctx.principal] \in Nat
    BY <2>1, Times DEF TypeOK, OffStep
  <2>3. req[d].since <= offSince[req[d].tctx.principal] + (RequestTimeout + Ttl + Leeway)
    BY <2>1, <2>2, Times DEF GoodRequest, BeforeOff
  <2>4. req[d].since <= offSince'[req[d].tctx.principal] + (RequestTimeout + Ttl + Leeway)
    BY <2>1, <2>3, <1>5, Times
  <2> QED
    BY <2>1, <2>2, <2>4, Times
<1>8. req[d].pc = "admin" =>
        req[d].tctx.principal \in Users /\ req[d].since <= offSince'[req[d].tctx.principal]
  <2> SUFFICES ASSUME req[d].pc = "admin"
               PROVE  req[d].tctx.principal \in Users
                      /\ req[d].since <= offSince'[req[d].tctx.principal]
    OBVIOUS
  <2>1. req[d].tctx.principal \in Users /\ req[d] # Idle /\ req[d].since \in Nat
    BY <1>2, <1>3 DEF GoodRequest, BeforeOff
  <2>2. offSince[req[d].tctx.principal] \in Nat /\ offSince'[req[d].tctx.principal] \in Nat
    BY <2>1, Times DEF TypeOK, OffStep
  <2>3. req[d].since <= offSince[req[d].tctx.principal] + 0
    BY <2>1, <2>2 DEF GoodRequest, BeforeOff
  <2> QED
    BY <2>1, <2>2, <2>3, <1>5
<1>9. BeforeOff(d)'
  BY <1>6, <1>7, <1>8 DEF BeforeOff
<1> QED
  BY <1>1, <1>4, <1>9 DEF GoodRequest

\* A step of one request.
LEMMA RequestMoves ==
  ASSUME AccessIInv, NEW c \in Callers, NEW v \in Requests, Begin(c, v),
         UNCHANGED <<stage, cache, now>>, OffStep,
         req'[c] = v => GoodRequest(c)'
  PROVE  req' \in [Callers -> Requests] /\ \A d \in Callers : GoodRequest(d)'
<1>1. req' = [req EXCEPT ![c] = v] /\ req \in [Callers -> Requests]
  BY DEF Begin, AccessIInv, TypeOK
<1>2. req' \in [Callers -> Requests] /\ req'[c] = v /\ \A d \in Callers \ {c} : req'[d] = req[d]
  BY <1>1
<1>3. ASSUME NEW d \in Callers \ {c} PROVE GoodRequest(d)'
  <2>1. req[d] # Idle => /\ stage'[req[d].at] \in {"serving", "draining"}
                         /\ cache'[req[d].at] = cache[req[d].at]
    BY DEF AccessIInv, AccessInv, GoodRequest, Timely
  <2>2. GoodRequest(d) /\ TypeOK
    BY DEF AccessIInv, AccessInv
  <2> QED
    BY <1>2, <2>1, <2>2, GoodStays
<1> QED
  BY <1>2, <1>3

LEMMA IdleIsGood ==
  ASSUME NEW c \in Callers, req'[c] = Idle
  PROVE  Idle \in Requests /\ GoodRequest(c)'
BY DEF GoodRequest, Timely, OfSnapshot, BeforeOff, Idle, Requests

\* A request moves, and nothing is written.
Quiet == UNCHANGED <<startVars, users, tokens, now, offSince>>

LEMMA QuietMoves ==
  ASSUME AccessIInv, NEW c \in Callers, NEW v \in Requests, Begin(c, v), Quiet,
         req'[c] = v => GoodRequest(c)'
  PROVE  AccessIInv'
<1>1. UNCHANGED <<stage, cache, tenants, users, tokens, now, offSince>>
  BY DEF Quiet, startVars
<1>2. TypeOK /\ OffStep
  BY <1>1, NothingIsOff DEF AccessIInv
<1>3. req' \in [Callers -> Requests] /\ \A d \in Callers : GoodRequest(d)'
  BY <1>1, <1>2, RequestMoves
<1>4. TypeOK'
  BY <1>1, <1>2, <1>3 DEF TypeOK
<1>5. OffTimes' /\ TokensRunOut'
  BY <1>1 DEF AccessIInv, AccessInv, OffTimes, TokensRunOut
<1> QED
  BY <1>3, <1>4, <1>5 DEF AccessIInv, AccessInv

LEMMA AnswerEnds ==
  ASSUME AccessIInv, NEW c \in Callers, Answer(c), Quiet
  PROVE  AccessIInv'
<1>1. Begin(c, Idle) /\ Idle \in Requests
  BY DEF Answer, Begin, Requests
<1>2. req'[c] = Idle => GoodRequest(c)'
  BY IdleIsGood
<1> QED
  BY <1>1, <1>2, QuietMoves

LEMMA LoginKeeps ==
  ASSUME AccessIInv, NEW c \in Callers, NEW r \in Replicas, NEW u \in Users, NEW pw \in Passwords,
         NEW ip \in Ips, Login(c, r, u, pw, ip)
  PROVE  AccessIInv'
<1> DEFINE v == [pc |-> "find", at |-> r, since |-> now, user |-> u, password |-> pw]
<1>1. Begin(c, v) /\ Quiet /\ stage[r] = "serving"
  BY DEF Login, Free, Quiet
<1>2. now \in 0..MaxClock /\ now \in Nat
  BY Times DEF AccessIInv, TypeOK
<1>3. v \in Requests
  BY <1>2 DEF Requests, Finding
<1>4. ASSUME req'[c] = v PROVE GoodRequest(c)'
  <2>1. stage' = stage /\ now' = now
    BY <1>1 DEF Quiet, startVars
  <2>2. now <= now /\ now <= now + RequestTimeout
    BY <1>2, Times
  <2>3. req'[c].pc = "find" /\ req'[c].at = r /\ req'[c].since = now
    BY <1>4
  <2> QED
    BY <1>1, <2>1, <2>2, <2>3 DEF GoodRequest, Timely, OfSnapshot, BeforeOff
<1> HIDE DEF v
<1> QED
  BY <1>1, <1>3, <1>4, QuietMoves

\* A row that is found enabled: its user has not been disabled at this moment.
LEMMA FoundEnabled ==
  ASSUME AccessIInv, NEW u, NEW row \in find_by_email(u), row.enabled
  PROVE  /\ u \in Users /\ row \in Rows
         /\ offSince[u] = Never /\ \A n \in Nat : n <= now => n <= offSince[u]
<1>1. u \in DOMAIN users /\ row = users[u]
  BY DEF find_by_email
<1>2. u \in Users /\ row \in Rows /\ now \in 0..MaxClock
  BY <1>1 DEF AccessIInv, TypeOK
<1>3. offSince[u] = Never
  BY <1>1, <1>2 DEF AccessIInv, AccessInv, OffTimes
<1>4. now \in Nat /\ now < Never /\ Never \in Nat
  BY <1>2, Times
<1>5. \A n \in Nat : n <= now => n <= Never
  BY <1>4
<1> QED
  BY <1>2, <1>3, <1>5

LEMMA FindKeeps ==
  ASSUME AccessIInv, NEW c \in Callers, FindByEmail(c)
  PROVE  AccessIInv'
<1>1. req[c] \in Finding /\ req[c].pc = "find" /\ GoodRequest(c) /\ Quiet
  BY ByPhase DEF FindByEmail, AccessIInv, AccessInv, Quiet
<1>2. CASE Answer(c)
  BY <1>1, <1>2, AnswerEnds
<1>3. ASSUME NEW row \in verify_password(req[c].user, req[c].password),
             Begin(c, [pc |-> "verified", at |-> req[c].at, since |-> req[c].since,
                       user |-> req[c].user, tenant |-> row.tenant])
      PROVE  AccessIInv'
  <2> DEFINE v == [pc |-> "verified", at |-> req[c].at, since |-> req[c].since,
                   user |-> req[c].user, tenant |-> row.tenant]
  <2>1. row \in find_by_email(req[c].user) /\ row.enabled
    BY DEF verify_password
  <2>2. row \in Rows /\ \A n \in Nat : n <= now => n <= offSince[req[c].user]
    BY <2>1, FoundEnabled
  <2>3. v \in Requests
    BY <1>1, <2>2 DEF Requests, Finding, Verified, Rows
  <2>4. ASSUME req'[c] = v PROVE GoodRequest(c)'
    <3>1. UNCHANGED <<stage, cache, now, offSince>>
      BY <1>1 DEF Quiet, startVars
    <3>2. /\ req'[c].pc = "verified" /\ req'[c].at = req[c].at
          /\ req'[c].since = req[c].since /\ req'[c].user = req[c].user
      BY <2>4
    <3>3. req[c] # Idle /\ req[c].since \in Nat
      BY <1>1 DEF Idle, Finding
    <3>4. Timely(c)' /\ req[c].since <= now
      BY <1>1, <3>1, <3>2, <3>3 DEF GoodRequest, Timely
    <3>5. req[c].since <= offSince[req[c].user]
      BY <2>2, <3>3, <3>4
    <3> QED
      BY <3>1, <3>2, <3>4, <3>5 DEF GoodRequest, OfSnapshot, BeforeOff
  <2> HIDE DEF v
  <2> QED
    BY <1>1, <1>3, <2>3, <2>4, QuietMoves DEF v
<1> QED
  BY <1>2, <1>3 DEF FindByEmail

LEMMA MintKeeps ==
  ASSUME AccessIInv, NEW c \in Callers, MintToken(c)
  PROVE  AccessIInv'
<1> DEFINE token == mint(req[c].at, req[c].tenant, req[c].user)
<1>1. req[c] \in Verified /\ req[c].pc = "verified" /\ GoodRequest(c) /\ TypeOK
  BY ByPhase DEF MintToken, AccessIInv, AccessInv
<1>2. /\ tokens' = tokens \cup {token} /\ Begin(c, Idle)
      /\ UNCHANGED <<stage, cache, tenants, users, now, offSince>>
  BY DEF MintToken, Answer, Begin, startVars
<1>3. token.tenant = req[c].tenant /\ token.principal = req[c].user /\ token.exp = now + Ttl
  BY DEF mint
<1> HIDE DEF token
<1>4. /\ req[c].user \in Users /\ req[c].tenant \in Tenants /\ req[c].since \in Nat
      /\ now \in Nat /\ offSince[req[c].user] \in Nat
  BY <1>1, Times DEF Verified, TypeOK
<1>5. req[c].since <= offSince[req[c].user] /\ now <= req[c].since + RequestTimeout
  BY <1>1 DEF GoodRequest, Timely, BeforeOff, Idle
<1>6. token.exp \in Int /\ token.exp <= now + Ttl
      /\ token.exp <= offSince[req[c].user] + RequestTimeout + Ttl
  BY <1>3, <1>4, <1>5, Times
<1>7. req' \in [Callers -> Requests] /\ \A d \in Callers : GoodRequest(d)'
  <2>1. Idle \in Requests /\ OffStep
    BY <1>1, <1>2, NothingIsOff DEF Requests
  <2>2. req'[c] = Idle => GoodRequest(c)'
    BY IdleIsGood
  <2> QED
    BY <1>2, <2>1, <2>2, RequestMoves
<1>8. TypeOK'
  BY <1>1, <1>2, <1>3, <1>4, <1>6, <1>7 DEF TypeOK
<1>9. OffTimes' /\ TokensRunOut'
  BY <1>2, <1>3, <1>6 DEF AccessIInv, AccessInv, OffTimes, TokensRunOut
<1> QED
  BY <1>7, <1>8, <1>9 DEF AccessIInv, AccessInv

\* What the tenant check puts beside a request.
LEMMA ContextOf ==
  ASSUME TypeOK, NEW r \in Replicas, NEW token \in tokens
  PROVE  /\ TenantContext(r, token) \in Contexts
         /\ TenantContext(r, token).tenant = token.tenant
         /\ TenantContext(r, token).principal = token.principal
         /\ TenantContext(r, token).tier = cache[r][token.tenant]
<1>1. /\ token.tenant \in Tenants /\ token.principal \in Users \cup {None}
      /\ cache[r][token.tenant] \in Plans \cup {Absent}
  BY DEF TypeOK, TenantTable
<1> QED
  BY <1>1 DEF TenantContext, Contexts

LEMMA ApiKeeps ==
  ASSUME AccessIInv, NEW c \in Callers, NEW r \in Replicas, NEW token \in tokens, NEW ip \in Ips,
         ApiRequest(c, r, token, ip)
  PROVE  AccessIInv'
<1> DEFINE tctx == TenantContext(r, token)
           v == [pc |-> "api", at |-> r, since |-> now, tctx |-> tctx]
<1>1. Begin(c, v) /\ Quiet /\ stage[r] = "serving" /\ now <= token.exp + Leeway
  BY DEF ApiRequest, Free, Quiet, tenant_auth, validate
<1>2. now \in 0..MaxClock /\ now \in Nat /\ TypeOK
  BY Times DEF AccessIInv, TypeOK
<1>3. /\ tctx \in Contexts /\ tctx.tenant = token.tenant
      /\ tctx.principal = token.principal /\ tctx.tier = cache[r][token.tenant]
  BY <1>2, ContextOf
<1> HIDE DEF tctx
<1>4. v \in Requests
  BY <1>2, <1>3 DEF Requests, Served
<1>5. ASSUME tctx.principal # None
      PROVE  now <= offSince[tctx.principal] + RequestTimeout + Ttl + Leeway
  <2>1. token.exp <= offSince[token.principal] + RequestTimeout + Ttl
    BY <1>3, <1>5 DEF AccessIInv, AccessInv, TokensRunOut
  <2>2. token.exp \in Int /\ token.principal \in Users
    BY <1>2, <1>3, <1>5 DEF TypeOK
  <2>3. offSince[token.principal] \in Nat
    BY <1>2, <2>2, Times DEF TypeOK
  <2>4. now <= offSince[token.principal] + RequestTimeout + Ttl + Leeway
    BY <1>1, <1>2, <2>1, <2>2, <2>3, Times
  <2> QED
    BY <1>3, <2>4
<1>6. ASSUME req'[c] = v PROVE GoodRequest(c)'
  <2>1. UNCHANGED <<stage, cache, now, offSince>>
    BY <1>1 DEF Quiet, startVars
  <2>2. now <= now /\ now <= now + RequestTimeout
    BY <1>2, Times
  <2>3. req'[c].pc = "api" /\ req'[c].at = r /\ req'[c].since = now /\ req'[c].tctx = tctx
    BY <1>6
  <2>4. Timely(c)'
    BY <1>1, <2>1, <2>2, <2>3 DEF Timely
  <2>5. OfSnapshot(c)' /\ BeforeOff(c)'
    BY <1>3, <1>5, <2>1, <2>3 DEF OfSnapshot, BeforeOff
  <2> QED
    BY <2>4, <2>5 DEF GoodRequest
<1> HIDE DEF v
<1> QED
  BY <1>1, <1>4, <1>6, QuietMoves

LEMMA CheckKeeps ==
  ASSUME AccessIInv, NEW c \in Callers, NEW r \in Replicas, NEW token \in tokens, NEW ip \in Ips,
         AdminRequest(c, r, token, ip)
  PROVE  AccessIInv'
<1> DEFINE tctx == TenantContext(r, token)
           v == [pc |-> "check", at |-> r, since |-> now, tctx |-> tctx, ip |-> ip]
<1>1. Begin(c, v) /\ Quiet /\ stage[r] = "serving"
  BY DEF AdminRequest, Free, Quiet
<1>2. now \in 0..MaxClock /\ now \in Nat /\ TypeOK
  BY Times DEF AccessIInv, TypeOK
<1>3. /\ tctx \in Contexts /\ tctx.tenant = token.tenant
      /\ tctx.principal = token.principal /\ tctx.tier = cache[r][token.tenant]
  BY <1>2, ContextOf
<1> HIDE DEF tctx
<1>4. v \in Requests
  BY <1>2, <1>3 DEF Requests, Checked
<1>5. ASSUME req'[c] = v PROVE GoodRequest(c)'
  <2>1. UNCHANGED <<stage, cache, now, offSince>>
    BY <1>1 DEF Quiet, startVars
  <2>2. now <= now /\ now <= now + RequestTimeout
    BY <1>2, Times
  <2>3. req'[c].pc = "check" /\ req'[c].at = r /\ req'[c].since = now /\ req'[c].tctx = tctx
    BY <1>5
  <2>4. Timely(c)'
    BY <1>1, <2>1, <2>2, <2>3 DEF Timely
  <2>5. OfSnapshot(c)' /\ BeforeOff(c)'
    BY <1>3, <2>1, <2>3 DEF OfSnapshot, BeforeOff
  <2> QED
    BY <2>4, <2>5 DEF GoodRequest
<1> HIDE DEF v
<1> QED
  BY <1>1, <1>4, <1>5, QuietMoves

LEMMA AdmittedKeeps ==
  ASSUME AccessIInv, NEW c \in Callers, CheckAdmin(c)
  PROVE  AccessIInv'
<1>1. req[c] \in Checked /\ req[c].pc = "check" /\ GoodRequest(c) /\ Quiet
  BY ByPhase DEF CheckAdmin, AccessIInv, AccessInv, Quiet
<1>2. CASE Answer(c)
  BY <1>1, <1>2, AnswerEnds
<1>3. ASSUME require_admin(req[c].tctx), NEW op \in Ops,
             Begin(c, [pc |-> "admin", at |-> req[c].at, since |-> req[c].since,
                       tctx |-> req[c].tctx, op |-> op])
      PROVE  AccessIInv'
  <2> DEFINE v == [pc |-> "admin", at |-> req[c].at, since |-> req[c].since,
                   tctx |-> req[c].tctx, op |-> op]
             u == req[c].tctx.principal
  <2>1. PICK row \in find_by_email(u) : row.enabled
    BY <1>3 DEF require_admin, find_by_id
  <2>2. u \in Users /\ \A n \in Nat : n <= now => n <= offSince[u]
    BY <2>1, FoundEnabled
  <2>3. v \in Requests
    BY <1>1, OpsAssumption DEF Requests, Checked, Handled
  <2>4. ASSUME req'[c] = v PROVE GoodRequest(c)'
    <3>1. UNCHANGED <<stage, cache, now, offSince>>
      BY <1>1 DEF Quiet, startVars
    <3>2. /\ req'[c].pc = "admin" /\ req'[c].at = req[c].at
          /\ req'[c].since = req[c].since /\ req'[c].tctx = req[c].tctx
      BY <2>4
    <3>3. req[c] # Idle /\ req[c].since \in Nat
      BY <1>1 DEF Idle, Checked
    <3>4. Timely(c)' /\ req[c].since <= now
      BY <1>1, <3>1, <3>2, <3>3 DEF GoodRequest, Timely
    <3>5. req[c].since <= offSince[u]
      BY <2>2, <3>3, <3>4
    <3>6. OfSnapshot(c)'
      BY <1>1, <3>1, <3>2 DEF GoodRequest, OfSnapshot
    <3> QED
      BY <2>2, <3>1, <3>2, <3>4, <3>5, <3>6 DEF GoodRequest, BeforeOff
  <2> HIDE DEF v
  <2> QED
    BY <1>1, <1>3, <2>3, <2>4, QuietMoves DEF v
<1> QED
  BY <1>2, <1>3 DEF CheckAdmin

LEMMA AdminKeeps ==
  ASSUME AccessIInv, NEW c \in Callers, AdminStep(c)
  PROVE  AccessIInv'
<1>1. req[c].pc = "admin" /\ WritesOwn(c) /\ GoesOn(c) /\ TypeOK /\ req[c] \in Handled /\ GoodRequest(c)
  BY AdminEffect, ByPhase DEF AccessIInv, AccessInv
<1>2. UNCHANGED <<stage, cache, tenants, tokens, now>>
  BY <1>1 DEF WritesOwn, WriteNothing, WriteRow, startVars
<1>3. /\ OffTimes' /\ OffStep
      /\ DOMAIN users' \subseteq Users /\ \A v \in DOMAIN users' : users'[v] \in Rows
  <2>1. CASE WriteNothing
    BY <1>1, <2>1, NothingIsOff DEF WriteNothing, AccessIInv, AccessInv, OffTimes, TypeOK
  <2>2. CASE \E u \in Users, row \in Rows : WriteRow(u, row)
    <3>1. PICK u \in Users, row \in Rows : WriteRow(u, row)
      BY <2>2
    <3>2. OffTimes
      BY DEF AccessIInv, AccessInv
    <3> QED
      BY <1>1, <3>1, <3>2, RowIsWritten DEF WriteRow
  <2> QED
    BY <1>1, <2>1, <2>2, Zenon DEF WritesOwn
<1>4. \E v \in Requests : Begin(c, v) /\ (req'[c] = v => GoodRequest(c)')
  <2>1. CASE Answer(c)
    <3>1. Begin(c, Idle) /\ Idle \in Requests
      BY <2>1 DEF Answer, Begin, Requests
    <3>2. req'[c] = Idle => GoodRequest(c)'
      BY IdleIsGood
    <3> QED
      BY <3>1, <3>2
  <2>2. CASE ~Answer(c)
    <3> DEFINE v == [req[c] EXCEPT !.op.role = None]
    <3>1. UpdateRole(c) /\ Begin(c, v)
      BY <1>1, <2>2 DEF GoesOn, AdminStep, ListUsers, CreateUser, UpdateRole, UpdateEnabled, DeleteUser,
         ResetPassword
    <3>2. req[c].op \in AdminOps /\ req[c].op.kind = "update"
      BY <1>1, <3>1 DEF UpdateRole, Handling, Handled
    <3>3. [req[c].op EXCEPT !.role = None] \in AdminOps
      BY <3>2, OpFields
    <3>4. v = [req[c] EXCEPT !.op = [req[c].op EXCEPT !.role = None]]
      BY <1>1 DEF Handled
    <3>5. v \in Handled
      BY <1>1, <3>3, <3>4 DEF Handled
    <3>6. v.pc = req[c].pc /\ v.at = req[c].at /\ v.since = req[c].since /\ v.tctx = req[c].tctx
      BY <1>1, <3>4 DEF Handled
    <3> HIDE DEF v
    <3>7. ASSUME req'[c] = v PROVE GoodRequest(c)'
      <4>1. req[c] # Idle /\ v # Idle
        BY <1>1, <3>6 DEF Idle
      <4>2. req[c].tctx.principal \in Users /\ req[c].since <= offSince[req[c].tctx.principal]
        BY <1>1 DEF GoodRequest, BeforeOff
      <4>3. req[c].since <= now /\ req[c].since \in Nat /\ now \in Nat /\ now <= Never
        BY <1>1, <4>1, Times DEF GoodRequest, Timely, Handled, TypeOK
      <4>4. /\ offSince'[req[c].tctx.principal] \in Nat /\ offSince[req[c].tctx.principal] \in Nat
            /\ \/ offSince'[req[c].tctx.principal] = offSince[req[c].tctx.principal]
               \/ offSince'[req[c].tctx.principal] = Never
               \/ offSince'[req[c].tctx.principal] = now
        BY <1>1, <1>3, <4>2, Times DEF OffStep, TypeOK
      <4>5. req[c].since <= offSince'[req[c].tctx.principal]
        BY <4>2, <4>3, <4>4, Times
      <4>6. Timely(c)' /\ OfSnapshot(c)'
        BY <1>1, <1>2, <3>6, <3>7, <4>1 DEF GoodRequest, Timely, OfSnapshot
      <4>7. BeforeOff(c)'
        BY <1>1, <3>6, <3>7, <4>2, <4>5 DEF BeforeOff
      <4> QED
        BY <4>6, <4>7 DEF GoodRequest
    <3>8. v \in Requests
      BY <3>5 DEF Requests
    <3> QED
      BY <3>1, <3>7, <3>8
  <2> QED
    BY <2>1, <2>2
<1>5. req' \in [Callers -> Requests] /\ \A d \in Callers : GoodRequest(d)'
  BY <1>2, <1>3, <1>4, RequestMoves
<1>6. TokensRunOut'
  BY <1>1, <1>2, <1>3, TokensStay DEF AccessIInv, AccessInv
<1>7. TypeOK'
  BY <1>1, <1>2, <1>3, <1>5 DEF TypeOK, OffStep
<1> QED
  BY <1>3, <1>5, <1>6, <1>7 DEF AccessIInv, AccessInv

\* A replica moves: its requests go with it, or it keeps the snapshot they run with.
LEMMA ReplicaMoves ==
  ASSUME AccessIInv, NEW r \in Replicas,
         UNCHANGED <<tenants, users, tokens, now, offSince>>,
         DOMAIN stage' = Replicas, cache' \in [Replicas -> TenantTable],
         \A s \in Replicas \ {r} : stage'[s] = stage[s] /\ cache'[s] = cache[s],
         req' \in [Callers -> Requests],
         \A c \in Callers :
           \/ req'[c] = Idle
           \/ /\ req'[c] = req[c]
              /\ req[c] # Idle /\ req[c].at = r =>
                   stage'[r] \in {"serving", "draining"} /\ cache'[r] = cache[r]
  PROVE  AccessIInv'
<1>1. TypeOK /\ OffStep
  BY NothingIsOff DEF AccessIInv
<1>2. TypeOK'
  BY <1>1 DEF TypeOK
<1>3. OffTimes' /\ TokensRunOut'
  BY DEF AccessIInv, AccessInv, OffTimes, TokensRunOut
<1>4. ASSUME NEW c \in Callers PROVE GoodRequest(c)'
  <2>1. CASE req'[c] = Idle
    BY <2>1, IdleIsGood
  <2>2. CASE req'[c] = req[c] /\ (req[c] # Idle /\ req[c].at = r =>
               stage'[r] \in {"serving", "draining"} /\ cache'[r] = cache[r])
    <3>1. GoodRequest(c)
      BY DEF AccessIInv, AccessInv
    <3>2. req[c] # Idle => req[c].at \in Replicas /\ stage[req[c].at] \in {"serving", "draining"}
      BY <1>1, <3>1, ByPhase DEF GoodRequest, Timely, Requests, Finding, Verified, Served, Checked, Handled
    <3>3. req[c] # Idle => /\ stage'[req[c].at] \in {"serving", "draining"}
                           /\ cache'[req[c].at] = cache[req[c].at]
      BY <2>2, <3>2
    <3> QED
      BY <1>1, <2>2, <3>1, <3>3, GoodStays
  <2> QED
    BY <2>1, <2>2
<1> QED
  BY <1>2, <1>3, <1>4 DEF AccessIInv, AccessInv

\* A process that does not serve yet has no requests.
LEMMA NoneBeforeServing ==
  ASSUME AccessIInv, NEW r, stage[r] \notin {"serving", "draining"}, NEW c \in Callers, req[c] # Idle
  PROVE  req[c].at # r
BY DEF AccessIInv, AccessInv, GoodRequest, Timely

LEMMA GoneLeaves ==
  ASSUME TypeOK, NEW r \in Replicas, Gone(r)
  PROVE  /\ UNCHANGED tenants
         /\ DOMAIN stage' = Replicas /\ cache' \in [Replicas -> TenantTable]
         /\ \A s \in Replicas \ {r} : stage'[s] = stage[s] /\ cache'[s] = cache[s]
<1>1. NoTenants \in TenantTable
  BY DEF NoTenants, TenantTable
<1> QED
  BY <1>1 DEF Gone, TypeOK

LEMMA ServerKeeps ==
  ASSUME AccessIInv, NEW r \in Replicas, ServerStep(r)
  PROVE  AccessIInv'
<1>1. TypeOK /\ req \in [Callers -> Requests] /\ DOMAIN stage = Replicas
      /\ tenants \in TenantTable /\ cache \in [Replicas -> TenantTable]
  BY DEF AccessIInv, TypeOK
<1>2. CASE Boot(r) /\ Kept
  <2>1. stage[r] \notin {"serving", "draining"} /\ cache' = cache /\ tenants' = tenants
        /\ \E x : stage' = [stage EXCEPT ![r] = x]
    BY <1>2 DEF Boot
  <2>2. UNCHANGED <<users, tokens, req, now, offSince>>
    BY <1>2 DEF Kept, accessVars
  <2>3. \A c \in Callers : req[c] # Idle => req[c].at # r
    BY <2>1, NoneBeforeServing
  <2> QED
    BY <1>1, <2>1, <2>2, <2>3, ReplicaMoves
<1>3. CASE Advance(r, ValidTenants) /\ Kept
  <2>1. stage[r] \notin {"serving", "draining"} /\ tenants' = tenants
        /\ (cache' = [cache EXCEPT ![r] = tenants] \/ cache' = cache)
        /\ \E x : stage' = [stage EXCEPT ![r] = x]
    BY <1>3 DEF Advance
  <2>2. UNCHANGED <<users, tokens, req, now, offSince>>
    BY <1>3 DEF Kept, accessVars
  <2>3. \A c \in Callers : req[c] # Idle => req[c].at # r
    BY <2>1, NoneBeforeServing
  <2>4. /\ cache' \in [Replicas -> TenantTable] /\ DOMAIN stage' = Replicas
        /\ \A s \in Replicas \ {r} : stage'[s] = stage[s] /\ cache'[s] = cache[s]
    BY <1>1, <2>1
  <2> QED
    BY <1>1, <2>1, <2>2, <2>3, <2>4, ReplicaMoves
<1>4. CASE StartFails(r, ValidTenants) /\ Kept
  <2>1. stage[r] \notin {"serving", "draining"} /\ Gone(r)
    BY <1>4 DEF StartFails
  <2>2. UNCHANGED <<users, tokens, req, now, offSince>>
    BY <1>4 DEF Kept, accessVars
  <2>3. \A c \in Callers : req[c] # Idle => req[c].at # r
    BY <2>1, NoneBeforeServing
  <2> QED
    BY <1>1, <2>1, <2>2, <2>3, GoneLeaves, ReplicaMoves
<1>5. CASE shutdown_signal(r) /\ Kept
  <2>1. cache' = cache /\ tenants' = tenants /\ stage' = [stage EXCEPT ![r] = "draining"]
    BY <1>5 DEF shutdown_signal
  <2>2. UNCHANGED <<users, tokens, req, now, offSince>>
    BY <1>5 DEF Kept, accessVars
  <2> QED
    BY <1>1, <2>1, <2>2, ReplicaMoves
<1>6. CASE Gone(r) /\ Lost(r)
  <2>1. /\ req' = [c \in Callers |-> IF req[c] # Idle /\ req[c].at = r THEN Idle ELSE req[c]]
        /\ UNCHANGED <<users, tokens, now, offSince>>
    BY <1>6 DEF Lost
  <2>2. req' \in [Callers -> Requests]
    BY <1>1, <2>1 DEF Requests
  <2>3. \A c \in Callers : req'[c] = Idle \/ (req'[c] = req[c] /\ ~(req[c] # Idle /\ req[c].at = r))
    BY <2>1
  <2> QED
    BY <1>1, <1>6, <2>1, <2>2, <2>3, GoneLeaves, ReplicaMoves
<1> QED
  BY <1>2, <1>3, <1>4, <1>5, <1>6 DEF ServerStep, Exit, Kill

LEMMA SeedKeeps ==
  ASSUME AccessIInv, NEW t \in Tenants, SeedTenant(t)
  PROVE  AccessIInv'
<1> DEFINE u == SeedAdmin[t]
           row == UserRow(t, "admin", "short")
<1>1. /\ tenants' = [tenants EXCEPT ![t] = "free"] /\ users' = Written(u, row)
      /\ UNCHANGED <<stage, cache, tokens, req, now, offSince>> /\ u \notin DOMAIN users
  BY DEF SeedTenant
<1>2. u \in Users /\ row \in Rows /\ row.enabled
  BY AccessAssumption DEF UserRow, Rows, Roles, Passwords
<1> HIDE DEF u, row
<1>3. TypeOK /\ OffTimes /\ TokensRunOut /\ OffStep
  BY <1>1, NothingIsOff DEF AccessIInv, AccessInv
<1>4. tenants' \in TenantTable
  BY <1>1, <1>3 DEF TypeOK, TenantTable, Plans
<1>5. offSince[u] = Never
  BY <1>1, <1>2, <1>3 DEF OffTimes
<1>6. OffTimes' /\ DOMAIN users' \subseteq Users /\ \A v \in DOMAIN users' : users'[v] \in Rows
  BY <1>1, <1>2, <1>3, <1>5, RowIsWritten
<1>7. TokensRunOut' /\ \A c \in Callers : GoodRequest(c)'
  BY <1>1 DEF AccessIInv, AccessInv, TokensRunOut, GoodRequest, Timely, OfSnapshot, BeforeOff
<1>8. TypeOK'
  BY <1>1, <1>3, <1>4, <1>6 DEF TypeOK
<1> QED
  BY <1>6, <1>7, <1>8 DEF AccessIInv, AccessInv

LEMMA PlanKeeps ==
  ASSUME AccessIInv, NEW t \in Tenants, ChangePlan(t)
  PROVE  AccessIInv'
<1>1. /\ tenants' = [tenants EXCEPT ![t] = "pro"]
      /\ UNCHANGED <<stage, cache, users, tokens, req, now, offSince>>
  BY DEF ChangePlan, Kept, accessVars
<1>2. tenants' \in TenantTable
  BY <1>1 DEF AccessIInv, TypeOK, TenantTable, Plans
<1>3. TypeOK'
  BY <1>1, <1>2 DEF AccessIInv, TypeOK
<1> QED
  BY <1>1, <1>3 DEF AccessIInv, AccessInv, OffTimes, TokensRunOut, GoodRequest, Timely, OfSnapshot, BeforeOff

\* A second passes: the timeout layer has ended what would be overdue.
LEMMA TickKeeps ==
  ASSUME AccessIInv, Tick
  PROVE  AccessIInv'
<1>1. /\ now' = now + 1 /\ now < MaxClock
      /\ \A c \in Callers : req[c] # Idle => now < req[c].since + RequestTimeout
      /\ UNCHANGED <<stage, cache, tenants, users, tokens, req, offSince>>
  BY DEF Tick, InFlight, startVars
<1>2. TypeOK /\ now \in Nat
  BY Times DEF AccessIInv, TypeOK
<1>3. now' \in 0..MaxClock
  BY <1>1, <1>2, Times
<1>4. TypeOK'
  BY <1>1, <1>2, <1>3 DEF TypeOK
<1>5. TokensRunOut'
  <2> SUFFICES ASSUME NEW token \in tokens PROVE token.exp <= now' + Ttl
    BY <1>1 DEF AccessIInv, AccessInv, TokensRunOut
  <2>1. token.exp <= now + Ttl /\ token.exp \in Int
    BY <1>2 DEF AccessIInv, AccessInv, TokensRunOut, TypeOK
  <2> QED
    BY <1>1, <1>2, <2>1, Times
<1>6. ASSUME NEW c \in Callers PROVE GoodRequest(c)'
  <2>1. GoodRequest(c)
    BY DEF AccessIInv, AccessInv
  <2>2. req[c] # Idle => req[c].since \in Nat
    BY <1>2, ByPhase DEF Requests, Finding, Verified, Served, Checked, Handled
  <2>3. req[c] # Idle => req[c].since <= now' /\ now' <= req[c].since + RequestTimeout
    BY <1>1, <1>2, <2>1, <2>2, Times DEF GoodRequest, Timely
  <2>4. Timely(c)'
    BY <1>1, <2>1, <2>3 DEF GoodRequest, Timely
  <2> QED
    BY <1>1, <2>1, <2>4 DEF GoodRequest, OfSnapshot, BeforeOff
<1>7. OffTimes'
  BY <1>1 DEF AccessIInv, AccessInv, OffTimes
<1> QED
  BY <1>4, <1>5, <1>6, <1>7 DEF AccessIInv, AccessInv

LEMMA RequestKeeps ==
  ASSUME AccessIInv, NEW c \in Callers, RequestStep(c)
  PROVE  AccessIInv'
<1>1. CASE ApiAnswer(c) \/ Cut(c)
  <2>1. Answer(c) /\ Quiet
    BY <1>1 DEF ApiAnswer, Cut, WriteNothing, Quiet
  <2> QED
    BY <2>1, AnswerEnds
<1> QED
  BY <1>1, FindKeeps, MintKeeps, AdmittedKeeps, AdminKeeps DEF RequestStep, AdminStep

LEMMA StepKeeps ==
  ASSUME AccessIInv, [Next]_vars
  PROVE  AccessIInv'
<1>1. CASE UNCHANGED vars
  <2>1. UNCHANGED <<stage, cache, tenants, users, tokens, req, now, offSince>>
    BY <1>1 DEF vars, startVars, accessVars
  <2> QED
    BY <2>1 DEF AccessIInv, AccessInv, TypeOK, OffTimes, TokensRunOut, GoodRequest, Timely, OfSnapshot,
       BeforeOff
<1>2. ASSUME NEW c \in Callers, NEW r \in Replicas, NEW ip \in Ips, Arrival(c, r, ip)
      PROVE  AccessIInv'
  BY <1>2, LoginKeeps, ApiKeeps, CheckKeeps DEF Arrival
<1> QED
  BY <1>1, <1>2, ServerKeeps, RequestKeeps, SeedKeeps, PlanKeeps, TickKeeps DEF Next

LEMMA InitHolds == Init => AccessIInv
<1> SUFFICES ASSUME Init PROVE AccessIInv
  OBVIOUS
<1> DEFINE table == [t \in Tenants |-> IF t = Public THEN "enterprise" ELSE Absent]
<1>1. /\ DOMAIN stage = Replicas /\ tenants = table /\ cache = [r \in Replicas |-> NoTenants]
      /\ users = [u \in {SeedAdmin[Public]} |-> UserRow(Public, "admin", "short")]
      /\ tokens = Issued /\ req = [c \in Callers |-> Idle] /\ now = 0
      /\ offSince = [u \in Users |-> Never]
  BY DEF Init, StartInit
<1>2. NoTenants \in TenantTable /\ table \in TenantTable
  BY DEF NoTenants, TenantTable, Plans
<1>3. SeedAdmin[Public] \in Users /\ UserRow(Public, "admin", "short") \in Rows
  BY AccessAssumption DEF UserRow, Rows, Roles, Passwords
<1>4. /\ \A token \in Issued :
           /\ token.tenant \in Tenants /\ token.principal \in Users \cup {None}
           /\ token.exp \in Int /\ token.exp <= Ttl
  BY AccessAssumption
<1> HIDE DEF table
<1>5. now \in 0..MaxClock /\ Never \in 0..Never
  BY <1>1, Times
<1>6. TypeOK
  BY <1>1, <1>2, <1>3, <1>4, <1>5 DEF TypeOK, Requests
<1>7. ASSUME NEW token \in tokens
      PROVE  /\ token.exp <= now + Ttl
             /\ token.principal # None => token.exp <= offSince[token.principal] + RequestTimeout + Ttl
  <2>1. token.exp \in Int /\ token.exp <= Ttl
    BY <1>1, <1>4
  <2>2. token.principal # None => offSince[token.principal] = Never
    BY <1>1, <1>4
  <2> QED
    BY <1>1, <2>1, <2>2, Times
<1>8. TokensRunOut /\ OffTimes
  BY <1>1, <1>7 DEF TokensRunOut, OffTimes
<1>9. \A c \in Callers : GoodRequest(c)
  BY <1>1 DEF GoodRequest, Timely, OfSnapshot, BeforeOff, Idle
<1> QED
  BY <1>6, <1>8, <1>9 DEF AccessIInv, AccessInv

LEMMA AccessKeeps == Spec => []AccessIInv
BY InitHolds, StepKeeps, PTL DEF Spec

-----------------------------------------------------------------------------
(***************************************************************************)
(* Theorems.                                                               *)
(***************************************************************************)

\* The state is of its types: rows, tokens and requests are what the statements and
\* the middleware make of them, whichever replica they come from.
THEOREM TypesHold == Spec => []TypeOK
<1>1. AccessIInv => TypeOK
  BY DEF AccessIInv
<1> QED
  BY <1>1, AccessKeeps, PTL

\* Two requests of a tenant at one replica are treated by one plan tier, whatever
\* their tokens say and however often the plan is changed (middleware/auth.rs).
THEOREM TierIsOfTheReplica == Spec => []OneTierPerReplica
<1>1. AccessIInv => OneTierPerReplica
  BY DEF AccessIInv, AccessInv, GoodRequest, OfSnapshot, OneTierPerReplica
<1> QED
  BY <1>1, AccessKeeps, PTL

\* The access of a disabled user ends with the last token that a login verified
\* before could get, and that of a disabled administrator with the request that
\* was checked before, however logins, statements and ticks interleave.
THEOREM DisabledAccessEnds == Spec => []DisabledRunsOut
<1>1. AccessIInv => DisabledRunsOut
  <2> SUFFICES ASSUME AccessIInv, NEW c \in Callers, req[c].pc = "admin"
               PROVE  now <= offSince[req[c].tctx.principal] + RequestTimeout
    BY DEF AccessIInv, AccessInv, GoodRequest, BeforeOff, DisabledRunsOut
  <2> DEFINE u == req[c].tctx.principal
  <2>1. TypeOK /\ GoodRequest(c) /\ req[c] \in Handled
    BY ByPhase DEF AccessIInv, AccessInv
  <2>2. u \in Users /\ req[c].since <= offSince[u]
    BY <2>1 DEF GoodRequest, BeforeOff
  <2>3. now <= req[c].since + RequestTimeout
    BY <2>1 DEF GoodRequest, Timely, Idle
  <2>4. now \in Nat /\ req[c].since \in Nat /\ offSince[u] \in Nat
    BY <2>1, <2>2, Times DEF TypeOK, Handled
  <2> QED
    BY <2>2, <2>3, <2>4, Times
<1> QED
  BY <1>1, AccessKeeps, PTL

\* A row that a step writes is of a tenant that a checked administrator acts for, or
\* of one that is only now created.
LEMMA LockedOutStep ==
  ASSUME TypeOK, NEW t \in Tenants, LockedOut(t), [Next]_vars
  PROVE  LockedOut(t)'
<1>1. /\ tenants[t] # Absent
      /\ \A u \in DOMAIN users : ~EnabledAdmin(u, t)
      /\ \A c \in Callers : req[c].pc = "admin" => req[c].tctx.tenant # t
  BY DEF LockedOut
<1>2. tenants'[t] # Absent
  <2>1. CASE tenants' = tenants
    BY <1>1, <2>1
  <2>2. ASSUME NEW r \in Replicas, ServerStep(r) PROVE tenants' = tenants
    BY <2>2 DEF ServerStep, Boot, Advance, StartFails, Gone, shutdown_signal, Exit, Kill
  <2>3. ASSUME NEW c \in Callers, RequestStep(c) PROVE tenants' = tenants
    <3>1. CASE AdminStep(c)
      BY <3>1, AdminEffect DEF WritesOwn, WriteNothing, WriteRow, startVars
    <3>2. CASE ~AdminStep(c)
      BY <2>3, <3>2 DEF RequestStep, AdminStep, FindByEmail, MintToken, ApiAnswer, CheckAdmin, Cut,
         WriteNothing, startVars
    <3> QED
      BY <3>1, <3>2
  <2>4. ASSUME NEW c \in Callers, NEW r \in Replicas, NEW ip \in Ips, Arrival(c, r, ip)
        PROVE  tenants' = tenants
    BY <2>4 DEF Arrival, Login, ApiRequest, AdminRequest, startVars
  <2>5. ASSUME NEW s \in Tenants, SeedTenant(s) \/ ChangePlan(s) PROVE tenants'[t] # Absent
    BY <1>1, <2>5 DEF SeedTenant, ChangePlan, TypeOK, TenantTable, Absent
  <2>6. Tick \/ UNCHANGED vars => tenants' = tenants
    BY DEF Tick, vars, startVars
  <2> QED
    BY <2>1, <2>2, <2>3, <2>4, <2>5, <2>6 DEF Next
<1>3. ASSUME users' = users PROVE \A u \in DOMAIN users' : ~EnabledAdmin(u, t)'
  BY <1>1, <1>3 DEF EnabledAdmin
<1>4. ASSUME NEW u, NEW row, users' = Written(u, row), row.tenant # t
      PROVE  \A v \in DOMAIN users' : ~EnabledAdmin(v, t)'
  BY <1>1, <1>4 DEF EnabledAdmin, Written
<1>5. ASSUME NEW c \in Callers, AdminStep(c)
      PROVE  LockedOut(t)'
  <2>1. req[c].pc = "admin" /\ WritesOwn(c) /\ GoesOn(c) /\ req[c].tctx.tenant # t /\ req[c] \in Handled
    BY <1>1, <1>5, AdminEffect, ByPhase
  <2>2. users' = users \/ \E u, row : row.tenant = req[c].tctx.tenant /\ users' = Written(u, row)
    BY <2>1 DEF WritesOwn, WriteNothing, WriteRow
  <2>3. \A u \in DOMAIN users' : ~EnabledAdmin(u, t)'
    BY <1>3, <1>4, <2>1, <2>2
  <2>4. \A d \in Callers : req'[d].pc = "admin" => req'[d].tctx.tenant # t
    <3>1. req'[c].pc = "admin" => req'[c].tctx = req[c].tctx
      BY <2>1 DEF GoesOn, Answer, Begin, Idle, Handled, TypeOK
    <3>2. \A d \in Callers \ {c} : req'[d] = req[d]
      BY <2>1 DEF GoesOn, Answer, Begin, TypeOK
    <3> QED
      BY <1>1, <2>1, <3>1, <3>2
  <2> QED
    BY <1>2, <2>3, <2>4 DEF LockedOut
<1>6. ASSUME NEW c \in Callers, CheckAdmin(c)
      PROVE  LockedOut(t)'
  <2>1. users' = users
    BY <1>6 DEF CheckAdmin
  <2>2. \A d \in Callers \ {c} : req'[d] = req[d]
    BY <1>6 DEF CheckAdmin, Answer, Begin, TypeOK
  <2>3. req'[c].pc = "admin" => req'[c].tctx.tenant # t
    <3>1. CASE Answer(c)
      BY <3>1 DEF Answer, Idle, TypeOK
    <3>2. CASE ~Answer(c)
      <4>1. require_admin(req[c].tctx) /\ req'[c].tctx = req[c].tctx
        BY <1>6, <3>2 DEF CheckAdmin, Begin, TypeOK
      <4>2. PICK u \in DOMAIN users : users[u].tenant = req[c].tctx.tenant /\ users[u].enabled
                                      /\ users[u].role = "admin"
        BY <4>1 DEF require_admin, find_by_id, find_by_email
      <4> QED
        BY <1>1, <4>1, <4>2 DEF EnabledAdmin
    <3> QED
      BY <3>1, <3>2
  <2> QED
    BY <1>1, <1>2, <1>3, <2>1, <2>2, <2>3 DEF LockedOut
<1>7. ASSUME NEW s \in Tenants, SeedTenant(s)
      PROVE  LockedOut(t)'
  <2>1. s # t /\ users' = Written(SeedAdmin[s], UserRow(s, "admin", "short")) /\ req' = req
    BY <1>1, <1>7 DEF SeedTenant
  <2>2. UserRow(s, "admin", "short").tenant # t
    BY <2>1 DEF UserRow
  <2> QED
    BY <1>1, <1>2, <1>4, <2>1, <2>2 DEF LockedOut
\* Whatever else a step does, it writes no row and admits no administrator.
<1>8. ASSUME users' = users,
             \A d \in Callers : req'[d] = req[d] \/ req'[d].pc # "admin"
      PROVE  LockedOut(t)'
  BY <1>1, <1>2, <1>3, <1>8 DEF LockedOut
<1>9. ASSUME NEW c \in Callers,
             \/ FindByEmail(c) \/ MintToken(c) \/ ApiAnswer(c) \/ Cut(c)
             \/ \E r \in Replicas, ip \in Ips : Arrival(c, r, ip)
      PROVE  LockedOut(t)'
  <2>1. users' = users
    BY <1>9 DEF FindByEmail, MintToken, ApiAnswer, Cut, WriteNothing, Arrival, Login, ApiRequest, AdminRequest
  <2>2. \E v : req' = [req EXCEPT ![c] = v] /\ v.pc # "admin"
    BY <1>9 DEF FindByEmail, MintToken, ApiAnswer, Cut, Arrival, Login, ApiRequest, AdminRequest,
       Begin, Answer, Idle
  <2>3. \A d \in Callers : req'[d] = req[d] \/ req'[d].pc # "admin"
    BY <2>2 DEF TypeOK
  <2> QED
    BY <1>8, <2>1, <2>3
<1>10. ASSUME NEW r \in Replicas, ServerStep(r)
       PROVE  LockedOut(t)'
  <2>1. users' = users
    BY <1>10 DEF ServerStep, Exit, Kill, Lost, Kept, accessVars
  <2>2. \A d \in Callers : req'[d] = req[d] \/ req'[d] = Idle
    BY <1>10 DEF ServerStep, Exit, Kill, Lost, Kept, accessVars
  <2>3. Idle.pc # "admin"
    BY DEF Idle
  <2> QED
    BY <1>8, <2>1, <2>2, <2>3
<1>11. ASSUME Tick \/ UNCHANGED vars \/ \E s \in Tenants : ChangePlan(s)
       PROVE  LockedOut(t)'
  <2>1. users' = users /\ req' = req
    BY <1>11 DEF Tick, vars, accessVars, ChangePlan, Kept
  <2> QED
    BY <1>8, <2>1
<1> QED
  BY <1>5, <1>6, <1>7, <1>9, <1>10, <1>11 DEF Next, RequestStep, AdminStep

\* A tenant whose administrators have disabled or demoted one another is locked out
\* for good: no request of anyone, stale or of another tenant, brings one back.
THEOREM LockedOutForGood == Spec => LockedOutStays
<1>1. TypeOK /\ [Next]_vars => [\A t \in Tenants : LockedOut(t) => LockedOut(t)']_vars
  BY LockedOutStep
<1> QED
  BY <1>1, TypesHold, PTL DEF Spec, LockedOutStays
=============================================================================
