-------------------------------- MODULE Sessions --------------------------------
(***************************************************************************)
(* Accounts, memberships and tokens: AuthService's register, login,        *)
(* selectTenant, refresh and logout, and TenantsService's addMember and    *)
(* removeMember.                                                           *)
(*                                                                         *)
(* These routes run outside any transaction: each database call commits by *)
(* itself, and requests, membership changes and crashes come in between.   *)
(* An access token is a signed copy of the role read while it was issued,  *)
(* and nothing looks it up again before it expires.  A refresh token is a  *)
(* row, read by its hash and revoked by its id.                            *)
(***************************************************************************)
EXTENDS Integers, FiniteSets, Sequences

CONSTANTS
    Users, Tenants,
    Granted,        \* the roles addMember is asked to give
    Requests,       \* requests to /auth that can be in flight at once
    AccessTTL, RefreshTTL, SelectionTTL,
    MaxRequest,     \* the longest a request takes
    MaxTime,        \* bound on the clock
    MaxRows,        \* bound on the refresh tokens ever issued
    MaxForks,       \* bound on the races counted for one login
    NoRole

ASSUME Lifetimes == {AccessTTL, RefreshTTL, SelectionTTL} \subseteq Nat \ {0}
ASSUME SessionBounds == {MaxRequest, MaxTime, MaxRows, MaxForks} \subseteq Nat
ASSUME GrantedRoles == Granted \subseteq {"MEMBER", "ADMIN", "OWNER"}
ASSUME FiniteRequests == IsFiniteSet(Requests)
ASSUME NoRoleIsNone == NoRole \notin {"MEMBER", "ADMIN", "OWNER"}

VARIABLES
    now,
    role,           \* memberships: the role of each user in each tenant
    refreshTokens,  \* rows of refresh_tokens, in the order of their creation
    accessTokens,   \* access tokens handed out and not expired
    choices,        \* tenant-selection tokens handed out and not expired
    req,            \* requests in flight
    lastHeld,       \* history: when each role was last held
    forks           \* history: per login, refreshes that read a token which
                    \* another refresh had read and not yet revoked

sessionVars == <<now, role, refreshTokens, accessTokens, choices, req, lastHeld, forks>>

Roles == {"MEMBER", "ADMIN", "OWNER"}
Family == 1..MaxRows                    \* a login, by its first refresh token
Never == -1

RefreshToken == [user : Users, tenant : Tenants, exp : Int, revoked : BOOLEAN, family : Family]
AccessToken == [user : Users, tenant : Tenants, role : Roles, exp : Int]

\* A request: `row` is the refresh token it was given (0: none), `role` the role
\* it has read and will sign, `since` when it started.
Request == [pc : {"revoke", "membership", "issue"}, user : Users, tenant : Tenants,
            role : Roles \cup {NoRole}, since : Int, row : 0..MaxRows]
Idle == [pc |-> "idle"]

SessionsTypeOK ==
    /\ now \in 0..MaxTime
    /\ role \in [Users -> [Tenants -> Roles \cup {NoRole}]]
    /\ refreshTokens \in Seq(RefreshToken) /\ Len(refreshTokens) <= MaxRows
    /\ accessTokens \subseteq AccessToken
    /\ choices \subseteq [user : Users, exp : Int]
    /\ req \in [Requests -> Request \cup {Idle}]
    /\ lastHeld \in [Users -> [Tenants -> [Roles -> Int]]]
    /\ forks \in [Family -> Nat]

------------------------------------------------------------------------------
Rows == DOMAIN refreshTokens
TenantsOf(u) == {t \in Tenants : role[u][t] # NoRole}
InFlight == {r \in Requests : req[r] # Idle}

\* stored && !stored.revokedAt && stored.expiresAt >= now
Live(k) == ~refreshTokens[k].revoked /\ now <= refreshTokens[k].exp

Starts(r, pc, u, t, held, k) ==
    /\ req[r] = Idle
    /\ req' = [req EXCEPT ![r] = [pc |-> pc, user |-> u, tenant |-> t, role |-> held,
                                  since |-> now, row |-> k]]

Ends(r) == req' = [req EXCEPT ![r] = Idle]

Holds(u, t, held) ==
    /\ role' = [role EXCEPT ![u][t] = held]
    /\ lastHeld' = [lastHeld EXCEPT ![u][t] =
                      [h \in Roles |-> IF h = held THEN now ELSE @[h]]]

\* register: a tenant, its owner, in one transaction; then tokens.
Register(r, u, t) ==
    /\ \A s \in Tenants : lastHeld[u][s]["OWNER"] = Never
    /\ \A v \in Users : role[v][t] = NoRole
    /\ Holds(u, t, "OWNER")
    /\ Starts(r, "issue", u, t, "OWNER", 0)
    /\ UNCHANGED <<now, refreshTokens, accessTokens, choices, forks>>

\* login: one membership is read and signed; several give a selection token.
Login(r, u) ==
    \E t \in TenantsOf(u) :
        /\ TenantsOf(u) = {t}
        /\ Starts(r, "issue", u, t, role[u][t], 0)
        /\ UNCHANGED <<now, role, refreshTokens, accessTokens, choices, lastHeld, forks>>

LoginToChoose(u) ==
    /\ Cardinality(TenantsOf(u)) > 1
    /\ choices' = choices \cup {[user |-> u, exp |-> now + SelectionTTL]}
    /\ UNCHANGED <<now, role, refreshTokens, accessTokens, req, lastHeld, forks>>

SelectTenant(r, c, t) ==
    /\ role[c.user][t] # NoRole
    /\ Starts(r, "issue", c.user, t, role[c.user][t], 0)
    /\ UNCHANGED <<now, role, refreshTokens, accessTokens, choices, lastHeld, forks>>

\* refresh reads the row by the token's hash ...
Refresh(r, k) ==
    LET row == refreshTokens[k]
        racing == {s \in InFlight : req[s].row = k /\ req[s].pc = "revoke"}
    IN  /\ Live(k)
        /\ Starts(r, "revoke", row.user, row.tenant, NoRole, k)
        /\ racing # {} => forks[row.family] < MaxForks
        /\ forks' = [forks EXCEPT ![row.family] = IF racing = {} THEN @ ELSE @ + 1]
        /\ UNCHANGED <<now, role, refreshTokens, accessTokens, choices, lastHeld>>

\* Faulty variant: the old token stays good.
RevokedNever(k) == refreshTokens

RevokedRow(k) == [refreshTokens EXCEPT ![k].revoked = TRUE]

\* ... revokes it by its id, whether or not it still is live ...
Revoke(r) ==
    /\ req[r].pc = "revoke"
    /\ refreshTokens' = RevokedRow(req[r].row)
    /\ req' = [req EXCEPT ![r].pc = "membership"]
    /\ UNCHANGED <<now, role, accessTokens, choices, lastHeld, forks>>

\* Faulty variant: a role the user had when an earlier token was issued is signed
\* again.
RoleReadAny(u, t) == {h \in Roles : lastHeld[u][t][h] # Never}

\* ... and reads the membership as it is now.
RoleRead(u, t) == {role[u][t]}

ReadMembership(r) ==
    /\ req[r].pc = "membership"
    /\ \E held \in RoleRead(req[r].user, req[r].tenant) :
          req' = [req EXCEPT ![r] = IF held = NoRole THEN Idle
                                    ELSE [@ EXCEPT !.pc = "issue", !.role = held]]
    /\ UNCHANGED <<now, role, refreshTokens, accessTokens, choices, lastHeld, forks>>

\* issueTokens: the access token is signed, the refresh token stored.
Issue(r) ==
    LET q == req[r]
        n == Len(refreshTokens) + 1
    IN  /\ q.pc = "issue" /\ n <= MaxRows
        /\ accessTokens' = accessTokens \cup
              {[user |-> q.user, tenant |-> q.tenant, role |-> q.role,
                exp |-> now + AccessTTL]}
        /\ refreshTokens' = Append(refreshTokens,
              [user |-> q.user, tenant |-> q.tenant, exp |-> now + RefreshTTL,
               revoked |-> FALSE,
               family |-> IF q.row = 0 THEN n ELSE refreshTokens[q.row].family])
        /\ Ends(r)
        /\ UNCHANGED <<now, role, choices, lastHeld, forks>>

\* logout: where revokedAt is null.
Logout(k) ==
    /\ ~refreshTokens[k].revoked
    /\ refreshTokens' = [refreshTokens EXCEPT ![k].revoked = TRUE]
    /\ UNCHANGED <<now, role, accessTokens, choices, req, lastHeld, forks>>

\* addMember and removeMember, asked for by somebody of that tenant who may; an
\* owner is never removed, and only who has an account is added.
AddMember(u, t, held) ==
    /\ role[u][t] = NoRole /\ \E s \in Tenants : lastHeld[u][s]["OWNER"] # Never
    /\ Holds(u, t, held)
    /\ UNCHANGED <<now, refreshTokens, accessTokens, choices, req, forks>>

RemoveMember(u, t) ==
    /\ role[u][t] \notin {NoRole, "OWNER"}
    /\ role' = [role EXCEPT ![u][t] = NoRole]
    /\ UNCHANGED <<now, refreshTokens, accessTokens, choices, req, lastHeld, forks>>

\* A statement fails, or the process restarts, which ends every request: what was
\* in flight is gone, what was committed stays.
Fail(r) ==
    /\ r \in InFlight
    /\ Ends(r)
    /\ UNCHANGED <<now, role, refreshTokens, accessTokens, choices, lastHeld, forks>>

\* Time passes; no request outlives MaxRequest, no signed token its expiry.
Tick ==
    /\ now < MaxTime
    /\ \A r \in InFlight : now - req[r].since < MaxRequest
    /\ now' = now + 1
    /\ accessTokens' = {a \in accessTokens : now' < a.exp}
    /\ choices' = {c \in choices : now' < c.exp}
    /\ lastHeld' = [u \in Users |-> [t \in Tenants |-> [h \in Roles |->
                      IF role[u][t] = h THEN now' ELSE lastHeld[u][t][h]]]]
    /\ UNCHANGED <<role, refreshTokens, req, forks>>

------------------------------------------------------------------------------
SessionsInit ==
    /\ now = 0
    /\ role = [u \in Users |-> [t \in Tenants |-> NoRole]]
    /\ refreshTokens = <<>> /\ accessTokens = {} /\ choices = {}
    /\ req = [r \in Requests |-> Idle]
    /\ lastHeld = [u \in Users |-> [t \in Tenants |-> [h \in Roles |-> Never]]]
    /\ forks = [f \in Family |-> 0]

SessionsNext ==
    \/ \E r \in Requests :
          \/ \E u \in Users : Login(r, u) \/ \E t \in Tenants : Register(r, u, t)
          \/ \E c \in choices, t \in Tenants : SelectTenant(r, c, t)
          \/ \E k \in Rows : Refresh(r, k)
          \/ Revoke(r) \/ ReadMembership(r) \/ Issue(r) \/ Fail(r)
    \/ \E k \in Rows : Logout(k)
    \/ \E u \in Users : LoginToChoose(u)
    \/ \E u \in Users, t \in Tenants :
          RemoveMember(u, t) \/ \E held \in Granted : AddMember(u, t, held)
    \/ Tick

SessionsSpec == SessionsInit /\ [][SessionsNext]_sessionVars

------------------------------------------------------------------------------
\* A usable access token names a role its user held in that tenant at most
\* AccessTTL and one request ago: a removal, or a change of role, bites within
\* that time, whatever refreshes and logins were under way.
RoleStaleBounded ==
    \A a \in accessTokens :
        now - lastHeld[a.user][a.tenant][a.role] < AccessTTL + MaxRequest

\* One login stays one session: its live refresh tokens and the refreshes under
\* way never number more than one, plus one for each refresh that read a token
\* another refresh had read but not yet revoked.
RotationConserves ==
    \A f \in Family :
        LET held == {req[r].row : r \in {s \in InFlight : req[s].pc = "revoke"}}
            loose == {k \in Rows : refreshTokens[k].family = f /\ ~refreshTokens[k].revoked
                                   /\ k \notin held}
            busy == {r \in InFlight : req[r].row # 0 /\ refreshTokens[req[r].row].family = f}
        IN  Cardinality(loose) + Cardinality(busy) <= 1 + forks[f]

=============================================================================
