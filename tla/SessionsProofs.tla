----------------------------- MODULE SessionsProofs -----------------------------
(***************************************************************************)
(* Theorems about Sessions, for any users, tenants, lifetimes and number   *)
(* of requests.                                                            *)
(*                                                                         *)
(* A role that is held was last held now; a role a request has read was    *)
(* last held no earlier than the request started, and no request outlives  *)
(* MaxRequest.  So a token that can still be used cannot name a role that  *)
(* was lost longer ago than one lifetime and one request.                  *)
(***************************************************************************)
EXTENDS Sessions, TLAPS, SequenceTheorems, FiniteSetTheorems

\* A role that is held was last held now, and none later.
HeldInv ==
    \A u \in Users, t \in Tenants :
        /\ role[u][t] # NoRole => lastHeld[u][t][role[u][t]] = now
        /\ \A h \in Roles : lastHeld[u][t][h] <= now

\* A request started at most MaxRequest ago, with a refresh token there is or
\* none; the role it will sign was held since.
RequestInv ==
    \A r \in InFlight :
        /\ req[r].since <= now /\ now - req[r].since <= MaxRequest
        /\ req[r].row <= Len(refreshTokens)
        /\ req[r].pc = "issue" =>
              /\ req[r].role \in Roles
              /\ lastHeld[req[r].user][req[r].tenant][req[r].role] >= req[r].since

\* A token is gone when it expires, and names a role that was held when the
\* request that issued it had begun.
TokenInv ==
    \A a \in accessTokens :
        /\ now < a.exp
        /\ lastHeld[a.user][a.tenant][a.role] >= a.exp - AccessTTL - MaxRequest

IInv == SessionsTypeOK /\ HeldInv /\ RequestInv /\ TokenInv

\* A request in state x may go on as it is.
Timely(x) ==
    /\ x.since <= now /\ now - x.since <= MaxRequest
    /\ x.row <= Len(refreshTokens)
    /\ x.pc = "issue" =>
          x.role \in Roles /\ lastHeld[x.user][x.tenant][x.role] >= x.since

------------------------------------------------------------------------------
LEMMA Numbers ==
    /\ {AccessTTL, RefreshTTL, SelectionTTL} \subseteq Nat \ {0}
    /\ {MaxRequest, MaxTime, MaxRows, MaxForks} \subseteq Nat
    /\ NoRole \notin Roles
  BY Lifetimes, SessionBounds, NoRoleIsNone DEF Roles

LEMMA InFlightRequest ==
    ASSUME SessionsTypeOK, NEW r \in InFlight
    PROVE  r \in Requests /\ req[r] \in Request
  BY DEF SessionsTypeOK, InFlight

\* One request changes, and neither the clock nor a role does.
LEMMA RequestChanges ==
    ASSUME IInv, NEW r \in Requests, NEW x \in Request \cup {Idle},
           req' = [req EXCEPT ![r] = x], x # Idle => Timely(x),
           refreshTokens' \in Seq(RefreshToken), Len(refreshTokens') <= MaxRows,
           Len(refreshTokens') = Len(refreshTokens),
           forks' \in [Family -> Nat],
           UNCHANGED <<now, role, accessTokens, choices, lastHeld>>
    PROVE  IInv'
<1>1. SessionsTypeOK'
  BY DEF IInv, SessionsTypeOK
<1>2. \A s \in InFlight' : /\ s \in Requests
                           /\ s = r => req'[s] = x /\ x # Idle
                           /\ s # r => s \in InFlight /\ req'[s] = req[s]
  BY DEF IInv, SessionsTypeOK, InFlight
<1>3. RequestInv'
  BY <1>2 DEF IInv, RequestInv, Timely
<1> QED
  BY <1>1, <1>3 DEF IInv, HeldInv, TokenInv

\* A role that is given is held now; every other keeps when it was last held.
LEMMA HoldsFacts ==
    ASSUME IInv, NEW u \in Users, NEW t \in Tenants, NEW held \in Roles,
           Holds(u, t, held), now' = now
    PROVE  /\ role' \in [Users -> [Tenants -> Roles \cup {NoRole}]]
           /\ lastHeld' \in [Users -> [Tenants -> [Roles -> Int]]]
           /\ HeldInv'
           /\ lastHeld'[u][t][held] = now
           /\ \A v \in Users, s \in Tenants, h \in Roles : lastHeld'[v][s][h] >= lastHeld[v][s][h]
<1> DEFINE new == [h \in Roles |-> IF h = held THEN now ELSE lastHeld[u][t][h]]
<1>1. /\ now \in Nat /\ role \in [Users -> [Tenants -> Roles \cup {NoRole}]]
      /\ lastHeld \in [Users -> [Tenants -> [Roles -> Int]]]
  BY Numbers DEF IInv, SessionsTypeOK
<1>2. role' = [role EXCEPT ![u][t] = held] /\ lastHeld' = [lastHeld EXCEPT ![u][t] = new]
  BY DEF Holds
<1>3. new \in [Roles -> Int] /\ new[held] = now
      /\ \A h \in Roles : new[h] >= lastHeld[u][t][h] /\ new[h] <= now
  BY <1>1 DEF IInv, HeldInv
<1> HIDE DEF new
<1>4. /\ role' \in [Users -> [Tenants -> Roles \cup {NoRole}]]
      /\ lastHeld' \in [Users -> [Tenants -> [Roles -> Int]]]
  BY <1>1, <1>2, <1>3
<1>5. \A v \in Users, s \in Tenants :
         /\ v = u /\ s = t => role'[v][s] = held /\ lastHeld'[v][s] = new
         /\ ~(v = u /\ s = t) => role'[v][s] = role[v][s] /\ lastHeld'[v][s] = lastHeld[v][s]
  BY <1>1, <1>2
<1>6. HeldInv'
  BY <1>3, <1>5 DEF IInv, HeldInv
<1>7. \A v \in Users, s \in Tenants, h \in Roles : lastHeld'[v][s][h] >= lastHeld[v][s][h]
  BY <1>1, <1>3, <1>5
<1> QED
  BY <1>3, <1>4, <1>5, <1>6, <1>7

\* Later holds only relax what requests and tokens need.
LEMMA HoldsKeeps ==
    ASSUME IInv, UNCHANGED <<now, accessTokens, refreshTokens>>,
           \A v \in Users, s \in Tenants, h \in Roles : lastHeld'[v][s][h] >= lastHeld[v][s][h],
           lastHeld' \in [Users -> [Tenants -> [Roles -> Int]]]
    PROVE  /\ TokenInv'
           /\ \A r \in InFlight : req[r] = req[r]' => Timely(req[r])'
<1>1. TokenInv'
  <2> SUFFICES ASSUME NEW a \in accessTokens
               PROVE  now < a.exp
                      /\ lastHeld'[a.user][a.tenant][a.role] >= a.exp - AccessTTL - MaxRequest
    BY DEF TokenInv
  <2>1. a \in AccessToken
    BY DEF IInv, SessionsTypeOK
  <2>2. /\ now < a.exp /\ a.exp \in Int
        /\ lastHeld[a.user][a.tenant][a.role] >= a.exp - AccessTTL - MaxRequest
        /\ a.user \in Users /\ a.tenant \in Tenants /\ a.role \in Roles
    BY <2>1 DEF IInv, TokenInv, AccessToken
  <2>3. lastHeld'[a.user][a.tenant][a.role] >= lastHeld[a.user][a.tenant][a.role]
        /\ lastHeld'[a.user][a.tenant][a.role] \in Int
        /\ lastHeld[a.user][a.tenant][a.role] \in Int
    BY <2>2 DEF IInv, SessionsTypeOK
  <2> QED
    BY <2>2, <2>3, Numbers
<1>2. \A r \in InFlight : req[r] = req[r]' => Timely(req[r])'
  <2> SUFFICES ASSUME NEW r \in InFlight, req[r] = req[r]'
               PROVE  Timely(req[r])'
    OBVIOUS
  <2>1. req[r] \in Request
    BY InFlightRequest DEF IInv
  <2> QED
    BY <2>1 DEF IInv, RequestInv, Timely, SessionsTypeOK, Request
<1> QED
  BY <1>1, <1>2

\* A request that starts has the role it was given, held now.
LEMMA Started ==
    ASSUME IInv, NEW r \in Requests, NEW u \in Users, NEW t \in Tenants,
           NEW pc \in {"revoke", "issue"}, NEW held \in Roles \cup {NoRole},
           NEW k \in 0..MaxRows, Starts(r, pc, u, t, held, k)
    PROVE  LET x == [pc |-> pc, user |-> u, tenant |-> t, role |-> held,
                     since |-> now, row |-> k]
           IN  /\ x \in Request /\ x # Idle
               /\ req' = [req EXCEPT ![r] = x]
               /\ k <= Len(refreshTokens) /\ (pc = "issue" => held \in Roles /\ lastHeld[u][t][held] = now) => Timely(x)
<1> DEFINE x == [pc |-> pc, user |-> u, tenant |-> t, role |-> held,
                 since |-> now, row |-> k]
<1>1. now \in Nat
  BY Numbers DEF IInv, SessionsTypeOK
<1>2. x \in Request /\ x # Idle /\ req' = [req EXCEPT ![r] = x]
  BY <1>1 DEF Starts, Request, Idle
<1>3. k <= Len(refreshTokens) /\ (pc = "issue" => held \in Roles /\ lastHeld[u][t][held] = now)
         => Timely(x)
  BY <1>1, Numbers DEF Timely
<1> QED
  BY <1>2, <1>3

\* login, selectTenant and refresh sign a role that is held, or none yet.
LEMMA StartStep ==
    ASSUME IInv, NEW r \in Requests,
           \/ \E u \in Users : Login(r, u)
           \/ \E c \in choices, t \in Tenants : SelectTenant(r, c, t)
           \/ \E k \in Rows : Refresh(r, k)
    PROVE  IInv'
<1>1. SessionsTypeOK /\ HeldInv
  BY DEF IInv
<1>2. ASSUME NEW u \in Users, NEW t \in Tenants, role[u][t] # NoRole,
             Starts(r, "issue", u, t, role[u][t], 0),
             UNCHANGED <<now, role, refreshTokens, accessTokens, choices, lastHeld, forks>>
      PROVE  IInv'
  <2>1. role[u][t] \in Roles /\ lastHeld[u][t][role[u][t]] = now
        /\ 0 \in 0..MaxRows /\ 0 <= Len(refreshTokens)
    BY <1>1, <1>2, Numbers DEF SessionsTypeOK, HeldInv
  <2> DEFINE x == [pc |-> "issue", user |-> u, tenant |-> t, role |-> role[u][t],
                   since |-> now, row |-> 0]
  <2>2. x \in Request /\ req' = [req EXCEPT ![r] = x] /\ Timely(x)
    BY <1>2, <2>1, Started
  <2>3. /\ refreshTokens' \in Seq(RefreshToken) /\ Len(refreshTokens') <= MaxRows
        /\ forks' \in [Family -> Nat]
    BY <1>1, <1>2 DEF SessionsTypeOK
  <2> HIDE DEF x
  <2> QED
    BY <1>2, <2>2, <2>3, RequestChanges
<1>3. CASE \E u \in Users : Login(r, u)
  <2>1. PICK u \in Users, t \in Tenants :
          /\ TenantsOf(u) = {t} /\ Starts(r, "issue", u, t, role[u][t], 0)
          /\ UNCHANGED <<now, role, refreshTokens, accessTokens, choices, lastHeld, forks>>
    BY <1>3 DEF Login, TenantsOf
  <2>2. role[u][t] # NoRole
    BY <2>1 DEF TenantsOf
  <2> QED
    BY <1>2, <2>1, <2>2
<1>4. CASE \E c \in choices, t \in Tenants : SelectTenant(r, c, t)
  <2>1. PICK c \in choices, t \in Tenants : SelectTenant(r, c, t)
    BY <1>4
  <2>2. c.user \in Users
    BY <1>1 DEF SessionsTypeOK
  <2> QED
    BY <1>2, <2>1, <2>2 DEF SelectTenant
<1>5. CASE \E k \in Rows : Refresh(r, k)
  <2>1. PICK k \in Rows : Refresh(r, k)
    BY <1>5
  <2>2. refreshTokens[k] \in RefreshToken /\ k \in 0..MaxRows /\ k <= Len(refreshTokens)
    BY <1>1, Numbers DEF SessionsTypeOK, Rows
  <2>3. /\ refreshTokens[k].user \in Users /\ refreshTokens[k].tenant \in Tenants
        /\ refreshTokens[k].family \in Family
    BY <2>2 DEF RefreshToken
  <2>4. forks' \in [Family -> Nat]
    BY <1>1, <2>1, <2>3 DEF Refresh, SessionsTypeOK
  <2>5. /\ Starts(r, "revoke", refreshTokens[k].user, refreshTokens[k].tenant, NoRole, k)
        /\ UNCHANGED <<now, role, refreshTokens, accessTokens, choices, lastHeld>>
    BY <2>1 DEF Refresh
  <2> DEFINE u == refreshTokens[k].user
             t == refreshTokens[k].tenant
             x == [pc |-> "revoke", user |-> u, tenant |-> t, role |-> NoRole,
                   since |-> now, row |-> k]
  <2>6. x \in Request /\ req' = [req EXCEPT ![r] = x] /\ Timely(x)
    <3>1. Starts(r, "revoke", u, t, NoRole, k) /\ u \in Users /\ t \in Tenants
      BY <2>3, <2>5
    <3>2. NoRole \in Roles \cup {NoRole} /\ "revoke" \in {"revoke", "issue"}
      OBVIOUS
    <3> HIDE DEF u, t
    <3> QED
      BY <2>2, <3>1, <3>2, Started
  <2>7. /\ refreshTokens' \in Seq(RefreshToken) /\ Len(refreshTokens') <= MaxRows
        /\ Len(refreshTokens') = Len(refreshTokens)
    BY <1>1, <2>5 DEF SessionsTypeOK
  <2>8. UNCHANGED <<now, role, accessTokens, choices, lastHeld>>
    BY <2>5
  <2> HIDE DEF x
  <2> QED
    BY <2>4, <2>6, <2>7, <2>8, RequestChanges
<1> QED
  BY <1>3, <1>4, <1>5

\* A row that is revoked changes nothing else of the table.
LEMMA RevokedRows ==
    ASSUME SessionsTypeOK, NEW k \in Nat
    PROVE  LET after == [refreshTokens EXCEPT ![k].revoked = TRUE]
           IN  /\ after \in Seq(RefreshToken) /\ Len(after) = Len(refreshTokens)
               /\ \A i \in 1..Len(refreshTokens) :
                     after[i] = IF i = k THEN [refreshTokens[k] EXCEPT !.revoked = TRUE]
                                ELSE refreshTokens[i]
<1> DEFINE n == Len(refreshTokens)
           x == [refreshTokens[k] EXCEPT !.revoked = TRUE]
           after == [refreshTokens EXCEPT ![k] = x]
<1>1. /\ refreshTokens \in Seq(RefreshToken) /\ n \in Nat
      /\ DOMAIN refreshTokens = 1..n
  BY DEF SessionsTypeOK
<1>2. CASE k \notin 1..n
  <2>1. after = refreshTokens
    BY <1>1, <1>2
  <2> QED
    BY <1>1, <1>2, <2>1
<1>3. CASE k \in 1..n
  <2>1. x \in RefreshToken
    <3>1. refreshTokens[k] \in RefreshToken
      BY <1>1, <1>3
    <3> QED
      BY <3>1 DEF RefreshToken
  <2>2. /\ after \in Seq(RefreshToken) /\ Len(after) = n
        /\ \A i \in 1..n : after[i] = IF i = k THEN x ELSE refreshTokens[i]
    <3> HIDE DEF x
    <3> QED
      BY <1>1, <1>3, <2>1, ExceptSeq
  <2> QED
    BY <2>2
<1> QED
  BY <1>2, <1>3

\* The two later statements of a refresh.
LEMMA RefreshStep ==
    ASSUME IInv, NEW r \in Requests, Revoke(r) \/ ReadMembership(r)
    PROVE  IInv'
<1>1. SessionsTypeOK /\ HeldInv /\ r \in InFlight /\ req[r] \in Request
  <2>1. req[r].pc \in {"revoke", "membership"}
    BY DEF Revoke, ReadMembership
  <2>2. r \in InFlight
    BY <2>1 DEF InFlight, Idle
  <2> QED
    BY <2>2, InFlightRequest DEF IInv
<1>2. req[r].since <= now /\ now - req[r].since <= MaxRequest
      /\ req[r].row <= Len(refreshTokens)
  BY <1>1 DEF IInv, RequestInv
<1>3. CASE Revoke(r)
  <2> DEFINE x == [req[r] EXCEPT !.pc = "membership"]
  <2>1. x \in Request /\ x.since = req[r].since /\ x.row = req[r].row /\ x.pc = "membership"
    BY <1>1 DEF Request
  <2>2. req' = [req EXCEPT ![r] = x]
    BY <1>3 DEF Revoke
  <2>3. Timely(x)
    BY <1>2, <2>1 DEF Timely
  <2>4. /\ refreshTokens' \in Seq(RefreshToken) /\ Len(refreshTokens') <= MaxRows
        /\ Len(refreshTokens') = Len(refreshTokens)
        /\ UNCHANGED <<now, role, accessTokens, choices, lastHeld, forks>>
    <3>1. req[r].row \in Nat
      BY <1>1, Numbers DEF Request
    <3>2. refreshTokens' = [refreshTokens EXCEPT ![req[r].row].revoked = TRUE]
          /\ UNCHANGED <<now, role, accessTokens, choices, lastHeld, forks>>
      BY <1>3 DEF Revoke, RevokedRow
    <3>3. Len(refreshTokens) <= MaxRows
      BY <1>1 DEF SessionsTypeOK
    <3> QED
      BY <1>1, <3>1, <3>2, <3>3, RevokedRows
  <2> HIDE DEF x
  <2> QED
    BY <1>1, <2>1, <2>2, <2>3, <2>4, RequestChanges DEF SessionsTypeOK
<1>4. CASE ReadMembership(r)
  <2> DEFINE held == role[req[r].user][req[r].tenant]
             x == IF held = NoRole THEN Idle
                  ELSE [req[r] EXCEPT !.pc = "issue", !.role = held]
  <2>1. /\ held \in Roles \cup {NoRole}
        /\ held # NoRole => lastHeld[req[r].user][req[r].tenant][held] = now
    BY <1>1 DEF SessionsTypeOK, HeldInv, Request
  <2>2. /\ x \in Request \cup {Idle}
        /\ x # Idle => /\ x.since = req[r].since /\ x.row = req[r].row
                       /\ x.user = req[r].user
                       /\ x.tenant = req[r].tenant /\ x.role = held /\ held # NoRole
    BY <1>1, <2>1 DEF Request
  <2>3. x # Idle => Timely(x)
    BY <1>2, <2>1, <2>2 DEF Timely
  <2>4. /\ req' = [req EXCEPT ![r] = x]
        /\ UNCHANGED <<now, role, refreshTokens, accessTokens, choices, lastHeld, forks>>
    BY <1>4 DEF ReadMembership, RoleRead
  <2> HIDE DEF x
  <2> QED
    BY <1>1, <2>2, <2>3, <2>4, RequestChanges DEF SessionsTypeOK
<1> QED
  BY <1>3, <1>4

\* register gives the role its request will sign.
LEMMA RegisterStep ==
    ASSUME IInv, NEW r \in Requests, NEW u \in Users, NEW t \in Tenants, Register(r, u, t)
    PROVE  IInv'
<1> DEFINE x == [pc |-> "issue", user |-> u, tenant |-> t, role |-> "OWNER",
                 since |-> now, row |-> 0]
<1>1. /\ SessionsTypeOK /\ "OWNER" \in Roles /\ 0 \in 0..MaxRows
      /\ Starts(r, "issue", u, t, "OWNER", 0) /\ Holds(u, t, "OWNER")
      /\ UNCHANGED <<now, refreshTokens, accessTokens, choices, forks>>
  BY Numbers DEF IInv, Register, Roles
<1>2. x \in Request /\ x # Idle /\ req' = [req EXCEPT ![r] = x]
  BY <1>1, Started
<1>3. /\ role' \in [Users -> [Tenants -> Roles \cup {NoRole}]]
      /\ lastHeld' \in [Users -> [Tenants -> [Roles -> Int]]]
      /\ HeldInv' /\ lastHeld'[u][t]["OWNER"] = now
      /\ \A v \in Users, s \in Tenants, h \in Roles : lastHeld'[v][s][h] >= lastHeld[v][s][h]
  BY <1>1, HoldsFacts
<1>4. TokenInv' /\ \A s \in InFlight : req[s] = req[s]' => Timely(req[s])'
  BY <1>1, <1>3, HoldsKeeps
<1>5. SessionsTypeOK'
  BY <1>1, <1>2, <1>3 DEF SessionsTypeOK
<1>6. Timely(x)' /\ x' = x
  <2>1. now \in Nat /\ MaxRequest \in Nat /\ Len(refreshTokens) \in Nat
    BY <1>1, Numbers DEF SessionsTypeOK
  <2> QED
    BY <1>1, <1>3, <2>1 DEF Timely
<1> HIDE DEF x
<1>7. \A s \in InFlight' : Timely(req[s])'
  <2> SUFFICES ASSUME NEW s \in InFlight' PROVE Timely(req[s])'
    OBVIOUS
  <2>1. CASE s = r
    <3>1. req'[s] = x
      BY <1>1, <1>2, <2>1 DEF SessionsTypeOK
    <3> QED
      BY <1>6, <3>1 DEF Timely
  <2>2. CASE s # r
    <3>1. s \in InFlight /\ req'[s] = req[s]
      BY <1>1, <1>2, <2>2 DEF SessionsTypeOK, InFlight
    <3> QED
      BY <1>4, <3>1
  <2> QED
    BY <2>1, <2>2
<1>8. RequestInv'
  BY <1>7 DEF RequestInv, Timely
<1> QED
  BY <1>3, <1>4, <1>5, <1>8 DEF IInv

LEMMA AddMemberStep ==
    ASSUME IInv, NEW u \in Users, NEW t \in Tenants, NEW held \in Granted,
           AddMember(u, t, held)
    PROVE  IInv'
<1>1. /\ SessionsTypeOK /\ held \in Roles /\ Holds(u, t, held)
      /\ UNCHANGED <<now, refreshTokens, accessTokens, choices, req, forks>>
  BY GrantedRoles DEF IInv, AddMember, Roles
<1>2. /\ role' \in [Users -> [Tenants -> Roles \cup {NoRole}]]
      /\ lastHeld' \in [Users -> [Tenants -> [Roles -> Int]]]
      /\ HeldInv'
      /\ \A v \in Users, s \in Tenants, h \in Roles : lastHeld'[v][s][h] >= lastHeld[v][s][h]
  BY <1>1, HoldsFacts
<1>3. TokenInv' /\ \A s \in InFlight : Timely(req[s])'
  BY <1>1, <1>2, HoldsKeeps
<1>4. SessionsTypeOK'
  BY <1>1, <1>2 DEF SessionsTypeOK
<1>5. RequestInv'
  BY <1>1, <1>3 DEF RequestInv, Timely, InFlight
<1> QED
  BY <1>2, <1>3, <1>4, <1>5 DEF IInv

\* The token is signed with the role that was read: held when the request began.
LEMMA IssueStep ==
    ASSUME IInv, NEW r \in Requests, Issue(r)
    PROVE  IInv'
<1> DEFINE q == req[r]
           n == Len(refreshTokens)
           a == [user |-> q.user, tenant |-> q.tenant, role |-> q.role, exp |-> now + AccessTTL]
           row == [user |-> q.user, tenant |-> q.tenant, exp |-> now + RefreshTTL,
                   revoked |-> FALSE,
                   family |-> IF q.row = 0 THEN n + 1 ELSE refreshTokens[q.row].family]
<1>1. /\ accessTokens' = accessTokens \cup {a} /\ refreshTokens' = Append(refreshTokens, row)
      /\ req' = [req EXCEPT ![r] = Idle]
      /\ UNCHANGED <<now, role, choices, lastHeld, forks>>
      /\ q.pc = "issue" /\ n + 1 <= MaxRows /\ SessionsTypeOK
  BY DEF Issue, Ends, IInv
<1>2. r \in InFlight
  BY <1>1 DEF InFlight, Idle
<1>3. /\ q \in Request /\ q.role \in Roles /\ q.user \in Users /\ q.tenant \in Tenants
      /\ q.since \in Int /\ q.row \in 0..MaxRows
      /\ now - q.since <= MaxRequest /\ lastHeld[q.user][q.tenant][q.role] >= q.since
  <2>1. q \in Request
    BY <1>1, <1>2, InFlightRequest
  <2> QED
    BY <1>1, <1>2, <2>1 DEF IInv, RequestInv, Request
<1>4. now \in Nat /\ AccessTTL \in Nat \ {0} /\ RefreshTTL \in Nat /\ MaxRequest \in Nat
      /\ n \in Nat /\ MaxRows \in Nat
  BY <1>1, Numbers DEF SessionsTypeOK
<1>5. a \in AccessToken /\ now < a.exp
      /\ lastHeld[a.user][a.tenant][a.role] >= a.exp - AccessTTL - MaxRequest
  <2>1. lastHeld[q.user][q.tenant][q.role] \in Int
    BY <1>1, <1>3 DEF SessionsTypeOK
  <2>2. a \in AccessToken
    BY <1>3, <1>4 DEF AccessToken
  <2>3. a.exp = now + AccessTTL /\ a.user = q.user /\ a.tenant = q.tenant /\ a.role = q.role
    OBVIOUS
  <2>4. lastHeld[q.user][q.tenant][q.role] >= q.since /\ now - q.since <= MaxRequest
        /\ q.since \in Int
    BY <1>3
  <2> HIDE DEF a, q
  <2>5. (now + AccessTTL) - AccessTTL - MaxRequest <= q.since
    BY <1>4, <2>4
  <2>6. lastHeld[q.user][q.tenant][q.role] >= (now + AccessTTL) - AccessTTL - MaxRequest
        /\ now < now + AccessTTL
    BY <1>4, <2>1, <2>4, <2>5
  <2> QED
    BY <2>2, <2>3, <2>6
<1> HIDE DEF a
<1>6. TokenInv'
  BY <1>1, <1>5 DEF IInv, TokenInv
<1>7. RequestInv'
  <2>1. \A s \in InFlight' : s \in InFlight /\ req'[s] = req[s]
    BY <1>1 DEF InFlight, SessionsTypeOK
  <2>2. \A s \in InFlight : req[s].row \in Int
    BY <1>1, Numbers, InFlightRequest DEF Request
  <2>3. Len(refreshTokens') = n + 1
    BY <1>1, <1>4 DEF SessionsTypeOK
  <2> QED
    BY <1>1, <1>4, <2>1, <2>2, <2>3 DEF IInv, RequestInv
<1>8. q.row <= n
  BY <1>2 DEF IInv, RequestInv
<1>9. row \in RefreshToken
  <2>1. q.row # 0 => refreshTokens[q.row] \in RefreshToken
    BY <1>1, <1>3, <1>4, <1>8 DEF SessionsTypeOK
  <2>2. n + 1 \in Family
    BY <1>1, <1>4 DEF Family
  <2> QED
    BY <1>3, <1>4, <2>1, <2>2 DEF RefreshToken
<1> HIDE DEF row
<1>10. refreshTokens' \in Seq(RefreshToken) /\ Len(refreshTokens') <= MaxRows
  BY <1>1, <1>4, <1>9 DEF SessionsTypeOK
<1>11. SessionsTypeOK'
  BY <1>1, <1>5, <1>10 DEF SessionsTypeOK
<1> QED
  BY <1>1, <1>6, <1>7, <1>11 DEF IInv, HeldInv

\* A request that ends disturbs no other.
LEMMA FailStep ==
    ASSUME IInv, NEW r \in Requests, Fail(r)
    PROVE  IInv'
<1>1. /\ req' = [req EXCEPT ![r] = Idle]
      /\ UNCHANGED <<now, role, refreshTokens, accessTokens, choices, lastHeld, forks>>
      /\ SessionsTypeOK
  BY DEF Fail, Ends, IInv
<1>2. /\ refreshTokens' \in Seq(RefreshToken) /\ Len(refreshTokens') <= MaxRows
      /\ forks' \in [Family -> Nat]
  BY <1>1 DEF SessionsTypeOK
<1> QED
  BY <1>1, <1>2, RequestChanges

\* What is lost is only held no longer.
LEMMA LosingStep ==
    ASSUME IInv,
           \/ \E u \in Users, t \in Tenants : RemoveMember(u, t)
           \/ \E u \in Users : LoginToChoose(u)
           \/ \E k \in Rows : Logout(k)
    PROVE  IInv'
<1>1. SessionsTypeOK /\ now \in Nat /\ Len(refreshTokens) \in Nat
  BY Numbers DEF IInv, SessionsTypeOK
<1>2. CASE \E u \in Users, t \in Tenants : RemoveMember(u, t)
  <2>1. PICK u \in Users, t \in Tenants :
          /\ role' = [role EXCEPT ![u][t] = NoRole]
          /\ UNCHANGED <<now, refreshTokens, accessTokens, choices, req, lastHeld, forks>>
    BY <1>2 DEF RemoveMember
  <2>2. role' \in [Users -> [Tenants -> Roles \cup {NoRole}]]
        /\ \A v \in Users, s \in Tenants : role'[v][s] \in {role[v][s], NoRole}
    BY <1>1, <2>1 DEF SessionsTypeOK
  <2>3. SessionsTypeOK'
    BY <1>1, <2>1, <2>2 DEF SessionsTypeOK
  <2>4. HeldInv'
    BY <2>1, <2>2 DEF IInv, HeldInv
  <2> QED
    BY <2>1, <2>3, <2>4 DEF IInv, RequestInv, TokenInv, InFlight
<1>3. CASE \E u \in Users : LoginToChoose(u)
  <2>1. PICK u \in Users : LoginToChoose(u)
    BY <1>3
  <2>2. [user |-> u, exp |-> now + SelectionTTL] \in [user : Users, exp : Int]
    BY <1>1, Numbers
  <2>3. choices' \subseteq [user : Users, exp : Int]
        /\ UNCHANGED <<now, role, refreshTokens, accessTokens, req, lastHeld, forks>>
    BY <1>1, <2>1, <2>2 DEF LoginToChoose, SessionsTypeOK
  <2>4. SessionsTypeOK'
    BY <1>1, <2>3 DEF SessionsTypeOK
  <2> QED
    BY <2>3, <2>4 DEF IInv, HeldInv, RequestInv, TokenInv, InFlight
<1>4. CASE \E k \in Rows : Logout(k)
  <2>1. PICK k \in Rows : Logout(k)
    BY <1>4
  <2>2. k \in Nat
    BY <1>1 DEF Rows, SessionsTypeOK
  <2>3. /\ refreshTokens' \in Seq(RefreshToken) /\ Len(refreshTokens') = Len(refreshTokens)
        /\ UNCHANGED <<now, role, accessTokens, choices, req, lastHeld, forks>>
    BY <1>1, <2>1, <2>2, RevokedRows DEF Logout
  <2>4. SessionsTypeOK'
    BY <1>1, <2>3 DEF SessionsTypeOK
  <2> QED
    BY <2>3, <2>4 DEF IInv, HeldInv, RequestInv, TokenInv, InFlight
<1> QED
  BY <1>2, <1>3, <1>4

\* Time passes: what is held stays held, what expires is gone, no request is
\* older than MaxRequest.
LEMMA TickStep ==
    ASSUME IInv, Tick
    PROVE  IInv'
<1>1. /\ now' = now + 1 /\ now < MaxTime
      /\ accessTokens' = {a \in accessTokens : now' < a.exp}
      /\ choices' = {c \in choices : now' < c.exp}
      /\ lastHeld' = [u \in Users |-> [t \in Tenants |-> [h \in Roles |->
                        IF role[u][t] = h THEN now' ELSE lastHeld[u][t][h]]]]
      /\ \A r \in InFlight : now - req[r].since < MaxRequest
      /\ UNCHANGED <<role, refreshTokens, req, forks>>
  BY DEF Tick
<1>2. SessionsTypeOK /\ now \in Nat /\ now' \in Nat
      /\ now' \in 0..MaxTime /\ MaxTime \in Nat /\ Len(refreshTokens) \in Nat
  BY <1>1, Numbers DEF IInv, SessionsTypeOK
<1>3. \A u \in Users, t \in Tenants, h \in Roles :
         /\ lastHeld[u][t][h] \in Int /\ lastHeld[u][t][h] <= now
         /\ lastHeld'[u][t][h] = IF role[u][t] = h THEN now' ELSE lastHeld[u][t][h]
  BY <1>1, <1>2 DEF SessionsTypeOK, IInv, HeldInv
<1>4. lastHeld' \in [Users -> [Tenants -> [Roles -> Int]]]
  BY <1>1, <1>2 DEF SessionsTypeOK
<1>5. \A u \in Users, t \in Tenants, h \in Roles :
         lastHeld'[u][t][h] >= lastHeld[u][t][h] /\ lastHeld'[u][t][h] <= now'
         /\ lastHeld'[u][t][h] \in Int
  BY <1>1, <1>2, <1>3
<1>6. SessionsTypeOK'
  BY <1>1, <1>2, <1>4 DEF SessionsTypeOK
<1>7. HeldInv'
  <2>1. \A u \in Users, t \in Tenants : role[u][t] # NoRole => role[u][t] \in Roles
    BY <1>2 DEF SessionsTypeOK
  <2>2. \A u \in Users, t \in Tenants : role[u][t] # NoRole => lastHeld'[u][t][role[u][t]] = now'
    BY <1>3, <2>1
  <2> QED
    BY <1>1, <1>5, <2>2 DEF HeldInv
<1>8. RequestInv'
  <2> SUFFICES ASSUME NEW r \in InFlight
               PROVE  /\ req[r].since <= now' /\ now' - req[r].since <= MaxRequest
                      /\ req[r].row <= Len(refreshTokens)
                      /\ req[r].pc = "issue" =>
                            /\ req[r].role \in Roles
                            /\ lastHeld'[req[r].user][req[r].tenant][req[r].role] >= req[r].since
    BY <1>1 DEF RequestInv, InFlight
  <2>1. req[r].since \in Int /\ req[r].user \in Users /\ req[r].tenant \in Tenants
    BY <1>2, InFlightRequest DEF Request
  <2>2. /\ req[r].since <= now /\ now - req[r].since < MaxRequest
        /\ req[r].row <= Len(refreshTokens)
        /\ req[r].pc = "issue" =>
              /\ req[r].role \in Roles
              /\ lastHeld[req[r].user][req[r].tenant][req[r].role] >= req[r].since
    BY <1>1 DEF IInv, RequestInv
  <2>3. req[r].since <= now' /\ now' - req[r].since <= MaxRequest
    BY <1>1, <1>2, <2>1, <2>2, Numbers
  <2>4. req[r].pc = "issue" =>
           lastHeld'[req[r].user][req[r].tenant][req[r].role] >= req[r].since
    BY <1>3, <1>5, <2>1, <2>2
  <2> QED
    BY <2>2, <2>3, <2>4
<1>9. TokenInv'
  <2> SUFFICES ASSUME NEW a \in accessTokens, now' < a.exp
               PROVE  lastHeld'[a.user][a.tenant][a.role] >= a.exp - AccessTTL - MaxRequest
    BY <1>1 DEF TokenInv
  <2>1. a \in AccessToken
    BY <1>2 DEF SessionsTypeOK
  <2>2. /\ a.exp \in Int /\ a.user \in Users /\ a.tenant \in Tenants /\ a.role \in Roles
        /\ lastHeld[a.user][a.tenant][a.role] >= a.exp - AccessTTL - MaxRequest
    BY <2>1 DEF IInv, TokenInv, AccessToken
  <2> QED
    BY <1>3, <1>5, <2>2, Numbers
<1> QED
  BY <1>6, <1>7, <1>8, <1>9 DEF IInv

------------------------------------------------------------------------------
LEMMA InitIInv == SessionsInit => IInv
<1> SUFFICES ASSUME SessionsInit PROVE IInv
  OBVIOUS
<1>1. SessionsTypeOK
  BY Numbers DEF SessionsInit, SessionsTypeOK, Never
<1>2. HeldInv
  BY Numbers DEF SessionsInit, HeldInv, Never
<1>3. InFlight = {} /\ accessTokens = {}
  BY DEF SessionsInit, InFlight
<1> QED
  BY <1>1, <1>2, <1>3 DEF IInv, RequestInv, TokenInv

LEMMA NextIInv == IInv /\ [SessionsNext]_sessionVars => IInv'
<1> SUFFICES ASSUME IInv, [SessionsNext]_sessionVars PROVE IInv'
  OBVIOUS
<1>1. CASE UNCHANGED sessionVars
  BY <1>1 DEF sessionVars, IInv, SessionsTypeOK, HeldInv, RequestInv, TokenInv, InFlight
<1>2. CASE SessionsNext
  <2>1. CASE \E r \in Requests :
               \/ \E u \in Users : Login(r, u) \/ \E t \in Tenants : Register(r, u, t)
               \/ \E c \in choices, t \in Tenants : SelectTenant(r, c, t)
               \/ \E k \in Rows : Refresh(r, k)
               \/ Revoke(r) \/ ReadMembership(r) \/ Issue(r) \/ Fail(r)
    BY <2>1, StartStep, RegisterStep, RefreshStep, IssueStep, FailStep
  <2>2. CASE \E u \in Users, t \in Tenants, held \in Granted : AddMember(u, t, held)
    BY <2>2, AddMemberStep
  <2>3. CASE \/ \E u \in Users, t \in Tenants : RemoveMember(u, t)
             \/ \E u \in Users : LoginToChoose(u)
             \/ \E k \in Rows : Logout(k)
    BY <2>3, LosingStep
  <2>4. CASE Tick
    BY <2>4, TickStep
  <2> QED
    BY <1>2, <2>1, <2>2, <2>3, <2>4 DEF SessionsNext
<1> QED
  BY <1>1, <1>2

LEMMA IInvHolds == SessionsSpec => []IInv
  BY InitIInv, NextIInv, PTL DEF SessionsSpec

\* Memberships, tokens and requests have their types.
THEOREM SessionTypes == SessionsSpec => []SessionsTypeOK
<1>1. IInv => SessionsTypeOK
  BY DEF IInv
<1> QED
  BY <1>1, IInvHolds, PTL

\* A usable access token names a role its user held less than one token lifetime
\* and one request ago, although nothing looks the membership up again.
THEOREM StaleRoleIsBounded == SessionsSpec => []RoleStaleBounded
<1>1. IInv => RoleStaleBounded
  <2> SUFFICES ASSUME IInv, NEW a \in accessTokens
               PROVE  now - lastHeld[a.user][a.tenant][a.role] < AccessTTL + MaxRequest
    BY DEF RoleStaleBounded
  <2>1. a \in AccessToken /\ now \in Nat
    BY Numbers DEF IInv, SessionsTypeOK
  <2>2. /\ a.exp \in Int /\ lastHeld[a.user][a.tenant][a.role] \in Int /\ now < a.exp
        /\ lastHeld[a.user][a.tenant][a.role] >= a.exp - AccessTTL - MaxRequest
    BY <2>1 DEF IInv, TokenInv, AccessToken, SessionsTypeOK
  <2> QED
    BY <2>1, <2>2, Numbers
<1> QED
  BY <1>1, IInvHolds, PTL

------------------------------------------------------------------------------
(***************************************************************************)
(* Rotation.  A login's loose tokens are its live ones no refresh has read *)
(* and not yet revoked; its busy requests are the refreshes that read one  *)
(* of its tokens.  Every step takes one of one kind for one of the other.  *)
(***************************************************************************)
Held(k) == \E r \in InFlight : req[r].pc = "revoke" /\ req[r].row = k
Loose(f) == {k \in Rows : refreshTokens[k].family = f /\ ~refreshTokens[k].revoked /\ ~Held(k)}
Busy(f) == {r \in InFlight : req[r].row # 0 /\ refreshTokens[req[r].row].family = f}

\* A login is named by its first token; who revokes has read a token.
FamilyInv ==
    /\ \A k \in Rows : refreshTokens[k].family <= Len(refreshTokens)
    /\ \A r \in InFlight : req[r].pc = "revoke" => req[r].row # 0

Conserved ==
    \A f \in Family : Cardinality(Loose(f)) + Cardinality(Busy(f)) <= 1 + forks[f]

RotationInv == FamilyInv /\ Conserved

\* How the sizes of two finite sets compare: one is part of the other, of the
\* other and one element, or of the other without one of its elements.
LEMMA Kept ==
    ASSUME NEW A, NEW C, IsFiniteSet(A), C \subseteq A
    PROVE  /\ Cardinality(A) \in Nat /\ Cardinality(C) \in Nat
           /\ Cardinality(C) <= Cardinality(A)
  BY FS_CardinalityType, FS_Subset

LEMMA Gained ==
    ASSUME NEW A, NEW C, NEW x, IsFiniteSet(A), C \subseteq A \cup {x}
    PROVE  /\ Cardinality(A) \in Nat /\ Cardinality(C) \in Nat
           /\ Cardinality(C) <= Cardinality(A) + 1
<1>1. /\ Cardinality(A) \in Nat /\ IsFiniteSet(A \cup {x})
      /\ Cardinality(A \cup {x}) = IF x \in A THEN Cardinality(A) ELSE Cardinality(A) + 1
  BY FS_CardinalityType, FS_AddElement
<1>2. Cardinality(C) \in Nat /\ Cardinality(C) <= Cardinality(A \cup {x})
  BY <1>1, Kept
<1> QED
  BY <1>1, <1>2

LEMMA Lost ==
    ASSUME NEW A, NEW C, NEW x \in A, IsFiniteSet(A), C \subseteq A \ {x}
    PROVE  /\ Cardinality(A) \in Nat /\ Cardinality(C) \in Nat
           /\ Cardinality(C) <= Cardinality(A) - 1
<1>1. /\ Cardinality(A) \in Nat /\ IsFiniteSet(A \ {x})
      /\ Cardinality(A \ {x}) = Cardinality(A) - 1
  BY FS_CardinalityType, FS_RemoveElement
<1>2. Cardinality(C) \in Nat /\ Cardinality(C) <= Cardinality(A \ {x})
  BY <1>1, Kept
<1> QED
  BY <1>1, <1>2

LEMMA FiniteParts ==
    ASSUME SessionsTypeOK, NEW f
    PROVE  /\ IsFiniteSet(Loose(f)) /\ IsFiniteSet(Busy(f))
           /\ Cardinality(Loose(f)) \in Nat /\ Cardinality(Busy(f)) \in Nat
<1>1. IsFiniteSet(Rows)
  <2>1. Rows = 1..Len(refreshTokens) /\ Len(refreshTokens) \in Int /\ 1 \in Int
    BY DEF Rows, SessionsTypeOK
  <2> QED
    BY <2>1, FS_Interval
<1>2. Loose(f) \subseteq Rows /\ Busy(f) \subseteq Requests
  BY DEF Loose, Busy, InFlight
<1> QED
  BY <1>1, <1>2, FiniteRequests, FS_Subset, FS_CardinalityType

\* A step that, for every login, keeps, moves, or frees: Conserved follows.
LEMMA Trades ==
    ASSUME SessionsTypeOK, Conserved, UNCHANGED forks,
           \A f \in Family :
              \/ Loose(f)' \subseteq Loose(f) /\ Busy(f)' \subseteq Busy(f)
              \/ \E x \in Loose(f) : \E y :
                    Loose(f)' \subseteq Loose(f) \ {x} /\ Busy(f)' \subseteq Busy(f) \cup {y}
              \/ \E x : \E y \in Busy(f) :
                    Loose(f)' \subseteq Loose(f) \cup {x} /\ Busy(f)' \subseteq Busy(f) \ {y}
    PROVE  Conserved'
<1> SUFFICES ASSUME NEW f \in Family
             PROVE  Cardinality(Loose(f)') + Cardinality(Busy(f)') <= 1 + forks[f]
  BY DEF Conserved
<1>1. /\ IsFiniteSet(Loose(f)) /\ IsFiniteSet(Busy(f))
      /\ Cardinality(Loose(f)) \in Nat /\ Cardinality(Busy(f)) \in Nat
      /\ Cardinality(Loose(f)) + Cardinality(Busy(f)) <= 1 + forks[f]
      /\ forks[f] \in Nat
  BY FiniteParts DEF Conserved, SessionsTypeOK
<1>2. CASE Loose(f)' \subseteq Loose(f) /\ Busy(f)' \subseteq Busy(f)
  <2>1. /\ Cardinality(Loose(f)') \in Nat /\ Cardinality(Loose(f)') <= Cardinality(Loose(f))
        /\ Cardinality(Busy(f)') \in Nat /\ Cardinality(Busy(f)') <= Cardinality(Busy(f))
    BY <1>1, <1>2, Kept
  <2> QED
    BY <1>1, <2>1
<1>3. CASE \E x \in Loose(f) : \E y :
             Loose(f)' \subseteq Loose(f) \ {x} /\ Busy(f)' \subseteq Busy(f) \cup {y}
  <2>1. /\ Cardinality(Loose(f)') \in Nat /\ Cardinality(Loose(f)') <= Cardinality(Loose(f)) - 1
        /\ Cardinality(Busy(f)') \in Nat /\ Cardinality(Busy(f)') <= Cardinality(Busy(f)) + 1
    BY <1>1, <1>3, Lost, Gained
  <2> QED
    BY <1>1, <2>1
<1>4. CASE \E x : \E y \in Busy(f) :
             Loose(f)' \subseteq Loose(f) \cup {x} /\ Busy(f)' \subseteq Busy(f) \ {y}
  <2>1. /\ Cardinality(Loose(f)') \in Nat /\ Cardinality(Loose(f)') <= Cardinality(Loose(f)) + 1
        /\ Cardinality(Busy(f)') \in Nat /\ Cardinality(Busy(f)') <= Cardinality(Busy(f)) - 1
    BY <1>1, <1>4, Lost, Gained
  <2> QED
    BY <1>1, <2>1
<1> QED
  BY <1>2, <1>3, <1>4

\* Steps that only start a request with a role, or change neither.
LEMMA StartKeepsRotation ==
    ASSUME IInv, RotationInv, NEW r \in Requests, NEW u, NEW t, NEW held,
           Starts(r, "issue", u, t, held, 0), UNCHANGED <<refreshTokens, forks>>
    PROVE  RotationInv'
<1> DEFINE x == [pc |-> "issue", user |-> u, tenant |-> t, role |-> held,
                 since |-> now, row |-> 0]
<1>1. req' = [req EXCEPT ![r] = x] /\ req[r] = Idle /\ x # Idle
      /\ x.pc = "issue" /\ x.row = 0
  BY DEF Starts, Idle
<1> HIDE DEF x
<1>2. /\ InFlight' = InFlight \cup {r} /\ r \notin InFlight
      /\ req'[r] = x /\ \A s \in InFlight : req'[s] = req[s]
  BY <1>1 DEF IInv, SessionsTypeOK, InFlight
<1>3. FamilyInv'
  BY <1>1, <1>2 DEF RotationInv, FamilyInv, Rows
<1>4. \A k : Held(k)' <=> Held(k)
  BY <1>1, <1>2 DEF Held
<1>5. \A f \in Family : Loose(f)' \subseteq Loose(f) /\ Busy(f)' \subseteq Busy(f)
  BY <1>1, <1>2, <1>4 DEF Loose, Busy, Rows
<1> QED
  BY <1>3, <1>5, Trades DEF RotationInv, IInv

\* A refresh takes a loose token for a busy request; one that races is counted.
LEMMA RefreshKeepsRotation ==
    ASSUME IInv, RotationInv, NEW r \in Requests, NEW k \in Rows, Refresh(r, k)
    PROVE  RotationInv'
<1>0. PICK f0 \in Family : f0 = refreshTokens[k].family /\ k # 0
  <2>1. refreshTokens[k] \in RefreshToken /\ k # 0
    BY DEF IInv, SessionsTypeOK, Rows
  <2> QED
    BY <2>1 DEF RefreshToken
<1> DEFINE x == [pc |-> "revoke", user |-> refreshTokens[k].user,
                 tenant |-> refreshTokens[k].tenant, role |-> NoRole, since |-> now, row |-> k]
           racing == {s \in InFlight : req[s].row = k /\ req[s].pc = "revoke"}
<1>1. /\ req' = [req EXCEPT ![r] = x] /\ req[r] = Idle /\ x # Idle
      /\ x.pc = "revoke" /\ x.row = k
      /\ ~refreshTokens[k].revoked /\ UNCHANGED refreshTokens
      /\ forks' = [forks EXCEPT ![f0] = IF racing = {} THEN @ ELSE @ + 1]
  BY <1>0 DEF Refresh, Starts, Idle, Live
<1> HIDE DEF x
<1>2. /\ InFlight' = InFlight \cup {r} /\ r \notin InFlight
      /\ req'[r] = x /\ \A s \in InFlight : req'[s] = req[s]
  BY <1>1 DEF IInv, SessionsTypeOK, InFlight
<1>4. FamilyInv'
  BY <1>0, <1>1, <1>2 DEF RotationInv, FamilyInv, Rows
<1>5. \A j : Held(j)' <=> Held(j) \/ j = k
  BY <1>1, <1>2 DEF Held
<1>6. /\ \A f : Loose(f)' \subseteq Loose(f) \ {k}
      /\ \A f : f # f0 => Busy(f)' \subseteq Busy(f)
      /\ Busy(f0)' \subseteq Busy(f0) \cup {r}
  BY <1>0, <1>1, <1>2, <1>5 DEF Loose, Busy, Rows
<1>7. SessionsTypeOK /\ SessionsTypeOK' /\ forks \in [Family -> Nat]
  BY StartStep DEF IInv, SessionsTypeOK
<1>8. CASE racing = {}
  <2>1. k \in Loose(f0)
    BY <1>0, <1>1, <1>8 DEF Loose, Held
  <2>2. UNCHANGED forks
    BY <1>1, <1>7, <1>8
  <2>3. \A f \in Family :
           \/ Loose(f)' \subseteq Loose(f) /\ Busy(f)' \subseteq Busy(f)
           \/ \E y \in Loose(f) : \E z :
                 Loose(f)' \subseteq Loose(f) \ {y} /\ Busy(f)' \subseteq Busy(f) \cup {z}
    BY <1>6, <2>1
  <2> QED
    BY <1>4, <1>7, <2>2, <2>3, Trades DEF RotationInv
<1>9. CASE racing # {}
  <2>1. forks'[f0] = forks[f0] + 1 /\ \A f \in Family \ {f0} : forks'[f] = forks[f]
    BY <1>1, <1>7, <1>9
  <2>2. ASSUME NEW f \in Family
        PROVE  Cardinality(Loose(f)') + Cardinality(Busy(f)') <= 1 + forks'[f]
    <3>1. /\ IsFiniteSet(Loose(f)) /\ IsFiniteSet(Busy(f)) /\ forks[f] \in Nat
          /\ Cardinality(Loose(f)) \in Nat /\ Cardinality(Busy(f)) \in Nat
          /\ Cardinality(Loose(f)) + Cardinality(Busy(f)) <= 1 + forks[f]
      BY <1>7, FiniteParts DEF RotationInv, Conserved
    <3>2. Loose(f)' \subseteq Loose(f)
      BY <1>6
    <3>3. Cardinality(Loose(f)') \in Nat /\ Cardinality(Loose(f)') <= Cardinality(Loose(f))
      BY <3>1, <3>2, Kept
    <3>4. CASE f = f0
      <4>1. Cardinality(Busy(f)') \in Nat /\ Cardinality(Busy(f)') <= Cardinality(Busy(f)) + 1
        BY <1>6, <3>1, <3>4, Gained
      <4> QED
        BY <2>1, <3>1, <3>3, <3>4, <4>1
    <3>5. CASE f # f0
      <4>1. Cardinality(Busy(f)') \in Nat /\ Cardinality(Busy(f)') <= Cardinality(Busy(f))
        BY <1>6, <3>1, <3>5, Kept
      <4> QED
        BY <2>1, <3>1, <3>3, <3>5, <4>1
    <3> QED
      BY <3>4, <3>5
  <2> QED
    BY <1>4, <2>2 DEF RotationInv, Conserved
<1> QED
  BY <1>8, <1>9

\* Revoking takes the token away for good; what was read of it stays busy.
LEMMA RevokeKeepsRotation ==
    ASSUME IInv, RotationInv, NEW r \in Requests, Revoke(r)
    PROVE  RotationInv'
<1> DEFINE k == req[r].row
<1>1. /\ req[r].pc = "revoke" /\ r \in InFlight /\ SessionsTypeOK
      /\ req' = [req EXCEPT ![r].pc = "membership"] /\ UNCHANGED forks
      /\ refreshTokens' = [refreshTokens EXCEPT ![k].revoked = TRUE]
  BY DEF Revoke, RevokedRow, InFlight, Idle, IInv
<1>2. k \in Nat /\ req[r] \in Request
  BY <1>1, Numbers, InFlightRequest DEF Request
<1>3. /\ InFlight' = InFlight /\ req'[r].pc = "membership" /\ req'[r].row = k
      /\ \A s \in InFlight \ {r} : req'[s] = req[s]
  BY <1>1, <1>2 DEF SessionsTypeOK, InFlight, Request, Idle
<1>4. /\ Rows' = Rows /\ Len(refreshTokens') = Len(refreshTokens)
      /\ \A i \in Rows : /\ refreshTokens'[i].family = refreshTokens[i].family
                         /\ i # k => refreshTokens'[i] = refreshTokens[i]
                         /\ i = k => refreshTokens'[i].revoked
  <2>1. /\ Len(refreshTokens') = Len(refreshTokens) /\ refreshTokens' \in Seq(RefreshToken)
        /\ \A i \in 1..Len(refreshTokens) :
              refreshTokens'[i] = IF i = k THEN [refreshTokens[k] EXCEPT !.revoked = TRUE]
                                  ELSE refreshTokens[i]
    BY <1>1, <1>2, RevokedRows
  <2>2. Rows = 1..Len(refreshTokens) /\ Rows' = 1..Len(refreshTokens')
        /\ \A i \in Rows : refreshTokens[i] \in RefreshToken
    BY <1>1, <2>1 DEF Rows, SessionsTypeOK
  <2> QED
    BY <2>1, <2>2 DEF RefreshToken
<1>5. FamilyInv'
  BY <1>3, <1>4 DEF RotationInv, FamilyInv
<1>6. \A j : Held(j) /\ j # k => Held(j)'
  BY <1>3 DEF Held
<1>7. \A s \in InFlight : req[s].row # 0 => req[s].row \in Rows
  <2>1. \A s \in InFlight : req[s].row \in Nat /\ req[s].row <= Len(refreshTokens)
    BY <1>1, Numbers, InFlightRequest DEF Request, IInv, RequestInv
  <2>2. Rows = 1..Len(refreshTokens) /\ Len(refreshTokens) \in Nat
    BY <1>1 DEF Rows, SessionsTypeOK
  <2> QED
    BY <2>1, <2>2
<1>8. \A f \in Family : Loose(f)' \subseteq Loose(f) /\ Busy(f)' \subseteq Busy(f)
  <2> SUFFICES ASSUME NEW f \in Family
               PROVE  Loose(f)' \subseteq Loose(f) /\ Busy(f)' \subseteq Busy(f)
    OBVIOUS
  <2>1. Loose(f)' \subseteq Loose(f)
    BY <1>4, <1>6 DEF Loose
  <2>2. Busy(f)' \subseteq Busy(f)
    BY <1>3, <1>4, <1>7 DEF Busy
  <2> QED
    BY <2>1, <2>2
<1> QED
  BY <1>1, <1>5, <1>8, Trades DEF RotationInv

\* A request that goes on to sign, or ends, leaves its token to be counted loose.
LEMMA LeaveKeepsRotation ==
    ASSUME IInv, RotationInv, NEW r \in Requests, ReadMembership(r) \/ Fail(r)
    PROVE  RotationInv'
<1> DEFINE k == req[r].row
<1>1. r \in InFlight /\ SessionsTypeOK /\ UNCHANGED <<refreshTokens, forks>>
  <2>1. ReadMembership(r) => req[r].pc = "membership"
    BY DEF ReadMembership
  <2>2. ReadMembership(r) => req[r] # Idle
    BY <2>1 DEF Idle
  <2> QED
    BY <2>2 DEF ReadMembership, Fail, InFlight, IInv
<1>2. req[r] \in Request
  BY <1>1, InFlightRequest
<1>3. PICK x \in Request \cup {Idle} :
        /\ req' = [req EXCEPT ![r] = x]
        /\ x # Idle => x.row = k /\ x.pc = "issue"
        /\ Fail(r) => x = Idle
        /\ x # Idle => req[r].pc = "membership"
        /\ ~Fail(r) => req[r].pc = "membership"
  <2>1. CASE Fail(r)
    BY <2>1 DEF Fail, Ends
  <2>2. CASE ReadMembership(r) /\ ~Fail(r)
    <3> DEFINE held == role[req[r].user][req[r].tenant]
               x == IF held = NoRole THEN Idle ELSE [req[r] EXCEPT !.pc = "issue", !.role = held]
    <3>1. held \in Roles \cup {NoRole}
      BY <1>1, <1>2 DEF SessionsTypeOK, Request
    <3>2. x \in Request \cup {Idle} /\ (x # Idle => x.row = k /\ x.pc = "issue")
      BY <1>2, <3>1 DEF Request
    <3>3. req' = [req EXCEPT ![r] = x] /\ req[r].pc = "membership"
      BY <2>2 DEF ReadMembership, RoleRead
    <3> QED
      BY <2>2, <3>2, <3>3
  <2> QED
    BY <2>1, <2>2
<1>4. /\ \A s \in InFlight' : s \in InFlight /\ (s # r => req'[s] = req[s])
      /\ r \in InFlight' => req'[r] = x /\ x # Idle
      /\ \A s \in InFlight \ {r} : s \in InFlight' /\ req'[s] = req[s]
  BY <1>1, <1>3 DEF SessionsTypeOK, InFlight
<1>5. FamilyInv'
  BY <1>1, <1>3, <1>4 DEF RotationInv, FamilyInv, Rows
<1>6. \A f : Busy(f)' \subseteq Busy(f)
  BY <1>1, <1>3, <1>4 DEF Busy
<1>7. CASE req[r].pc # "revoke"
  <2>1. \A j : Held(j) => Held(j)'
    BY <1>4, <1>7 DEF Held
  <2>2. \A f \in Family : Loose(f)' \subseteq Loose(f)
    BY <1>1, <2>1 DEF Loose, Rows
  <2> QED
    BY <1>1, <1>5, <1>6, <2>2, Trades DEF RotationInv
<1>8. CASE req[r].pc = "revoke"
  <2>1. x = Idle /\ k # 0
    BY <1>1, <1>3, <1>8 DEF RotationInv, FamilyInv
  <2>2. \A j : Held(j) /\ j # k => Held(j)'
    BY <1>4, <1>8 DEF Held
  <2>3. ASSUME NEW f \in Family
        PROVE  \/ Loose(f)' \subseteq Loose(f) /\ Busy(f)' \subseteq Busy(f)
               \/ \E z : \E y \in Busy(f) :
                    Loose(f)' \subseteq Loose(f) \cup {z} /\ Busy(f)' \subseteq Busy(f) \ {y}
    <3>1. CASE refreshTokens[k].family = f
      <4>1. r \in Busy(f)
        BY <1>1, <2>1, <3>1 DEF Busy
      <4>2. Busy(f)' \subseteq Busy(f) \ {r}
        BY <1>4, <1>6, <2>1 DEF Busy
      <4>3. Loose(f)' \subseteq Loose(f) \cup {k}
        BY <1>1, <2>2 DEF Loose, Rows
      <4> QED
        BY <4>1, <4>2, <4>3
    <3>2. CASE refreshTokens[k].family # f
      <4>1. Loose(f)' \subseteq Loose(f)
        BY <1>1, <2>2, <3>2 DEF Loose, Rows
      <4> QED
        BY <1>6, <4>1
    <3> QED
      BY <3>1, <3>2
  <2> QED
    BY <1>1, <1>5, <2>3, Trades DEF RotationInv
<1> QED
  BY <1>7, <1>8

\* A token that is logged out is loose no more.
LEMMA LogoutKeepsRotation ==
    ASSUME IInv, RotationInv, NEW k \in Rows, Logout(k)
    PROVE  RotationInv'
<1>1. /\ SessionsTypeOK /\ UNCHANGED <<req, forks>> /\ k \in Nat
      /\ refreshTokens' = [refreshTokens EXCEPT ![k].revoked = TRUE]
  BY DEF Logout, IInv, SessionsTypeOK, Rows
<1>2. /\ Rows' = Rows /\ Len(refreshTokens') = Len(refreshTokens)
      /\ \A i \in Rows : /\ refreshTokens'[i].family = refreshTokens[i].family
                         /\ i # k => refreshTokens'[i] = refreshTokens[i]
                         /\ i = k => refreshTokens'[i].revoked
  <2>1. /\ Len(refreshTokens') = Len(refreshTokens) /\ refreshTokens' \in Seq(RefreshToken)
        /\ \A i \in 1..Len(refreshTokens) :
              refreshTokens'[i] = IF i = k THEN [refreshTokens[k] EXCEPT !.revoked = TRUE]
                                  ELSE refreshTokens[i]
    BY <1>1, RevokedRows
  <2>2. Rows = 1..Len(refreshTokens) /\ Rows' = 1..Len(refreshTokens')
        /\ \A i \in Rows : refreshTokens[i] \in RefreshToken
    BY <1>1, <2>1 DEF Rows, SessionsTypeOK
  <2> QED
    BY <2>1, <2>2 DEF RefreshToken
<1>3. InFlight' = InFlight /\ \A j : Held(j)' <=> Held(j)
  BY <1>1 DEF InFlight, Held
<1>4. FamilyInv'
  BY <1>1, <1>2, <1>3 DEF RotationInv, FamilyInv
<1>5. \A s \in InFlight : req[s].row # 0 => req[s].row \in Rows
  <2>1. \A s \in InFlight : req[s].row \in Nat /\ req[s].row <= Len(refreshTokens)
    BY <1>1, Numbers, InFlightRequest DEF Request, IInv, RequestInv
  <2>2. Rows = 1..Len(refreshTokens) /\ Len(refreshTokens) \in Nat
    BY <1>1 DEF Rows, SessionsTypeOK
  <2> QED
    BY <2>1, <2>2
<1>6. \A f \in Family : Loose(f)' \subseteq Loose(f) /\ Busy(f)' \subseteq Busy(f)
  <2> SUFFICES ASSUME NEW f \in Family
               PROVE  Loose(f)' \subseteq Loose(f) /\ Busy(f)' \subseteq Busy(f)
    OBVIOUS
  <2>1. Loose(f)' \subseteq Loose(f)
    BY <1>2, <1>3 DEF Loose
  <2>2. Busy(f)' \subseteq Busy(f)
    BY <1>1, <1>2, <1>3, <1>5 DEF Busy
  <2> QED
    BY <2>1, <2>2
<1> QED
  BY <1>1, <1>4, <1>6, Trades DEF RotationInv

\* The new token takes the place of the request that read the old one, or is the
\* first of a login.
LEMMA IssueKeepsRotation ==
    ASSUME IInv, RotationInv, NEW r \in Requests, Issue(r)
    PROVE  RotationInv'
<1>1. PICK n \in Nat, k \in Nat : n = Len(refreshTokens) /\ k = req[r].row /\ k <= n
  <2>1. r \in InFlight
    BY DEF Issue, InFlight, Idle
  <2>2. req[r] \in Request /\ req[r].row <= Len(refreshTokens)
    BY <2>1, InFlightRequest DEF IInv, RequestInv
  <2> QED
    BY <2>2, Numbers DEF Request, IInv, SessionsTypeOK
<1>2. PICK f0 \in Nat : f0 = IF k = 0 THEN n + 1 ELSE refreshTokens[k].family
  <2>1. k # 0 => refreshTokens[k] \in RefreshToken
    BY <1>1 DEF IInv, SessionsTypeOK
  <2> QED
    BY <1>1, <2>1, Numbers DEF RefreshToken, Family
<1>3. /\ r \in InFlight /\ SessionsTypeOK /\ UNCHANGED forks
      /\ req' = [req EXCEPT ![r] = Idle] /\ req[r].pc = "issue"
      /\ Len(refreshTokens') = n + 1 /\ refreshTokens'[n + 1].family = f0
      /\ \A i \in 1..n : refreshTokens'[i] = refreshTokens[i]
      /\ Rows = 1..n /\ Rows' = 1..(n + 1)
  BY <1>1, <1>2 DEF Issue, Ends, InFlight, Idle, IInv, SessionsTypeOK, Rows
<1>4. InFlight' = InFlight \ {r} /\ \A s \in InFlight' : req'[s] = req[s]
  BY <1>3 DEF InFlight, SessionsTypeOK
<1>5. \A j : Held(j)' <=> Held(j)
  BY <1>3, <1>4 DEF Held
<1>6. \A s \in InFlight : req[s].row # 0 => req[s].row \in Rows
  <2>1. \A s \in InFlight : req[s].row \in Nat /\ req[s].row <= Len(refreshTokens)
    BY <1>3, Numbers, InFlightRequest DEF Request, IInv, RequestInv
  <2> QED
    BY <1>1, <1>3, <2>1
<1>7. \A i \in Rows : refreshTokens[i].family \in Nat /\ refreshTokens[i].family <= n
  <2>1. \A i \in Rows : refreshTokens[i] \in RefreshToken
    BY <1>1, <1>3 DEF SessionsTypeOK
  <2> QED
    BY <1>1, <2>1, Numbers DEF RotationInv, FamilyInv, RefreshToken, Family
<1>8. FamilyInv'
  <2>1. f0 <= n + 1
    BY <1>1, <1>2, <1>3, <1>7
  <2>2. \A i \in Rows' : refreshTokens'[i].family <= n + 1
    <3>1. \A i \in Rows : refreshTokens'[i].family <= n + 1
      <4>1. \A i \in Rows : refreshTokens'[i].family = refreshTokens[i].family
        BY <1>3
      <4> QED
        BY <1>1, <1>7, <4>1
    <3>2. \A i \in Rows' : i \in Rows \/ i = n + 1
      BY <1>1, <1>3
    <3> QED
      BY <1>3, <2>1, <3>1, <3>2
  <2> QED
    BY <1>3, <1>4, <2>2 DEF RotationInv, FamilyInv
<1>9. ASSUME NEW f \in Family
      PROVE  /\ Loose(f)' \subseteq Loose(f) \cup {n + 1}
             /\ f # f0 => Loose(f)' \subseteq Loose(f)
             /\ Busy(f)' \subseteq Busy(f) \ {r}
  <2>1. \A i \in Rows' : i # n + 1 => i \in Rows /\ refreshTokens'[i] = refreshTokens[i]
    BY <1>1, <1>3
  <2>2. Loose(f)' \subseteq Loose(f) \cup {n + 1} /\ (f # f0 => Loose(f)' \subseteq Loose(f))
    BY <1>3, <1>5, <2>1 DEF Loose
  <2>3. Busy(f)' \subseteq Busy(f) \ {r}
    <3>1. \A s \in InFlight' : req'[s].row # 0 =>
             refreshTokens'[req'[s].row].family = refreshTokens[req[s].row].family
      BY <1>3, <1>4, <1>6
    <3> QED
      BY <1>4, <3>1 DEF Busy
  <2> QED
    BY <2>2, <2>3
<1>10. CASE k # 0
  <2>1. ASSUME NEW f \in Family
        PROVE  \/ Loose(f)' \subseteq Loose(f) /\ Busy(f)' \subseteq Busy(f)
               \/ \E z : \E y \in Busy(f) :
                    Loose(f)' \subseteq Loose(f) \cup {z} /\ Busy(f)' \subseteq Busy(f) \ {y}
    <3>1. CASE f = f0
      <4>1. r \in Busy(f)
        BY <1>1, <1>2, <1>3, <1>10, <3>1 DEF Busy
      <4> QED
        BY <1>9, <4>1
    <3>2. CASE f # f0
      BY <1>9, <3>2
    <3> QED
      BY <3>1, <3>2
  <2> QED
    BY <1>3, <1>8, <2>1, Trades DEF RotationInv
<1>11. CASE k = 0
  <2>1. ASSUME NEW f \in Family
        PROVE  Cardinality(Loose(f)') + Cardinality(Busy(f)') <= 1 + forks[f]
    <3>1. /\ IsFiniteSet(Loose(f)) /\ IsFiniteSet(Busy(f)) /\ forks[f] \in Nat
          /\ Cardinality(Loose(f)) \in Nat /\ Cardinality(Busy(f)) \in Nat
          /\ Cardinality(Loose(f)) + Cardinality(Busy(f)) <= 1 + forks[f]
      BY <1>3, FiniteParts DEF RotationInv, Conserved, SessionsTypeOK
    <3>2. CASE f # f0
      <4>1. /\ Cardinality(Loose(f)') \in Nat /\ Cardinality(Loose(f)') <= Cardinality(Loose(f))
            /\ Cardinality(Busy(f)') \in Nat /\ Cardinality(Busy(f)') <= Cardinality(Busy(f))
        BY <1>9, <3>1, <3>2, Kept
      <4> QED
        BY <3>1, <4>1
    <3>3. CASE f = f0
      <4>1. \A i \in Rows : refreshTokens[i].family # f
        <5>1. f = n + 1
          BY <1>2, <1>11, <3>3
        <5> QED
          BY <1>1, <1>7, <5>1
      <4>2. Loose(f) = {} /\ Busy(f) = {}
        BY <1>6, <4>1 DEF Loose, Busy
      <4>3. Loose(f)' \subseteq {} \cup {n + 1} /\ Busy(f)' \subseteq {}
        BY <1>9, <4>2
      <4>4. /\ Cardinality(Loose(f)') \in Nat /\ Cardinality(Loose(f)') <= 0 + 1
            /\ Cardinality(Busy(f)') \in Nat /\ Cardinality(Busy(f)') <= 0
        BY <4>3, FS_EmptySet, Gained, Kept
      <4> QED
        BY <3>1, <4>4
    <3> QED
      BY <3>2, <3>3
  <2> QED
    BY <1>3, <1>8, <2>1 DEF RotationInv, Conserved
<1> QED
  BY <1>10, <1>11

LEMMA NextRotation == IInv /\ RotationInv /\ [SessionsNext]_sessionVars => RotationInv'
<1> SUFFICES ASSUME IInv, RotationInv, [SessionsNext]_sessionVars PROVE RotationInv'
  OBVIOUS
<1>1. CASE UNCHANGED <<refreshTokens, req, forks>>
  BY <1>1 DEF RotationInv, FamilyInv, Conserved, Loose, Busy, Held, Rows, InFlight
<1>2. CASE \E r \in Requests :
             \/ \E u \in Users : Login(r, u) \/ \E t \in Tenants : Register(r, u, t)
             \/ \E c \in choices, t \in Tenants : SelectTenant(r, c, t)
  BY <1>2, StartKeepsRotation DEF Login, Register, SelectTenant
<1>3. CASE \E r \in Requests :
             (\E k \in Rows : Refresh(r, k)) \/ Revoke(r) \/ ReadMembership(r) \/ Issue(r) \/ Fail(r)
  BY <1>3, RefreshKeepsRotation, RevokeKeepsRotation, LeaveKeepsRotation, IssueKeepsRotation
<1>4. CASE \E k \in Rows : Logout(k)
  BY <1>4, LogoutKeepsRotation
<1>5. CASE \/ \E u \in Users : LoginToChoose(u)
           \/ \E u \in Users, t \in Tenants :
                 RemoveMember(u, t) \/ \E held \in Granted : AddMember(u, t, held)
           \/ Tick
  BY <1>1, <1>5 DEF LoginToChoose, RemoveMember, AddMember, Tick
<1> QED
  BY <1>1, <1>2, <1>3, <1>4, <1>5 DEF SessionsNext, sessionVars

\* One login's live tokens and refreshes under way are never more than one, plus
\* one for each refresh that raced: rotation neither loses count nor multiplies.
THEOREM Rotation == SessionsSpec => []RotationConserves
<1>1. SessionsInit => RotationInv
  <2> SUFFICES ASSUME SessionsInit PROVE RotationInv
    OBVIOUS
  <2>1. Rows = {} /\ InFlight = {} /\ \A f \in Family : forks[f] = 0
    BY DEF SessionsInit, Rows, InFlight
  <2>2. \A f \in Family : Loose(f) = {} /\ Busy(f) = {}
    BY <2>1 DEF Loose, Busy
  <2> QED
    BY <2>1, <2>2, FS_EmptySet DEF RotationInv, FamilyInv, Conserved
<1>2. IInv /\ RotationInv => RotationConserves
  <2> SUFFICES ASSUME IInv, RotationInv, NEW f \in Family
               PROVE  LET held == {req[r].row : r \in {s \in InFlight : req[s].pc = "revoke"}}
                          loose == {k \in Rows : refreshTokens[k].family = f
                                                 /\ ~refreshTokens[k].revoked /\ k \notin held}
                          busy == {r \in InFlight : req[r].row # 0
                                                    /\ refreshTokens[req[r].row].family = f}
                      IN  Cardinality(loose) + Cardinality(busy) <= 1 + forks[f]
    BY DEF RotationConserves
  <2> DEFINE held == {req[r].row : r \in {s \in InFlight : req[s].pc = "revoke"}}
  <2>1. \A k : k \in held <=> Held(k)
    BY DEF Held
  <2> HIDE DEF held
  <2>2. {k \in Rows : refreshTokens[k].family = f /\ ~refreshTokens[k].revoked /\ k \notin held}
           = Loose(f)
    BY <2>1 DEF Loose
  <2> QED
    BY <2>2 DEF held, Busy, RotationInv, Conserved
<1> QED
  BY <1>1, <1>2, IInvHolds, NextRotation, PTL DEF SessionsSpec

==============================================================================
