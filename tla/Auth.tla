-------------------------------- MODULE Auth --------------------------------
(***************************************************************************)
(* Login, access tokens and the permission check (internal/service/auth,   *)
(* the login handler, the route table, and the users that the demo seed    *)
(* provisions), on any number of API servers over one users table.         *)
(*                                                                         *)
(* A token carries the permissions its user had when a login read the      *)
(* users table; no later request looks at the table again.  The servers    *)
(* have clocks of their own: Clock(s) is the time of day of server s, and  *)
(* time is the real one, which no server sees.                             *)
(*                                                                         *)
(* Signatures, issuer and audience are outside the model: every token here *)
(* was issued by the service.                                              *)
(***************************************************************************)
EXTENDS Integers

CONSTANTS Users,       \* user ids; each has one email address
          DemoUsers,   \* the ones seed.Demo provisions
          Passwords,
          NoPassword,  \* the empty password
          Grants,      \* the permission sets an operator may give a user
          Servers,
          Skew,        \* how far the clock of each server is ahead
          MaxSkew,
          TTL,         \* AccessTokenTTL
          LoginLimit,  \* WriteTimeout: a later response reaches nobody
          Logins,      \* calls of POST /auth/login
          MaxTime      \* bound of the model: the time it stops at

Permissions == {"accounts:read", "transfers:read", "transfers:create"}

ASSUME AuthAssumption ==
    /\ DemoUsers \subseteq Users
    /\ NoPassword \in Passwords
    /\ Grants \subseteq SUBSET Permissions
    /\ MaxSkew \in Nat /\ Skew \in [Servers -> 0..MaxSkew]
    /\ TTL \in Nat \ {0} /\ LoginLimit \in Nat /\ MaxTime \in Nat

VARIABLES users,    \* table users: at most one row for each id
          time,     \* real time
          login,    \* the state of each login
          tokens,   \* every token issued so far
          revoked,  \* history: when each permission was last taken from a user
          demo      \* history: the DEMO_PASSWORD in force, and since when

vars == <<users, time, login, tokens, revoked, demo>>

\* A row has an id, a password and a set of permissions.
RowsOf(u) == {row \in users : row.id = u}
Granted(u, p) == \E row \in RowsOf(u) : p \in row.permissions

Clock(s) == time + Skew[s]

NoLogin == [pc |-> "idle"]

Init ==
    /\ users = {}
    /\ time = 0
    /\ login = [l \in Logins |-> NoLogin]
    /\ tokens = {}
    /\ revoked = [u \in Users |-> [p \in Permissions |-> 0]]
    /\ demo = [password |-> NoPassword, since |-> 0]

\* The table becomes table; the permissions it takes away are revoked now.
SetUsers(table) ==
    /\ users' = table
    /\ revoked' = [u \in Users |-> [p \in Permissions |->
                    IF /\ Granted(u, p)
                       /\ ~\E row \in table : row.id = u /\ p \in row.permissions
                    THEN time ELSE revoked[u][p]]]
    /\ UNCHANGED <<time, login, tokens>>

\* What seed.Demo makes of the table, in one transaction: every demo user has
\* the password and the demo permissions, whatever the row held before.
\* Faulty variant: without ON CONFLICT.  The primary key refuses a user that is
\* there already, which undoes the transaction.
InsertDemo(password) ==
    IF \E row \in users : row.id \in DemoUsers THEN users
    ELSE users \cup {[id |-> u, password |-> password, permissions |-> Permissions] :
                     u \in DemoUsers}
UpsertDemo(password) ==
    {row \in users : row.id \notin DemoUsers}
      \cup {[id |-> u, password |-> password, permissions |-> Permissions] : u \in DemoUsers}

\* A start with SEED_DEMO_DATA and this DEMO_PASSWORD, while the database works
\* (module Seed has its failures).
Demo(password) ==
    /\ password # NoPassword
    /\ SetUsers(UpsertDemo(password))
    /\ demo' = IF password = demo.password THEN demo
               ELSE [password |-> password, since |-> time]

\* An operator changes the permissions of a user in the database.
Administer(u, permissions) ==
    /\ RowsOf(u) # {}
    /\ SetUsers({row \in users : row.id # u}
                  \cup {[row EXCEPT !.permissions = permissions] : row \in RowsOf(u)})
    /\ UNCHANGED demo

-----------------------------------------------------------------------------
\* LoginService.Login up to FindByEmail.
Answer(l, code) == login' = [login EXCEPT ![l] = [pc |-> "done", code |-> code]]

FindByEmail(l, s, u, password) ==
    /\ login[l] = NoLogin
    /\ IF password = NoPassword \/ RowsOf(u) = {}
       THEN Answer(l, 401)
       ELSE \E row \in RowsOf(u) :
            login' = [login EXCEPT ![l] = [pc |-> "compare", server |-> s, row |-> row,
                                           password |-> password, since |-> time]]
    /\ UNCHANGED <<users, time, tokens, revoked, demo>>

\* The query fails.
FindFails(l) ==
    /\ login[l] = NoLogin
    /\ Answer(l, 500)
    /\ UNCHANGED <<users, time, tokens, revoked, demo>>

\* TokenService.Issue, with the clock of server s.  Two fields are history: the
\* real time of issue, and the password that was good for the token.
Issue(s, row) == [sub |-> row.id, iat |-> Clock(s), exp |-> Clock(s) + TTL,
                  permissions |-> row.permissions, at |-> time, password |-> row.password]

\* The rest of Login, once bcrypt has compared the password with the row read
\* before; and the response, if the server can still write it.
Compare(l) ==
    /\ login[l].pc = "compare"
    /\ IF login[l].password # login[l].row.password
       THEN Answer(l, 401) /\ UNCHANGED tokens
       ELSE /\ Answer(l, 200)
            /\ tokens' = IF time - login[l].since <= LoginLimit
                         THEN tokens \cup {Issue(login[l].server, login[l].row)}
                         ELSE tokens
    /\ UNCHANGED <<users, time, revoked, demo>>

Tick ==
    /\ time < MaxTime
    /\ time' = time + 1
    /\ UNCHANGED <<users, login, tokens, revoked, demo>>

Next ==
    \/ \E password \in Passwords : Demo(password)
    \/ \E u \in Users, permissions \in Grants : Administer(u, permissions)
    \/ \E l \in Logins, s \in Servers, u \in Users, password \in Passwords :
        FindByEmail(l, s, u, password)
    \/ \E l \in Logins : FindFails(l) \/ Compare(l)
    \/ Tick

Spec == Init /\ [][Next]_vars

-----------------------------------------------------------------------------
\* What a server answers to a token.  It changes nothing, so it is no action.

\* Claims.Validate, and the time checks of the JWT library.
Validate(token) == token.iat < token.exp /\ token.exp - token.iat <= TTL

\* Faulty variant: exp is not looked at.
VerifyWithoutExpiry(s, token) == token.iat <= Clock(s) /\ Validate(token)
\* Faulty variant: iat must lie strictly in the past.
VerifyIssuedBefore(s, token) ==
    token.iat < Clock(s) /\ Clock(s) < token.exp /\ Validate(token)
Verify(s, token) ==
    /\ token.iat <= Clock(s) /\ Clock(s) < token.exp
    /\ Validate(token)

\* The route table: GET /me asks for a valid token only.
RoutePermission ==
    [route \in {"GET /accounts", "GET /accounts/{id}", "POST /transfers", "GET /transfers/{id}"} |->
        CASE route = "POST /transfers" -> "transfers:create"
          [] route = "GET /transfers/{id}" -> "transfers:read"
          [] OTHER -> "accounts:read"]

Routes == DOMAIN RoutePermission \cup {"GET /me"}

\* Authenticate, then RequirePermission; 200 stands for the handler running.
Authorize(s, token, route) ==
    IF ~Verify(s, token) THEN 401
    ELSE IF route # "GET /me" /\ RoutePermission[route] \notin token.permissions THEN 403
    ELSE 200

-----------------------------------------------------------------------------
\* "users get their password refreshed from DEMO_PASSWORD" (demo.go:38): once a
\* start has come with a new password, the old one buys no more tokens, but by a
\* login that had read the row before; so every token it bought is dead when the
\* lifetime of a token, the time of a login and the disagreement of the clocks
\* have passed.
OldPasswordIsBounded ==
    \A t \in tokens, s \in Servers, route \in Routes :
        /\ t.sub \in DemoUsers /\ t.password # demo.password
        /\ Authorize(s, t, route) = 200
        => time < demo.since + TTL + LoginLimit + MaxSkew

\* "Revocation means waiting for expiry": a permission taken from a user lets
\* no request through any more once the lifetime of a token has passed, plus
\* the disagreement of the clocks and the time a login may be under way between
\* reading the users table and issuing its token.
RevocationIsBounded ==
    \A t \in tokens, s \in Servers, route \in DOMAIN RoutePermission :
        LET p == RoutePermission[route] IN
        Authorize(s, t, route) = 200 /\ ~Granted(t.sub, p) =>
            time < revoked[t.sub][p] + TTL + LoginLimit + MaxSkew

\* A token works on every server, not only on the one that issued it, from the
\* time all clocks have reached its issue until the first clock sees it expire.
TokensWorkEverywhere ==
    \A t \in tokens, s \in Servers, route \in DOMAIN RoutePermission :
        /\ RoutePermission[route] \in t.permissions
        /\ t.at + MaxSkew <= time /\ time < t.at + TTL - MaxSkew
        => Authorize(s, t, route) = 200
=============================================================================
