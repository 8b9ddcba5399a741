----------------------------- MODULE HttpProofs ------------------------------
(***************************************************************************)
(* Theorems about what stands between a client and the handlers: the       *)
(* tokens and permissions of Auth, for any users, servers and clocks, any  *)
(* lifetime of tokens and any duration of a login; and the chain of        *)
(* Middleware, for any request ids.                                        *)
(*                                                                         *)
(* The invariant of Auth follows a permission from the row a login reads   *)
(* to the token it becomes: it is still granted, or it was taken away no   *)
(* earlier than the row was read; likewise the password.  That of Middleware says that until the  *)
(* handler ends, the recorder knows what was sent.                         *)
(***************************************************************************)
EXTENDS Auth, Middleware, TLAPS

\* A row of the table: a demo user has the password of the latest start.
GoodRow(row) ==
    /\ row \in [id: Users, password: Passwords, permissions: SUBSET Permissions]
    /\ row.id \in DemoUsers => row.password = demo.password

Types ==
    /\ time \in Nat
    /\ demo.since \in Nat /\ demo.since <= time
    /\ \A row \in users : GoodRow(row)
    /\ \A u \in Users, p \in Permissions : revoked[u][p] \in Nat
    /\ DOMAIN login = Logins

\* The user u has permission p, or lost it at instant i or later.
HeldAt(u, p, i) == Granted(u, p) \/ i <= revoked[u][p]

\* The password is the one in force, or was replaced at instant i or later.
InForceAt(u, password, i) == u \in DemoUsers /\ password # demo.password => i <= demo.since

\* A login that has read its row and still compares the password.
GoodLogin(l) ==
    login[l].pc = "compare" =>
        /\ login[l].server \in Servers
        /\ login[l].since \in Nat /\ login[l].since <= time
        /\ login[l].row.id \in Users /\ login[l].row.permissions \subseteq Permissions
        /\ \A p \in login[l].row.permissions : HeldAt(login[l].row.id, p, login[l].since)
        /\ InForceAt(login[l].row.id, login[l].row.password, login[l].since)

\* A token: what Issue makes of a row read at most LoginLimit before.
GoodToken(t) ==
    /\ t.sub \in Users /\ t.permissions \subseteq Permissions
    /\ t.at \in Nat /\ t.at <= time
    /\ t.iat \in Nat /\ t.at <= t.iat /\ t.iat <= t.at + MaxSkew
    /\ t.exp = t.iat + TTL
    /\ \A p \in t.permissions : Granted(t.sub, p) \/ t.at <= revoked[t.sub][p] + LoginLimit
    /\ t.sub \in DemoUsers /\ t.password # demo.password => t.at <= demo.since + LoginLimit

IInv ==
    /\ Types
    /\ \A l \in Logins : GoodLogin(l)
    /\ \A t \in tokens : GoodToken(t)

-----------------------------------------------------------------------------
\* A change of the users table: what it takes away is revoked now, and a password
\* it replaces is replaced now, which is not before any row that was read.
LEMMA SetUsersKeeps ==
    ASSUME IInv, NEW table,
           \A row \in table : GoodRow(row)', demo' = demo \/ demo'.since = time,
           SetUsers(table)
    PROVE  IInv'
  <1>0. /\ users' = table /\ UNCHANGED <<time, login, tokens>> /\ time \in Nat
        /\ demo'.since \in Nat /\ demo'.since <= time
        /\ \A u \in Users, p \in Permissions : revoked[u][p] \in Nat
    BY DEF SetUsers, IInv, Types
  <1>1. ASSUME NEW u \in Users, NEW p \in Permissions
        PROVE  revoked'[u][p] = IF Granted(u, p) /\ ~Granted(u, p)' THEN time ELSE revoked[u][p]
    BY <1>0 DEF SetUsers, Granted, RowsOf
  <1>2. Types'
    BY <1>0, <1>1 DEF IInv, Types
  <1>d. ASSUME NEW u, NEW password, NEW i \in Nat, i <= time, InForceAt(u, password, i)
        PROVE  InForceAt(u, password, i)'
    BY <1>0, <1>d DEF InForceAt
  <1>3. ASSUME NEW l \in Logins, login[l].pc = "compare"
        PROVE  \A p \in login[l].row.permissions :
                 (Granted(login[l].row.id, p) \/ login[l].since <= revoked[login[l].row.id][p])'
    <2>1. /\ login[l].since <= time
          /\ login[l].row.id \in Users /\ login[l].row.permissions \subseteq Permissions
          /\ \A p \in login[l].row.permissions :
               Granted(login[l].row.id, p) \/ login[l].since <= revoked[login[l].row.id][p]
      BY <1>3 DEF IInv, GoodLogin, HeldAt
    <2> QED BY <1>0, <1>1, <2>1
  <1>4. ASSUME NEW l \in Logins PROVE GoodLogin(l)'
    <2>1. GoodLogin(l) /\ login'[l] = login[l]
      BY <1>0 DEF IInv
    <2>2. login[l].pc = "compare" =>
            InForceAt(login[l].row.id, login[l].row.password, login[l].since)'
      BY <2>1, <1>0, <1>d DEF GoodLogin
    <2> QED BY <1>0, <1>3, <2>1, <2>2 DEF GoodLogin, HeldAt
  <1>5. ASSUME NEW t \in tokens PROVE GoodToken(t)'
    <2>1. GoodToken(t)
      BY DEF IInv
    <2>2. ASSUME NEW p \in t.permissions
          PROVE  (Granted(t.sub, p) \/ t.at <= revoked[t.sub][p] + LoginLimit)'
      <3>1. t.sub \in Users /\ p \in Permissions /\ t.at \in Nat /\ t.at <= time
        BY <2>1 DEF GoodToken
      <3>2. Granted(t.sub, p) \/ t.at <= revoked[t.sub][p] + LoginLimit
        BY <2>1 DEF GoodToken
      <3>3. revoked'[t.sub][p] = IF Granted(t.sub, p) /\ ~Granted(t.sub, p)'
                                 THEN time ELSE revoked[t.sub][p]
        BY <3>1, <1>1
      <3> QED BY <3>1, <3>2, <3>3, <1>0, AuthAssumption
    <2>3. (t.sub \in DemoUsers /\ t.password # demo.password => t.at <= demo.since + LoginLimit)'
      BY <2>1, <1>0, AuthAssumption DEF GoodToken
    <2> QED BY <2>1, <2>2, <2>3, <1>0 DEF GoodToken
  <1> QED BY <1>0, <1>2, <1>4, <1>5 DEF IInv

\* The seed and the operator.
LEMMA TableSteps ==
    ASSUME IInv,
           \/ \E password \in Passwords : Demo(password)
           \/ \E u \in Users, permissions \in Grants : Administer(u, permissions)
    PROVE  IInv'
  <1>0. (\A row \in users : GoodRow(row)) /\ DemoUsers \subseteq Users /\ Grants \subseteq SUBSET Permissions
    BY AuthAssumption DEF IInv, Types
  <1>1. ASSUME NEW password \in Passwords, Demo(password) PROVE IInv'
    <2>1. demo'.password = password /\ (demo' = demo \/ demo'.since = time)
      BY <1>1 DEF Demo
    <2>2. \A row \in UpsertDemo(password) : GoodRow(row)'
      BY <1>0, <2>1 DEF UpsertDemo, GoodRow
    <2>3. SetUsers(UpsertDemo(password))
      BY <1>1 DEF Demo
    <2> QED BY <2>1, <2>2, <2>3, SetUsersKeeps
  <1>2. ASSUME NEW u \in Users, NEW permissions \in Grants, Administer(u, permissions)
        PROVE  IInv'
    <2> DEFINE table == {row \in users : row.id # u}
                          \cup {[row EXCEPT !.permissions = permissions] : row \in RowsOf(u)}
    <2>1. demo' = demo /\ SetUsers(table)
      BY <1>2 DEF Administer
    <2>2. ASSUME NEW row \in RowsOf(u) PROVE GoodRow([row EXCEPT !.permissions = permissions])
      <3>1. GoodRow(row)
        BY <1>0 DEF RowsOf
      <3> QED BY <3>1, <1>0 DEF GoodRow
    <2>3. \A row \in table : GoodRow(row)
      BY <1>0, <2>2
    <2>4. \A row \in table : GoodRow(row)'
      BY <2>1, <2>3 DEF GoodRow
    <2> HIDE DEF table
    <2> QED BY <2>1, <2>4, SetUsersKeeps
  <1> QED BY <1>1, <1>2

\* A token issued now is good, since its row was read at most LoginLimit ago.
LEMMA IssueIsGood ==
    ASSUME IInv, NEW l \in Logins, login[l].pc = "compare",
           time - login[l].since <= LoginLimit
    PROVE  GoodToken(Issue(login[l].server, login[l].row))
  <1> DEFINE s == login[l].server
             row == login[l].row
             since == login[l].since
  <1>1. /\ s \in Servers /\ since \in Nat /\ since <= time
        /\ row.id \in Users /\ row.permissions \subseteq Permissions
        /\ \A p \in row.permissions : Granted(row.id, p) \/ since <= revoked[row.id][p]
        /\ row.id \in DemoUsers /\ row.password # demo.password => since <= demo.since
    BY DEF IInv, GoodLogin, HeldAt, InForceAt
  <1>2. Skew[s] \in Nat /\ Skew[s] <= MaxSkew /\ MaxSkew \in Nat /\ time \in Nat
        /\ LoginLimit \in Nat /\ TTL \in Nat
    BY <1>1, AuthAssumption DEF IInv, Types
  <1>3. ASSUME NEW p \in row.permissions
        PROVE  Granted(row.id, p) \/ time <= revoked[row.id][p] + LoginLimit
    <2>1. revoked[row.id][p] \in Nat
      BY <1>1, <1>3 DEF IInv, Types
    <2> QED BY <2>1, <1>1, <1>2
  <1>4. row.id \in DemoUsers /\ row.password # demo.password => time <= demo.since + LoginLimit
    BY <1>1, <1>2 DEF IInv, Types
  <1> QED BY <1>1, <1>2, <1>3, <1>4 DEF GoodToken, Issue, Clock

\* A login: the row it reads is of the table as it is, and its token is good.
LEMMA LoginSteps ==
    ASSUME IInv, NEW l \in Logins,
           \/ \E s \in Servers, u \in Users, password \in Passwords : FindByEmail(l, s, u, password)
           \/ FindFails(l) \/ Compare(l)
    PROVE  IInv'
  <1>0. UNCHANGED <<users, time, revoked, demo>>
    BY DEF FindByEmail, FindFails, Compare
  <1>a. ASSUME NEW k \in Logins, UNCHANGED login[k] PROVE GoodLogin(k)'
    BY <1>0, <1>a DEF IInv, GoodLogin, HeldAt, InForceAt, Granted, RowsOf
  <1>b. ASSUME NEW t, GoodToken(t) PROVE GoodToken(t)'
    BY <1>0, <1>b DEF GoodToken, Granted, RowsOf
  <1>c. ASSUME NEW state, login' = [login EXCEPT ![l] = state],
               state.pc = "compare" => GoodLogin(l)'
        PROVE  DOMAIN login' = Logins /\ \A k \in Logins : GoodLogin(k)'
    <2>1. /\ DOMAIN login' = Logins /\ login'[l] = state
          /\ \A k \in Logins \ {l} : login'[k] = login[k]
      BY <1>c DEF IInv, Types
    <2>2. GoodLogin(l)'
      BY <2>1, <1>c DEF GoodLogin
    <2> QED BY <2>1, <2>2, <1>a
  <1>1. DOMAIN login' = Logins /\ \A k \in Logins : GoodLogin(k)'
    <2>1. CASE \E code \in {200, 401, 500} : Answer(l, code)
      <3>1. PICK code \in {200, 401, 500} : Answer(l, code)
        BY <2>1
      <3>2. /\ DOMAIN login' = Logins /\ login'[l].pc = "done"
            /\ \A k \in Logins \ {l} : login'[k] = login[k]
        BY <3>1 DEF Answer, IInv, Types
      <3>3. GoodLogin(l)'
        BY <3>2 DEF GoodLogin
      <3> QED BY <3>2, <3>3, <1>a
    <2>2. ASSUME NEW s \in Servers, NEW u \in Users, NEW password \in Passwords,
                 NEW row \in RowsOf(u),
                 login' = [login EXCEPT ![l] = [pc |-> "compare", server |-> s, row |-> row,
                                                password |-> password, since |-> time]]
          PROVE  DOMAIN login' = Logins /\ \A k \in Logins : GoodLogin(k)'
      <3>1. /\ row \in users /\ row.id = u /\ row.permissions \subseteq Permissions
            /\ time \in Nat /\ (u \in DemoUsers => row.password = demo.password)
        BY DEF RowsOf, IInv, Types, GoodRow
      <3>2. \A p \in row.permissions : Granted(u, p)'
        BY <1>0, <3>1 DEF Granted, RowsOf
      <3>3. /\ login'[l].server = s /\ login'[l].row = row /\ login'[l].since = time
        BY <2>2 DEF IInv, Types
      <3>4. GoodLogin(l)'
        BY <1>0, <3>1, <3>2, <3>3 DEF GoodLogin, HeldAt, InForceAt
      <3> QED BY <2>2, <3>4, <1>c
    <2> QED BY <2>1, <2>2 DEF FindByEmail, FindFails, Compare
  <1>2. ASSUME NEW t \in tokens' PROVE GoodToken(t)
    <2>1. CASE t \in tokens
      BY <2>1 DEF IInv
    <2>2. CASE t \notin tokens
      <3>1. /\ login[l].pc = "compare" /\ time - login[l].since <= LoginLimit
            /\ t = Issue(login[l].server, login[l].row)
        BY <2>2, <1>2 DEF FindByEmail, FindFails, Compare
      <3> QED BY <3>1, IssueIsGood
    <2> QED BY <2>1, <2>2
  <1> QED BY <1>0, <1>1, <1>2, <1>b DEF IInv, Types, GoodRow

\* The invariant holds in every run.
THEOREM Invariance == Spec => []IInv
  <1>1. Init => IInv
    <2> SUFFICES ASSUME Init PROVE IInv
      OBVIOUS
    <2>1. \A l \in Logins : login[l].pc = "idle"
      BY DEF Init, NoLogin
    <2> QED BY <2>1 DEF Init, IInv, Types, GoodLogin
  <1>2. IInv /\ [Next]_vars => IInv'
    <2> SUFFICES ASSUME IInv, [Next]_vars PROVE IInv'
      OBVIOUS
    <2>1. CASE Tick
      <3>1. time \in Nat /\ time' = time + 1 /\ UNCHANGED <<users, login, tokens, revoked, demo>>
        BY <2>1 DEF Tick, IInv, Types
      <3>2. Types'
        BY <3>1 DEF IInv, Types, GoodRow
      <3>3. ASSUME NEW l \in Logins PROVE GoodLogin(l)'
        BY <3>1 DEF IInv, GoodLogin, HeldAt, InForceAt, Granted, RowsOf
      <3>4. ASSUME NEW t \in tokens PROVE GoodToken(t)'
        BY <3>1 DEF IInv, GoodToken, Granted, RowsOf
      <3> QED BY <3>1, <3>2, <3>3, <3>4 DEF IInv
    <2>2. CASE UNCHANGED vars
      BY <2>2 DEF vars, IInv, Types, GoodRow, GoodLogin, GoodToken, HeldAt, InForceAt,
         Granted, RowsOf
    <2> QED BY <2>1, <2>2, TableSteps, LoginSteps DEF Next
  <1> QED BY <1>1, <1>2, PTL DEF Spec

-----------------------------------------------------------------------------
\* A permission taken from a user lets no request through on any server once
\* TTL, the time of a login and the disagreement of the clocks have passed.
THEOREM RevocationBound == Spec => []RevocationIsBounded
  <1>1. ASSUME IInv PROVE RevocationIsBounded
    <2> SUFFICES ASSUME NEW t \in tokens, NEW s \in Servers,
                        NEW route \in DOMAIN RoutePermission,
                        Authorize(s, t, route) = 200, ~Granted(t.sub, RoutePermission[route])
                 PROVE  time < revoked[t.sub][RoutePermission[route]] + TTL + LoginLimit + MaxSkew
      BY DEF RevocationIsBounded
    <2> DEFINE p == RoutePermission[route]
    <2>1. p \in t.permissions /\ Clock(s) < t.exp
      <3>1. route # "GET /me"
        BY DEF RoutePermission
      <3>2. Verify(s, t)
        <4>1. ~Verify(s, t) => Authorize(s, t, route) = 401
          BY DEF Authorize
        <4> QED BY <4>1
      <3>3. p \in t.permissions
        <4>1. ASSUME p \notin t.permissions PROVE Authorize(s, t, route) = 403
          BY <3>1, <3>2, <4>1 DEF Authorize
        <4> QED BY <4>1
      <3> QED BY <3>2, <3>3 DEF Verify
    <2>2. GoodToken(t)
      BY <1>1 DEF IInv
    <2>3. /\ t.at <= revoked[t.sub][p] + LoginLimit /\ t.at \in Nat
          /\ t.iat \in Nat /\ t.iat <= t.at + MaxSkew /\ t.exp = t.iat + TTL
          /\ t.sub \in Users /\ p \in Permissions
      BY <2>1, <2>2 DEF GoodToken
    <2>4. /\ revoked[t.sub][p] \in Nat /\ time \in Nat /\ Skew[s] \in Nat
          /\ MaxSkew \in Nat /\ TTL \in Nat /\ LoginLimit \in Nat
      BY <1>1, <2>3, AuthAssumption DEF IInv, Types
    <2>5. time + Skew[s] < t.iat + TTL
      BY <2>1, <2>3 DEF Clock
    <2> HIDE DEF p
    <2>6. time < revoked[t.sub][p] + TTL + LoginLimit + MaxSkew
      BY <2>3, <2>4, <2>5
    <2> QED BY <2>6 DEF p
  <1> QED BY <1>1, Invariance, PTL

\* A token bought with a password that a later start has replaced opens nothing,
\* on any server, once TTL, the time of a login and the disagreement of the
\* clocks have passed since that start.
THEOREM OldPasswordBound == Spec => []OldPasswordIsBounded
  <1>1. ASSUME IInv PROVE OldPasswordIsBounded
    <2> SUFFICES ASSUME NEW t \in tokens, NEW s \in Servers, NEW route \in Routes,
                        t.sub \in DemoUsers, t.password # demo.password,
                        Authorize(s, t, route) = 200
                 PROVE  time < demo.since + TTL + LoginLimit + MaxSkew
      BY DEF OldPasswordIsBounded
    <2>1. Clock(s) < t.exp
      <3>1. ~Verify(s, t) => Authorize(s, t, route) = 401
        BY DEF Authorize
      <3> QED BY <3>1 DEF Verify
    <2>2. /\ t.at <= demo.since + LoginLimit /\ t.at \in Nat
          /\ t.iat \in Nat /\ t.iat <= t.at + MaxSkew /\ t.exp = t.iat + TTL
      BY <1>1 DEF IInv, GoodToken
    <2>3. /\ demo.since \in Nat /\ time \in Nat /\ Skew[s] \in Nat
          /\ MaxSkew \in Nat /\ TTL \in Nat /\ LoginLimit \in Nat
      BY <1>1, AuthAssumption DEF IInv, Types
    <2> QED BY <2>1, <2>2, <2>3 DEF Clock
  <1> QED BY <1>1, Invariance, PTL

\* A token is good on every server while all their clocks agree that it lives.
THEOREM TokensWork == Spec => []TokensWorkEverywhere
  <1>1. ASSUME IInv PROVE TokensWorkEverywhere
    <2> SUFFICES ASSUME NEW t \in tokens, NEW s \in Servers,
                        NEW route \in DOMAIN RoutePermission,
                        RoutePermission[route] \in t.permissions,
                        t.at + MaxSkew <= time, time < t.at + TTL - MaxSkew
                 PROVE  Authorize(s, t, route) = 200
      BY DEF TokensWorkEverywhere
    <2>1. /\ t.at \in Nat /\ t.iat \in Nat /\ t.at <= t.iat /\ t.iat <= t.at + MaxSkew
          /\ t.exp = t.iat + TTL
      BY <1>1 DEF IInv, GoodToken
    <2>2. /\ time \in Nat /\ Skew[s] \in Nat /\ Skew[s] <= MaxSkew /\ MaxSkew \in Nat
          /\ TTL \in Nat /\ TTL > 0
      BY <1>1, AuthAssumption DEF IInv, Types
    <2>3. Validate(t)
      BY <2>1, <2>2 DEF Validate
    <2>4. t.iat <= time + Skew[s] /\ time + Skew[s] < t.exp
      BY <2>1, <2>2
    <2> QED BY <2>3, <2>4 DEF Authorize, Verify, Clock
  <1> QED BY <1>1, Invariance, PTL

-----------------------------------------------------------------------------
\* What a request has left behind on its way through the chain.  Up to the end
\* of the handler the recorder has seen all that was sent.
Recording ==
    /\ rec = [status |-> rec.status, wroteHeader |-> rec.wroteHeader]
    /\ rec.wroteHeader \in BOOLEAN
    /\ body \in Nat /\ (body > 0 => rec.wroteHeader)
    /\ IF rec.wroteHeader
       THEN rec.status \in Statuses /\ wire = [status |-> rec.status, id |-> header]
       ELSE wire = None

Chain ==
    /\ step \in {"idle", "handler"} => Recording
    /\ step = "idle" => ~rec.wroteHeader
    /\ step # "idle" => /\ header = requestID(sent) /\ id = header
                        /\ header \in SentIDs \cup {Generated}
    /\ step # "done" => lines = <<>>
    /\ LogMatchesResponse
    /\ PanicsAreAnswered

\* A response that was sent is something.
LEMMA SentIsSomething ==
    ASSUME NEW status \in Statuses, NEW i \in SentIDs \cup {Generated}
    PROVE  None # [status |-> status, id |-> i]
  BY MiddlewareAssumption

\* The statuses that the chain itself sends.
LEMMA OwnStatuses == 200 \in Statuses /\ 500 \in Statuses
  <1>1. "api" \in DOMAIN Answers /\ 200 \in Answers["api"] /\ 500 \in Answers["api"]
    BY DEF Answers
  <1> QED BY <1>1 DEF Statuses

\* The recorder and the wire after the first status.
LEMMA FirstStatus ==
    ASSUME Recording, ~rec.wroteHeader, NEW status \in Statuses,
           rec' = Recorded(status), Transmit(status), UNCHANGED header, body' \in Nat
    PROVE  Recording'
  <1>1. rec' = [status |-> status, wroteHeader |-> TRUE] /\ wire = None
    BY DEF Recorded, Recording
  <1>2. wire' = [status |-> status, id |-> header]
    BY <1>1 DEF Transmit
  <1>3. rec'.status = status /\ rec'.wroteHeader = TRUE
    BY <1>1
  <1> QED BY <1>1, <1>2, <1>3 DEF Recording

\* The one line of a request that has ended.
LEMMA OneLine ==
    ASSUME lines = <<>>, NEW line, lines' = Append(lines, line)
    PROVE  Range(lines)' = {line}
  <1>1. lines' = <<line>>
    OBVIOUS
  <1> QED BY <1>1 DEF Range

\* Every step of the chain keeps Chain.
LEMMA ChainStep ==
    ASSUME Chain, [ChainNext]_chainVars
    PROVE  Chain'
  <1>0. lines = <<>> => Range(lines) = {}
    BY DEF Range
  <1>1. ASSUME NEW p, NEW s, Arrive(p, s) PROVE Chain'
    <2>1. /\ step = "idle" /\ step' = "handler" /\ sent' = s
          /\ id' = requestID(s) /\ header' = requestID(s)
          /\ UNCHANGED <<rec, wire, body, lines>>
      BY <1>1 DEF Arrive
    <2>2. requestID(s) \in SentIDs \cup {Generated}
      BY MiddlewareAssumption DEF requestID
    <2>3. Recording'
      BY <2>1 DEF Chain, Recording
    <2> QED BY <1>0, <2>1, <2>2, <2>3
            DEF Chain, LogMatchesResponse, PanicsAreAnswered, requestID
  <1>2. ASSUME NEW status \in Statuses, WriteHeader(status) PROVE Chain'
    <2>1. Recording'
      BY <1>2, FirstStatus DEF WriteHeader, Chain, Recording
    <2> QED BY <1>0, <1>2, <2>1
            DEF WriteHeader, Chain, LogMatchesResponse, PanicsAreAnswered, requestID
  <1>3. CASE Write
    <2>0. /\ step = "handler" /\ Recording /\ body' = body + 1
          /\ UNCHANGED <<step, path, sent, id, header, lines>>
      BY <1>3 DEF Write, Chain
    <2>1. Recording'
      <3>1. CASE rec.wroteHeader
        <4>1. UNCHANGED <<rec, wire, header>> /\ body' = body + 1
          BY <1>3, <2>0, <3>1 DEF Write
        <4>2. body' \in Nat
          BY <2>0 DEF Recording
        <4> QED BY <2>0, <3>1, <4>1, <4>2 DEF Recording
      <3>2. CASE ~rec.wroteHeader
        <4>1. rec' = Recorded(200) /\ Transmit(200) /\ body' \in Nat
          BY <1>3, <2>0, <3>2 DEF Write, Recording
        <4> QED BY <4>1, <2>0, <3>2, OwnStatuses, FirstStatus
      <3> QED BY <3>1, <3>2
    <2> QED BY <1>0, <2>0, <2>1
            DEF Chain, LogMatchesResponse, PanicsAreAnswered, requestID
  <1>4. CASE Return
    <2> DEFINE line == [message |-> "http request", id |-> id, status |-> rec.status]
    <2>1. /\ step = "handler" /\ step' = "done" /\ lines = <<>> /\ Recording
          /\ body > 0 /\ lines' = Append(lines, line)
          /\ UNCHANGED <<path, sent, id, header, rec, wire, body>>
      BY <1>4 DEF Return, Chain
    <2>2. Range(lines)' = {line}
      BY <2>1, OneLine
    <2>3. /\ rec.status \in Statuses /\ wire = [status |-> rec.status, id |-> header]
          /\ header = requestID(sent) /\ id = header /\ header \in SentIDs \cup {Generated}
      BY <2>1 DEF Recording, Chain
    <2>4. wire # None /\ wire.status = rec.status /\ wire.id = id
      BY <2>3, SentIsSomething
    <2>5. line.message # "panic" /\ line.status = rec.status /\ line.id = id
      OBVIOUS
    <2> HIDE DEF line
    <2>6. LogMatchesResponse'
      BY Zenon, <2>1, <2>2, <2>4, <2>5 DEF LogMatchesResponse
    <2>7. PanicsAreAnswered'
      BY Zenon, <2>1, <2>2, <2>3, <2>4, <2>5 DEF PanicsAreAnswered, requestID
    <2> QED BY <2>1, <2>3, <2>6, <2>7 DEF Chain, requestID
  <1>5. CASE Panic
    <2> DEFINE line == [message |-> "panic", id |-> None, status |-> None]
    <2>1. /\ step = "handler" /\ step' = "done" /\ lines = <<>> /\ Recording
          /\ Transmit(500) /\ lines' = Append(lines, line)
          /\ UNCHANGED <<path, sent, id, header, rec>>
      BY <1>5 DEF Panic, WriteError, Chain
    <2>2. Range(lines)' = {line}
      BY <2>1, OneLine
    <2>3. header = requestID(sent) /\ id = header /\ header \in SentIDs \cup {Generated}
      BY <2>1 DEF Chain
    <2>4. /\ wire' # None /\ wire'.id = header
          /\ ~rec.wroteHeader => wire'.status = 500
      <3>1. CASE rec.wroteHeader
        BY <2>1, <2>3, <3>1, SentIsSomething DEF Recording, Transmit
      <3>2. CASE ~rec.wroteHeader
        BY <2>1, <2>3, <3>2, OwnStatuses, SentIsSomething DEF Recording, Transmit
      <3> QED BY <3>1, <3>2
    <2>5. LogMatchesResponse'
      <3>1. line.message # "http request"
        OBVIOUS
      <3> HIDE DEF line
      <3> QED BY Zenon, <2>2, <3>1 DEF LogMatchesResponse
    <2>6. PanicsAreAnswered'
      BY <2>1, <2>2, <2>3, <2>4 DEF PanicsAreAnswered, requestID
    <2> QED BY <2>1, <2>3, <2>5, <2>6 DEF Chain, requestID
  <1>6. CASE PanicAbort
    BY <1>0, <1>6 DEF PanicAbort, Chain, LogMatchesResponse, PanicsAreAnswered, requestID
  <1>7. CASE UNCHANGED chainVars
    BY <1>7 DEF chainVars, Chain, Recording, LogMatchesResponse, PanicsAreAnswered, requestID
  <1> QED BY <1>1, <1>2, <1>3, <1>4, <1>5, <1>6, <1>7 DEF ChainNext, Ended

\* Chain holds from the arrival of a request to its end.
LEMMA ChainInvariant == ChainSpec => []Chain
  <1>1. ChainInit => Chain
    BY DEF ChainInit, Chain, Recording, LogMatchesResponse, PanicsAreAnswered, Range
  <1> QED BY <1>1, ChainStep, PTL DEF ChainSpec

\* For any ids that clients send, a line of the access log has the status and the
\* X-Request-ID that were sent, whether the handler set a status or left it to
\* its first Write.
THEOREM LogIsRight == ChainSpec => []LogMatchesResponse
  <1>1. Chain => LogMatchesResponse
    BY DEF Chain
  <1> QED BY <1>1, ChainInvariant, PTL

\* Wherever the handler panics, a request that ends has a response with its id,
\* and 500 unless a status had gone out before the panic.
THEOREM PanicsGetAnAnswer == ChainSpec => []PanicsAreAnswered
  <1>1. Chain => PanicsAreAnswered
    BY DEF Chain
  <1> QED BY <1>1, ChainInvariant, PTL
=============================================================================
