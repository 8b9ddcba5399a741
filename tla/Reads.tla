-------------------------------- MODULE Reads --------------------------------
(***************************************************************************)
(* The read-only routes next to running transfers: GET /accounts,          *)
(* GET /accounts/{id} and GET /transfers/{id}, from the handlers through   *)
(* the services down to ListByUser, FindOwned and FindByID.                *)
(*                                                                         *)
(* Each is one SELECT outside any transaction, on a connection of the pool *)
(* that Create uses too.  The statement sees the rows committed when it    *)
(* starts; the rows then arrive one after another while transfers commit.  *)
(***************************************************************************)
EXTENDS TransferService, Functions

CONSTANTS Readers,  \* the GET messages that are sent
          Gets      \* what they ask for: [route, user, id]

VARIABLES get,      \* the message; None before it is sent
          step,     \* idle, query, rows or done
          seen,     \* the snapshot its SELECT runs in
          shown,    \* the rows collected, of accounts or of transfers
          code,     \* the status code; 0 before the response
          known,    \* transfers already reported to somebody when it was sent
          earlier   \* reads already answered when it was sent

readVars == <<get, step, seen, shown, code, known, earlier>>
allVars == <<vars, readVars>>

ReadInit ==
    /\ Init
    /\ get = [d \in Readers |-> None]
    /\ step = [d \in Readers |-> "idle"]
    /\ seen = [d \in Readers |-> None]
    /\ shown = [d \in Readers |-> {}]
    /\ code = [d \in Readers |-> 0]
    /\ known = [d \in Readers |-> {}]
    /\ earlier = [d \in Readers |-> {}]

Stored == {t.id : t \in transfers}

Send(d, g) ==
    /\ step[d] = "idle"
    /\ step' = [step EXCEPT ![d] = "query"]
    /\ get' = [get EXCEPT ![d] = g]
    /\ known' = [known EXCEPT ![d] = {outcome[r].transfer.id : r \in
                    {q \in Requests : pc[q] = "done" /\ outcome[q].transfer # NoTransfer}}]
    /\ earlier' = [earlier EXCEPT ![d] = {e \in Readers : step[e] = "done"}]
    /\ UNCHANGED <<vars, seen, shown, code>>

-----------------------------------------------------------------------------
\* Connections that reads hold, from the query to the last row.
Reading == {d \in Readers : step[d] = "rows"}

ConnectionFree == Cardinality(Connected) + Cardinality(Reading) < MaxConns

\* Query: the pool gives a connection and the SELECT starts.
Query(d) ==
    /\ step[d] = "query"
    /\ ConnectionFree
    /\ step' = [step EXCEPT ![d] = "rows"]
    /\ seen' = [seen EXCEPT ![d] = [balance |-> balance, transfers |-> transfers]]
    /\ UNCHANGED <<vars, get, shown, code, known, earlier>>

\* ListByUser: WHERE user_id = $1; FindOwned: WHERE id = $1 AND user_id = $2.
Visible(g) ==
    {a \in Accounts : Owner[a] = g.user /\ (g.route = "listAccounts" \/ a = g.id)}

\* FindByID: WHERE id = $1 AND user_id = $2.  An id that is no UUID matches none.
FindByID(rows, g) == {t \in rows : t.id = g.id /\ t.user = g.user}

\* scanAccount: one row, in the version of the snapshot.
\* Faulty variant: the balance is looked up again for each row.
CurrentRow(d, a) == [account |-> a, balance |-> balance[a]]
RowVersion(d, a) == [account |-> a, balance |-> seen[d].balance[a]]

NextRow(d) ==
    LET left == Visible(get[d]) \ {row.account : row \in shown[d]}
    IN {a \in left : \A b \in left : a <= b}

CollectRow(d) ==
    /\ step[d] = "rows"
    /\ get[d].route # "getTransfer"
    /\ \E a \in NextRow(d) :
        shown' = [shown EXCEPT ![d] = @ \cup {RowVersion(d, a)}]
    /\ UNCHANGED <<vars, get, step, seen, code, known, earlier>>

\* The response: no row is 404 where one row was asked for, and an empty list
\* otherwise.
Answer(d, c) ==
    /\ step' = [step EXCEPT ![d] = "done"]
    /\ code' = [code EXCEPT ![d] = c]
    /\ seen' = [seen EXCEPT ![d] = None]
    /\ UNCHANGED <<vars, get, known, earlier>>

RespondAccounts(d) ==
    /\ step[d] = "rows"
    /\ get[d].route # "getTransfer"
    /\ NextRow(d) = {}
    /\ Answer(d, IF get[d].route = "getAccount" /\ shown[d] = {} THEN 404 ELSE 200)
    /\ UNCHANGED shown

RespondTransfer(d) ==
    LET found == FindByID(seen[d].transfers, get[d]) IN
    /\ step[d] = "rows"
    /\ get[d].route = "getTransfer"
    /\ shown' = [shown EXCEPT ![d] = found]
    /\ Answer(d, IF found = {} THEN 404 ELSE 200)

\* The statement fails, or the deadline passes on it or on the wait for a
\* connection: nothing that was collected is shown.
ReadFails(d) ==
    /\ step[d] \in {"query", "rows"}
    /\ Answer(d, 500)
    /\ shown' = [shown EXCEPT ![d] = {}]

ServeRead(d) ==
    Query(d) \/ CollectRow(d) \/ RespondAccounts(d) \/ RespondTransfer(d)

\* Transfers run as before, but share the pool with the reads.
ServeTransfer(r) ==
    /\ Serve(r)
    /\ pc[r] = "begin" => ConnectionFree
    /\ UNCHANGED readVars

ReadsQuiet ==
    /\ Quiet
    /\ \A d \in Readers : step[d] = "done"
    /\ UNCHANGED readVars

ReadNext ==
    \/ \E r \in Requests :
        \/ (\E c \in Calls : Create(r, c)) /\ UNCHANGED readVars
        \/ ServeTransfer(r)
        \/ Fault(r) /\ UNCHANGED readVars
    \/ \E d \in Readers : (\E g \in Gets : Send(d, g)) \/ ServeRead(d) \/ ReadFails(d)
    \/ ReadsQuiet

ReadSpec == ReadInit /\ [][ReadNext]_allVars

\* Handlers go on with what can go on, and sessions nobody reads from end.
Proceeding ==
    /\ \A r \in Requests : WF_allVars(ServeTransfer(r))
    /\ \A d \in Readers : WF_allVars(ServeRead(d))

\* The database hangs: no statement need ever return, and only the deadline of
\* each request (withTimeout) is sure to come.
Hanging ==
    /\ \A r \in Requests : WF_allVars(Interrupt(r) /\ UNCHANGED readVars)
    /\ \A d \in Readers : WF_allVars(ReadFails(d))

LiveSpec == ReadSpec /\ (Proceeding \/ Hanging)

-----------------------------------------------------------------------------
\* What a transfer does to an account, and what the completed ones of a set of
\* transfers did to it.
Effect(t, a) ==
    IF a = t.request.to THEN t.request.amount
    ELSE IF a = t.request.from THEN -t.request.amount ELSE 0

Moved(T, a) ==
    LET done == {t \in transfers : t.id \in T /\ t.status = "completed"}
    IN SumFunction([t \in done |-> Effect(t, a)])

\* A response shows the bank as it is after exactly these transfers.
ShowsExactly(d, T) ==
    IF get[d].route = "getTransfer"
    THEN shown[d] = FindByID({t \in transfers : t.id \in T}, get[d])
    ELSE shown[d] = {[account |-> a, balance |-> Opening[a] + Moved(T, a)] :
                        a \in Visible(get[d])}

\* All answers tell one history.  Each read shows the bank after a set of whole
\* transfers (ListByUser never shows one leg of a transfer between two accounts
\* of the caller); the set holds every transfer somebody was told of before the
\* read was sent, and everything that a read answered before has shown.
ReadsTellOneHistory ==
    LET answered == {d \in Readers : code[d] \in {200, 404}} IN
    \E T \in [answered -> SUBSET Stored] :
        \A d \in answered :
            /\ known[d] \subseteq T[d]
            /\ ShowsExactly(d, T[d])
            /\ \A e \in earlier[d] \cap answered : T[e] \subseteq T[d]

\* Reads and transfers that share the pool do not starve each other, and a
\* database that hangs keeps nobody waiting for good: every message is answered.
EverybodyIsAnswered ==
    /\ \A d \in Readers : step[d] # "idle" ~> step[d] = "done"
    /\ \A r \in Requests : pc[r] # "idle" ~> Answered(r)

\* Unless the database hangs no account stays locked, not even one whose
\* transaction lost its client.
LocksAreReleased ==
    Proceeding => \A a \in Accounts : rowLock[a] # None ~> rowLock[a] = None
=============================================================================
