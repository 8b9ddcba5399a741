--------------------------- MODULE TransferService ---------------------------
(***************************************************************************)
(* transfer.Service.Create (internal/service/transfer), run by any number  *)
(* of concurrent requests over one database.                               *)
(*                                                                         *)
(* Every statement Create sends is an action of its own, because other     *)
(* requests run between two statements; the code between two statements    *)
(* touches only local variables and belongs to the statement before it or  *)
(* to Decide.  The steps of a request:                                     *)
(*                                                                         *)
(*   idle -> begin -> lock -> insert -> save -> append -> commit -> ack    *)
(*                                   \-> select ------/                    *)
(*                                                                         *)
(* An error leads from any of them to rollback.  Every request ends in     *)
(* done.                                                                   *)
(*                                                                         *)
(* A request loses its connection when its deadline passes, when the       *)
(* network fails or when the process dies.  Its caller is answered (or     *)
(* finds the connection broken) at once, while the transaction lives on    *)
(* inside PostgreSQL as an orphan: the statement already sent may still be *)
(* executed, a COMMIT included, until the server notices and aborts it.    *)
(***************************************************************************)
EXTENDS Store

CONSTANTS Calls,     \* the arguments Create is called with
          NoUser,    \* a blank user id
          MaxConns   \* DB_MAX_CONNS, the size of the pool

ASSUME ServiceAssumption ==
    /\ Calls \subseteq [user: Users, key: KeyTexts, request: CreateTransfer]
    /\ NoUser \in Users
    /\ None \notin Calls
    /\ MaxConns \in Nat \ {0}

VARIABLES pc,       \* the next step of each request
          call,     \* its arguments; None before the call
          copy,     \* the accounts it read: balances in memory
          status,   \* draft.Status
          outcome,  \* result, created and err: what Create returns
          orphans   \* requests answered while their transaction is still open

serviceVars == <<pc, call, copy, status, outcome, orphans>>
vars == <<storeVars, serviceVars>>

InTx == {"lock", "insert", "select", "save", "append", "commit", "rollback", "abort"}
PCs == {"idle", "begin", "ack", "done"} \cup InTx

Errors == {Nil, "ErrForbidden", "ErrInvalidTransfer", "ErrInvalidAmount",
           "ErrDestinationNotFound", "ErrCurrencyMismatch", "ErrBalanceOverflow",
           "ErrIdempotencyConflict", "internal"}

\* entities.Transfer{}
NoTransfer == [id |-> None]

Failure(e) == [transfer |-> NoTransfer, created |-> FALSE, err |-> e]
Success(t, created) == [transfer |-> t, created |-> created, err |-> Nil]

Outcomes == [transfer: Transfer \cup {NoTransfer}, created: BOOLEAN, err: Errors]

NoCopy == [a \in Accounts |-> 0]

Init ==
    /\ StoreInit
    /\ pc = [r \in Requests |-> "idle"]
    /\ call = [r \in Requests |-> None]
    /\ copy = [r \in Requests |-> NoCopy]
    /\ status = [r \in Requests |-> "completed"]
    /\ outcome = [r \in Requests |-> Failure(Nil)]
    /\ orphans = {}

Request(r) == call[r].request
Key(r) == parseKey(call[r].key)

\* Whether Create has returned (or its caller was cut off) to this request.
Answered(r) == pc[r] = "done" \/ r \in orphans

\* The caller of a lost connection never runs the step after the statement.
Goto(r, next) == pc' = [pc EXCEPT ![r] = IF r \in orphans THEN "abort" ELSE next]

\* The closure returns an error: BeginTxFunc rolls back.
Raise(r, e) ==
    /\ Goto(r, "rollback")
    /\ outcome' = [outcome EXCEPT ![r] = IF r \in orphans THEN @ ELSE Failure(e)]

\* The end of Create; its local variables go with it.
Finish(r) ==
    /\ pc' = [pc EXCEPT ![r] = "done"]
    /\ copy' = [copy EXCEPT ![r] = NoCopy]
    /\ status' = [status EXCEPT ![r] = "completed"]
    /\ orphans' = orphans \ {r}
    /\ UNCHANGED call

-----------------------------------------------------------------------------
\* The entry of Create: a blank user and a malformed request are answered
\* before any transaction.
Create(r, c) ==
    LET e == IF c.user = NoUser THEN "ErrForbidden" ELSE Validate(c.request) IN
    /\ pc[r] = "idle"
    /\ call' = [call EXCEPT ![r] = c]
    /\ pc' = [pc EXCEPT ![r] = IF e = Nil THEN "begin" ELSE "done"]
    /\ outcome' = [outcome EXCEPT ![r] = Failure(e)]
    /\ UNCHANGED <<storeVars, copy, status, orphans>>

\* WithinTx takes a connection of the pool and sends BEGIN.  A connection is
\* in use until its transaction has ended, or until it is lost.
Connected == {q \in Requests : pc[q] \in InTx /\ q \notin orphans}

Begin(r) ==
    /\ pc[r] = "begin"
    /\ Cardinality(Connected) < MaxConns
    /\ pc' = [pc EXCEPT ![r] = "lock"]
    /\ UNCHANGED <<storeVars, call, copy, status, outcome, orphans>>

\* LockForTransfer, one row at a time: each lock may have to be waited for.
Wanted(r) == {Request(r).from, Request(r).to}

LockForTransfer(r) ==
    /\ pc[r] = "lock"
    /\ \E a \in NextToLock(r, Wanted(r)) :
        /\ LockRow(r, a)
        /\ copy' = [copy EXCEPT ![r][a] = balance[a]]
    /\ UNCHANGED <<pc, call, status, outcome, orphans>>

\* The checks on the locked rows, up to the debit and the credit in memory.
\* Faulty variant: ownership and currency are not checked.
RefusalOfAnyOwner(r) ==
    LET q == Request(r) IN
    IF q.from \notin Held(r) THEN "ErrForbidden"
    ELSE IF q.to \notin Held(r) THEN "ErrDestinationNotFound"
    ELSE IF DebitError(copy[r][q.from], q.amount) # Nil THEN Nil
    ELSE CreditError(copy[r][q.to], q.amount)
Refusal(r) ==
    LET q == Request(r) IN
    IF q.from \notin Held(r) \/ Owner[q.from] # call[r].user THEN "ErrForbidden"
    ELSE IF q.to \notin Held(r) THEN "ErrDestinationNotFound"
    ELSE IF Currency[q.from] # q.currency \/ Currency[q.to] # q.currency
         THEN "ErrCurrencyMismatch"
    ELSE LET debit == DebitError(copy[r][q.from], q.amount) IN
         IF debit = "ErrInsufficientFunds" THEN Nil
         ELSE IF debit # Nil THEN debit
         ELSE CreditError(copy[r][q.to], q.amount)

Funded(r) == DebitError(copy[r][Request(r).from], Request(r).amount) = Nil

Decide(r) ==
    /\ pc[r] = "lock"
    /\ r \notin orphans
    /\ NextToLock(r, Wanted(r)) = {}
    /\ LET q == Request(r) IN
       \/ /\ Refusal(r) # Nil
          /\ Raise(r, Refusal(r))
          /\ UNCHANGED <<copy, status>>
       \/ /\ Refusal(r) = Nil
          /\ ~Funded(r)
          /\ status' = [status EXCEPT ![r] = "failed"]
          /\ pc' = [pc EXCEPT ![r] = "insert"]
          /\ UNCHANGED <<copy, outcome>>
       \/ /\ Refusal(r) = Nil
          /\ Funded(r)
          /\ copy' = [copy EXCEPT ![r][q.from] = Debited(@, q.amount),
                                  ![r][q.to] = Credited(@, q.amount)]
          /\ pc' = [pc EXCEPT ![r] = "insert"]
          /\ UNCHANGED <<status, outcome>>
    /\ UNCHANGED <<storeVars, call, orphans>>

\* CreateIdempotent: the INSERT, which waits for an open transaction that has
\* inserted the same key and returns a row only if the key was free.
Draft(r) == [id |-> r, user |-> call[r].user, key |-> Key(r),
             request |-> Request(r), status |-> status[r]]

\* Faulty variant: the INSERT does not wait for a key in flight.
SelectWithoutWaiting(r) ==
    /\ pc[r] = "insert"
    /\ Key(r) # None
    /\ IF KeyInFlight(r, call[r].user, Key(r)) \/ StoredUnder(call[r].user, Key(r)) # {}
       THEN Goto(r, "select") /\ UNCHANGED <<storeVars, outcome>>
       ELSE /\ InsertTransfer(r, Draft(r))
            /\ outcome' = [outcome EXCEPT ![r] = Success(Draft(r), TRUE)]
            /\ Goto(r, IF status[r] = "completed" THEN "save" ELSE "commit")
    /\ UNCHANGED <<call, copy, status, orphans>>
CreateIdempotent(r) ==
    /\ pc[r] = "insert"
    /\ \/ /\ Key(r) = None
          /\ Raise(r, "ErrInvalidTransfer")
          /\ UNCHANGED storeVars
       \/ /\ Key(r) # None
          /\ ~KeyInFlight(r, call[r].user, Key(r))
          /\ IF StoredUnder(call[r].user, Key(r)) = {}
             THEN /\ InsertTransfer(r, Draft(r))
                  /\ outcome' = [outcome EXCEPT ![r] =
                        IF r \in orphans THEN @ ELSE Success(Draft(r), TRUE)]
                  /\ Goto(r, IF status[r] = "completed" THEN "save" ELSE "commit")
             ELSE /\ Goto(r, "select")
                  /\ UNCHANGED <<storeVars, outcome>>
    /\ UNCHANGED <<call, copy, status, orphans>>

\* CreateIdempotent: the SELECT of the row that holds the key, in a snapshot of
\* its own, and replay.
FindExisting(r) ==
    /\ pc[r] = "select"
    /\ r \notin orphans
    /\ LET found == StoredUnder(call[r].user, Key(r)) IN
       IF found = {}
       THEN Raise(r, "internal")
       ELSE \E t \in found :
            IF replay(t, Request(r)) # Nil
            THEN Raise(r, replay(t, Request(r)))
            ELSE /\ outcome' = [outcome EXCEPT ![r] = Success(t, FALSE)]
                 /\ pc' = [pc EXCEPT ![r] = "commit"]
    /\ UNCHANGED <<storeVars, call, copy, status, orphans>>

\* Only a new, completed transfer is written to the accounts and the ledger.
Save(r) ==
    /\ pc[r] = "save"
    /\ LET balances == [a \in Wanted(r) |-> copy[r][a]]
       IN IF BalancesAccepted(balances)
          THEN SaveBalances(r, balances) /\ Goto(r, "append") /\ UNCHANGED outcome
          ELSE Raise(r, "internal") /\ UNCHANGED storeVars
    /\ UNCHANGED <<call, copy, status, orphans>>

\* Faulty variant: the balances before the transfer.
EntriesWithOldBalances(r) ==
    LET entry(n, a, amount) == [id |-> sequence + n, transfer |-> r, account |-> a,
                                amount |-> amount, balanceAfter |-> balance[a]]
    IN {entry(1, Request(r).from, -Request(r).amount),
        entry(2, Request(r).to, Request(r).amount)}
EntriesOf(r) ==
    LET entry(n, a, amount) == [id |-> sequence + n, transfer |-> r, account |-> a,
                                amount |-> amount, balanceAfter |-> copy[r][a]]
    IN {entry(1, Request(r).from, -Request(r).amount),
        entry(2, Request(r).to, Request(r).amount)}

AppendLedger(r) ==
    /\ pc[r] = "append"
    /\ IF EntriesAccepted(EntriesOf(r))
       THEN AppendEntries(r, EntriesOf(r)) /\ Goto(r, "commit") /\ UNCHANGED outcome
       ELSE Raise(r, "internal") /\ UNCHANGED storeVars
    /\ UNCHANGED <<call, copy, status, orphans>>

\* The closure returned nil: BeginTxFunc sends COMMIT.  The answer to an
\* orphan's COMMIT reaches nobody.
Commit(r) ==
    /\ pc[r] = "commit"
    /\ CommitTx(r)
    /\ IF r \in orphans
       THEN Finish(r)
       ELSE pc' = [pc EXCEPT ![r] = "ack"] /\ UNCHANGED <<call, copy, status, orphans>>
    /\ UNCHANGED outcome

Return(r) ==
    /\ pc[r] = "ack"
    /\ Finish(r)
    /\ UNCHANGED <<storeVars, outcome>>

Rollback(r) ==
    /\ pc[r] = "rollback"
    /\ r \notin orphans
    /\ RollbackTx(r)
    /\ Finish(r)
    /\ UNCHANGED outcome

-----------------------------------------------------------------------------
\* A statement is refused by the server.
Fail(r) ==
    /\ r \notin orphans
    /\ pc[r] \in InTx \ {"rollback", "abort"}
    /\ Raise(r, "internal")
    /\ UNCHANGED <<storeVars, call, copy, status, orphans>>

\* The connection is lost, or could not be had from the pool: the deadline of
\* the request and the death of the process included.  An error the closure
\* already returned is still the answer.
\* Faulty variant: no deadline on the wait for a connection.
InterruptInTx(r) ==
    /\ r \notin orphans
    /\ pc[r] \in InTx
    /\ outcome' = [outcome EXCEPT ![r] = Failure("internal")]
    /\ orphans' = orphans \cup {r}
    /\ UNCHANGED <<storeVars, pc, call, copy, status>>
Interrupt(r) ==
    /\ r \notin orphans
    /\ outcome' = [outcome EXCEPT ![r] =
                    IF pc[r] = "rollback" THEN @ ELSE Failure("internal")]
    /\ \/ /\ pc[r] \in InTx
          /\ orphans' = orphans \cup {r}
          /\ UNCHANGED <<pc, call, copy, status>>
       \/ /\ pc[r] \in {"begin", "ack"}
          /\ Finish(r)
    /\ UNCHANGED storeVars

\* PostgreSQL notices that the client of an open transaction is gone.
Abort(r) ==
    /\ r \in orphans
    /\ RollbackTx(r)
    /\ Finish(r)
    /\ UNCHANGED outcome

\* What the code and the server do for a call that was made.
Serve(r) ==
    \/ Begin(r) \/ LockForTransfer(r) \/ Decide(r)
    \/ CreateIdempotent(r) \/ FindExisting(r) \/ Save(r) \/ AppendLedger(r)
    \/ Commit(r) \/ Return(r) \/ Rollback(r) \/ Abort(r)

Fault(r) == Fail(r) \/ Interrupt(r)

\* Every call has been made and has ended.
Quiet ==
    /\ \A r \in Requests : pc[r] = "done"
    /\ UNCHANGED vars

Next ==
    \/ \E r \in Requests : (\E c \in Calls : Create(r, c)) \/ Serve(r) \/ Fault(r)
    \/ Quiet

Spec == Init /\ [][Next]_vars

-----------------------------------------------------------------------------
\* New balances for some of the accounts.
BalanceMaps == UNION {[S -> 0..MaxInt64] : S \in SUBSET Accounts}

\* Types.  The balances are the part that Debit and Credit have to earn: in
\* memory, in a transaction or committed, they stay within 0..MaxInt64.
TypeOK ==
    /\ balance \in [Accounts -> 0..MaxInt64]
    /\ transfers \subseteq Transfer
    /\ ledger \subseteq LedgerEntry
    /\ sequence \in Nat
    /\ rowLock \in [Accounts -> Requests \cup {None}]
    /\ newRow \in [Requests -> SUBSET Transfer]
    /\ newBalance \in [Requests -> BalanceMaps]
    /\ newEntries \in [Requests -> SUBSET LedgerEntry]
    /\ pc \in [Requests -> PCs]
    /\ call \in [Requests -> Calls \cup {None}]
    /\ copy \in [Requests -> [Accounts -> 0..MaxInt64]]
    /\ status \in [Requests -> Statuses]
    /\ outcome \in [Requests -> Outcomes]
    /\ orphans \subseteq Requests

\* The rows of transfers: the committed ones and those of open transactions.
AllRows == transfers \cup UNION {newRow[r] : r \in Requests}

\* The unique constraint is never about to be violated: over the committed
\* rows and those of all open transactions, one user's key names one transfer.
OneTransferPerKey ==
    \A s, t \in AllRows : SameKey(s, t.user, t.key) => s = t

\* Between the checks on the locked rows and COMMIT a request may wait for a
\* key; what it decided is still right all that time.  A funded transfer holds
\* in memory the committed balances moved by its amount, a failed one is still
\* short of funds.
DecisionStillValid ==
    \A r \in Requests :
        pc[r] \in {"insert", "select", "save", "append", "commit"} =>
            LET q == Request(r) IN
            IF status[r] = "failed"
            THEN balance[q.from] < q.amount
            ELSE /\ copy[r][q.from] = balance[q.from] - q.amount
                 /\ copy[r][q.to] = balance[q.to] + q.amount

\* An answer without an error shows a stored transfer of the caller, made of
\* exactly the request the caller sent, and says "created" only to the request
\* that made it: at most one caller per key is told so.
AnswersAreStored ==
    \A r \in Requests :
        LET t == outcome[r].transfer IN
        Answered(r) /\ outcome[r].err = Nil =>
            /\ t \in StoredUnder(call[r].user, Key(r))
            /\ t.request = Request(r)
            /\ outcome[r].created <=> t.id = r

\* The SELECT after a taken key always finds the row it conflicted with.
ConflictIsVisible ==
    \A r \in Requests :
        pc[r] = "select" => StoredUnder(call[r].user, Key(r)) # {}

\* Read in id order, the entries of an account are a statement of it: the
\* first starts from the opening balance, each next one from where the entry
\* before it ended, and the last ends at the account's balance.
Statement(a) == {e \in ledger : e.account = a}

StatementsAreChained ==
    \A a \in Accounts :
        /\ Statement(a) = {} => balance[a] = Opening[a]
        /\ \A e \in Statement(a) :
            LET earlier == {d \in Statement(a) : d.id < e.id}
                last == {d \in earlier : \A c \in earlier : c.id <= d.id}
                before == IF earlier = {} THEN {Opening[a]} ELSE {d.balanceAfter : d \in last}
            IN /\ before = {e.balanceAfter - e.amount}
               /\ (\A d \in Statement(a) : d.id <= e.id) => e.balanceAfter = balance[a]

\* Whom a request waits for: the holder of the next row it locks, the open
\* transaction that inserted its key, or, when the pool is exhausted, any one
\* of those that have a connection.
WaitsFor(r) ==
    {q \in Requests :
        \/ pc[r] = "begin" /\ q \in Connected /\ ~(Cardinality(Connected) < MaxConns)
        \/ pc[r] = "lock" /\ \E a \in NextToLock(r, Wanted(r)) : rowLock[a] = q
        \/ /\ pc[r] = "insert" /\ q # r
           /\ \E t \in newRow[q] : SameKey(t, call[r].user, Key(r))}

\* "Which is what keeps A->B and B->A from deadlocking": no set of requests
\* waits only for its own members, over row locks, keys and connections alike.
NoDeadlock ==
    \A S \in SUBSET Requests :
        (\A r \in S : WaitsFor(r) # {} /\ WaitsFor(r) \subseteq S) => S = {}

=============================================================================
