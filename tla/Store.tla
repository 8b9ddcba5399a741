-------------------------------- MODULE Store --------------------------------
(***************************************************************************)
(* The repository package and the PostgreSQL tables under it               *)
(* (internal/repository, migrations 1, 3 and 4), as far as a transfer uses *)
(* them.                                                                   *)
(*                                                                         *)
(* The committed tables are balance, transfers and ledger.  A transaction  *)
(* runs at READ COMMITTED: it reads committed rows, and what it writes     *)
(* stays in newRow, newBalance and newEntries, seen by nobody else, until  *)
(* it commits.  Two things of an open transaction are felt by the others:  *)
(* the account rows it has locked FOR UPDATE, and the unique key of the    *)
(* transfer it has inserted.                                               *)
(*                                                                         *)
(* A request runs at most one transaction, so the transaction carries the  *)
(* request's name, and a transfer row has the name of the request that     *)
(* inserted it for its id (gen_random_uuid() never repeats).               *)
(***************************************************************************)
EXTENDS Entities, FiniteSets

CONSTANTS Requests,   \* the calls of Create
          None,       \* no request
          Accounts,   \* ids of the rows of table accounts
          Opening,    \* their balances before the first transfer
          Owner,      \* accounts.user_id
          Currency,   \* accounts.currency
          Users,
          KeyTexts,   \* what a client may send as Idempotency-Key
          Keys,       \* UUIDs
          UUIDOf      \* the UUID a text denotes; None when it denotes none

ASSUME StoreAssumption ==
    /\ None \notin Requests \cup Keys
    /\ Accounts \subseteq Nat \ {BlankID} /\ IsFiniteSet(Accounts)
    /\ Opening \in [Accounts -> 0..MaxInt64]
    /\ Owner \in [Accounts -> Users]
    /\ Currency \in [Accounts -> CurrencyCodes]
    /\ UUIDOf \in [KeyTexts -> Keys \cup {None}]

VARIABLES balance,    \* accounts.balance, committed
          transfers,  \* committed rows of transfers
          ledger,     \* committed rows of ledger_entries
          sequence,   \* the last value of the identity column ledger_entries.id
          rowLock,    \* who holds each account row FOR UPDATE
          newRow,     \* uncommitted: the transfer a transaction inserted
          newBalance, \* uncommitted: the balances it updated
          newEntries  \* uncommitted: the ledger entries it appended

committed == <<balance, transfers, ledger>>
written == <<newRow, newBalance, newEntries>>
storeVars == <<committed, sequence, rowLock, written>>

Statuses == {"completed", "failed"}

Transfer == [id: Requests, user: Users, key: Keys,
             request: CreateTransfer, status: Statuses]

LedgerEntry == [id: Nat, transfer: Requests, account: Accounts,
                amount: Int, balanceAfter: Nat]

NoBalances == [a \in {} |-> 0]

StoreInit ==
    /\ balance = Opening
    /\ transfers = {}
    /\ ledger = {}
    /\ sequence = 0
    /\ rowLock = [a \in Accounts |-> None]
    /\ newRow = [r \in Requests |-> {}]
    /\ newBalance = [r \in Requests |-> NoBalances]
    /\ newEntries = [r \in Requests |-> {}]

-----------------------------------------------------------------------------
\* SELECT ... WHERE id = ANY(ids) ORDER BY id FOR UPDATE.  The rows that exist
\* are locked one by one in ascending id; each is read when its lock is
\* granted, in the version committed then.
Held(r) == {a \in Accounts : rowLock[a] = r}

\* Faulty variant: no ORDER BY.
AnyToLock(r, ids) == (ids \cap Accounts) \ Held(r)
NextToLock(r, ids) ==
    {a \in (ids \cap Accounts) \ Held(r) :
        \A b \in (ids \cap Accounts) \ Held(r) : a <= b}

\* Faulty variant: no FOR UPDATE, the row is taken from its holder.
LockWithoutWaiting(r, a) ==
    /\ rowLock' = [rowLock EXCEPT ![a] = r]
    /\ UNCHANGED <<committed, sequence, written>>
LockRow(r, a) ==
    /\ rowLock[a] = None
    /\ rowLock' = [rowLock EXCEPT ![a] = r]
    /\ UNCHANGED <<committed, sequence, written>>

\* INSERT ... ON CONFLICT (user_id, idempotency_key) DO NOTHING waits while
\* another open transaction has inserted the same key.
SameKey(t, user, key) == t.user = user /\ t.key = key

\* Faulty variant: look before insert, with no unique constraint.
NeverInFlight(r, user, key) == FALSE
KeyInFlight(r, user, key) ==
    \E q \in Requests \ {r} : \E t \in newRow[q] : SameKey(t, user, key)

StoredUnder(user, key) == {t \in transfers : SameKey(t, user, key)}

InsertTransfer(r, row) ==
    /\ newRow' = [newRow EXCEPT ![r] = {row}]
    /\ UNCHANGED <<committed, sequence, rowLock, newBalance, newEntries>>

\* parseKey: every text form of a UUID is the same key; the zero UUID and a
\* text that is no UUID are refused.
parseKey(text) == UUIDOf[text]

\* replay: the error for the caller of a stored transfer.
\* Faulty variant: the request is not compared.
replayAnything(stored, request) == Nil
\* Faulty variant: a comparison that never succeeds.
replayNothing(stored, request) == "ErrIdempotencyConflict"
replay(stored, request) ==
    IF stored.request # request THEN "ErrIdempotencyConflict" ELSE Nil

\* UPDATE accounts SET balance, under CHECK (balance >= 0).
BalancesAccepted(balances) == \A a \in DOMAIN balances : balances[a] >= 0

SaveBalances(r, balances) ==
    /\ newBalance' = [newBalance EXCEPT ![r] = balances]
    /\ UNCHANGED <<committed, sequence, rowLock, newRow, newEntries>>

\* INSERT INTO ledger_entries, under CHECK (amount <> 0) and
\* CHECK (balance_after >= 0).  The identity column counts up outside the
\* transaction: a rollback leaves a gap.
EntriesAccepted(entries) == \A e \in entries : e.amount # 0 /\ e.balanceAfter >= 0

AppendEntries(r, entries) ==
    /\ newEntries' = [newEntries EXCEPT ![r] = entries]
    /\ sequence' = sequence + 2
    /\ UNCHANGED <<committed, rowLock, newRow, newBalance>>

-----------------------------------------------------------------------------
\* The end of a transaction: its locks go, and its writes are published or
\* dropped together.
\* Faulty variant: row locks outlive the transaction.
ReleaseWithoutUnlock(r) ==
    /\ newRow' = [newRow EXCEPT ![r] = {}]
    /\ newBalance' = [newBalance EXCEPT ![r] = NoBalances]
    /\ newEntries' = [newEntries EXCEPT ![r] = {}]
    /\ UNCHANGED <<sequence, rowLock>>
Release(r) ==
    /\ rowLock' = [a \in Accounts |-> IF rowLock[a] = r THEN None ELSE rowLock[a]]
    /\ newRow' = [newRow EXCEPT ![r] = {}]
    /\ newBalance' = [newBalance EXCEPT ![r] = NoBalances]
    /\ newEntries' = [newEntries EXCEPT ![r] = {}]
    /\ UNCHANGED sequence

CommitTx(r) ==
    /\ balance' = [a \in Accounts |-> IF a \in DOMAIN newBalance[r]
                                      THEN newBalance[r][a] ELSE balance[a]]
    /\ transfers' = transfers \cup newRow[r]
    /\ ledger' = ledger \cup newEntries[r]
    /\ Release(r)

\* Faulty variant: the transfer is inserted outside the transaction.
RollbackBalancesOnly(r) ==
    /\ Release(r)
    /\ transfers' = transfers \cup newRow[r]
    /\ UNCHANGED <<balance, ledger>>
RollbackTx(r) ==
    /\ Release(r)
    /\ UNCHANGED committed
=============================================================================
