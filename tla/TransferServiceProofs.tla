----------------------- MODULE TransferServiceProofs ------------------------
(***************************************************************************)
(* The theorems about TransferService, for any sets of requests, accounts  *)
(* and calls, any pool size and any MaxInt64.                              *)
(*                                                                         *)
(* The inductive invariant IInv says of every request what it holds (its   *)
(* locks), what it knows (its copies of the balances) and what it has      *)
(* written so far, and of all requests together that their keys differ. A  *)
(* step of one request leaves the others untouched (Frame), and changes a  *)
(* committed balance only under the lock of its row (BalanceFrame), so     *)
(* each part is shown for the request that moves, action by action.        *)
(***************************************************************************)
EXTENDS TransferService, TLAPS

\* The steps after Decide.
Decided == {"insert", "select", "save", "append", "commit"}

\* Every request under way has a well-formed call; only an open transaction is
\* orphaned.
ControlOf(r) ==
    /\ pc[r] # "idle" => call[r] \in Calls
    /\ pc[r] \notin {"idle", "done"} => Validate(Request(r)) = Nil /\ call[r].user # NoUser
    /\ pc[r] \in {"idle", "begin", "lock", "done"} => status[r] = "completed"
    /\ r \in orphans => pc[r] \in InTx

Control == \A r \in Requests : ControlOf(r)

\* Who locks what: only accounts of its request, in ascending order, both of
\* them once it has decided, and none outside its transaction.
LockingOf(r) ==
    /\ pc[r] \notin InTx => \A a \in Accounts : rowLock[a] # r
    /\ \A a \in Accounts : rowLock[a] = r => a \in Wanted(r)
    /\ pc[r] = "lock" =>
        \A a, b \in Accounts :
            rowLock[a] = r /\ b \in Wanted(r) /\ rowLock[b] # r => a < b
    /\ pc[r] \in Decided =>
        LET q == Request(r) IN
        /\ q.from \in Accounts /\ rowLock[q.from] = r
        /\ q.to \in Accounts /\ rowLock[q.to] = r
        /\ Owner[q.from] = call[r].user
        /\ Currency[q.from] = q.currency /\ Currency[q.to] = q.currency

Locking == \A r \in Requests : LockingOf(r)

\* What a transaction knows of the balances it has locked.
FreshOf(r) ==
    LET q == Request(r) IN
    /\ pc[r] = "lock" =>
        \A a \in Accounts : rowLock[a] = r => copy[r][a] = balance[a]
    /\ pc[r] \in Decided =>
        IF status[r] = "failed"
        THEN balance[q.from] < q.amount
        ELSE /\ copy[r][q.from] = balance[q.from] - q.amount
             /\ copy[r][q.to] = balance[q.to] + q.amount

Fresh == \A r \in Requests : FreshOf(r)

\* What a transaction has written so far.
Entry(r, n, a, amount) == [id |-> n, transfer |-> r, account |-> a,
                           amount |-> amount, balanceAfter |-> copy[r][a]]

TwoEntries(r, m, n) == {Entry(r, m, Request(r).from, -Request(r).amount),
                        Entry(r, n, Request(r).to, Request(r).amount)}

WrittenOf(r) ==
    /\ pc[r] \in InTx => newRow[r] \subseteq {Draft(r)}
    /\ pc[r] \notin {"save", "append", "commit", "abort", "rollback"} =>
        newRow[r] = {} /\ newBalance[r] = NoBalances /\ newEntries[r] = {}
    /\ pc[r] \in {"save", "append"} => newRow[r] = {Draft(r)} /\ status[r] = "completed"
    /\ pc[r] = "save" => newBalance[r] = NoBalances /\ newEntries[r] = {}
    /\ pc[r] = "append" =>
        newBalance[r] = [a \in Wanted(r) |-> copy[r][a]] /\ newEntries[r] = {}
    /\ pc[r] = "commit" =>
        IF newRow[r] = {} \/ status[r] = "failed"
        THEN newBalance[r] = NoBalances /\ newEntries[r] = {}
        ELSE /\ newBalance[r] = [a \in Wanted(r) |-> copy[r][a]]
             /\ \E m, n \in 1..sequence : newEntries[r] = TwoEntries(r, m, n)

Written == \A r \in Requests : WrittenOf(r)

\* The keys of the committed rows and of the open transactions.
KeysDistinct ==
    /\ \A t \in transfers : pc[t.id] \in {"ack", "done"}
    /\ \A r \in Requests : \A t \in newRow[r] :
        /\ t.id = r
        /\ StoredUnder(t.user, t.key) = {}
        /\ \A q \in Requests : \A u \in newRow[q] : SameKey(u, t.user, t.key) => u = t
    /\ \A t, u \in transfers : SameKey(u, t.user, t.key) => u = t

IInv == TypeOK /\ Control /\ Locking /\ Fresh /\ Written /\ KeysDistinct

-----------------------------------------------------------------------------
\* The arguments of a call under way.
LEMMA CallTyped ==
    ASSUME TypeOK, Control, NEW r \in Requests, pc[r] # "idle"
    PROVE  /\ call[r] \in Calls
           /\ call[r].user \in Users /\ call[r].key \in KeyTexts
           /\ Request(r) \in CreateTransfer
           /\ Request(r).from \in Nat /\ Request(r).to \in Nat
           /\ Request(r).amount \in Int64
           /\ Key(r) \in Keys \cup {None}
  BY ServiceAssumption, StoreAssumption DEF Control, ControlOf, Request, CreateTransfer, Key, parseKey

\* No balances are some balances.
LEMMA EmptyMap == NoBalances \in BalanceMaps
  <1>1. NoBalances \in [{} -> 0..MaxInt64]
    BY DEF NoBalances
  <1> QED BY <1>1 DEF BalanceMaps

\* The initial state is well typed.
LEMMA TypeInit == Init => TypeOK
  <1> SUFFICES ASSUME Init PROVE TypeOK
    OBVIOUS
  <1>1. NoTransfer \in Transfer \cup {NoTransfer}
    OBVIOUS
  <1>2. NoCopy \in [Accounts -> 0..MaxInt64]
    BY EntitiesAssumption DEF NoCopy
  <1> QED
    BY <1>1, <1>2, EmptyMap, StoreAssumption, EntitiesAssumption
    DEF Init, StoreInit, TypeOK, PCs, Statuses, Outcomes, Failure, Errors, Nil

\* What Create may return.
LEMMA OutcomeTyped ==
    /\ \A e \in Errors : Failure(e) \in Outcomes
    /\ \A t \in Transfer, b \in BOOLEAN : Success(t, b) \in Outcomes
    /\ {Nil, "internal", "ErrForbidden", "ErrInvalidTransfer", "ErrIdempotencyConflict"} \subseteq Errors
  BY DEF Failure, Success, Outcomes, Errors, Nil

\* The copies of a request that has read nothing.
LEMMA CopyTyped == NoCopy \in [Accounts -> 0..MaxInt64]
  BY EntitiesAssumption DEF NoCopy

\* What the checks of Create establish when none of them refuses: it has both
\* rows, and neither the debit nor the credit wraps around.
LEMMA DecideTyped ==
    ASSUME TypeOK, Control, NEW r \in Requests, pc[r] = "lock",
           Refusal(r) = Nil
    PROVE  /\ Request(r).from \in Accounts /\ rowLock[Request(r).from] = r
           /\ Request(r).to \in Accounts /\ rowLock[Request(r).to] = r
           /\ Request(r).from # Request(r).to
           /\ Owner[Request(r).from] = call[r].user
           /\ Currency[Request(r).from] = Request(r).currency
           /\ Currency[Request(r).to] = Request(r).currency
           /\ Request(r).amount > 0
           /\ IF Funded(r)
              THEN /\ Debited(copy[r][Request(r).from], Request(r).amount)
                        = copy[r][Request(r).from] - Request(r).amount
                   /\ Credited(copy[r][Request(r).to], Request(r).amount)
                        = copy[r][Request(r).to] + Request(r).amount
                   /\ copy[r][Request(r).from] - Request(r).amount \in 0..MaxInt64
                   /\ copy[r][Request(r).to] + Request(r).amount \in 0..MaxInt64
              ELSE copy[r][Request(r).from] < Request(r).amount
  <1> DEFINE q == Request(r)
  <1>1. /\ call[r] \in Calls /\ q \in CreateTransfer
        /\ q.from \in Nat /\ q.to \in Nat /\ q.amount \in Int64
    BY CallTyped
  <1>2. q.from # q.to /\ q.amount > 0
    BY <1>1, EntitiesAssumption DEF Control, ControlOf, Validate, Nil, Int64
  <1>3. /\ q.from \in Accounts /\ rowLock[q.from] = r
        /\ q.to \in Accounts /\ rowLock[q.to] = r
        /\ Owner[q.from] = call[r].user
        /\ Currency[q.from] = q.currency /\ Currency[q.to] = q.currency
    BY DEF Refusal, Held, Nil
  <1>4. copy[r][q.from] \in 0..MaxInt64 /\ copy[r][q.to] \in 0..MaxInt64
    BY <1>3 DEF TypeOK
  <1>5. ASSUME Funded(r)
        PROVE  q.amount <= copy[r][q.from] /\ copy[r][q.to] <= MaxInt64 - q.amount
    <2>1. DebitError(copy[r][q.from], q.amount) = Nil
      BY <1>5 DEF Funded
    <2>2. CreditError(copy[r][q.to], q.amount) = Nil
      BY <2>1, <1>3 DEF Refusal, Held, Nil
    <2> QED
      BY <2>1, <2>2, <1>1, <1>2, <1>4, EntitiesAssumption
      DEF DebitError, CreditError, Wrap, Nil, Int64
  <1>6. ASSUME ~Funded(r)
        PROVE  copy[r][q.from] < q.amount
    BY <1>6, <1>1, <1>2, <1>4, EntitiesAssumption DEF Funded, DebitError, Nil, Int64
  <1> QED
    BY <1>1, <1>2, <1>3, <1>4, <1>5, <1>6, EntitiesAssumption
    DEF Debited, Credited, Wrap, Int64

\* An error is an answer, and leads to a rollback.
LEMMA RaiseTyped ==
    ASSUME TypeOK, NEW r \in Requests, NEW e \in Errors, Raise(r, e)
    PROVE  pc' \in [Requests -> PCs] /\ outcome' \in [Requests -> Outcomes]
  BY OutcomeTyped DEF Raise, Goto, TypeOK, PCs, InTx

\* Both accounts of a request that has decided exist.
LEMMA RowsExist ==
    ASSUME Locking, NEW r \in Requests, pc[r] \in Decided
    PROVE  Request(r).from \in Accounts /\ Request(r).to \in Accounts
  <1>1. LockingOf(r)
    BY DEF Locking
  <1> QED BY <1>1 DEF LockingOf

\* The end of a transaction keeps the types of what it releases.
LEMMA ReleaseTyped ==
    ASSUME TypeOK, NEW r \in Requests, Release(r)
    PROVE  /\ rowLock' \in [Accounts -> Requests \cup {None}]
           /\ newRow' \in [Requests -> SUBSET Transfer]
           /\ newBalance' \in [Requests -> BalanceMaps]
           /\ newEntries' \in [Requests -> SUBSET LedgerEntry]
           /\ sequence' \in Nat
  BY EmptyMap DEF Release, TypeOK

\* So does the end of a call.
LEMMA FinishTyped ==
    ASSUME TypeOK, NEW r \in Requests, Finish(r)
    PROVE  /\ pc' \in [Requests -> PCs]
           /\ call' \in [Requests -> Calls \cup {None}]
           /\ copy' \in [Requests -> [Accounts -> 0..MaxInt64]]
           /\ status' \in [Requests -> Statuses]
           /\ orphans' \subseteq Requests
  BY CopyTyped DEF Finish, TypeOK, PCs, Statuses

\* Every action keeps TypeOK.
LEMMA TypeStep == IInv /\ [Next]_vars => TypeOK'
  <1> SUFFICES ASSUME IInv, [Next]_vars PROVE TypeOK'
    OBVIOUS
  <1> USE EntitiesAssumption, OutcomeTyped, CopyTyped DEF storeVars, committed, written
  <1>0. TypeOK /\ Control /\ Locking /\ Written
    BY DEF IInv
  <1>1. ASSUME NEW r \in Requests, NEW c \in Calls, Create(r, c) PROVE TypeOK'
    <2> DEFINE e == IF c.user = NoUser THEN "ErrForbidden" ELSE Validate(c.request)
    <2>1. e \in Errors
      BY DEF Validate, Errors, Nil
    <2> QED BY <2>1, <1>0, <1>1 DEF Create, TypeOK, PCs
  <1>2. ASSUME NEW r \in Requests, Begin(r) PROVE TypeOK'
    BY <1>0, <1>2 DEF Begin, TypeOK, PCs, InTx
  <1>3. ASSUME NEW r \in Requests, LockForTransfer(r) PROVE TypeOK'
    <2>1. PICK a \in Accounts : LockRow(r, a) /\ copy' = [copy EXCEPT ![r][a] = balance[a]]
      BY Zenon, <1>3 DEF LockForTransfer, NextToLock
    <2>2. copy' \in [Requests -> [Accounts -> 0..MaxInt64]]
      BY <2>1, <1>0 DEF TypeOK
    <2>3. rowLock' \in [Accounts -> Requests \cup {None}]
      BY <2>1, <1>0 DEF TypeOK, LockRow
    <2> QED BY <2>1, <2>2, <2>3, <1>0, <1>3 DEF LockForTransfer, LockRow, TypeOK
  <1>4. ASSUME NEW r \in Requests, Decide(r) PROVE TypeOK'
    <2>1. CASE Refusal(r) # Nil
      <3>1. Refusal(r) \in Errors
        BY DEF Refusal, DebitError, CreditError, Errors, Nil
      <3>2. Raise(r, Refusal(r)) /\ UNCHANGED <<storeVars, call, copy, status, orphans>>
        BY <2>1, <1>4 DEF Decide
      <3> QED BY <3>1, <3>2, <1>0, RaiseTyped DEF TypeOK
    <2>2. CASE Refusal(r) = Nil /\ ~Funded(r)
      BY Zenon, <2>2, <1>0, <1>4 DEF Decide, TypeOK, PCs, InTx, Statuses
    <2>3. CASE Refusal(r) = Nil /\ Funded(r)
      <3> DEFINE q == Request(r)
      <3>1. /\ pc[r] = "lock"
            /\ copy' = [copy EXCEPT ![r][q.from] = Debited(@, q.amount),
                                    ![r][q.to] = Credited(@, q.amount)]
        BY <2>3, <1>4 DEF Decide
      <3>2. /\ q.from \in Accounts /\ q.to \in Accounts /\ q.from # q.to
            /\ Debited(copy[r][q.from], q.amount) \in 0..MaxInt64
            /\ Credited(copy[r][q.to], q.amount) \in 0..MaxInt64
        BY <3>1, <2>3, <1>0, DecideTyped
      <3>7. copy' \in [Requests -> [Accounts -> 0..MaxInt64]]
        BY <3>1, <3>2, <1>0 DEF TypeOK
      <3> QED BY Zenon, <3>7, <2>3, <1>0, <1>4 DEF Decide, TypeOK, PCs, InTx
    <2> QED BY <2>1, <2>2, <2>3
  <1>5. ASSUME NEW r \in Requests, CreateIdempotent(r) PROVE TypeOK'
    <2>1. pc[r] = "insert" /\ Key(r) \in Keys \cup {None} /\ call[r].user \in Users
            /\ Request(r) \in CreateTransfer
      BY <1>0, <1>5, CallTyped DEF CreateIdempotent
    <2>2. ASSUME Key(r) # None PROVE Draft(r) \in Transfer
      BY <2>1, <2>2, <1>0 DEF Draft, Transfer, TypeOK
    <2>3. CASE Key(r) = None
      <3>1. Raise(r, "ErrInvalidTransfer") /\ UNCHANGED storeVars
                /\ UNCHANGED <<call, copy, status, orphans>>
        BY <2>3, <1>5 DEF CreateIdempotent
      <3> QED BY <3>1, <1>0, RaiseTyped DEF TypeOK
    <2>4. CASE Key(r) # None /\ StoredUnder(call[r].user, Key(r)) = {}
      <3>1. InsertTransfer(r, Draft(r)) /\ UNCHANGED <<call, copy, status, orphans>>
        BY Zenon, <2>4, <1>5 DEF CreateIdempotent
      <3>2. outcome' \in [Requests -> Outcomes]
        <4>1. Success(Draft(r), TRUE) \in Outcomes
          BY Zenon, <2>2, <2>4, OutcomeTyped
        <4>2. outcome' = [outcome EXCEPT ![r] =
                            IF r \in orphans THEN @ ELSE Success(Draft(r), TRUE)]
          BY <2>4, <1>5 DEF CreateIdempotent
        <4> QED BY Zenon, <4>1, <4>2, <1>0 DEF TypeOK
      <3>3. pc' \in [Requests -> PCs]
        BY Zenon, <2>4, <1>0, <1>5 DEF CreateIdempotent, Goto, TypeOK, PCs, InTx
      <3>4. newRow' \in [Requests -> SUBSET Transfer]
        BY <3>1, <2>2, <2>4, <1>0 DEF InsertTransfer, TypeOK
      <3> QED BY <3>1, <3>2, <3>3, <3>4, <1>0 DEF InsertTransfer, TypeOK
    <2>5. CASE Key(r) # None /\ StoredUnder(call[r].user, Key(r)) # {}
      BY Zenon, <2>5, <1>0, <1>5 DEF CreateIdempotent, Goto, TypeOK, PCs, InTx
    <2> QED BY <2>3, <2>4, <2>5
  <1>6. ASSUME NEW r \in Requests, FindExisting(r) PROVE TypeOK'
    <2>1. outcome' \in [Requests -> Outcomes] /\ pc' \in [Requests -> PCs]
      <3>1. CASE Raise(r, "internal") \/ Raise(r, "ErrIdempotencyConflict")
        BY <3>1, <1>0, RaiseTyped
      <3>2. ASSUME NEW t \in transfers,
                   outcome' = [outcome EXCEPT ![r] = Success(t, FALSE)],
                   pc' = [pc EXCEPT ![r] = "commit"]
            PROVE  outcome' \in [Requests -> Outcomes] /\ pc' \in [Requests -> PCs]
        <4>1. Success(t, FALSE) \in Outcomes
          BY <3>2, <1>0 DEF TypeOK
        <4> QED BY Zenon, <4>1, <3>2, <1>0 DEF TypeOK, PCs, InTx
      <3> QED BY Zenon, <3>1, <3>2, <1>6 DEF FindExisting, StoredUnder, replay, Nil
    <2> QED BY <2>1, <1>0, <1>6 DEF FindExisting, TypeOK
  <1>7. ASSUME NEW r \in Requests, Save(r) PROVE TypeOK'
    <2> DEFINE balances == [a \in Wanted(r) |-> copy[r][a]]
    <2>1. Wanted(r) \subseteq Accounts
      BY <1>0, <1>7, RowsExist DEF Save, Decided, Wanted
    <2>2. balances \in [Wanted(r) -> 0..MaxInt64]
      BY <2>1, <1>0 DEF TypeOK
    <2>3. balances \in BalanceMaps
      BY <2>1, <2>2 DEF BalanceMaps
    <2>4. CASE BalancesAccepted(balances)
      <3>1. SaveBalances(r, balances) /\ Goto(r, "append")
              /\ UNCHANGED <<call, copy, status, outcome, orphans>>
        BY <2>4, <1>7 DEF Save
      <3> HIDE DEF balances
      <3> QED BY <3>1, <2>3, <1>0 DEF SaveBalances, Goto, TypeOK, PCs, InTx
    <2>5. CASE ~BalancesAccepted(balances)
      <3>1. Raise(r, "internal") /\ UNCHANGED storeVars
              /\ UNCHANGED <<call, copy, status, orphans>>
        BY <2>5, <1>7 DEF Save
      <3> QED BY <3>1, <1>0, RaiseTyped DEF TypeOK
    <2> QED BY <2>4, <2>5
  <1>8. ASSUME NEW r \in Requests, AppendLedger(r) PROVE TypeOK'
    <2>0. pc[r] = "append"
      BY <1>8 DEF AppendLedger
    <2>1. /\ Request(r).from \in Accounts /\ Request(r).to \in Accounts
          /\ Request(r).amount \in Int
      <3>1. Request(r).amount \in Int64
        BY <2>0, <1>0, CallTyped
      <3>2. Request(r).amount \in Int
        BY <3>1, EntitiesAssumption DEF Int64
      <3> QED BY <2>0, <3>2, <1>0, RowsExist DEF Decided
    <2>2. EntriesOf(r) \subseteq LedgerEntry
      <3>1. \A a \in Accounts : copy[r][a] \in Nat
        BY <1>0 DEF TypeOK
      <3>2. sequence + 1 \in Nat /\ sequence + 2 \in Nat
        BY <1>0 DEF TypeOK
      <3>3. Request(r).amount \in Int /\ -Request(r).amount \in Int
        BY <2>1
      <3> QED BY <2>1, <3>1, <3>2, <3>3 DEF EntriesOf, LedgerEntry
    <2>3. CASE EntriesAccepted(EntriesOf(r))
      <3>1. AppendEntries(r, EntriesOf(r)) /\ Goto(r, "commit")
              /\ UNCHANGED <<call, copy, status, outcome, orphans>>
        BY <2>3, <1>8 DEF AppendLedger
      <3> QED BY <3>1, <2>2, <1>0 DEF AppendEntries, Goto, TypeOK, PCs, InTx
    <2>4. CASE ~EntriesAccepted(EntriesOf(r))
      <3>1. Raise(r, "internal") /\ UNCHANGED storeVars
              /\ UNCHANGED <<call, copy, status, orphans>>
        BY <2>4, <1>8 DEF AppendLedger
      <3> QED BY <3>1, <1>0, RaiseTyped DEF TypeOK
    <2> QED BY <2>3, <2>4
  <1>9. ASSUME NEW r \in Requests, Commit(r) PROVE TypeOK'
    <2>1. balance' \in [Accounts -> 0..MaxInt64]
      <3>1. newBalance[r] \in BalanceMaps
        BY <1>0 DEF TypeOK
      <3>2. \A a \in DOMAIN newBalance[r] : newBalance[r][a] \in 0..MaxInt64
        BY <3>1 DEF BalanceMaps
      <3> QED BY <3>2, <1>0, <1>9 DEF Commit, CommitTx, TypeOK
    <2>2. transfers' \subseteq Transfer /\ ledger' \subseteq LedgerEntry
      BY <1>0, <1>9 DEF Commit, CommitTx, TypeOK
    <2>3. Release(r) /\ UNCHANGED outcome
      BY <1>9 DEF Commit, CommitTx
    <2>4. /\ pc' \in [Requests -> PCs] /\ call' \in [Requests -> Calls \cup {None}]
          /\ copy' \in [Requests -> [Accounts -> 0..MaxInt64]]
          /\ status' \in [Requests -> Statuses] /\ orphans' \subseteq Requests
      <3>1. CASE r \in orphans
        BY <3>1, <1>0, <1>9, FinishTyped DEF Commit
      <3>2. CASE r \notin orphans
        BY <3>2, <1>0, <1>9 DEF Commit, TypeOK, PCs
      <3> QED BY <3>1, <3>2
    <2> QED BY <2>1, <2>2, <2>3, <2>4, <1>0, ReleaseTyped DEF TypeOK
  <1>10. ASSUME NEW r \in Requests, RollbackTx(r), Finish(r), UNCHANGED outcome PROVE TypeOK'
    BY <1>0, <1>10, ReleaseTyped, FinishTyped DEF RollbackTx, TypeOK
  <1>11. ASSUME NEW r \in Requests, Return(r) PROVE TypeOK'
    BY <1>0, <1>11, FinishTyped DEF Return, TypeOK
  <1>12. ASSUME NEW r \in Requests, Fail(r) PROVE TypeOK'
    BY <1>0, <1>12, RaiseTyped DEF Fail, TypeOK
  <1>13. ASSUME NEW r \in Requests, Interrupt(r) PROVE TypeOK'
    <2>1. outcome' \in [Requests -> Outcomes]
      BY <1>0, <1>13 DEF Interrupt, TypeOK
    <2>2. CASE Finish(r)
      BY <2>1, <2>2, <1>0, <1>13, FinishTyped DEF Interrupt, TypeOK
    <2>3. CASE orphans' = orphans \cup {r} /\ UNCHANGED <<pc, call, copy, status>>
      BY <2>1, <2>3, <1>0, <1>13 DEF Interrupt, TypeOK
    <2> QED BY <2>2, <2>3, <1>13 DEF Interrupt
  <1>14. ASSUME UNCHANGED vars PROVE TypeOK'
    BY <1>0, <1>14 DEF vars, serviceVars, TypeOK
  <1> QED
    BY <1>1, <1>2, <1>3, <1>4, <1>5, <1>6, <1>7, <1>8, <1>9, <1>10, <1>11, <1>12, <1>13, <1>14
    DEF Next, Serve, Fault, Quiet, Rollback, Abort

-----------------------------------------------------------------------------
\* What one request may do next.
Step(r) == (\E c \in Calls : Create(r, c)) \/ Serve(r) \/ Fault(r)

\* The local state, the locks and the uncommitted writes of s stay as they are.
Untouched(s) ==
    /\ pc'[s] = pc[s] /\ call'[s] = call[s] /\ copy'[s] = copy[s]
    /\ status'[s] = status[s] /\ outcome'[s] = outcome[s]
    /\ s \in orphans' <=> s \in orphans
    /\ newRow'[s] = newRow[s] /\ newBalance'[s] = newBalance[s]
    /\ newEntries'[s] = newEntries[s]
    /\ \A a \in Accounts : rowLock'[a] = s <=> rowLock[a] = s

\* A step of one request leaves every other request untouched.
LEMMA Frame ==
    ASSUME TypeOK, NEW r \in Requests, Step(r), NEW s \in Requests \ {r}
    PROVE  Untouched(s)
  <1> USE DEF storeVars, committed, written, Untouched, TypeOK
  <1>0. s # None
    BY StoreAssumption
  <1>1. ASSUME NEW c \in Calls, Create(r, c) PROVE Untouched(s)
    BY <1>1 DEF Create
  <1>2. CASE Begin(r)
    BY <1>0, <1>2 DEF Begin
  <1>3. CASE LockForTransfer(r)
    BY <1>0, <1>3 DEF LockForTransfer, LockRow
  <1>4. CASE Decide(r)
    BY Zenon, <1>0, <1>4 DEF Decide, Raise, Goto
  <1>5. CASE CreateIdempotent(r)
    <2>1. UNCHANGED rowLock /\ UNCHANGED <<newBalance, newEntries, call, copy, status, orphans>>
      BY Zenon, <1>5 DEF CreateIdempotent, InsertTransfer
    <2>2. newRow'[s] = newRow[s]
      BY Zenon, <1>5 DEF CreateIdempotent, InsertTransfer
    <2>3. pc'[s] = pc[s] /\ outcome'[s] = outcome[s]
      BY <1>5 DEF CreateIdempotent, Raise, Goto
    <2> QED BY Zenon, <2>1, <2>2, <2>3
  <1>6. CASE FindExisting(r)
    <2>1. pc'[s] = pc[s] /\ outcome'[s] = outcome[s]
      BY Zenon, <1>6 DEF FindExisting, Raise, Goto
    <2> QED BY <2>1, <1>6 DEF FindExisting
  <1>7. CASE Save(r)
    BY <1>0, <1>7 DEF Save, SaveBalances, Raise, Goto
  <1>8. CASE AppendLedger(r)
    BY <1>0, <1>8 DEF AppendLedger, AppendEntries, Raise, Goto
  <1>9. CASE Commit(r)
    BY <1>0, <1>9 DEF Commit, CommitTx, Release, Finish
  <1>10. CASE Return(r)
    BY <1>0, <1>10 DEF Return, Finish
  <1>11. CASE Rollback(r) \/ Abort(r)
    <2>1. CASE Rollback(r)
      BY <1>0, <2>1 DEF Rollback, RollbackTx, Release, Finish
    <2>2. CASE Abort(r)
      BY <1>0, <2>2 DEF Abort, RollbackTx, Release, Finish
    <2> QED BY Zenon, <1>11, <2>1, <2>2
  <1>12. CASE Fail(r)
    BY <1>0, <1>12 DEF Fail, Raise, Goto
  <1>13. CASE Interrupt(r)
    BY <1>0, <1>13 DEF Interrupt, Finish
  <1> HIDE DEF storeVars, committed, written, Untouched, TypeOK
  <1> QED BY <1>0, <1>1, <1>2, <1>3, <1>4, <1>5, <1>6, <1>7, <1>8, <1>9, <1>10, <1>11, <1>12, <1>13
          DEF Step, Serve, Fault

\* Only COMMIT changes the committed tables.
LEMMA OnlyCommitShows ==
    ASSUME NEW r \in Requests, Step(r), ~Commit(r)
    PROVE  UNCHANGED committed
  BY Zenon DEF Step, Serve, Fault, Create, Begin, LockForTransfer, LockRow, Decide,
     CreateIdempotent, InsertTransfer, FindExisting, Save, SaveBalances, AppendLedger,
     AppendEntries, Return, Rollback, RollbackTx, Abort, Fail, Interrupt, storeVars

\* The identity column never turns back.
LEMMA SequenceGrows ==
    ASSUME TypeOK, NEW r \in Requests, Step(r)
    PROVE  sequence' \in Nat /\ sequence <= sequence'
  <1>1. sequence \in Nat
    BY DEF TypeOK
  <1>2. CASE AppendLedger(r)
    BY <1>1, <1>2 DEF AppendLedger, AppendEntries, storeVars
  <1>3. CASE ~AppendLedger(r)
    <2>1. UNCHANGED sequence
      BY Zenon, <1>3 DEF Step, Serve, Fault, Create, Begin, LockForTransfer, LockRow, Decide,
         CreateIdempotent, InsertTransfer, FindExisting, Save, SaveBalances,
         Commit, CommitTx, Return, Rollback, RollbackTx, Abort, Release,
         Fail, Interrupt, storeVars
    <2> QED BY <2>1, <1>1
  <1> QED BY <1>2, <1>3

-----------------------------------------------------------------------------
\* Control is kept: a step of r preserves it for r, and every other request
\* is untouched.
LEMMA ControlStep ==
    ASSUME TypeOK, Control, NEW r \in Requests, Step(r)
    PROVE  Control'
  <1>0. ControlOf(r)
    BY DEF Control
  <1>a. ASSUME NEW s \in Requests \ {r} PROVE ControlOf(s)'
    <2>1. Untouched(s) /\ ControlOf(s)
      BY Frame DEF Control
    <2>2. Request(s)' = Request(s)
      BY <2>1 DEF Untouched, Request
    <2> QED BY Zenon, <2>1, <2>2 DEF ControlOf, Untouched
  <1> SUFFICES ControlOf(r)'
    BY <1>a DEF Control
  <1> USE DEF ControlOf, TypeOK, Request, InTx
  <1>1. ASSUME NEW c \in Calls, Create(r, c) PROVE ControlOf(r)'
    BY <1>0, <1>1 DEF Create, Nil
  <1>2. CASE Begin(r)
    BY <1>0, <1>2 DEF Begin
  <1>3. CASE LockForTransfer(r)
    BY <1>0, <1>3 DEF LockForTransfer
  <1>4. CASE Decide(r)
    BY Zenon, <1>0, <1>4 DEF Decide, Raise, Goto
  <1>5. CASE CreateIdempotent(r)
    BY Zenon, <1>0, <1>5 DEF CreateIdempotent, Raise, Goto
  <1>6. CASE FindExisting(r)
    BY Zenon, <1>0, <1>6 DEF FindExisting, Raise, Goto
  <1>7. CASE Save(r)
    BY <1>0, <1>7 DEF Save, Raise, Goto
  <1>8. CASE AppendLedger(r)
    BY <1>0, <1>8 DEF AppendLedger, Raise, Goto
  <1>9. CASE Commit(r)
    BY <1>0, <1>9 DEF Commit, Finish
  <1>10. CASE Return(r)
    BY <1>0, <1>10 DEF Return, Finish
  <1>11. CASE Rollback(r) \/ Abort(r)
    BY <1>0, <1>11 DEF Rollback, Abort, Finish
  <1>12. CASE Fail(r)
    BY <1>0, <1>12 DEF Fail, Raise, Goto
  <1>13. CASE Interrupt(r)
    BY <1>0, <1>13 DEF Interrupt, Finish
  <1> QED
    BY Zenon, <1>1, <1>2, <1>3, <1>4, <1>5, <1>6, <1>7, <1>8, <1>9, <1>10, <1>11, <1>12, <1>13
    DEF Step, Serve, Fault

\* Locking is kept: the rows are taken in ascending order, and let go only
\* with the transaction.
LEMMA LockingStep ==
    ASSUME TypeOK, Control, Locking, NEW r \in Requests, Step(r)
    PROVE  Locking'
  <1>0. LockingOf(r) /\ r # None
    BY StoreAssumption DEF Locking
  <1>a. ASSUME NEW s \in Requests \ {r} PROVE LockingOf(s)'
    <2>1. Untouched(s) /\ LockingOf(s)
      BY Frame DEF Locking
    <2>2. Request(s)' = Request(s) /\ Wanted(s)' = Wanted(s)
      BY <2>1 DEF Untouched, Request, Wanted
    <2>3. /\ pc'[s] = pc[s] /\ call'[s] = call[s]
          /\ \A a \in Accounts : rowLock'[a] = s <=> rowLock[a] = s
      BY <2>1 DEF Untouched
    <2> QED BY Zenon, <2>1, <2>2, <2>3 DEF LockingOf
  <1> SUFFICES LockingOf(r)'
    BY <1>a DEF Locking
  <1> USE DEF LockingOf, InTx, Decided, Wanted, Request
  <1>1. ASSUME NEW c \in Calls, Create(r, c) PROVE LockingOf(r)'
    BY Zenon, <1>0, <1>1 DEF Create, storeVars, TypeOK
  <1>2. CASE Begin(r)
    BY Zenon, <1>0, <1>2 DEF Begin, storeVars, TypeOK
  <1>3. CASE LockForTransfer(r)
    <2>1. PICK a \in NextToLock(r, Wanted(r)) : LockRow(r, a)
      BY <1>3 DEF LockForTransfer
    <2>2. /\ a \in Accounts /\ a \in Wanted(r) /\ rowLock[a] # r
          /\ \A b \in Accounts : b \in Wanted(r) /\ rowLock[b] # r => a <= b
      BY Zenon, <2>1 DEF NextToLock, Held
    <2>3. \A b \in Accounts : rowLock'[b] = IF b = a THEN r ELSE rowLock[b]
      BY Zenon, <2>1, <2>2 DEF LockRow, TypeOK
    <2>4. pc[r] = "lock" /\ pc'[r] = "lock" /\ call'[r] = call[r]
      BY <1>3 DEF LockForTransfer
    <2>5. \A b \in Accounts : b \in Nat
      BY StoreAssumption
    <2>6. Wanted(r)' = Wanted(r)
      BY Zenon, <2>4
    <2>7. \A b \in Accounts : rowLock'[b] = r => b \in Wanted(r)
      BY Zenon, <2>2, <2>3, <1>0
    <2>8. ASSUME NEW b \in Accounts, NEW d \in Accounts,
                 rowLock'[b] = r, d \in Wanted(r), rowLock'[d] # r
          PROVE  b < d
      <3>1. d # a /\ rowLock[d] # r /\ (b = a \/ rowLock[b] = r)
        BY Zenon, <2>3, <2>8
      <3>2. CASE b = a
        <4>1. a <= d
          BY Zenon, <2>2, <2>8, <3>1
        <4> QED BY <4>1, <2>2, <2>5, <3>1, <3>2
      <3>3. CASE rowLock[b] = r
        BY Zenon, <1>0, <2>4, <2>8, <3>1, <3>3
      <3> QED BY <3>1, <3>2, <3>3
    <2> QED BY Zenon, <2>4, <2>6, <2>7, <2>8
  <1>4. CASE Decide(r)
    <2>1. /\ pc[r] = "lock" /\ r \notin orphans
          /\ call' = call /\ rowLock' = rowLock
          /\ IF Refusal(r) = Nil THEN pc'[r] = "insert" ELSE pc'[r] = "rollback"
      BY Zenon, <1>4 DEF Decide, Raise, Goto, storeVars, TypeOK
    <2>2. CASE Refusal(r) = Nil
      BY Zenon, <2>1, <2>2, <1>0, DecideTyped
    <2>3. CASE Refusal(r) # Nil
      BY Zenon, <2>1, <2>3, <1>0
    <2> QED BY Zenon, <2>2, <2>3
  <1>5. CASE CreateIdempotent(r) \/ FindExisting(r) \/ Save(r) \/ AppendLedger(r)
    <2>1. call' = call /\ rowLock' = rowLock /\ pc[r] \in Decided
      BY Zenon, <1>5 DEF CreateIdempotent, FindExisting, Save, AppendLedger, InsertTransfer,
         SaveBalances, AppendEntries, storeVars
    <2>2. pc'[r] \in InTx \ {"lock"}
      <3>1. CASE CreateIdempotent(r)
        BY Zenon, <3>1 DEF CreateIdempotent, Raise, Goto, TypeOK
      <3>2. CASE FindExisting(r)
        BY <3>2 DEF FindExisting, Raise, Goto, TypeOK
      <3>3. CASE Save(r) \/ AppendLedger(r)
        BY Zenon, <3>3 DEF Save, AppendLedger, Raise, Goto, TypeOK
      <3> QED BY <3>1, <3>2, <3>3, <1>5
    <2> QED BY Zenon, <2>1, <2>2, <1>0
  <1>6. CASE Commit(r) \/ Rollback(r) \/ Abort(r)
    <2>1. \A a \in Accounts : rowLock'[a] # r
      <3>1. Release(r)
        BY <1>6 DEF Commit, Rollback, Abort, CommitTx, RollbackTx
      <3> QED BY Zenon, <3>1, <1>0 DEF Release
    <2>2. pc'[r] \in {"ack", "done"}
      BY <1>6 DEF Commit, Rollback, Abort, Finish, TypeOK
    <2> QED BY Zenon, <2>1, <2>2
  <1>7. CASE Return(r)
    BY Zenon, <1>0, <1>7 DEF Return, Finish, storeVars, TypeOK
  <1>8. CASE Fail(r)
    <2>1. call' = call /\ rowLock' = rowLock /\ pc'[r] \in {"rollback", "abort"}
      BY <1>8 DEF Fail, Raise, Goto, storeVars, TypeOK
    <2> QED BY Zenon, <2>1, <1>0
  <1>9. CASE Interrupt(r)
    <2>1. call' = call /\ rowLock' = rowLock
      BY <1>9 DEF Interrupt, Finish, storeVars
    <2>2. pc'[r] = pc[r] \/ (pc[r] \notin InTx /\ pc'[r] = "done")
      BY <1>9 DEF Interrupt, Finish, TypeOK
    <2> QED BY Zenon, <2>1, <2>2, <1>0
  <1> QED
    BY Zenon, <1>1, <1>2, <1>3, <1>4, <1>5, <1>6, <1>7, <1>8, <1>9 DEF Step, Serve, Fault

-----------------------------------------------------------------------------
\* A committed balance changes only under the lock of its row.
LEMMA BalanceFrame ==
    ASSUME TypeOK, Locking, Written, NEW r \in Requests, Step(r),
           NEW a \in Accounts, rowLock[a] # r
    PROVE  balance'[a] = balance[a]
  <1>1. CASE Commit(r)
    <2>1. pc[r] = "commit" /\ LockingOf(r) /\ WrittenOf(r)
      BY <1>1 DEF Commit, Locking, Written
    <2>2. DOMAIN newBalance[r] \subseteq Wanted(r)
      BY Zenon, <2>1 DEF WrittenOf, NoBalances
    <2>3. a \notin Wanted(r)
      BY Zenon, <2>1 DEF LockingOf, Wanted, Decided
    <2> QED BY Zenon, <1>1, <2>2, <2>3 DEF Commit, CommitTx
  <1>2. CASE ~Commit(r)
    BY Zenon, <1>2, OnlyCommitShows DEF committed
  <1> QED BY <1>1, <1>2

\* Fresh is kept: what r has read and decided stays true because nobody else
\* can change the balances r has locked.
LEMMA FreshStep ==
    ASSUME TypeOK, Control, Locking, Fresh, Written, NEW r \in Requests, Step(r)
    PROVE  Fresh'
  <1>0. FreshOf(r) /\ LockingOf(r) /\ WrittenOf(r) /\ r # None
    BY StoreAssumption DEF Fresh, Locking, Written
  <1>a. ASSUME NEW s \in Requests \ {r} PROVE FreshOf(s)'
    <2>1. Untouched(s) /\ FreshOf(s) /\ LockingOf(s) /\ s # r
      BY Frame DEF Fresh, Locking
    <2>2. \A a \in Accounts : rowLock[a] = s => balance'[a] = balance[a]
      BY <2>1, BalanceFrame
    <2>3. /\ pc'[s] = pc[s] /\ copy'[s] = copy[s] /\ status'[s] = status[s]
          /\ Request(s)' = Request(s)
          /\ \A a \in Accounts : rowLock'[a] = s <=> rowLock[a] = s
      BY <2>1 DEF Untouched, Request
    <2>4. pc[s] \in Decided =>
            /\ balance'[Request(s).from] = balance[Request(s).from]
            /\ balance'[Request(s).to] = balance[Request(s).to]
      BY Zenon, <2>1, <2>2 DEF LockingOf
    <2>5. FreshOf(s)
      BY <2>1
    <2>6. CASE pc[s] = "lock"
      BY Zenon, <2>2, <2>3, <2>5, <2>6 DEF FreshOf, Decided
    <2>7. CASE pc[s] # "lock"
      BY <2>3, <2>4, <2>5, <2>7 DEF FreshOf
    <2> QED BY <2>6, <2>7
  <1> SUFFICES FreshOf(r)'
    BY <1>a DEF Fresh
  <1> USE DEF FreshOf, Decided, Request
  <1>1. ASSUME NEW c \in Calls, Create(r, c) PROVE FreshOf(r)'
    BY Zenon, <1>1 DEF Create, TypeOK
  <1>2. CASE Begin(r)
    <2>1. \A a \in Accounts : rowLock'[a] # r
      BY <1>0, <1>2 DEF Begin, storeVars, LockingOf, InTx
    <2> QED BY Zenon, <2>1, <1>2 DEF Begin, TypeOK
  <1>3. CASE LockForTransfer(r)
    <2>1. PICK a \in Accounts : LockRow(r, a) /\ copy' = [copy EXCEPT ![r][a] = balance[a]]
      BY <1>3 DEF LockForTransfer, NextToLock
    <2>2. pc[r] = "lock" /\ pc'[r] = "lock" /\ balance' = balance
      BY <2>1, <1>3 DEF LockForTransfer, LockRow, committed
    <2>3. \A b \in Accounts : /\ rowLock'[b] = IF b = a THEN r ELSE rowLock[b]
                              /\ copy'[r][b] = IF b = a THEN balance[b] ELSE copy[r][b]
      BY <2>1 DEF LockRow, TypeOK
    <2> QED BY Zenon, <2>2, <2>3, <1>0
  <1>4. CASE Decide(r)
    <2> DEFINE q == Request(r)
    <2>1. pc[r] = "lock" /\ r \notin orphans /\ call' = call /\ balance' = balance
      BY <1>4 DEF Decide, storeVars, committed
    <2>2. CASE Refusal(r) # Nil
      BY Zenon, <1>4, <2>2 DEF Decide, Raise, Goto, TypeOK
    <2>3. CASE Refusal(r) = Nil
      <3>1. /\ q.from \in Accounts /\ rowLock[q.from] = r
            /\ q.to \in Accounts /\ rowLock[q.to] = r /\ q.from # q.to
            /\ IF Funded(r)
               THEN /\ Debited(copy[r][q.from], q.amount) = copy[r][q.from] - q.amount
                    /\ Credited(copy[r][q.to], q.amount) = copy[r][q.to] + q.amount
               ELSE copy[r][q.from] < q.amount
        BY Zenon, <2>1, <2>3, DecideTyped
      <3>2. copy[r][q.from] = balance[q.from] /\ copy[r][q.to] = balance[q.to]
        BY Zenon, <3>1, <2>1, <1>0
      <3>3. CASE Funded(r)
        <4>1. copy' = [copy EXCEPT ![r][q.from] = Debited(@, q.amount),
                                   ![r][q.to] = Credited(@, q.amount)]
          BY <3>3, <2>3, <1>4 DEF Decide
        <4>2. copy'[r][q.from] = Debited(copy[r][q.from], q.amount)
                /\ copy'[r][q.to] = Credited(copy[r][q.to], q.amount)
          BY Zenon, <4>1, <3>1 DEF TypeOK
        <4>3. pc'[r] = "insert" /\ status'[r] = status[r]
          BY Zenon, <3>3, <2>3, <1>4 DEF Decide, TypeOK
        <4>4. status[r] = "completed"
          BY <2>1 DEF Control, ControlOf
        <4> QED BY Zenon, <4>2, <4>3, <4>4, <3>1, <3>2, <3>3, <2>1
      <3>4. CASE ~Funded(r)
        BY Zenon, <3>1, <3>2, <3>4, <2>1, <2>3, <1>4 DEF Decide, TypeOK
      <3> QED BY Zenon, <3>3, <3>4
    <2> QED BY Zenon, <2>2, <2>3
  <1>5. CASE CreateIdempotent(r) \/ FindExisting(r) \/ Save(r) \/ AppendLedger(r)
    <2>1. /\ call' = call /\ copy' = copy /\ status' = status /\ balance' = balance
          /\ pc[r] \in Decided
      BY <1>5 DEF CreateIdempotent, FindExisting, Save, AppendLedger, InsertTransfer,
         SaveBalances, AppendEntries, storeVars, committed
    <2>2. pc'[r] # "lock"
      <3>1. CASE CreateIdempotent(r)
        BY Zenon, <3>1 DEF CreateIdempotent, Raise, Goto, TypeOK
      <3>2. CASE FindExisting(r)
        BY Zenon, <3>2 DEF FindExisting, Raise, Goto, TypeOK
      <3>3. CASE Save(r) \/ AppendLedger(r)
        BY <3>3 DEF Save, AppendLedger, Raise, Goto, TypeOK
      <3> QED BY <3>1, <3>2, <3>3, <1>5
    <2> QED BY Zenon, <2>1, <2>2, <1>0
  <1>6. CASE Commit(r) \/ Rollback(r) \/ Abort(r) \/ Return(r)
    <2>1. pc'[r] \in {"ack", "done"}
      BY <1>6 DEF Commit, Rollback, Abort, Return, Finish, TypeOK
    <2> QED BY Zenon, <2>1
  <1>7. CASE Fail(r)
    <2>1. pc'[r] \in {"rollback", "abort"}
      BY <1>7 DEF Fail, Raise, Goto, TypeOK
    <2> QED BY Zenon, <2>1
  <1>8. CASE Interrupt(r)
    <2>1. \/ pc'[r] = "done"
          \/ /\ pc' = pc /\ call' = call /\ copy' = copy /\ status' = status
             /\ balance' = balance /\ rowLock' = rowLock
      BY <1>8 DEF Interrupt, Finish, storeVars, committed, TypeOK
    <2> QED BY <2>1, <1>0
  <1> QED
    BY Zenon, <1>1, <1>2, <1>3, <1>4, <1>5, <1>6, <1>7, <1>8 DEF Step, Serve, Fault

-----------------------------------------------------------------------------
\* Written is kept: each statement adds its own rows to those of the
\* statements before it.
LEMMA WrittenStep ==
    ASSUME TypeOK, Control, Locking, Written, NEW r \in Requests, Step(r)
    PROVE  Written'
  <1>0. WrittenOf(r)
    BY DEF Written
  <1>a. ASSUME NEW s \in Requests \ {r} PROVE WrittenOf(s)'
    <2>1. Untouched(s) /\ WrittenOf(s)
      BY Frame DEF Written
    <2>2. sequence \in Nat /\ sequence' \in Nat /\ sequence <= sequence'
      BY SequenceGrows DEF TypeOK
    <2>3. Draft(s)' = Draft(s) /\ Wanted(s)' = Wanted(s)
      BY Zenon, <2>1 DEF Untouched, Draft, Key, Request, Wanted
    <2>4. \A m, n \in Nat : TwoEntries(s, m, n)' = TwoEntries(s, m, n)
      BY Zenon, <2>1 DEF Untouched, TwoEntries, Entry, Request
    <2>5. [a \in Wanted(s) |-> copy[s][a]]' = [a \in Wanted(s) |-> copy[s][a]]
      BY Zenon, <2>1, <2>3 DEF Untouched
    <2>6. (\E m, n \in 1..sequence : newEntries[s] = TwoEntries(s, m, n))
            => (\E m, n \in 1..sequence : newEntries[s] = TwoEntries(s, m, n))'
      <3>1. ASSUME NEW m \in 1..sequence, NEW n \in 1..sequence,
                   newEntries[s] = TwoEntries(s, m, n)
            PROVE  m \in 1..sequence' /\ n \in 1..sequence' /\ newEntries'[s] = TwoEntries(s, m, n)'
        <4>1. m \in 1..sequence' /\ n \in 1..sequence' /\ m \in Nat /\ n \in Nat
          BY <3>1, <2>2
        <4> QED BY Zenon, <4>1, <3>1, <2>1, <2>4 DEF Untouched
      <3> QED BY Zenon, <3>1
    <2> QED BY Zenon, <2>1, <2>3, <2>5, <2>6 DEF WrittenOf, Untouched
  <1> SUFFICES WrittenOf(r)'
    BY <1>a DEF Written
  <1> USE DEF WrittenOf, InTx
  <1>b. ASSUME UNCHANGED written, UNCHANGED <<call, status>>
        PROVE  UNCHANGED <<newRow, newBalance, newEntries>> /\ Draft(r)' = Draft(r)
    BY Zenon, <1>b DEF written, Draft, Key, Request
  <1>1. ASSUME NEW c \in Calls, Create(r, c) PROVE WrittenOf(r)'
    BY <1>0, <1>1 DEF Create, storeVars, written, TypeOK
  <1>2. CASE Begin(r)
    BY <1>0, <1>2 DEF Begin, storeVars, written, TypeOK
  <1>3. CASE LockForTransfer(r)
    BY <1>0, <1>3 DEF LockForTransfer, LockRow, written
  <1>4. CASE Decide(r)
    <2>1. pc'[r] \in {"insert", "rollback", "abort"}
      BY Zenon, <1>4 DEF Decide, Raise, Goto, TypeOK
    <2>2. pc[r] = "lock" /\ UNCHANGED written
      BY <1>4 DEF Decide, storeVars
    <2> QED BY Zenon, <2>1, <2>2, <1>0 DEF written
  <1>5. CASE CreateIdempotent(r)
    <2>0. /\ newRow[r] = {} /\ newBalance[r] = NoBalances /\ newEntries[r] = {}
          /\ UNCHANGED <<newBalance, newEntries, call, status>>
      BY <1>0, <1>5 DEF CreateIdempotent, InsertTransfer, storeVars, written
    <2>1. CASE InsertTransfer(r, Draft(r)) /\ Goto(r, IF status[r] = "completed" THEN "save" ELSE "commit")
      <3>1. newRow'[r] = {Draft(r)} /\ Draft(r)' = Draft(r)
        BY <2>0, <2>1 DEF InsertTransfer, Draft, Key, Request, TypeOK
      <3>2. \/ pc'[r] = "abort"
            \/ pc'[r] = "save" /\ status'[r] = "completed"
            \/ pc'[r] = "commit" /\ status'[r] = "failed"
        <4>1. status[r] \in {"completed", "failed"} /\ status'[r] = status[r]
          BY <2>0 DEF TypeOK, Statuses
        <4>2. pc'[r] = IF r \in orphans THEN "abort"
                       ELSE IF status[r] = "completed" THEN "save" ELSE "commit"
          BY <2>1 DEF Goto, TypeOK
        <4> QED BY <4>1, <4>2
      <3> QED BY Zenon, <2>0, <3>1, <3>2
    <2>2. CASE UNCHANGED newRow /\ pc'[r] \in {"select", "rollback", "abort"}
      BY Zenon, <2>0, <2>2
    <2> QED BY Zenon, <2>1, <2>2, <1>5 DEF CreateIdempotent, Raise, Goto, storeVars, written, TypeOK
  <1>6. CASE FindExisting(r)
    <2>1. pc'[r] \in {"commit", "rollback", "abort"}
      BY Zenon, <1>6 DEF FindExisting, Raise, Goto, TypeOK
    <2>2. pc[r] = "select" /\ UNCHANGED written
      BY <1>6 DEF FindExisting, storeVars
    <2> QED BY Zenon, <2>1, <2>2, <1>0 DEF written
  <1>7. CASE Save(r)
    <2> DEFINE balances == [a \in Wanted(r) |-> copy[r][a]]
    <2>1. /\ pc[r] = "save" /\ UNCHANGED <<newRow, newEntries, call, copy, status>>
          /\ Draft(r)' = Draft(r) /\ Wanted(r)' = Wanted(r) /\ balances' = balances
      BY Zenon, <1>7 DEF Save, SaveBalances, storeVars, written, Draft, Key, Request, Wanted
    <2>2. \/ pc'[r] \in {"rollback", "abort"}
          \/ pc'[r] = "append" /\ newBalance'[r] = balances
      BY <1>7 DEF Save, SaveBalances, Raise, Goto, TypeOK
    <2> QED BY Zenon, <2>1, <2>2, <1>0
  <1>8. CASE AppendLedger(r)
    <2>1. /\ pc[r] = "append" /\ UNCHANGED <<newRow, newBalance, call, copy, status>>
          /\ Draft(r)' = Draft(r) /\ Wanted(r)' = Wanted(r)
          /\ [a \in Wanted(r) |-> copy[r][a]]' = [a \in Wanted(r) |-> copy[r][a]]
      BY Zenon, <1>8 DEF AppendLedger, AppendEntries, storeVars, written, Draft, Key, Request, Wanted
    <2>2. \/ pc'[r] \in {"rollback", "abort"}
          \/ pc'[r] = "commit" /\ newEntries'[r] = EntriesOf(r) /\ sequence' = sequence + 2
      BY <1>8 DEF AppendLedger, AppendEntries, Raise, Goto, TypeOK
    <2>3. ASSUME NEW m, NEW n, m = sequence + 1, n = sequence + 2
          PROVE  EntriesOf(r) = TwoEntries(r, m, n)'
      BY Zenon, <2>1, <2>3 DEF EntriesOf, TwoEntries, Entry, Request
    <2>4. CASE pc'[r] \in {"rollback", "abort"}
      BY Zenon, <2>1, <2>4, <1>0
    <2>5. CASE pc'[r] = "commit" /\ newEntries'[r] = EntriesOf(r) /\ sequence' = sequence + 2
      <3>1. sequence + 1 \in 1..sequence' /\ sequence + 2 \in 1..sequence'
        <4>1. sequence \in Nat
          BY DEF TypeOK
        <4> QED BY <4>1, <2>5
      <3>2. (\E m, n \in 1..sequence : newEntries[r] = TwoEntries(r, m, n))'
        BY <3>1, <2>3, <2>5
      <3> QED BY Zenon, <3>2, <2>1, <2>5, <1>0
    <2> QED BY Zenon, <2>2, <2>4, <2>5
  <1>9. CASE Commit(r) \/ Rollback(r) \/ Abort(r)
    <2>1. newRow'[r] = {} /\ newBalance'[r] = NoBalances /\ newEntries'[r] = {}
      BY <1>9 DEF Commit, Rollback, Abort, CommitTx, RollbackTx, Release, TypeOK
    <2>2. pc'[r] \in {"ack", "done"}
      BY <1>9 DEF Commit, Rollback, Abort, Finish, TypeOK
    <2> QED BY Zenon, <2>1, <2>2
  <1>10. CASE Return(r)
    BY <1>0, <1>10 DEF Return, Finish, storeVars, written, TypeOK
  <1>11. CASE Fail(r)
    <2>1. pc'[r] \in {"rollback", "abort"} /\ pc[r] \in InTx
      BY <1>11 DEF Fail, Raise, Goto, TypeOK
    <2> QED BY Zenon, <2>1, <1>0, <1>b, <1>11 DEF Fail, storeVars
  <1>12. CASE Interrupt(r)
    <2>1. CASE pc[r] \in {"begin", "ack"} /\ Finish(r)
      BY Zenon, <2>1, <1>0, <1>12 DEF Interrupt, Finish, storeVars, written, TypeOK
    <2>2. CASE UNCHANGED <<pc, call, copy, status>>
      <3>1. /\ UNCHANGED <<newRow, newBalance, newEntries, sequence, pc, call, copy, status>>
            /\ Draft(r)' = Draft(r) /\ Wanted(r)' = Wanted(r)
            /\ \A m, n \in 1..sequence : TwoEntries(r, m, n)' = TwoEntries(r, m, n)
        BY <2>2, <1>12 DEF Interrupt, storeVars, written, Draft, Key, Request, Wanted,
           TwoEntries, Entry
      <3> QED BY Zenon, <3>1, <1>0
    <2> QED BY Zenon, <2>1, <2>2, <1>12 DEF Interrupt
  <1> QED
    BY Zenon, <1>1, <1>2, <1>3, <1>4, <1>5, <1>6, <1>7, <1>8, <1>9, <1>10, <1>11, <1>12
    DEF Step, Serve, Fault

-----------------------------------------------------------------------------
\* The fields of what CreateTransfer answers when it fails...
LEMMA FailureFields ==
    \A e : /\ Failure(e).err = e /\ Failure(e).transfer = NoTransfer
          /\ Failure(e).created = FALSE
  BY DEF Failure

\* ... of the transfer it inserts...
LEMMA DraftFields ==
    \A r : /\ Draft(r).id = r /\ Draft(r).user = call[r].user /\ Draft(r).key = Key(r)
          /\ Draft(r).request = Request(r) /\ Draft(r).status = status[r]
  BY Zenon DEF Draft

\* ... and of the ledger entries it appends.
LEMMA EntryFields ==
    \A r, n, a, amount :
        LET e == Entry(r, n, a, amount)
        IN /\ e.id = n /\ e.transfer = r /\ e.account = a /\ e.amount = amount
           /\ e.balanceAfter = copy[r][a]
  BY DEF Entry

\* KeysDistinct is kept: a row is inserted only when its key is neither stored
\* nor in flight, and a commit only moves rows.
LEMMA KeysStep ==
    ASSUME TypeOK, Control, Written, KeysDistinct, NEW r \in Requests, Step(r)
    PROVE  KeysDistinct'
  <1>0. \A s \in Requests \ {r} : newRow'[s] = newRow[s] /\ pc'[s] = pc[s]
    BY Frame DEF Untouched
  <1>1. \A t \in transfers : t.id \in Requests
    BY DEF TypeOK, Transfer
  <1> USE DEF KeysDistinct, StoredUnder, SameKey
  <1>2. CASE CreateIdempotent(r) /\ InsertTransfer(r, Draft(r))
    <2>1. /\ pc[r] = "insert" /\ transfers' = transfers /\ newRow'[r] = {Draft(r)}
          /\ ~KeyInFlight(r, call[r].user, Key(r)) /\ StoredUnder(call[r].user, Key(r)) = {}
      <3>1. newRow' = [newRow EXCEPT ![r] = {Draft(r)}] /\ transfers' = transfers
        BY Zenon, <1>2 DEF InsertTransfer, committed
      <3>2. newRow[r] = {}
        BY <1>2 DEF CreateIdempotent, Written, WrittenOf
      <3>3. newRow'[r] = {Draft(r)}
        BY <3>1 DEF TypeOK
      <3>4. ~(UNCHANGED newRow)
        BY <3>2, <3>3
      <3>5. ~(UNCHANGED storeVars)
        BY Zenon, <3>4 DEF storeVars, written
      <3> QED BY <3>1, <3>3, <3>5, <1>2 DEF CreateIdempotent
    <2>2. Draft(r).id = r /\ Draft(r).user = call[r].user /\ Draft(r).key = Key(r)
      BY DEF Draft
    <2>3. \A q \in Requests \ {r} : \A u \in newRow[q] :
             ~(u.user = call[r].user /\ u.key = Key(r))
      BY <2>1 DEF KeyInFlight
    <2>4. \A t \in transfers : t.id # r
      BY Zenon, <2>1
    <2>5. \A t \in transfers' : pc'[t.id] \in {"ack", "done"}
      BY Zenon, <2>1, <2>4, <1>0, <1>1
    <2>6. ASSUME NEW p \in Requests, NEW t \in newRow'[p]
          PROVE  /\ t.id = p /\ StoredUnder(t.user, t.key)' = {}
                 /\ \A q \in Requests : \A u \in newRow'[q] : SameKey(u, t.user, t.key) => u = t
      <3>1. CASE p = r
        <4>1. t = Draft(r)
          BY <3>1, <2>1
        <4>2. ASSUME NEW q \in Requests, NEW u \in newRow'[q], SameKey(u, t.user, t.key)
              PROVE  u = t
          <5>1. CASE q = r
            BY <5>1, <4>1, <4>2, <2>1
          <5>2. CASE q # r
            <6>1. u \in newRow[q] /\ u.user = call[r].user /\ u.key = Key(r)
              BY Zenon, <5>2, <4>1, <4>2, <2>2, <1>0
            <6> QED BY Zenon, <5>2, <6>1, <2>3
          <5> QED BY <5>1, <5>2
        <4>3. t.id = p /\ t.user = call[r].user /\ t.key = Key(r)
          BY Zenon, <4>1, <3>1, <2>2
        <4>4. StoredUnder(t.user, t.key)' = {}
          BY SMTT(20), <4>3, <2>1
        <4> HIDE DEF StoredUnder
        <4> QED BY Zenon, <4>2, <4>3, <4>4
      <3>2. CASE p # r
        <4>1. t \in newRow[p]
          BY <3>2, <1>0
        <4>2. ASSUME NEW q \in Requests, NEW u \in newRow'[q], SameKey(u, t.user, t.key)
              PROVE  u = t
          <5>1. CASE q = r
            <6>1. u = Draft(r)
              BY Zenon, <5>1, <4>2, <2>1
            <6>2. t.user = call[r].user /\ t.key = Key(r)
              BY Zenon, <6>1, <4>2, <2>2
            <6> QED BY Zenon, <6>2, <4>1, <3>2, <2>3
          <5>2. CASE q # r
            BY <5>2, <4>1, <4>2, <1>0
          <5> QED BY <5>1, <5>2
        <4>3. t.id = p
          BY <4>1
        <4>4. \A u \in transfers : ~SameKey(u, t.user, t.key)
          BY <4>1
        <4>5. StoredUnder(t.user, t.key)' = {}
          BY <4>4, <2>1
        <4> HIDE DEF StoredUnder
        <4> QED BY Zenon, <4>2, <4>3, <4>5
      <3> QED BY <3>1, <3>2
    <2>7. \A t, u \in transfers' : SameKey(u, t.user, t.key) => u = t
      BY <2>1
    <2> HIDE DEF StoredUnder
    <2> QED BY Zenon, <2>5, <2>6, <2>7
  <1>3. CASE Commit(r)
    <2>1. /\ pc[r] = "commit" /\ transfers' = transfers \cup newRow[r] /\ newRow'[r] = {}
          /\ pc'[r] \in {"ack", "done"}
      <3>1. pc \in [Requests -> PCs] /\ newRow \in [Requests -> SUBSET Transfer]
        BY DEF TypeOK
      <3>2. pc'[r] \in {"ack", "done"}
        BY <3>1, <1>3 DEF Commit, Finish
      <3>3. transfers' = transfers \cup newRow[r] /\ newRow'[r] = {}
        BY <3>1, <1>3 DEF Commit, CommitTx, Release
      <3> QED BY <3>2, <3>3, <1>3 DEF Commit
    <2>2. \A t \in transfers : t.id # r
      BY <2>1
    <2>3. \A t \in newRow[r] : t.id = r
      OBVIOUS
    <2>4. \A t \in transfers' : pc'[t.id] \in {"ack", "done"}
      BY <2>1, <2>2, <2>3, <1>0, <1>1
    <2>5. ASSUME NEW p \in Requests, NEW t \in newRow'[p]
          PROVE  /\ t.id = p /\ StoredUnder(t.user, t.key)' = {}
                 /\ \A q \in Requests : \A u \in newRow'[q] : SameKey(u, t.user, t.key) => u = t
      <3>1. p # r /\ t \in newRow[p] /\ t.id = p
        BY <2>1, <1>0
      <3>2. \A u \in transfers' : ~SameKey(u, t.user, t.key)
        BY <3>1, <2>1, <2>3
      <3>3. ASSUME NEW q \in Requests, NEW u \in newRow'[q], SameKey(u, t.user, t.key)
            PROVE  u = t
        BY <3>1, <3>3, <2>1, <1>0
      <3>4. StoredUnder(t.user, t.key)' = {}
        BY Zenon, <3>2
      <3> HIDE DEF StoredUnder
      <3> QED BY Zenon, <3>1, <3>3, <3>4
    <2>6. ASSUME NEW t \in transfers', NEW u \in transfers', SameKey(u, t.user, t.key)
          PROVE  u = t
      <3>0. \A v \in newRow[r] : \A w \in transfers : ~SameKey(w, v.user, v.key)
        OBVIOUS
      <3>1. CASE t \in newRow[r]
        BY Zenon, <3>0, <3>1, <2>1, <2>6
      <3>2. CASE u \in newRow[r]
        BY Zenon, <3>0, <3>2, <2>1, <2>6
      <3>3. CASE t \in transfers /\ u \in transfers
        BY <3>3, <2>6
      <3> QED BY Zenon, <3>1, <3>2, <3>3, <2>1
    <2> HIDE DEF StoredUnder
    <2> QED BY <2>4, <2>5, <2>6
  <1>4. CASE /\ transfers' = transfers
             /\ newRow'[r] \subseteq newRow[r]
             /\ pc[r] \in {"ack", "done"} => pc'[r] \in {"ack", "done"}
    <2>1. \A s \in Requests : newRow'[s] \subseteq newRow[s]
      BY Zenon, <1>0, <1>4
    <2>2. \A t \in transfers' : pc'[t.id] \in {"ack", "done"}
      BY Zenon, <1>0, <1>1, <1>4
    <2>3. ASSUME NEW p \in Requests, NEW t \in newRow'[p]
          PROVE  /\ t.id = p /\ StoredUnder(t.user, t.key)' = {}
                 /\ \A q \in Requests : \A u \in newRow'[q] : SameKey(u, t.user, t.key) => u = t
      <3>1. t \in newRow[p] /\ t.id = p /\ StoredUnder(t.user, t.key) = {}
        BY <2>1, <2>3
      <3>2. StoredUnder(t.user, t.key)' = {}
        BY Zenon, <1>4, <3>1
      <3> HIDE DEF StoredUnder
      <3> QED BY Zenon, <2>1, <3>1, <3>2
    <2> HIDE DEF StoredUnder
    <2> QED BY Zenon, <1>4, <2>2, <2>3
  <1>5. ASSUME UNCHANGED storeVars
        PROVE  transfers' = transfers /\ newRow'[r] \subseteq newRow[r]
    BY <1>5 DEF storeVars, committed, written
  <1>6. ASSUME NEW c \in Calls, Create(r, c) PROVE KeysDistinct'
    BY <1>4, <1>5, <1>6 DEF Create
  <1>7. CASE Begin(r) \/ Decide(r) \/ FindExisting(r) \/ Fail(r)
    BY <1>4, <1>5, <1>7 DEF Begin, Decide, FindExisting, Fail, InTx
  <1>8. CASE LockForTransfer(r)
    BY <1>4, <1>8 DEF LockForTransfer, LockRow, committed, written
  <1>9. CASE CreateIdempotent(r) /\ UNCHANGED storeVars
    BY <1>4, <1>5, <1>9 DEF CreateIdempotent
  <1>10. CASE Save(r) \/ AppendLedger(r)
    BY Zenon, <1>4, <1>5, <1>10 DEF Save, SaveBalances, AppendLedger, AppendEntries, committed
  <1>11. CASE Rollback(r) \/ Abort(r)
    <2>1. transfers' = transfers /\ newRow'[r] = {} /\ pc'[r] = "done"
      <3>1. pc \in [Requests -> PCs] /\ newRow \in [Requests -> SUBSET Transfer]
        BY DEF TypeOK
      <3>2. pc'[r] = "done"
        BY <3>1, <1>11 DEF Rollback, Abort, Finish
      <3>3. transfers' = transfers /\ newRow'[r] = {}
        BY Zenon, <3>1, <1>11 DEF Rollback, Abort, RollbackTx, Release, committed
      <3> QED BY <3>2, <3>3
    <2> QED BY <2>1, <1>4
  <1>12. CASE Return(r) \/ Interrupt(r)
    <2>1. UNCHANGED storeVars /\ (pc'[r] = pc[r] \/ pc'[r] = "done")
      BY <1>12 DEF Return, Interrupt, Finish, TypeOK
    <2> QED BY Zenon, <2>1, <1>4, <1>5
  <1>13. CreateIdempotent(r) => InsertTransfer(r, Draft(r)) \/ UNCHANGED storeVars
    BY DEF CreateIdempotent
  <1> QED
    BY Zenon, <1>2, <1>3, <1>6, <1>7, <1>8, <1>9, <1>10, <1>11, <1>12, <1>13 DEF Step, Serve, Fault

-----------------------------------------------------------------------------
\* The inductive invariant holds at the start...
LEMMA InvInit == Init => IInv
  <1> SUFFICES ASSUME Init PROVE IInv
    OBVIOUS
  <1>1. Control /\ Locking /\ Fresh /\ Written
    BY Zenon, StoreAssumption
    DEF Init, StoreInit, Control, ControlOf, Locking, LockingOf, Fresh, FreshOf, Written,
        WrittenOf, InTx, Decided
  <1>2. KeysDistinct
    BY DEF Init, StoreInit, KeysDistinct
  <1> QED BY <1>1, <1>2, TypeInit DEF IInv

\* ...and every step keeps it.
LEMMA InvStep == IInv /\ [Next]_vars => IInv'
  <1> SUFFICES ASSUME IInv, [Next]_vars PROVE IInv'
    OBVIOUS
  <1>1. TypeOK'
    BY TypeStep
  <1>2. ASSUME NEW r \in Requests, Step(r) PROVE IInv'
    BY <1>1, <1>2, ControlStep, LockingStep, FreshStep, WrittenStep, KeysStep DEF IInv
  <1>3. ASSUME UNCHANGED vars PROVE IInv'
    <2> USE <1>3 DEF vars, storeVars, committed, written, serviceVars, IInv, Request
    <2>1. Control' /\ Locking' /\ Fresh'
      <3>1. Control'
        BY DEF Control, ControlOf
      <3>2. Locking'
        <4>1. ASSUME NEW r \in Requests PROVE LockingOf(r)'
          <5>1. /\ LockingOf(r) /\ Wanted(r)' = Wanted(r)
                /\ UNCHANGED <<pc, call, rowLock>>
            BY Zenon DEF Locking, Wanted
          <5> QED BY Zenon, <5>1 DEF LockingOf
        <4> QED BY <4>1 DEF Locking
      <3>3. Fresh'
        BY DEF Fresh, FreshOf
      <3> QED BY <3>1, <3>2, <3>3
    <2>2. ASSUME NEW r \in Requests PROVE WrittenOf(r)'
      <3>1. Draft(r)' = Draft(r) /\ Wanted(r)' = Wanted(r)
        BY Zenon DEF Draft, Key, Wanted
      <3>2. \A m, n \in 1..sequence : TwoEntries(r, m, n)' = TwoEntries(r, m, n)
        BY Zenon DEF TwoEntries, Entry
      <3>3. [a \in Wanted(r) |-> copy[r][a]]' = [a \in Wanted(r) |-> copy[r][a]]
        BY <3>1
      <3>4. WrittenOf(r)
        BY DEF Written
      <3>5. /\ UNCHANGED <<pc, status, sequence>>
            /\ UNCHANGED <<newRow, newBalance, newEntries>>
        OBVIOUS
      <3> HIDE <1>3 DEF vars, storeVars, committed, written, serviceVars, IInv, Request
      <3> QED BY Zenon, <3>1, <3>2, <3>3, <3>4, <3>5 DEF WrittenOf
    <2>3. KeysDistinct'
      BY DEF KeysDistinct, StoredUnder
    <2> QED BY <1>1, <2>1, <2>2, <2>3 DEF Written
  <1> QED BY <1>2, <1>3 DEF Next, Step, Quiet

\* The inductive invariant holds in every reachable state.
THEOREM Invariance == Spec => []IInv
  BY InvInit, InvStep, PTL DEF Spec

\* Every variable of the service and of the store keeps its type: no balance,
\* committed or still in a transaction, ever leaves 0..MaxInt64.
THEOREM TypeCorrect == Spec => []TypeOK
  <1>1. IInv => TypeOK
    BY DEF IInv
  <1> QED BY <1>1, Invariance, PTL

\* What Create decides after LockForTransfer stays right until COMMIT, however
\* long it waits for another request's key.
THEOREM DecisionsStayValid == Spec => []DecisionStillValid
  <1>1. IInv => DecisionStillValid
    BY DEF IInv, Fresh, FreshOf, Decided, DecisionStillValid
  <1> QED BY <1>1, Invariance, PTL

\* ON CONFLICT DO NOTHING is enough: one user's key never names two transfers,
\* the uncommitted ones included.
THEOREM KeysAreUnique == Spec => []OneTransferPerKey
  <1>1. ASSUME IInv PROVE OneTransferPerKey
    <2>1. KeysDistinct
      BY <1>1 DEF IInv
    <2> SUFFICES ASSUME NEW s \in AllRows, NEW t \in AllRows, SameKey(s, t.user, t.key)
                 PROVE  s = t
      BY DEF OneTransferPerKey
    <2>2. CASE s \in transfers /\ t \in transfers
      BY <2>1, <2>2 DEF KeysDistinct
    <2>3. ASSUME NEW q \in Requests, t \in newRow[q], s \in transfers PROVE FALSE
      BY <2>1, <2>3 DEF KeysDistinct, StoredUnder
    <2>4. ASSUME NEW q \in Requests, s \in newRow[q], t \in transfers PROVE FALSE
      BY <2>1, <2>4 DEF KeysDistinct, StoredUnder, SameKey
    <2>5. ASSUME NEW p \in Requests, NEW q \in Requests, s \in newRow[p], t \in newRow[q]
          PROVE  s = t
      BY <2>1, <2>5 DEF KeysDistinct
    <2> QED BY <2>2, <2>3, <2>4, <2>5 DEF AllRows
  <1> QED BY <1>1, Invariance, PTL

-----------------------------------------------------------------------------
\* COMMIT adds the transfer of its own request, and nothing removes one.
LEMMA TransfersGrow ==
    ASSUME KeysDistinct, NEW r \in Requests, Step(r)
    PROVE  /\ transfers \subseteq transfers'
           /\ \A t \in transfers' : t \in transfers \/ (t \in newRow[r] /\ t.id = r)
  <1>1. CASE Commit(r)
    BY <1>1 DEF Commit, CommitTx, KeysDistinct
  <1>2. CASE ~Commit(r)
    BY <1>2, OnlyCommitShows DEF committed
  <1> QED BY <1>1, <1>2

\* COMMIT of a replay, or of a failed transfer, leaves the balances and the
\* ledger alone.
LEMMA CommitsNoMoney ==
    ASSUME IInv, NEW r \in Requests, Commit(r), newRow[r] = {} \/ status[r] = "failed"
    PROVE  balance' = balance /\ ledger' = ledger
  <1>1. pc[r] = "commit" /\ WrittenOf(r) /\ balance \in [Accounts -> 0..MaxInt64]
    BY DEF IInv, Written, Commit, TypeOK
  <1>2. newBalance[r] = NoBalances /\ newEntries[r] = {}
    BY Zenon, <1>1 DEF WrittenOf
  <1>3. DOMAIN newBalance[r] = {}
    BY <1>2 DEF NoBalances
  <1>4. /\ balance' = [a \in Accounts |-> IF a \in DOMAIN newBalance[r]
                                          THEN newBalance[r][a] ELSE balance[a]]
        /\ ledger' = ledger \cup newEntries[r]
    BY DEF Commit, CommitTx
  <1> QED BY <1>1, <1>2, <1>3, <1>4

\* COMMIT of a completed transfer publishes the two balances and the two
\* entries, computed from the balances as they are at that moment.
LEMMA CommitsMoney ==
    ASSUME IInv, NEW r \in Requests, Commit(r), newRow[r] # {}, status[r] = "completed"
    PROVE  LET q == Request(r) IN
           /\ q.from \in Accounts /\ q.to \in Accounts /\ q.from # q.to
           /\ q.amount \in Int /\ q.amount > 0
           /\ copy[r][q.from] = balance[q.from] - q.amount
           /\ copy[r][q.to] = balance[q.to] + q.amount
           /\ balance' = [a \in Accounts |-> IF a \in {q.from, q.to} THEN copy[r][a]
                                             ELSE balance[a]]
           /\ ledger' = ledger \cup newEntries[r]
           /\ \E m, n \in 1..sequence : newEntries[r] = TwoEntries(r, m, n)
  <1> DEFINE q == Request(r)
  <1>1. /\ pc[r] = "commit" /\ WrittenOf(r) /\ FreshOf(r) /\ LockingOf(r) /\ ControlOf(r)
    BY Zenon DEF IInv, Written, Fresh, Locking, Control, Commit
  <1>2. Validate(q) = Nil /\ call[r] \in Calls
    BY <1>1 DEF ControlOf
  <1>3. q.from \in Accounts /\ q.to \in Accounts
    BY Zenon, <1>1 DEF LockingOf, Decided
  <1>4. q.from # q.to /\ ~(q.amount <= 0)
    BY <1>2 DEF Validate, Nil
  <1>5. q.amount \in Int /\ q.amount > 0
    <2>1. q.amount \in Int
      BY <1>2, ServiceAssumption, EntitiesAssumption DEF Request, CreateTransfer, Int64
    <2> QED BY <2>1, <1>4
  <1>6. /\ newBalance[r] = [a \in Wanted(r) |-> copy[r][a]]
        /\ \E m, n \in 1..sequence : newEntries[r] = TwoEntries(r, m, n)
    BY Zenon, <1>1 DEF WrittenOf
  <1>7. /\ copy[r][q.from] = balance[q.from] - q.amount
        /\ copy[r][q.to] = balance[q.to] + q.amount
    BY <1>1 DEF FreshOf, Decided
  <1>8. balance' = [a \in Accounts |-> IF a \in {q.from, q.to} THEN copy[r][a] ELSE balance[a]]
    BY Zenon, <1>6 DEF Wanted, Commit, CommitTx
  <1>9. ledger' = ledger \cup newEntries[r]
    BY DEF Commit, CommitTx
  <1> QED BY Zenon, <1>3, <1>4, <1>5, <1>6, <1>7, <1>8, <1>9
=============================================================================
