---------------------- MODULE TransferRefinementProofs ----------------------
(***************************************************************************)
(* The transfer service implements the sequential bank, keeps the bank's   *)
(* books, and what follows from them.                                      *)
(*                                                                         *)
(* Only COMMIT changes the committed tables. What it publishes is, by the  *)
(* inductive invariant, nothing at all (a replay), the row of a failed     *)
(* transfer, or the row, both balances and both entries of a completed     *)
(* one, computed from the balances as they are at that moment. So the      *)
(* ledger grows at the end of each account's statement (Chained), and      *)
(* every step is one of the bank, whose books BankProofs is about.         *)
(* The reads of ReadsProofs look at the same tables, and the completed     *)
(* transfers explain the balances they show.                               *)
(***************************************************************************)
EXTENDS TransferApiProofs, TransferRefinement, ReadsProofs

\* The statement of one account, with a last entry once it has any.
ChainOf(a) ==
    /\ Statement(a) = {} => balance[a] = Opening[a]
    /\ \A e \in Statement(a) :
        LET older == {d \in Statement(a) : d.id < e.id}
            last == {d \in older : \A c \in older : c.id <= d.id}
            before == IF older = {} THEN {Opening[a]} ELSE {d.balanceAfter : d \in last}
        IN /\ before = {e.balanceAfter - e.amount}
           /\ (\A d \in Statement(a) : d.id <= e.id) => e.balanceAfter = balance[a]
    /\ Statement(a) # {} => \E e \in Statement(a) : \A d \in Statement(a) : d.id <= e.id

\* Ledger entries are appended in the order of their ids as far as one account
\* is concerned: what is about to be committed is newer than what is there.
NewestOf(r) ==
    pc[r] = "commit" =>
        \A e \in newEntries[r], d \in ledger : d.account = e.account => d.id < e.id

Numbered == \A e \in ledger : e.id <= sequence

Chained ==
    /\ Numbered
    /\ \A r \in Requests : NewestOf(r)
    /\ \A a \in Accounts : ChainOf(a)

\* A statement is kept by what does not touch its account...
LEMMA ChainSame ==
    ASSUME NEW a \in Accounts, ChainOf(a), Statement(a)' = Statement(a), balance'[a] = balance[a]
    PROVE  ChainOf(a)'
  BY Zenon DEF ChainOf

\* ...and by a newer entry that starts from the balance and ends at the new one.
LEMMA ChainExtends ==
    ASSUME NEW a \in Accounts, ChainOf(a), Statement(a) \subseteq LedgerEntry,
           NEW e \in LedgerEntry, Statement(a)' = Statement(a) \cup {e},
           \A d \in Statement(a) : d.id < e.id,
           e.balanceAfter = balance'[a], balance[a] = e.balanceAfter - e.amount
    PROVE  ChainOf(a)'
  <1> DEFINE S == Statement(a)
             Earlier(x, T) == {d \in T : d.id < x.id}
             Last(T) == {d \in T : \A c \in T : c.id <= d.id}
             Before(T) == IF T = {} THEN {Opening[a]} ELSE {d.balanceAfter : d \in Last(T)}
  <1>0. e.id \in Nat /\ \A d \in S : d.id \in Nat
    BY DEF LedgerEntry
  <1>1. Earlier(e, S \cup {e}) = S
    BY <1>0
  <1>2. \A d \in S : Earlier(d, S \cup {e}) = Earlier(d, S)
    BY <1>0
  <1>3. /\ S = {} => balance[a] = Opening[a]
        /\ \A d \in S : /\ Before(Earlier(d, S)) = {d.balanceAfter - d.amount}
                        /\ (\A c \in S : c.id <= d.id) => d.balanceAfter = balance[a]
        /\ S # {} => \E d \in S : \A c \in S : c.id <= d.id
    BY Zenon DEF ChainOf
  <1>4. Before(S) = {e.balanceAfter - e.amount}
    <2>1. CASE S = {}
      BY <2>1, <1>3
    <2>2. CASE S # {}
      <3>1. \A d \in Last(S) : d.balanceAfter = balance[a]
        BY <1>3
      <3>2. Last(S) # {}
        BY <1>3, <2>2
      <3>3. Before(S) = {d.balanceAfter : d \in Last(S)}
        BY <2>2
      <3> HIDE DEF Last, Before, S
      <3>4. {d.balanceAfter : d \in Last(S)} = {balance[a]}
        BY <3>1, <3>2
      <3> QED BY <3>3, <3>4
    <2> QED BY Zenon, <2>1, <2>2
  <1>5. \A d \in S : ~(e.id <= d.id)
    BY <1>0
  <1>6. \A d \in S \cup {e} : d.id <= e.id
    BY <1>0
  <1> HIDE DEF Earlier, Before, S
  <1>7. \A d \in S \cup {e} :
          /\ Before(Earlier(d, S \cup {e})) = {d.balanceAfter - d.amount}
          /\ (\A c \in S \cup {e} : c.id <= d.id) => d.balanceAfter = balance'[a]
    BY <1>1, <1>2, <1>3, <1>4, <1>5
  <1>8. Statement(a)' = S \cup {e}
    BY DEF S
  <1> USE DEF Earlier, Before
  <1> QED BY Zenon, <1>6, <1>7, <1>8 DEF ChainOf

\* Chained is kept: the row locks order the COMMITs of one account as they
\* ordered the ids of its entries.
LEMMA ChainedStep ==
    ASSUME IInv, Chained, NEW r \in Requests, Step(r)
    PROVE  Chained'
  <1>0. TypeOK /\ sequence \in Nat /\ sequence' \in Nat /\ sequence <= sequence'
    BY SequenceGrows DEF IInv, TypeOK
  <1>1. CASE ~Commit(r)
    <2>1. UNCHANGED <<balance, transfers, ledger>>
      BY <1>1, OnlyCommitShows DEF committed
    <2>2. Numbered'
      <3>1. \A e \in ledger : e.id \in Nat /\ e.id <= sequence
        BY <1>0 DEF Chained, Numbered, TypeOK, LedgerEntry
      <3> QED BY <2>1, <3>1, <1>0 DEF Numbered
    <2>3. \A a \in Accounts : ChainOf(a)'
      <3>1. \A a \in Accounts : Statement(a)' = Statement(a) /\ balance'[a] = balance[a]
        BY <2>1 DEF Statement
      <3> QED BY <3>1, ChainSame DEF Chained
    <2>4. ASSUME NEW s \in Requests \ {r} PROVE NewestOf(s)'
      BY <2>1, Frame, <1>0 DEF Untouched, Chained, NewestOf
    <2>5. NewestOf(r)'
      <3>1. CASE AppendLedger(r)
        <4>1. CASE newEntries' = [newEntries EXCEPT ![r] = EntriesOf(r)]
          <5>1. \A e \in newEntries'[r] : e.id = sequence + 1 \/ e.id = sequence + 2
            <6>1. newEntries'[r] = EntriesOf(r)
              BY Zenon, <4>1, <1>0 DEF TypeOK
            <6> QED BY <6>1 DEF EntriesOf
          <5>2. \A d \in ledger : d.id \in Nat /\ d.id <= sequence
            BY <1>0 DEF Chained, Numbered, TypeOK, LedgerEntry
          <5>3. \A d \in ledger : d.id < sequence + 1 /\ d.id < sequence + 2
            BY <5>2, <1>0
          <5> QED BY Zenon, <5>1, <5>3, <2>1 DEF NewestOf
        <4>2. CASE pc'[r] # "commit"
          BY <4>2 DEF NewestOf
        <4> QED BY <3>1, <4>1, <4>2, <1>0 DEF AppendLedger, AppendEntries, Raise, Goto, TypeOK
      <3>2. CASE ~AppendLedger(r)
        <4>1. pc'[r] = "commit" => newEntries'[r] = {} \/ (pc[r] = "commit" /\ newEntries'[r] = newEntries[r])
          <5>1. WrittenOf(r)
            BY DEF IInv, Written
          <5>2. CASE CreateIdempotent(r) \/ FindExisting(r)
            <6>1. pc[r] \in {"insert", "select"} /\ newEntries' = newEntries
              BY Zenon, <5>2 DEF CreateIdempotent, InsertTransfer, FindExisting, storeVars, written
            <6> QED BY Zenon, <6>1, <5>1 DEF WrittenOf
          <5>3. CASE Interrupt(r)
            BY <5>3, <1>0 DEF Interrupt, Finish, storeVars, written, TypeOK
          <5>4. CASE Save(r) \/ Fail(r) \/ Decide(r)
            BY Zenon, <5>4, <1>0 DEF Save, Fail, Decide, Raise, Goto, TypeOK
          <5>5. CASE (\E c \in Calls : Create(r, c)) \/ Begin(r) \/ LockForTransfer(r)
            BY Zenon, <5>5, <1>0 DEF Create, Begin, LockForTransfer, TypeOK
          <5>6. CASE Return(r) \/ Rollback(r) \/ Abort(r)
            BY Zenon, <5>6, <1>0 DEF Return, Rollback, Abort, Finish, TypeOK
          <5> QED BY Zenon, <1>1, <3>2, <5>2, <5>3, <5>4, <5>5, <5>6 DEF Step, Serve, Fault
        <4>2. NewestOf(r)
          BY DEF Chained
        <4> QED BY <4>1, <4>2, <2>1 DEF NewestOf
      <3> QED BY <3>1, <3>2
    <2> QED BY <2>2, <2>3, <2>4, <2>5 DEF Chained
  <1>2. CASE Commit(r)
    <2>0. pc[r] = "commit" /\ pc'[r] # "commit" /\ UNCHANGED sequence
      BY <1>0, <1>2 DEF Commit, CommitTx, Release, Finish, TypeOK
    <2>1. CASE newRow[r] = {} \/ status[r] = "failed"
      <3>1. balance' = balance /\ ledger' = ledger
        BY <1>2, <2>1, CommitsNoMoney
      <3>2. Numbered'
        BY <2>0, <3>1 DEF Chained, Numbered
      <3>3. \A a \in Accounts : ChainOf(a)'
        <4>1. \A a \in Accounts : Statement(a)' = Statement(a) /\ balance'[a] = balance[a]
          BY <3>1 DEF Statement
        <4> QED BY <4>1, ChainSame DEF Chained
      <3>4. \A s \in Requests \ {r} : NewestOf(s)'
        BY <3>1, Frame, <1>0 DEF Untouched, Chained, NewestOf
      <3> QED BY Zenon, <2>0, <3>2, <3>3, <3>4 DEF Chained, NewestOf
    <2>2. CASE newRow[r] # {} /\ status[r] = "completed"
      <3> DEFINE q == Request(r)
      <3>1. /\ q.from \in Accounts /\ q.to \in Accounts /\ q.from # q.to
            /\ q.amount \in Int
            /\ copy[r][q.from] = balance[q.from] - q.amount
            /\ copy[r][q.to] = balance[q.to] + q.amount
            /\ balance' = [a \in Accounts |-> IF a \in {q.from, q.to} THEN copy[r][a]
                                              ELSE balance[a]]
            /\ ledger' = ledger \cup newEntries[r]
        BY Zenon, <1>2, <2>2, CommitsMoney
      <3>2. PICK m, n \in 1..sequence : newEntries[r] = TwoEntries(r, m, n)
        BY Zenon, <1>2, <2>2, CommitsMoney
      <3> DEFINE debit == Entry(r, m, q.from, -q.amount)
                 credit == Entry(r, n, q.to, q.amount)
      <3>3. newEntries[r] = {debit, credit}
        BY <3>2 DEF TwoEntries
      <3>4. /\ debit.id = m /\ debit.account = q.from /\ debit.amount = -q.amount
            /\ debit.balanceAfter = copy[r][q.from]
            /\ credit.id = n /\ credit.account = q.to /\ credit.amount = q.amount
            /\ credit.balanceAfter = copy[r][q.to]
        BY EntryFields
      <3>5. debit \in LedgerEntry /\ credit \in LedgerEntry /\ ledger \subseteq LedgerEntry
        BY Zenon, <3>3, <1>0 DEF TypeOK
      <3>6. Numbered'
        <4>1. ledger' = ledger \cup {debit, credit} /\ sequence' = sequence
          BY Zenon, <2>0, <3>1, <3>3
        <4>2. m <= sequence /\ n <= sequence
          BY <1>0 DEF TypeOK
        <4>3. Numbered
          BY Zenon, <2>0 DEF Chained
        <4> HIDE DEF debit, credit
        <4> QED BY Zenon, <4>1, <4>2, <4>3, <3>4 DEF Numbered
      <3>7. \A d \in ledger : /\ d.account = q.from => d.id < m
                              /\ d.account = q.to => d.id < n
        BY Zenon, <2>0, <3>3, <3>4 DEF Chained, NewestOf
      <3>8. /\ balance[q.from] \in Int /\ balance[q.to] \in Int
            /\ balance[q.from] = copy[r][q.from] - (-q.amount)
            /\ balance[q.to] = copy[r][q.to] - q.amount
        <4>1. balance[q.from] \in Int /\ balance[q.to] \in Int
          <5>1. \A a \in Accounts : balance[a] \in Int
            BY <1>0, EntitiesAssumption DEF TypeOK
          <5> QED BY Zenon, <5>1, <3>1
        <4>2. /\ q.amount \in Int
              /\ copy[r][q.from] = balance[q.from] - q.amount
              /\ copy[r][q.to] = balance[q.to] + q.amount
          BY Zenon, <3>1
        <4> HIDE DEF q
        <4> QED BY <4>1, <4>2
      <3>9. balance'[q.from] = copy[r][q.from] /\ balance'[q.to] = copy[r][q.to]
        BY <3>1
      <3> HIDE DEF debit, credit
      <3>10. ASSUME NEW a \in Accounts PROVE ChainOf(a)'
        <4>0. ChainOf(a) /\ Statement(a) \subseteq LedgerEntry
          BY <3>5 DEF Chained, Statement
        <4>1. CASE a = q.from
          <5>1. Statement(a)' = Statement(a) \cup {debit}
            BY Zenon, <3>1, <3>3, <3>4, <4>1 DEF Statement
          <5>2. \A d \in Statement(a) : d.id < debit.id
            BY <3>4, <3>7, <4>1 DEF Statement
          <5>3. debit.balanceAfter = balance'[a] /\ balance[a] = debit.balanceAfter - debit.amount
            BY Zenon, <3>4, <3>8, <3>9, <4>1
          <5> HIDE DEF q
          <5> QED BY Zenon, <3>5, <4>0, <5>1, <5>2, <5>3, ChainExtends
        <4>2. CASE a = q.to
          <5>1. Statement(a)' = Statement(a) \cup {credit}
            BY Zenon, <3>1, <3>3, <3>4, <4>2 DEF Statement
          <5>2. \A d \in Statement(a) : d.id < credit.id
            BY Zenon, <3>4, <3>7, <4>2 DEF Statement
          <5>3. credit.balanceAfter = balance'[a] /\ balance[a] = credit.balanceAfter - credit.amount
            BY Zenon, <3>4, <3>8, <3>9, <4>2
          <5> HIDE DEF q
          <5> QED BY <3>5, <4>0, <5>1, <5>2, <5>3, ChainExtends
        <4>3. CASE a # q.from /\ a # q.to
          <5>1. Statement(a)' = Statement(a)
            BY <3>1, <3>3, <3>4, <4>3 DEF Statement
          <5>2. balance'[a] = balance[a]
            BY <3>1, <4>3
          <5> QED BY <4>0, <5>1, <5>2, ChainSame
        <4> QED BY Zenon, <4>1, <4>2, <4>3
      <3>11. ASSUME NEW s \in Requests \ {r} PROVE NewestOf(s)'
        <4>1. Untouched(s) /\ NewestOf(s) /\ LockingOf(s) /\ LockingOf(r) /\ WrittenOf(s)
          BY <1>0, Frame DEF Chained, IInv, Locking, Written
        <4> SUFFICES ASSUME pc[s] = "commit", NEW e \in newEntries[s], NEW d \in ledger',
                            d.account = e.account
                     PROVE  d.id < e.id
          BY <4>1 DEF NewestOf, Untouched
        <4>2. e.account \in Accounts /\ rowLock[e.account] = s
          <5>1. PICK i, j \in 1..sequence : newEntries[s] = TwoEntries(s, i, j)
            BY Zenon, <4>1 DEF WrittenOf
          <5>2. e.account \in {Request(s).from, Request(s).to}
            BY <5>1, EntryFields DEF TwoEntries
          <5> QED BY Zenon, <5>2, <4>1 DEF LockingOf, Decided
        <4>3. rowLock[q.from] = r /\ rowLock[q.to] = r
          BY Zenon, <4>1, <2>0 DEF LockingOf, Decided
        <4>4. d \in ledger
          BY Zenon, <4>2, <4>3, <3>1, <3>3, <3>4
        <4> QED BY Zenon, <4>1, <4>4 DEF NewestOf
      <3> QED BY <2>0, <3>6, <3>10, <3>11 DEF Chained, NewestOf
    <2>3. status[r] \in {"completed", "failed"}
      BY <1>0 DEF TypeOK, Statuses
    <2> QED BY <2>1, <2>2, <2>3
  <1> QED BY <1>1, <1>2

\* The ledger is a chain of statements in every reachable state: read in id
\* order, the entries of an account lead from its opening balance to its
\* balance.
THEOREM StatementsHold == Spec => []StatementsAreChained
  <1>1. Init => Chained
    <2> SUFFICES ASSUME Init PROVE Chained
      OBVIOUS
    <2>1. ledger = {} /\ balance = Opening /\ \A a \in Accounts : Statement(a) = {}
      BY DEF Init, StoreInit, Statement
    <2>2. \A r \in Requests : pc[r] # "commit"
      BY DEF Init
    <2> QED BY <2>1, <2>2 DEF Chained, Numbered, NewestOf, ChainOf
  <1>2. ASSUME IInv, Chained, [Next]_vars PROVE Chained'
    <2>1. ASSUME NEW r \in Requests, Step(r) PROVE Chained'
      BY <1>2, <2>1, ChainedStep
    <2>2. CASE UNCHANGED vars
      <3>1. UNCHANGED <<balance, ledger, sequence, pc, newEntries>>
        BY <2>2 DEF vars, storeVars, committed, written, serviceVars
      <3>2. \A a \in Accounts : Statement(a)' = Statement(a) /\ balance'[a] = balance[a]
        BY Zenon, <3>1 DEF Statement
      <3>3. \A a \in Accounts : ChainOf(a)'
        BY <1>2, <3>2, ChainSame DEF Chained
      <3> QED BY Zenon, <1>2, <3>1, <3>3 DEF Chained, Numbered, NewestOf
    <2> QED BY <1>2, <2>1, <2>2 DEF Next, Step, Quiet
  <1>3. Chained => StatementsAreChained
    BY DEF Chained, ChainOf, StatementsAreChained
  <1> QED BY <1>1, <1>2, <1>3, Invariance, PTL DEF Spec

-----------------------------------------------------------------------------
\* The order a request carries out.
Order(r) == [user |-> call[r].user, key |-> Key(r), request |-> Request(r)]

\* Validate lets through what the bank's Validate lets through.
LEMMA SameValidate == \A q : Validate(q) = Abstract!Validate(q)
  BY DEF Validate, Abstract!Validate, Nil, Abstract!Nil, BlankID, Abstract!BlankID

\* What holds of a request about to commit a transfer of its own.
LEMMA AtCommit ==
    ASSUME IInv, NEW r \in Requests, pc[r] = "commit", newRow[r] # {}
    PROVE  /\ Order(r) \in BankOrders
           /\ r \notin {t.id : t \in transfers}
           /\ newRow[r] = {Draft(r)}
           /\ Abstract!Acceptable(Order(r))
           /\ Abstract!Unused(Order(r))
  <1>1. /\ ControlOf(r) /\ LockingOf(r) /\ WrittenOf(r) /\ KeysDistinct
    BY DEF IInv, Control, Locking, Written
  <1>2. call[r] \in Calls /\ Validate(Request(r)) = Nil
    BY <1>1 DEF ControlOf
  <1>3. Order(r) \in BankOrders
    BY <1>2 DEF Order, BankOrders, Key, Request
  <1>4. newRow[r] = {Draft(r)}
    BY <1>1 DEF WrittenOf, InTx
  <1>5. r \notin {t.id : t \in transfers}
    BY <1>1 DEF KeysDistinct
  <1>6. Order(r).user = call[r].user /\ Order(r).key = Key(r) /\ Order(r).request = Request(r)
    BY DEF Order
  <1>7. Abstract!Acceptable(Order(r))
    <2>1. Abstract!Validate(Request(r)) = Abstract!Nil
      BY <1>2, SameValidate DEF Nil, Abstract!Nil
    <2>2. LET q == Request(r) IN
          /\ q.from \in Accounts /\ q.to \in Accounts
          /\ Owner[q.from] = call[r].user
          /\ Currency[q.from] = q.currency /\ Currency[q.to] = q.currency
      BY <1>1 DEF LockingOf, Decided
    <2> QED BY <2>1, <2>2, <1>6 DEF Abstract!Acceptable
  <1>8. Abstract!Unused(Order(r))
    <2>1. Draft(r).user = call[r].user /\ Draft(r).key = Key(r)
      BY DEF Draft
    <2>2. StoredUnder(call[r].user, Key(r)) = {}
      BY <2>1, <1>1, <1>4 DEF KeysDistinct
    <2> QED BY <2>2, <1>6 DEF StoredUnder, SameKey, Abstract!Unused
  <1> QED BY <1>3, <1>4, <1>5, <1>7, <1>8

\* Posting two sets of entries is posting each.
LEMMA PostedUnion == \A S, T : Posted(S \cup T) = Posted(S) \cup Posted(T)
  BY DEF Posted

\* COMMIT is a step of the bank, or changes nothing there.
LEMMA CommitRefines ==
    ASSUME IInv, NEW r \in Requests, Commit(r)
    PROVE  [Abstract!Next]_(Abstract!vars)
  <1> DEFINE q == Request(r)
  <1>1. /\ pc[r] = "commit" /\ TypeOK /\ WrittenOf(r) /\ FreshOf(r) /\ LockingOf(r)
        /\ ControlOf(r) /\ transfers' = transfers \cup newRow[r]
    BY DEF IInv, Written, Fresh, Locking, Control, Commit, CommitTx
  <1>2. CASE newRow[r] = {}
    BY <1>1, <1>2, CommitsNoMoney DEF Abstract!vars
  <1>3. CASE newRow[r] # {}
    <2>1. /\ Order(r) \in BankOrders /\ r \notin {t.id : t \in transfers}
          /\ newRow[r] = {Draft(r)}
          /\ Abstract!Acceptable(Order(r)) /\ Abstract!Unused(Order(r))
      BY <1>1, <1>3, AtCommit
    <2>2. Order(r).request = q
      BY DEF Order
    <2>3. \A s : status[r] = s => Draft(r) = Abstract!Row(r, Order(r), s)
      BY DEF Draft, Order, Abstract!Row
    <2>4. q.from \in Accounts /\ q.to \in Accounts
      BY <1>1 DEF LockingOf, Decided
    <2>5. /\ balance \in [Accounts -> 0..MaxInt64] /\ copy[r] \in [Accounts -> 0..MaxInt64]
          /\ q.amount \in Int
      BY <1>1, ServiceAssumption, EntitiesAssumption
      DEF TypeOK, ControlOf, Request, CreateTransfer, Int64
    <2>6. CASE status[r] = "failed"
      <3>1. balance' = balance /\ ledger' = ledger
        BY <2>6, CommitsNoMoney
      <3>2. balance[q.from] < q.amount
        BY <1>1, <2>6 DEF FreshOf, Decided
      <3>3. ~Abstract!Funded(q)
        BY <3>2, <2>4, <2>5, EntitiesAssumption DEF Abstract!Funded
      <3>4. Abstract!Reject(r, Order(r))
        BY <3>1, <3>3, <1>1, <2>1, <2>2, <2>3, <2>6 DEF Abstract!Reject
      <3> QED BY <3>4, <2>1 DEF Abstract!Next
    <2>7. CASE status[r] = "completed"
      <3>1. /\ q.from # q.to
            /\ copy[r][q.from] = balance[q.from] - q.amount
            /\ copy[r][q.to] = balance[q.to] + q.amount
            /\ balance' = [a \in Accounts |-> IF a \in {q.from, q.to} THEN copy[r][a]
                                              ELSE balance[a]]
            /\ ledger' = ledger \cup newEntries[r]
            /\ \E m, n \in 1..sequence : newEntries[r] = TwoEntries(r, m, n)
        BY <1>3, <2>7, CommitsMoney
      <3>2. /\ copy[r][q.from] \in 0..MaxInt64 /\ copy[r][q.to] \in 0..MaxInt64
            /\ balance[q.from] \in 0..MaxInt64 /\ balance[q.to] \in 0..MaxInt64
        BY <2>4, <2>5
      <3>3. Abstract!Funded(q) /\ Abstract!Room(q)
        BY <3>1, <3>2, <2>5, EntitiesAssumption DEF Abstract!Funded, Abstract!Room
      <3>4. balance' = Abstract!Moved(q)
        BY <3>1, <2>4, <2>5 DEF Abstract!Moved
      <3>5. PICK m, n \in 1..sequence : newEntries[r] = TwoEntries(r, m, n)
        BY <3>1
      <3>6. Posted(TwoEntries(r, m, n)) = Abstract!Entries(r, q)
        <4>1. Posted(TwoEntries(r, m, n)) =
                {[transfer |-> r, account |-> q.from, amount |-> -q.amount,
                  balanceAfter |-> copy[r][q.from]],
                 [transfer |-> r, account |-> q.to, amount |-> q.amount,
                  balanceAfter |-> copy[r][q.to]]}
          BY DEF Posted, TwoEntries, Entry
        <4> QED BY <4>1, <3>1 DEF Abstract!Entries, Abstract!Entry
      <3>7. Posted(ledger)' = Posted(ledger) \cup Abstract!Entries(r, q)
        <4>1. Posted(ledger') = Posted(ledger) \cup Posted(newEntries[r])
          BY <3>1, PostedUnion
        <4> QED BY <4>1, <3>5, <3>6 DEF Posted
      <3>8. Abstract!Complete(r, Order(r))
        BY Zenon, <3>3, <3>4, <3>7, <1>1, <2>1, <2>2, <2>3, <2>7 DEF Abstract!Complete
      <3> QED BY <3>8, <2>1 DEF Abstract!Next
    <2>8. status[r] \in {"completed", "failed"}
      BY <1>1 DEF TypeOK, Statuses
    <2> QED BY <2>6, <2>7, <2>8
  <1> QED BY <1>2, <1>3

\* No other step changes the committed tables.
LEMMA OthersStutter ==
    ASSUME [Next]_vars, \A r \in Requests : ~Commit(r)
    PROVE  UNCHANGED committed
  <1>1. ASSUME UNCHANGED vars PROVE UNCHANGED committed
    BY <1>1 DEF vars, storeVars
  <1> QED BY <1>1, OnlyCommitShows DEF Next, Step, Quiet

\* The transfer service implements the sequential bank, whatever its requests
\* and faults: every COMMIT is one whole transfer of the bank, and nothing
\* else a request does shows in the tables.
THEOREM Refinement == Spec => ImplementsBank
  <1>1. Init => Abstract!Init
    BY DEF Init, StoreInit, Abstract!Init, Posted
  <1>2. ASSUME IInv, [Next]_vars PROVE [Abstract!Next]_(Abstract!vars)
    <2>1. CASE \E r \in Requests : Commit(r)
      BY <1>2, <2>1, CommitRefines
    <2>2. CASE \A r \in Requests : ~Commit(r)
      BY <1>2, <2>2, OthersStutter DEF committed, Abstract!vars, Posted
    <2> QED BY <2>1, <2>2
  <1> QED BY <1>1, <1>2, Invariance, PTL DEF Spec, ImplementsBank, Abstract!Spec

-----------------------------------------------------------------------------
\* No set of requests waits only for its own members: nobody who waits holds an
\* inserted key, and rows are locked in ascending order.
LEMMA NoCycle ==
    ASSUME IInv, \A T \in SUBSET Accounts : T # {} => \E m \in T : \A x \in T : x <= m
    PROVE  NoDeadlock
  <1>1. ASSUME NEW S \in SUBSET Requests,
               \A r \in S : WaitsFor(r) # {} /\ WaitsFor(r) \subseteq S
        PROVE  S = {}
    <2>0. /\ \A r \in Requests : LockingOf(r) /\ WrittenOf(r)
          /\ rowLock \in [Accounts -> Requests \cup {None}] /\ None \notin Requests
      BY <1>1, StoreAssumption DEF IInv, Locking, Written, TypeOK
    <2>1. \A r \in S : pc[r] \in {"begin", "lock", "insert"}
      BY <1>1 DEF WaitsFor
    <2>2. \A r \in S : pc[r] # "insert"
      <3> SUFFICES ASSUME NEW r \in S, pc[r] = "insert" PROVE FALSE
        OBVIOUS
      <3>1. PICK q \in S : newRow[q] # {}
        BY <1>1 DEF WaitsFor
      <3>2. pc[q] \notin {"begin", "lock", "insert"}
        BY Zenon, <2>0, <3>1 DEF WrittenOf
      <3> QED BY <2>1, <3>2
    <2> DEFINE Awaited == {a \in Accounts : \E r \in S :
                              /\ pc[r] = "lock" /\ a \in NextToLock(r, Wanted(r))
                              /\ rowLock[a] \in S}
    <2>3. \A r \in S : pc[r] = "lock" => \E a \in Awaited : a \in NextToLock(r, Wanted(r))
      <3> SUFFICES ASSUME NEW r \in S, pc[r] = "lock"
                   PROVE  \E a \in Awaited : a \in NextToLock(r, Wanted(r))
        OBVIOUS
      <3>1. PICK q \in S : \E a \in NextToLock(r, Wanted(r)) : rowLock[a] = q
        BY <1>1 DEF WaitsFor
      <3>2. PICK a \in NextToLock(r, Wanted(r)) : rowLock[a] = q
        BY <3>1
      <3>3. a \in Accounts
        BY DEF NextToLock
      <3> QED BY <3>2, <3>3
    <2>4. ASSUME Awaited # {} PROVE FALSE
      <3>1. PICK b \in Awaited : \A a \in Awaited : a <= b
        <4>1. Awaited \in SUBSET Accounts
          OBVIOUS
        <4> HIDE DEF Awaited
        <4> QED BY Zenon, <2>4, <4>1
      <3>2. b \in Accounts /\ rowLock[b] \in S
        OBVIOUS
      <3> DEFINE q == rowLock[b]
      <3>3. pc[q] = "lock"
        BY <2>0, <2>1, <2>2, <3>2 DEF LockingOf, InTx
      <3>4. PICK a \in Awaited : a \in NextToLock(q, Wanted(q))
        BY <2>3, <3>2, <3>3
      <3>5. a \in Accounts /\ a \in Wanted(q) /\ rowLock[a] # q
        BY <3>4 DEF NextToLock, Held
      <3>6. b < a
        BY <2>0, <3>2, <3>3, <3>5 DEF LockingOf
      <3>7. a <= b
        BY <3>1, <3>4
      <3> QED BY <3>2, <3>5, <3>6, <3>7, StoreAssumption
    <2>5. \A r \in S : pc[r] # "lock"
      BY <2>3, <2>4
    <2>6. \A r \in S : pc[r] # "begin"
      <3> SUFFICES ASSUME NEW r \in S, pc[r] = "begin" PROVE FALSE
        OBVIOUS
      <3>1. PICK q \in S : pc[q] \in InTx
        BY <1>1 DEF WaitsFor, Connected
      <3> QED BY <3>1, <2>1, <2>2, <2>5 DEF InTx
    <2> QED BY <2>1, <2>2, <2>5, <2>6
  <1> QED BY Zenon, <1>1 DEF NoDeadlock

-----------------------------------------------------------------------------
\* The theorems about the bank, for the tables of the service.
B == INSTANCE BankProofs WITH
    TransferIDs <- Requests,
    Orders <- BankOrders,
    ledger <- Posted(ledger)

\* The same sets are finite there.
LEMMA SameFinite == \A S : IsFiniteSet(S) <=> B!IsFiniteSet(S)
  BY DEF IsFiniteSet, B!IsFiniteSet

\* The service gives the bank finitely many accounts and whole amounts.
LEMMA BankIsSetUp == B!BankConstants
  <1>1. IsFiniteSet(Accounts) /\ Opening \in [Accounts -> 0..MaxInt64]
    BY StoreAssumption
  <1>2. \A order \in BankOrders : order.request.amount \in Int
    BY ServiceAssumption, EntitiesAssumption DEF BankOrders, CreateTransfer, Int64
  <1> QED BY Zenon, <1>1, <1>2, SameFinite DEF B!BankConstants

\* It is the bank that the service implements...
LEMMA SameBank == Abstract!Spec => B!Spec
  <1>1. Abstract!Init => B!Init
    BY DEF Abstract!Init, B!Init
  <1>2. Abstract!vars = B!vars
    BY DEF Abstract!vars, B!vars
  <1>3. \A order : Abstract!Acceptable(order) = B!Acceptable(order)
    <2>1. \A q : Abstract!Validate(q) = B!Validate(q)
      BY DEF Abstract!Validate, B!Validate, Abstract!Nil, B!Nil, Abstract!BlankID, B!BlankID
    <2> QED BY Zenon, <2>1 DEF Abstract!Acceptable, B!Acceptable, Abstract!Nil, B!Nil
  <1>4. \A order : Abstract!Unused(order) = B!Unused(order)
    BY DEF Abstract!Unused, B!Unused
  <1>5. \A q : Abstract!Funded(q) = B!Funded(q) /\ Abstract!Room(q) = B!Room(q)
    BY DEF Abstract!Funded, B!Funded, Abstract!Room, B!Room
  <1>6. \A q : Abstract!Moved(q) = B!Moved(q)
    BY DEF Abstract!Moved, B!Moved
  <1>7. \A id, q : Abstract!Entries(id, q) = B!Entries(id, q)
    BY DEF Abstract!Entries, B!Entries, Abstract!Entry, B!Entry
  <1>8. \A id, order, s : Abstract!Row(id, order, s) = B!Row(id, order, s)
    BY DEF Abstract!Row, B!Row
  <1>9. ASSUME NEW id, NEW order
        PROVE  /\ Abstract!Complete(id, order) => B!Complete(id, order)
               /\ Abstract!Reject(id, order) => B!Reject(id, order)
    BY Zenon, <1>3, <1>4, <1>5, <1>6, <1>7, <1>8
    DEF Abstract!Complete, B!Complete, Abstract!Reject, B!Reject
  <1>10. Abstract!Next => B!Next
    BY Zenon, <1>9 DEF Abstract!Next, B!Next
  <1>11. [Abstract!Next]_(Abstract!vars) => [B!Next]_(B!vars)
    BY <1>10 DEF Abstract!vars, B!vars
  <1> QED BY <1>1, <1>11, PTL DEF Abstract!Spec, B!Spec

\* ... with the same books.
LEMMA SameBooks ==
    /\ B!LedgerReconciles => LedgerReconciles
    /\ B!MoneyConserved => MoneyConserved
    /\ B!DoubleEntry => DoubleEntry
    /\ Abstract!Affordable => B!Affordable
  <1>1. \A f, S : Abstract!SumFunctionOnSet(f, S) = B!SumFunctionOnSet(f, S)
    BY DEF Abstract!SumFunctionOnSet, Abstract!FoldFunctionOnSet, Abstract!MapThenFoldSet,
       B!SumFunctionOnSet, B!FoldFunctionOnSet, B!MapThenFoldSet
  <1>2. \A a : Abstract!LedgerSum(a) = B!LedgerSum(a)
    BY <1>1 DEF Abstract!LedgerSum, B!LedgerSum, Abstract!SumFunction, B!SumFunction
  <1> QED BY <1>1, <1>2
    DEF B!LedgerReconciles, LedgerReconciles, Abstract!LedgerReconciles,
        B!MoneyConserved, MoneyConserved, Abstract!MoneyConserved,
        B!DoubleEntry, DoubleEntry, Abstract!DoubleEntry, Abstract!Affordable, B!Affordable

\* So the service keeps the books.
LEMMA BooksInvariant == Spec => []B!Books
  <1>1. B!Spec => []B!Books
    BY BankIsSetUp, EntitiesAssumption, B!BooksAreKept, PTL
  <1> QED BY <1>1, Refinement, SameBank, PTL DEF ImplementsBank

\* Every account's balance is its opening balance plus the sum of its ledger
\* entries, the reconciliation that migration 4 promises.
THEOREM LedgerBalances == Spec => []LedgerReconciles
  <1>1. B!Books => LedgerReconciles
    BY SameBooks DEF B!Books
  <1> QED BY <1>1, BooksInvariant, PTL

\* No transfer, however it ends, creates or destroys money of any currency.
THEOREM MoneyIsConserved == Spec => []MoneyConserved
  <1>1. B!Books => MoneyConserved
    BY SameBooks DEF B!Books
  <1> QED BY <1>1, BooksInvariant, PTL

\* Transfers and ledger entries agree: two legs for a completed transfer, none
\* for a failed one, and no entry without its transfer.
THEOREM EntriesAreDouble == Spec => []DoubleEntry
  <1>1. B!Books => DoubleEntry
    BY SameBooks DEF B!Books
  <1> QED BY <1>1, BooksInvariant, PTL

\* What holds of the service holds behind the handler, for every message that
\* may come in: the tables are those of the sequential bank, with its books.
THEOREM ApiKeepsTheBooks ==
    ApiSpec => ImplementsBank /\ [](LedgerReconciles /\ MoneyConserved /\ DoubleEntry)
  BY ApiIsService, Refinement, LedgerBalances, MoneyIsConserved, EntriesAreDouble, PTL

\* No set of requests waits only for its own members: the ids of the accounts
\* have a largest among those that are waited for.
THEOREM DeadlockFree == Spec => []NoDeadlock
  <1>1. ASSUME NEW T \in SUBSET Accounts, T # {}
        PROVE  \E m \in T : \A x \in T : x <= m
    <2>1. IsFiniteSet(T) /\ T \subseteq Nat
      BY Zenon, StoreAssumption, EntitiesAssumption, SameFinite, B!FS_Subset
    <2> QED BY Zenon, <1>1, <2>1, EntitiesAssumption, SameFinite, B!Largest
  <1>2. IInv => NoDeadlock
    BY <1>1, NoCycle
  <1> QED BY <1>2, Invariance, PTL

\* As long as the money of each currency fits an int64, a retry of a stored
\* transfer is shown that transfer, or meets an internal error: no check that
\* Create makes before it looks at the key can turn it away.
THEOREM RetriesFindTheirTransfer ==
    ASSUME Abstract!Affordable
    PROVE  ApiSpec => []RetriesAreReplayed
  <1>1. ApiInit => Settled
    BY DEF ApiInit, Init, Settled, SettledOf
  <1>2. B!Books => RoomForAll
    <2>1. Currency \in [Accounts -> CurrencyCodes]
      BY StoreAssumption
    <2>2. B!Books => B!PairsFit
      BY Zenon, <2>1, SameBooks, BankIsSetUp, EntitiesAssumption, B!RoomForAll
    <2> QED BY Zenon, <2>2 DEF B!PairsFit, RoomForAll
  <1> QED BY <1>1, <1>2, Replayed, SettledStep, ApiInvariant, ApiIsService, BooksInvariant, PTL
          DEF ApiSpec

-----------------------------------------------------------------------------
\* The service gives the reads what they rest on. COMMIT adds a transfer with
\* the id of its request, which no stored one has.
LEMMA StepGrows == IInv /\ [Next]_vars => Grows
  <1> SUFFICES ASSUME IInv, [Next]_vars PROVE Grows
    OBVIOUS
  <1>1. ASSUME NEW r \in Requests, Commit(r) PROVE Grows
    <2>1. KeysDistinct /\ pc[r] = "commit" /\ Step(r)
      BY <1>1 DEF IInv, Commit, Step, Serve
    <2>2. r \notin Stored
      BY <2>1 DEF KeysDistinct, Stored
    <2> QED BY Zenon, <2>1, <2>2, TransfersGrow DEF Grows
  <1>2. ASSUME \A r \in Requests : ~Commit(r) PROVE Grows
    BY <1>2, OthersStutter DEF committed, Grows
  <1> QED BY <1>1, <1>2

\* Create tells its caller of stored transfers only.
LEMMA AnswersStored == TypeOK /\ Answering => ToldAreStored
  <1> SUFFICES ASSUME TypeOK, Answering, NEW r \in Requests,
                      pc[r] = "done", outcome[r].transfer # NoTransfer
               PROVE  outcome[r].transfer.id \in Stored
    BY DEF ToldAreStored
  <1>1. outcome[r].err = Nil
    BY DEF Answering, AnsweringOf
  <1>2. Shown(r)
    BY <1>1 DEF Answering, AnsweringOf
  <1> QED BY <1>2 DEF Shown, StoredUnder, Stored

\* The stored transfers that completed explain the balances, as in the bank.
LEMMA ServiceExplains == Spec => []StoredExplain
  <1>1. B!Spec => []B!Explained
    BY BankIsSetUp, EntitiesAssumption, B!TransfersExplain, PTL
  <1>2. B!Explained => StoredExplain
    <2>1. \A t, a : B!Effect(t, a) = Effect(t, a)
      BY DEF B!Effect, Effect
    <2>2. \A f : B!SumFunction(f) = SumFunction(f)
      BY DEF B!SumFunction, SumFunction, B!SumFunctionOnSet, SumFunctionOnSet,
         B!FoldFunctionOnSet, FoldFunctionOnSet, B!MapThenFoldSet, MapThenFoldSet
    <2>3. B!Completed = {t \in transfers : t.id \in Stored /\ t.status = "completed"}
      BY DEF B!Completed, Stored
    <2> QED BY <2>1, <2>2, <2>3 DEF B!Explained, StoredExplain, Moved
  <1> QED BY <1>1, <1>2, Refinement, SameBank, PTL DEF ImplementsBank

\* All answers of the read-only routes tell one history, whatever transfers
\* commit while ListByUser, FindOwned and FindByID collect their rows: each shows
\* the bank after a set of whole transfers, which holds what anybody was told,
\* or shown, before the request was sent.
THEOREM OneHistory == ReadSpec => []ReadsTellOneHistory
  <1>1. \A S \in SUBSET Accounts : S # {} => \E m \in S : \A x \in S : m <= x
    <2>1. \A S \in SUBSET Accounts : IsFiniteSet(S) /\ S \subseteq Nat
      BY Zenon, StoreAssumption, EntitiesAssumption, SameFinite, B!FS_Subset
    <2> QED BY Zenon, <2>1, EntitiesAssumption, SameFinite, B!Least
  <1>2. /\ ReadInv /\ IInv /\ Answering /\ StoredExplain /\ [ReadNext]_allVars
        => ReadInv'
    BY <1>1, StepGrows, AnswersStored, ReadNextIsNext, ReadStep DEF IInv
  <1> QED BY <1>2, ReadsBegin, AnswersTell, ReadsDisturbNothing, Invariance, AnsweringInvariant,
             ServiceExplains, PTL DEF ReadSpec
=============================================================================
