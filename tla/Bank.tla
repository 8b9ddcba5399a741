-------------------------------- MODULE Bank --------------------------------
(***************************************************************************)
(* What the transfer service promises, with no concurrency in it: each     *)
(* step takes one order that its owner may give, under an idempotency key  *)
(* that was never used, and in that one step stores the transfer and, when *)
(* the funds suffice, moves the money and writes both ledger entries.      *)
(*                                                                         *)
(* TransferService is shown to implement this specification.               *)
(***************************************************************************)
EXTENDS Entities, Functions

CONSTANTS TransferIDs, Orders, Accounts, Opening, Owner, Currency

VARIABLES balance, transfers, ledger

vars == <<balance, transfers, ledger>>

Init ==
    /\ balance = Opening
    /\ transfers = {}
    /\ ledger = {}

\* An order the bank takes: well formed, given by the owner of the source, and
\* in the currency of both accounts.
Acceptable(order) ==
    LET q == order.request IN
    /\ Validate(q) = Nil
    /\ q.from \in Accounts /\ q.to \in Accounts
    /\ Owner[q.from] = order.user
    /\ Currency[q.from] = q.currency /\ Currency[q.to] = q.currency

Unused(order) ==
    \A t \in transfers : ~(t.user = order.user /\ t.key = order.key)

Row(id, order, status) ==
    [id |-> id, user |-> order.user, key |-> order.key,
     request |-> order.request, status |-> status]

Entry(id, account, amount, after) ==
    [transfer |-> id, account |-> account, amount |-> amount, balanceAfter |-> after]

Funded(q) == q.amount <= balance[q.from]

Room(q) == balance[q.to] + q.amount <= MaxInt64

Moved(q) == [balance EXCEPT ![q.from] = @ - q.amount, ![q.to] = @ + q.amount]

Entries(id, q) == {Entry(id, q.from, -q.amount, balance[q.from] - q.amount),
                   Entry(id, q.to, q.amount, balance[q.to] + q.amount)}

Complete(id, order) ==
    /\ Acceptable(order)
    /\ Unused(order)
    /\ Funded(order.request)
    /\ Room(order.request)
    /\ transfers' = transfers \cup {Row(id, order, "completed")}
    /\ balance' = Moved(order.request)
    /\ ledger' = ledger \cup Entries(id, order.request)

Reject(id, order) ==
    /\ Acceptable(order)
    /\ Unused(order)
    /\ ~Funded(order.request)
    /\ transfers' = transfers \cup {Row(id, order, "failed")}
    /\ UNCHANGED <<balance, ledger>>

Next ==
    \E id \in TransferIDs \ {t.id : t \in transfers}, order \in Orders :
        Complete(id, order) \/ Reject(id, order)

Spec == Init /\ [][Next]_vars

-----------------------------------------------------------------------------
\* The sum of the ledger over one account (the reconciliation query of
\* migration 4).
LedgerSum(a) ==
    SumFunction([e \in {x \in ledger : x.account = a} |-> e.amount])

\* "balance = opening balance + sum of entries", for every account, which
\* migration 4 and the integration tests ask of the ledger.
LedgerReconciles == \A a \in Accounts : balance[a] = Opening[a] + LedgerSum(a)

\* Transfers create and destroy no money: the total held in each currency is
\* what it was at the opening.
MoneyConserved ==
    \A c \in CurrencyCodes :
        LET held == {a \in Accounts : Currency[a] = c} IN
        SumFunctionOnSet(balance, held) = SumFunctionOnSet(Opening, held)

\* The money of each currency together fits an int64.
Affordable ==
    \A c \in CurrencyCodes :
        SumFunctionOnSet(Opening, {a \in Accounts : Currency[a] = c}) <= MaxInt64

\* The ledger agrees with the transfers: a completed one has exactly one debit
\* of its source and one credit of its destination, a failed one none.
DoubleEntry ==
    /\ \A e \in ledger : \E t \in transfers : t.id = e.transfer
    /\ \A t \in transfers :
        {<<e.account, e.amount>> : e \in {x \in ledger : x.transfer = t.id}} =
            IF t.status = "completed"
            THEN {<<t.request.from, -t.request.amount>>, <<t.request.to, t.request.amount>>}
            ELSE {}
=============================================================================
