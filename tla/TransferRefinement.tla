------------------------- MODULE TransferRefinement -------------------------
(***************************************************************************)
(* TransferService seen as the sequential Bank: its committed tables are   *)
(* the bank's, without the ids of the ledger entries.                      *)
(***************************************************************************)
EXTENDS TransferService

BankOrders ==
    {[user |-> c.user, key |-> parseKey(c.key), request |-> c.request] : c \in Calls}

Posted(entries) ==
    {[transfer |-> e.transfer, account |-> e.account, amount |-> e.amount,
      balanceAfter |-> e.balanceAfter] : e \in entries}

Abstract == INSTANCE Bank WITH
    TransferIDs <- Requests,
    Orders <- BankOrders,
    ledger <- Posted(ledger)

\* The service implements the sequential bank: COMMIT is the one step that
\* shows, and it is a whole step of the bank.
ImplementsBank == Abstract!Spec

\* "balance = opening balance + sum of entries", of the committed tables.
LedgerReconciles == Abstract!LedgerReconciles

\* The committed balances of each currency add up to what they were at the
\* opening, whatever commits, fails or is cut off in between.
MoneyConserved == Abstract!MoneyConserved

\* A committed transfer that is completed has one debit and one credit in the
\* ledger, a failed one has no entry, and no entry is without its transfer.
DoubleEntry == Abstract!DoubleEntry
=============================================================================
