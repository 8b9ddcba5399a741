------------------------------ MODULE Entities ------------------------------
(***************************************************************************)
(* The domain entities (internal/domain/entities): the request a client    *)
(* sends, the checks on its shape, and the arithmetic of an account.       *)
(*                                                                         *)
(* Money is an int64.  MaxInt64 stands for math.MaxInt64 and is a          *)
(* constant, so that a small instance reaches the boundary.  Text is       *)
(* abstracted: an account id is a number (text ids are only compared, for  *)
(* equality and by ORDER BY), 0 is a blank id, and a description is known  *)
(* by its length.                                                          *)
(***************************************************************************)
EXTENDS Integers

CONSTANTS MaxInt64,       \* math.MaxInt64
          Currencies,     \* every currency text a request may carry
          CurrencyCodes,  \* the ones of the shape three capital letters
          MaxDescription  \* 255

ASSUME EntitiesAssumption ==
    /\ MaxInt64 \in Nat \ {0}
    /\ CurrencyCodes \subseteq Currencies
    /\ MaxDescription \in Nat

Int64 == (-MaxInt64 - 1)..MaxInt64

\* Two's complement: what an int64 holds after a sum or a difference of two.
Wrap(n) ==
    IF n > MaxInt64 THEN n - 2 * (MaxInt64 + 1)
    ELSE IF n < -MaxInt64 - 1 THEN n + 2 * (MaxInt64 + 1)
    ELSE n

BlankID == 0

\* entities.CreateTransfer, the body of POST /transfers.
CreateTransfer == [from: Nat, to: Nat, amount: Int64,
                   currency: Currencies, description: Nat]

Nil == "nil"

Validate(request) ==
    IF \/ request.from = BlankID \/ request.to = BlankID
       \/ request.from = request.to
       \/ request.amount <= 0
       \/ request.currency \notin CurrencyCodes
       \/ request.description > MaxDescription
    THEN "ErrInvalidTransfer"
    ELSE Nil

\* Faulty variant: a debit that ignores the balance.
DebitWithoutFunds(balance, amount) == IF amount <= 0 THEN "ErrInvalidAmount" ELSE Nil

\* Account.Debit: the error, and the balance it leaves when there is none.
DebitError(balance, amount) ==
    IF amount <= 0 THEN "ErrInvalidAmount"
    ELSE IF balance < amount THEN "ErrInsufficientFunds"
    ELSE Nil

Debited(balance, amount) == Wrap(balance - amount)

\* Account.Credit, likewise.
CreditError(balance, amount) ==
    IF amount <= 0 THEN "ErrInvalidAmount"
    ELSE IF balance > Wrap(MaxInt64 - amount) THEN "ErrBalanceOverflow"
    ELSE Nil

Credited(balance, amount) == Wrap(balance + amount)
=============================================================================
