---------------------------- MODULE MCTransferApi ----------------------------
(***************************************************************************)
(* Instances of TransferApi, and of its refinement of Bank, for TLC.       *)
(***************************************************************************)
EXTENDS TransferApi, TransferRefinement, TLC

CONSTANTS r1, r2, r3

ThreeRequests == {r1, r2, r3}
TwoRequests == {r1, r2}
Symmetry == Permutations(ThreeRequests)
PairSymmetry == Permutations(TwoRequests)

MCUsers == {"alice", "bob", ""}
MCTrimmed == ("k" :> "k") @@ (" K " :> "K") @@ ("K" :> "K") @@ ("l" :> "l") @@ ("junk" :> "junk")
MCUUIDOf == ("k" :> "k") @@ ("K" :> "k") @@ (" K " :> None) @@ ("l" :> "l") @@ ("junk" :> None)

Pay(from, to, amount) ==
    [from |-> from, to |-> to, amount |-> amount, currency |-> "PEN", description |-> 0]
Post(subject, key, request) ==
    [subject |-> subject, keys |-> <<key>>, body |-> "object", request |-> request]

CallsOf(messages) == {CallOf(m) : m \in {n \in messages : InputError(n) = 0}}

\* Two accounts of one currency, whose money together fits an int64.
TwoAccounts == {1, 2}
TwoOwners == (1 :> "alice") @@ (2 :> "bob")
TwoCurrencies == (1 :> "PEN") @@ (2 :> "PEN")
TwoOpening == (1 :> 1) @@ (2 :> 1)

\* A transfer, its retries in another spelling of the key, and the transfers
\* that fund or drain the accounts in between.
RetryMessages ==
    {Post("alice", "k", Pay(1, 2, 1)), Post("alice", " K ", Pay(1, 2, 1)),
     Post("alice", "k", Pay(1, 2, 2)), Post("bob", "k", Pay(2, 1, 1))}
RetryCalls == CallsOf(RetryMessages)

\* Four accounts, one of another currency and one nearly full; 5 and 6 do not
\* exist.
FourAccounts == {1, 2, 3, 4}
FourOwners == (1 :> "alice") @@ (2 :> "bob") @@ (3 :> "alice") @@ (4 :> "bob")
FourCurrencies == (1 :> "PEN") @@ (2 :> "PEN") @@ (3 :> "USD") @@ (4 :> "PEN")
FourOpening == (1 :> 2) @@ (2 :> 3) @@ (3 :> 1) @@ (4 :> 1)

\* Every kind of message the handler refuses by itself, one for every way
\* Create refuses, and those that succeed, fail for lack of funds, or make room
\* in a destination that is full.
InputMessages ==
    LET ok == Post("alice", "k", Pay(1, 4, 1)) IN
    {ok,
     [ok EXCEPT !.keys = <<>>], [ok EXCEPT !.keys = <<"k", "k">>],
     [ok EXCEPT !.keys = <<"junk">>],
     [ok EXCEPT !.subject = "bob"],
     [ok EXCEPT !.request = Pay(1, 4, 3)],
     [ok EXCEPT !.request = Pay(1, 4, 0)],
     [ok EXCEPT !.request = Pay(5, 4, 1)],
     [ok EXCEPT !.request = Pay(1, 5, 1)],
     [ok EXCEPT !.request = Pay(5, 6, 1)],
     [ok EXCEPT !.request = Pay(1, 3, 1)],
     [ok EXCEPT !.request = Pay(3, 1, 1)],
     [ok EXCEPT !.request = Pay(0, 4, 1)],
     [ok EXCEPT !.request = Pay(1, 0, 1)],
     [ok EXCEPT !.request = Pay(1, 1, 1)],
     [ok EXCEPT !.request.currency = "pen"],
     [ok EXCEPT !.request.description = 256],
     Post("alice", "l", Pay(1, 2, 1)),
     Post("bob", "l", Pay(2, 4, 1))}
    \cup {[ok EXCEPT !.body = b] : b \in Bodies}
InputCalls == CallsOf(InputMessages)

\* A destination that the first transfer fills to MaxInt64.
FullOpening == (1 :> 2) @@ (2 :> 1)
RepeatMessages == {Post("alice", "k", Pay(1, 2, 1))}
RepeatCalls == CallsOf(RepeatMessages)

\* A key used again for a destination that does not exist.
ReuseMessages == {Post("alice", "k", Pay(1, 2, 1)), Post("alice", "k", Pay(1, 3, 1))}
ReuseCalls == CallsOf(ReuseMessages)
=============================================================================
