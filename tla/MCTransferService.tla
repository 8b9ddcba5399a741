-------------------------- MODULE MCTransferService --------------------------
(***************************************************************************)
(* An instance of TransferService and of its refinement of Bank, for TLC. *)
(***************************************************************************)
EXTENDS TransferRefinement, TLC

CONSTANTS r1, r2, r3

ThreeRequests == {r1, r2, r3}
Symmetry == Permutations(ThreeRequests)

MCUsers == {"alice", "bob", ""}
MCUUIDOf == ("k" :> "k") @@ ("K" :> "k") @@ ("l" :> "l")

Pay(from, to, amount) ==
    [from |-> from, to |-> to, amount |-> amount, currency |-> "PEN", description |-> 0]
By(user, key, request) == [user |-> user, key |-> key, request |-> request]

\* Each owner has two accounts, so that transfers under one key need not meet
\* at a row: they wait for each other at the key alone.
FourAccounts == {1, 2, 3, 4}
PairOpening == (1 :> 1) @@ (2 :> 1) @@ (3 :> 1) @@ (4 :> 0)
PairOwners == (1 :> "alice") @@ (2 :> "bob") @@ (3 :> "alice") @@ (4 :> "bob")
PairCurrencies == [a \in FourAccounts |-> "PEN"]

\* One key for two sources, the retry of one of them in another spelling, one
\* that fails for lack of funds, a transfer in the other direction, and one
\* without a user, which no route lets through.
MCCalls ==
    {By("alice", "k", Pay(1, 2, 1)), By("alice", "K", Pay(1, 2, 1)),
     By("alice", "k", Pay(3, 4, 1)), By("alice", "k", Pay(3, 4, 2)),
     By("bob", "l", Pay(2, 1, 1)), By("", "k", Pay(1, 2, 1))}
=============================================================================
