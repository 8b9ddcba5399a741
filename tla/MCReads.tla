------------------------------- MODULE MCReads -------------------------------
(***************************************************************************)
(* Instances of Reads for TLC.                                             *)
(***************************************************************************)
EXTENDS Reads, TLC

CONSTANTS r1, r2, d1, d2

TwoRequests == {r1, r2}
TwoReaders == {d1, d2}
Symmetry == Permutations(TwoRequests) \cup Permutations(TwoReaders)

MCUsers == {"alice", "bob", ""}
MCUUIDOf == "k" :> "k" @@ "l" :> "l"

\* Accounts 1 and 3 are alice's, 2 is bob's.
ThreeAccounts == {1, 2, 3}
MCOpening == 1 :> 1 @@ 2 :> 1 @@ 3 :> 0
MCOwner == 1 :> "alice" @@ 2 :> "bob" @@ 3 :> "alice"
MCCurrency == [a \in ThreeAccounts |-> "PEN"]

Pay(user, key, from, to, amount) ==
    [user |-> user, key |-> key,
     request |-> [from |-> from, to |-> to, amount |-> amount,
                  currency |-> "PEN", description |-> 0]]

\* Between alice's accounts, and from bob to alice.
MCCalls == {Pay("alice", "k", 1, 3, 1), Pay("bob", "k", 2, 1, 1)}

Get(route, user, id) == [route |-> route, user |-> user, id |-> id]

\* A list of two accounts, a row of one's own, a foreign row, and transfers.
MCGets ==
    {Get("listAccounts", "alice", None), Get("getAccount", "bob", 2),
     Get("getAccount", "alice", 2)}
    \cup {Get("getTransfer", u, r) : u \in {"alice", "bob"}, r \in TwoRequests}

\* One read among two transfers, for the run about liveness.
OneReader == {d1}
FewGets == {Get("listAccounts", "alice", None), Get("getTransfer", "alice", r1)}
=============================================================================
