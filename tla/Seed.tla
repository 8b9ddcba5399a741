-------------------------------- MODULE Seed ---------------------------------
(***************************************************************************)
(* seed.Demo (internal/seed), which every start of the program runs when   *)
(* SEED_DEMO_DATA is set, while other replicas seed at the same time and   *)
(* replicas already serving move the seeded money.                         *)
(*                                                                         *)
(* Demo is one transaction that upserts each demo user and then inserts    *)
(* the accounts of that user.  An upsert waits for another transaction     *)
(* that wrote the row; so does the check behind ON CONFLICT DO NOTHING.    *)
(* A start whose connection is lost leaves its transaction behind, as in   *)
(* TransferService: the statement under way, a COMMIT included, may still  *)
(* be executed before PostgreSQL aborts.                                   *)
(***************************************************************************)
EXTENDS Integers, Sequences

CONSTANTS Starts,    \* starts of replicas, restarts included
          Password,  \* DEMO_PASSWORD of each start
          Nothing,
          Funds      \* the opening balance of a funded account

ASSUME SeedAssumption == Nothing \notin Int \cup Starts /\ Funds \in Nat

\* The rows of demoUsers in the order in which the loops over the users and over
\* the accounts of each write them.
demoUsers == <<"alice", "alice-pen", "alice-usd", "bob", "bob-pen", "bob-usd",
               "carol", "carol-pen">>

Users == {"alice", "bob", "carol"}
Accounts == {"alice-pen", "alice-usd", "bob-pen", "bob-usd", "carol-pen"}
Opening(a) == IF a = "carol-pen" THEN 0 ELSE Funds
SameCurrency == {{"alice-pen", "bob-pen", "carol-pen"}, {"alice-usd", "bob-usd"}}

VARIABLES users,   \* password_hash of each demo user; Nothing without a row
          balance, \* accounts.balance; Nothing without a row
          entries, \* the sum of the ledger entries of each account
          moving,  \* <<from, to>> of a transfer between its UPDATE and its end
          status,  \* idle, open, orphan, lost, ok or failed
          todo,    \* the rows Demo has still to write
          wrote,   \* uncommitted: the rows its transaction wrote
          last     \* the start that committed last (history)

tables == <<users, balance, entries, moving>>
seedVars == <<tables, status, todo, wrote, last>>

SeedInit ==
    /\ users = [u \in Users |-> Nothing]
    /\ balance = [a \in Accounts |-> Nothing]
    /\ entries = [a \in Accounts |-> 0]
    /\ moving = <<>>
    /\ status = [s \in Starts |-> "idle"]
    /\ todo = [s \in Starts |-> <<>>]
    /\ wrote = [s \in Starts |-> {}]
    /\ last = Nothing

\* The order of the statements.
\* Faulty variant: users in no fixed order.
AnyOrder == {demoUsers, <<"bob", "bob-pen", "bob-usd", "alice", "alice-pen", "alice-usd",
                          "carol", "carol-pen">>}
Order == {demoUsers}

-----------------------------------------------------------------------------
\* The password is hashed and BeginFunc sends BEGIN; either may fail.
Begin(s) ==
    /\ status[s] = "idle"
    /\ \/ /\ status' = [status EXCEPT ![s] = "open"]
          /\ \E list \in Order : todo' = [todo EXCEPT ![s] = list]
       \/ status' = [status EXCEPT ![s] = "failed"] /\ UNCHANGED todo
    /\ UNCHANGED <<tables, wrote, last>>

\* Whether a statement writes its row: ON CONFLICT DO UPDATE for a user,
\* DO NOTHING for an account.
\* Faulty variant: DO UPDATE for accounts too.
WritesAny(row) == TRUE
Writes(row) == row \in Users \/ balance[row] = Nothing

Waits(s, row) ==
    \/ \E q \in Starts \ {s} : row \in wrote[q]
    \/ \E i \in DOMAIN moving : moving[i] = row

\* One statement.  A lost client does not send another.
Exec(s) ==
    /\ status[s] \in {"open", "orphan"}
    /\ todo[s] # <<>>
    /\ LET row == Head(todo[s]) IN
       /\ ~Waits(s, row)
       /\ wrote' = [wrote EXCEPT ![s] = IF Writes(row) THEN @ \cup {row} ELSE @]
    /\ todo' = [todo EXCEPT ![s] = Tail(@)]
    /\ status' = [status EXCEPT ![s] = IF @ = "open" THEN "open" ELSE "lost"]
    /\ UNCHANGED <<tables, last>>

\* The end of the transaction: some of what it wrote becomes visible.
End(s, published, result) ==
    /\ users' = [u \in Users |-> IF u \in published THEN Password[s] ELSE users[u]]
    /\ balance' = [a \in Accounts |-> IF a \in published THEN Opening(a) ELSE balance[a]]
    /\ wrote' = [wrote EXCEPT ![s] = {}]
    /\ todo' = [todo EXCEPT ![s] = <<>>]
    /\ status' = [status EXCEPT ![s] = result]
    /\ UNCHANGED <<entries, moving>>

Commit(s) ==
    /\ status[s] \in {"open", "orphan"}
    /\ todo[s] = <<>>
    /\ End(s, wrote[s], IF status[s] = "open" THEN "ok" ELSE "failed")
    /\ last' = s

\* Faulty variant: statements on the pool instead of in a transaction.
RollbackNothing(s) == End(s, wrote[s], "failed")
Rollback(s) == End(s, {}, "failed")

\* A statement is refused, or PostgreSQL notices that the client is gone.
Abort(s) ==
    /\ status[s] \in {"open", "orphan", "lost"}
    /\ Rollback(s)
    /\ UNCHANGED last

Interrupt(s) ==
    /\ status[s] = "open"
    /\ status' = [status EXCEPT ![s] = "orphan"]
    /\ UNCHANGED <<tables, todo, wrote, last>>

-----------------------------------------------------------------------------
\* A transfer of one unit by a replica that serves: its UPDATE of both
\* accounts, and its COMMIT or ROLLBACK.
SaveBalances(from, to) ==
    /\ moving = <<>>
    /\ from # to /\ {from, to} \in UNION {SUBSET c : c \in SameCurrency}
    /\ balance[from] # Nothing /\ balance[to] # Nothing /\ balance[from] > 0
    /\ moving' = <<from, to>>
    /\ UNCHANGED <<users, balance, entries, status, todo, wrote, last>>

EndTransfer ==
    /\ moving # <<>>
    /\ moving' = <<>>
    /\ \/ /\ balance' = [balance EXCEPT ![moving[1]] = @ - 1, ![moving[2]] = @ + 1]
          /\ entries' = [entries EXCEPT ![moving[1]] = @ - 1, ![moving[2]] = @ + 1]
       \/ UNCHANGED <<balance, entries>>
    /\ UNCHANGED <<users, status, todo, wrote, last>>

Ended(s) == status[s] \in {"ok", "failed"}

Quiet ==
    /\ \A s \in Starts : Ended(s)
    /\ UNCHANGED seedVars

SeedNext ==
    \/ \E s \in Starts :
        Begin(s) \/ Exec(s) \/ Commit(s) \/ Abort(s) \/ Interrupt(s)
    \/ \E from, to \in Accounts : SaveBalances(from, to)
    \/ EndTransfer
    \/ Quiet

SeedSpec == SeedInit /\ [][SeedNext]_seedVars

-----------------------------------------------------------------------------
\* "users get their password refreshed from DEMO_PASSWORD" (demo.go:38): all
\* demo users and all their accounts are there, with the one password of the
\* start that committed last, or nothing is there at all.  No overlap of starts,
\* failure or lost connection leaves a mixture.
SeedIsWhole ==
    IF last = Nothing
    THEN \A u \in Users : users[u] = Nothing
    ELSE /\ \A u \in Users : users[u] = Password[last]
         /\ \A a \in Accounts : balance[a] # Nothing

\* "existing accounts keep their current balance" (demo.go:39): however many
\* starts seed while transfers run, each account holds its opening balance and
\* what the ledger says was moved since, so seeding never resets or doubles money.
BalancesAreKept ==
    \A a \in Accounts :
        IF balance[a] = Nothing THEN entries[a] = 0
        ELSE balance[a] = Opening(a) + entries[a]

\* Starts that seed together never wait for each other in a circle: all write
\* the rows of demoUsers in one order.
NoDeadlock ==
    LET running == {s \in Starts : status[s] = "open"}
        stuck(s) == todo[s] # <<>> /\ \E q \in running \ {s} : Head(todo[s]) \in wrote[q]
    IN running # {} => \E s \in running : ~stuck(s)
=============================================================================
