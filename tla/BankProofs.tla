----------------------------- MODULE BankProofs -----------------------------
(***************************************************************************)
(* The bank keeps its books: whatever orders it takes, its ledger explains *)
(* its balances, its transfers and its entries agree, and no money is made *)
(* or lost.                                                                *)
(*                                                                         *)
(* The books are sums over finite sets. What is needed of sums is shown    *)
(* first, by taking the smallest set of which it fails to hold.            *)
(***************************************************************************)
EXTENDS Bank, FiniteSetTheorems, TLAPS

\* Among the subsets of a finite set there is a smallest of any kind: how an
\* induction over a finite set is made here.
LEMMA Smallest ==
    ASSUME NEW S, IsFiniteSet(S), NEW T \in SUBSET SUBSET S, T # {}
    PROVE  \E s \in T : \A u \in T : u \subseteq s => u = s
  <1>1. IsWellFoundedOn(StrictSubsetOrdering(S), FiniteSubsetsOf(S))
    BY FS_StrictSubsetOrderingWellFounded
  <1>2. FiniteSubsetsOf(S) = SUBSET S
    BY FS_FiniteSubsetsOfFinite
  <1>3. PICK s \in T : \A u \in T : ~(<<u, s>> \in StrictSubsetOrdering(S))
    BY <1>1, <1>2, WFMin
  <1> QED BY Zenon, <1>3 DEF StrictSubsetOrdering

\* A finite set of account ids has a largest member.
LEMMA Largest ==
    ASSUME NEW T, IsFiniteSet(T), T # {}
    PROVE  T \subseteq Nat => \E m \in T : \A x \in T : x <= m
  <1> DEFINE Above(x) == {y \in T : x <= y}
             F == {Above(x) : x \in T}
  <1>1. F \in SUBSET SUBSET T /\ F # {}
    OBVIOUS
  <1>2. PICK s \in F : \A u \in F : u \subseteq s => u = s
    <2> HIDE DEF F
    <2> QED BY <1>1, Smallest
  <1>3. PICK m \in T : s = Above(m)
    BY <1>2
  <1>4. ASSUME T \subseteq Nat, NEW x \in T, ~(x <= m) PROVE FALSE
    <2>1. Above(x) \in F
      OBVIOUS
    <2>2. \A y \in T : x <= y => m <= y
      BY <1>4
    <2>3. Above(x) \subseteq s
      BY <1>3, <2>2
    <2>4. Above(x) = s
      <3> HIDE DEF F, Above
      <3> QED BY <1>2, <2>1, <2>3
    <2>5. m \in Above(x)
      BY <1>3, <1>4, <2>4
    <2> QED BY <2>5, <1>4
  <1> QED BY <1>4

\* And a smallest.
LEMMA Least ==
    ASSUME NEW T, IsFiniteSet(T), T # {}
    PROVE  T \subseteq Nat => \E m \in T : \A x \in T : m <= x
  <1> DEFINE Below(x) == {y \in T : y <= x}
             F == {Below(x) : x \in T}
  <1>1. F \in SUBSET SUBSET T /\ F # {}
    OBVIOUS
  <1>2. PICK s \in F : \A u \in F : u \subseteq s => u = s
    <2> HIDE DEF F
    <2> QED BY <1>1, Smallest
  <1>3. PICK m \in T : s = Below(m)
    BY <1>2
  <1>4. ASSUME T \subseteq Nat, NEW x \in T, ~(m <= x) PROVE FALSE
    <2>1. Below(x) \in F
      OBVIOUS
    <2>2. \A y \in T : y <= x => y <= m
      BY <1>4
    <2>3. Below(x) \subseteq s
      BY <1>3, <2>2
    <2>4. Below(x) = s
      <3> HIDE DEF F, Below
      <3> QED BY <1>2, <2>1, <2>3
    <2>5. m \in Below(x)
      BY <1>3, <1>4, <2>4
    <2> QED BY <2>5, <1>4
  <1> QED BY <1>4

-----------------------------------------------------------------------------
\* The sum of f over S, as the bank writes it.
Sum(f, S) == SumFunctionOnSet(f, S)

\* The element a sum takes next.
Pick(s) == CHOOSE x \in s : TRUE

\* The recursive function behind a sum over S.
IsTally(f, S, g) ==
    g = [s \in SUBSET S |-> IF s = {} THEN 0 ELSE f[Pick(s)] + g[s \ {Pick(s)}]]

\* Pick takes an element of the set.
LEMMA Picked == \A s : s # {} => Pick(s) \in s
  BY DEF Pick

\* Two tallies of the same summands agree.
LEMMA TallyUnique ==
    ASSUME NEW f, NEW S, NEW T, IsFiniteSet(S), NEW g, NEW h,
           IsTally(f, S, g), IsTally(f, T, h), NEW s \in SUBSET (S \cap T)
    PROVE  g[s] = h[s]
  <1> DEFINE B == {u \in SUBSET (S \cap T) : g[u] # h[u]}
  <1> SUFFICES ASSUME B # {} PROVE FALSE
    OBVIOUS
  <1>1. B \in SUBSET SUBSET S
    OBVIOUS
  <1>2. PICK u \in B : \A v \in B : v \subseteq u => v = u
    <2> HIDE DEF B
    <2> QED BY <1>1, Smallest
  <1>3. \A x : x \subseteq S \cap T =>
          /\ g[x] = IF x = {} THEN 0 ELSE f[Pick(x)] + g[x \ {Pick(x)}]
          /\ h[x] = IF x = {} THEN 0 ELSE f[Pick(x)] + h[x \ {Pick(x)}]
    BY Zenon DEF IsTally
  <1>4. u # {}
    BY <1>2, <1>3
  <1>5. g[u \ {Pick(u)}] = h[u \ {Pick(u)}]
    BY <1>2, <1>4, Picked
  <1> QED BY <1>2, <1>3, <1>5

\* There is a tally over every finite set.
LEMMA TallyExists ==
    ASSUME NEW f, NEW S, IsFiniteSet(S)
    PROVE  \E g : IsTally(f, S, g)
  <1> DEFINE B == {u \in SUBSET S : ~\E g : IsTally(f, u, g)}
  <1> SUFFICES ASSUME B # {} PROVE FALSE
    OBVIOUS
  <1>1. B \in SUBSET SUBSET S
    OBVIOUS
  <1>2. PICK s \in B : \A u \in B : u \subseteq s => u = s
    <2> HIDE DEF B
    <2> QED BY <1>1, Smallest
  <1> DEFINE tally(u) == CHOOSE g : IsTally(f, u, g)
             p == Pick(s)
             G == [u \in SUBSET s |-> IF u = s THEN IF s = {} THEN 0 ELSE f[p] + tally(s \ {p})[s \ {p}]
                                      ELSE tally(u)[u]]
  <1>3. \A u : u \subseteq s /\ u # s => IsTally(f, u, tally(u))
    BY <1>2
  <1>4. ASSUME NEW u, u \subseteq s, u # s, NEW w, w \subseteq u
        PROVE  tally(u)[w] = tally(w)[w]
    <2>1. IsFiniteSet(u)
      BY <1>4, FS_Subset
    <2>2. IsTally(f, u, tally(u)) /\ IsTally(f, w, tally(w)) /\ w \in SUBSET (u \cap w)
      BY <1>3, <1>4
    <2> HIDE DEF tally
    <2> QED BY <2>1, <2>2, TallyUnique
  <1>5. ASSUME NEW u, u \subseteq s
        PROVE  G[u] = IF u = {} THEN 0 ELSE f[Pick(u)] + G[u \ {Pick(u)}]
    <2> HIDE DEF tally
    <2>1. CASE u = s
      BY <2>1, Picked
    <2>2. CASE u # s
      <3>1. tally(u)[u] = IF u = {} THEN 0 ELSE f[Pick(u)] + tally(u)[u \ {Pick(u)}]
        <4>1. IsTally(f, u, tally(u)) /\ u \in SUBSET u
          BY <1>3, <1>5, <2>2
        <4> QED BY <4>1 DEF IsTally
      <3>2. tally(u)[u \ {Pick(u)}] = tally(u \ {Pick(u)})[u \ {Pick(u)}]
        BY <1>4, <1>5, <2>2
      <3>3. u # {} => u \ {Pick(u)} # s
        BY <1>5, <2>2
      <3> QED BY <3>1, <3>2, <3>3, <1>5, <2>2
    <2> QED BY <2>1, <2>2
  <1>6. IsTally(f, s, G)
    <2>1. G = [u \in SUBSET s |-> G[u]]
      OBVIOUS
    <2> HIDE DEF G
    <2> QED BY <2>1, <1>5 DEF IsTally
  <1> QED BY <1>2, <1>6

\* A sum takes its elements one by one.
LEMMA SumUnfolds ==
    ASSUME NEW f, NEW S, IsFiniteSet(S)
    PROVE  Sum(f, S) = IF S = {} THEN 0 ELSE f[Pick(S)] + Sum(f, S \ {Pick(S)})
  <1> DEFINE tally(u) == CHOOSE g : IsTally(f, u, g)
  <1>1. \A u : Sum(f, u) = tally(u)[u]
    BY DEF Sum, SumFunctionOnSet, FoldFunctionOnSet, MapThenFoldSet, IsTally, Pick
  <1>2. \A u : u \subseteq S => IsFiniteSet(u) /\ IsTally(f, u, tally(u))
    BY Zenon, FS_Subset, TallyExists
  <1> HIDE DEF tally
  <1>3. tally(S)[S \ {Pick(S)}] = tally(S \ {Pick(S)})[S \ {Pick(S)}]
    BY <1>2, TallyUnique
  <1>4. tally(S)[S] = IF S = {} THEN 0 ELSE f[Pick(S)] + tally(S)[S \ {Pick(S)}]
    BY Zenon, <1>2 DEF IsTally
  <1> QED BY <1>1, <1>3, <1>4

\* A set that is closed under addition holds the sums of its members...
LEMMA SumClosed ==
    ASSUME NEW f, NEW S, IsFiniteSet(S), NEW N, 0 \in N, \A i, j \in N : i + j \in N,
           \A x \in S : f[x] \in N
    PROVE  Sum(f, S) \in N
  <1> DEFINE B == {u \in SUBSET S : Sum(f, u) \notin N}
  <1> SUFFICES ASSUME B # {} PROVE FALSE
    OBVIOUS
  <1>1. B \in SUBSET SUBSET S
    OBVIOUS
  <1>2. PICK u \in B : \A v \in B : v \subseteq u => v = u
    <2> HIDE DEF B
    <2> QED BY <1>1, Smallest
  <1>3. Sum(f, u) = IF u = {} THEN 0 ELSE f[Pick(u)] + Sum(f, u \ {Pick(u)})
    BY <1>2, FS_Subset, SumUnfolds
  <1>4. u # {}
    BY <1>2, <1>3
  <1>5. Sum(f, u \ {Pick(u)}) \in N /\ f[Pick(u)] \in N
    BY <1>2, <1>4, Picked
  <1> QED BY <1>2, <1>3, <1>4, <1>5

\* ...as the integers and the naturals do.
LEMMA SumTyped ==
    ASSUME NEW f, NEW S, IsFiniteSet(S)
    PROVE  /\ (\A x \in S : f[x] \in Int) => Sum(f, S) \in Int
           /\ (\A x \in S : f[x] \in Nat) => Sum(f, S) \in Nat
  <1>1. 0 \in Int /\ \A i, j \in Int : i + j \in Int
    OBVIOUS
  <1>2. 0 \in Nat /\ \A i, j \in Nat : i + j \in Nat
    OBVIOUS
  <1> QED BY Zenon, <1>1, <1>2, SumClosed

\* Any element may be taken first.
LEMMA SumTakes ==
    ASSUME NEW f, NEW S, IsFiniteSet(S), \A x \in S : f[x] \in Int, NEW y \in S
    PROVE  Sum(f, S) = f[y] + Sum(f, S \ {y})
  <1> DEFINE B == {u \in SUBSET S : \E x \in u : Sum(f, u) # f[x] + Sum(f, u \ {x})}
  <1> SUFFICES ASSUME B # {} PROVE FALSE
    BY Zenon
  <1>1. B \in SUBSET SUBSET S
    OBVIOUS
  <1>2. PICK u \in B : \A v \in B : v \subseteq u => v = u
    <2> HIDE DEF B
    <2> QED BY <1>1, Smallest
  <1>3. PICK x \in u : Sum(f, u) # f[x] + Sum(f, u \ {x})
    BY <1>2
  <1> DEFINE p == Pick(u)
  <1>4. p \in u /\ Sum(f, u) = f[p] + Sum(f, u \ {p})
    BY <1>2, FS_Subset, SumUnfolds, Picked
  <1>5. p # x
    BY <1>3, <1>4
  <1>6. Sum(f, u \ {p}) = f[x] + Sum(f, (u \ {p}) \ {x})
    <2>1. u \ {p} \in SUBSET S /\ u \ {p} # u /\ x \in u \ {p}
      BY <1>2, <1>3, <1>4, <1>5
    <2>2. u \ {p} \notin B
      BY Zenon, <1>2, <2>1
    <2> QED BY Zenon, <2>1, <2>2
  <1>7. Sum(f, u \ {x}) = f[p] + Sum(f, (u \ {x}) \ {p})
    <2>1. u \ {x} \in SUBSET S /\ u \ {x} # u /\ p \in u \ {x}
      BY <1>2, <1>3, <1>4, <1>5
    <2>2. u \ {x} \notin B
      BY Zenon, <1>2, <2>1
    <2> QED BY Zenon, <2>1, <2>2
  <1>8. (u \ {p}) \ {x} = (u \ {x}) \ {p}
    OBVIOUS
  <1>9. f[p] \in Int /\ f[x] \in Int /\ Sum(f, (u \ {p}) \ {x}) \in Int
    <2>1. (u \ {p}) \ {x} \in SUBSET S
      OBVIOUS
    <2>2. IsFiniteSet((u \ {p}) \ {x})
      BY <2>1, FS_Subset
    <2> QED BY <2>1, <2>2, <1>4, SumTyped
  <1>10. \A i, j, k \in Int : i + (j + k) = j + (i + k)
    OBVIOUS
  <1> HIDE DEF p
  <1>11. Sum(f, u) = f[p] + (f[x] + Sum(f, (u \ {p}) \ {x}))
    BY <1>4, <1>6
  <1>12. f[x] + Sum(f, u \ {x}) = f[x] + (f[p] + Sum(f, (u \ {p}) \ {x}))
    BY <1>7, <1>8
  <1> QED BY <1>3, <1>9, <1>10, <1>11, <1>12

\* Equal summands make equal sums.
LEMMA SumSame ==
    ASSUME NEW f, NEW g, NEW S, IsFiniteSet(S), \A x \in S : f[x] = g[x]
    PROVE  Sum(f, S) = Sum(g, S)
  <1> DEFINE B == {u \in SUBSET S : Sum(f, u) # Sum(g, u)}
  <1> SUFFICES ASSUME B # {} PROVE FALSE
    OBVIOUS
  <1>1. B \in SUBSET SUBSET S
    OBVIOUS
  <1>2. PICK u \in B : \A v \in B : v \subseteq u => v = u
    <2> HIDE DEF B
    <2> QED BY <1>1, Smallest
  <1>3. /\ Sum(f, u) = IF u = {} THEN 0 ELSE f[Pick(u)] + Sum(f, u \ {Pick(u)})
        /\ Sum(g, u) = IF u = {} THEN 0 ELSE g[Pick(u)] + Sum(g, u \ {Pick(u)})
    BY <1>2, FS_Subset, SumUnfolds
  <1>4. u # {}
    BY <1>2, <1>3
  <1>5. Sum(f, u \ {Pick(u)}) = Sum(g, u \ {Pick(u)})
    BY <1>2, <1>4, Picked
  <1> QED BY <1>2, <1>3, <1>4, <1>5, Picked

\* One more summand.
LEMMA SumAdds ==
    ASSUME NEW f, NEW g, NEW S, IsFiniteSet(S), NEW y, y \notin S,
           \A x \in S : f[x] \in Int /\ g[x] = f[x], g[y] \in Int
    PROVE  Sum(g, S \cup {y}) = Sum(f, S) + g[y]
  <1>1. IsFiniteSet(S \cup {y})
    BY FS_AddElement
  <1>2. Sum(g, S \cup {y}) = g[y] + Sum(g, (S \cup {y}) \ {y})
    BY <1>1, SumTakes
  <1>3. (S \cup {y}) \ {y} = S
    OBVIOUS
  <1>4. Sum(g, S) = Sum(f, S) /\ Sum(f, S) \in Int
    BY SumSame, SumTyped
  <1>5. Sum(g, S \cup {y}) = g[y] + Sum(f, S)
    BY <1>2, <1>3, <1>4
  <1>6. \A i, j \in Int : i + j = j + i
    OBVIOUS
  <1> QED BY <1>4, <1>5, <1>6

\* What moves from one summand to another leaves the sum alone.
LEMMA SumMoves ==
    ASSUME NEW f, NEW g, NEW S, IsFiniteSet(S), \A x \in S : f[x] \in Int,
           NEW a \in S, NEW b \in S, a # b, NEW n \in Int,
           g[a] = f[a] - n, g[b] = f[b] + n,
           \A x \in S \ {a, b} : g[x] = f[x]
    PROVE  Sum(g, S) = Sum(f, S)
  <1> DEFINE R == (S \ {a}) \ {b}
  <1>1. IsFiniteSet(S \ {a}) /\ IsFiniteSet(R) /\ b \in S \ {a}
    <2>1. S \ {a} \subseteq S /\ R \subseteq S
      OBVIOUS
    <2> QED BY <2>1, FS_Subset
  <1>2. f[a] \in Int /\ f[b] \in Int /\ \A x \in S : g[x] \in Int
    OBVIOUS
  <1>3. Sum(f, S) = f[a] + Sum(f, S \ {a}) /\ Sum(f, S \ {a}) = f[b] + Sum(f, R)
    BY <1>1, SumTakes
  <1>4. Sum(g, S) = g[a] + Sum(g, S \ {a}) /\ Sum(g, S \ {a}) = g[b] + Sum(g, R)
    BY <1>1, <1>2, SumTakes
  <1>5. Sum(g, R) = Sum(f, R) /\ Sum(f, R) \in Int
    <2>1. \A x \in R : g[x] = f[x] /\ f[x] \in Int
      OBVIOUS
    <2> HIDE DEF R
    <2> QED BY <2>1, <1>1, SumSame, SumTyped
  <1>6. \A i, j, k, m \in Int : (i - m) + ((j + m) + k) = i + (j + k)
    OBVIOUS
  <1> HIDE DEF R
  <1>7. Sum(g, S) = (f[a] - n) + ((f[b] + n) + Sum(f, R))
    BY <1>4, <1>5
  <1>8. Sum(f, S) = f[a] + (f[b] + Sum(f, R))
    BY <1>3
  <1> QED BY <1>2, <1>5, <1>6, <1>7, <1>8

\* Two of the summands, none of them negative, are no more than the sum.
LEMMA SumBounds ==
    ASSUME NEW f, NEW S, IsFiniteSet(S), \A x \in S : f[x] \in Nat,
           NEW a \in S, NEW b \in S, a # b
    PROVE  f[a] + f[b] <= Sum(f, S)
  <1> DEFINE R == (S \ {a}) \ {b}
  <1>1. IsFiniteSet(S \ {a}) /\ IsFiniteSet(R) /\ b \in S \ {a}
    <2>1. S \ {a} \subseteq S /\ R \subseteq S
      OBVIOUS
    <2> QED BY <2>1, FS_Subset
  <1>2. f[a] \in Nat /\ f[b] \in Nat /\ \A x \in S : f[x] \in Int
    OBVIOUS
  <1>3. Sum(f, S) = f[a] + Sum(f, S \ {a}) /\ Sum(f, S \ {a}) = f[b] + Sum(f, R)
    BY <1>1, <1>2, SumTakes
  <1>4. Sum(f, R) \in Nat
    <2>1. \A x \in R : f[x] \in Nat
      OBVIOUS
    <2> HIDE DEF R
    <2> QED BY <2>1, <1>1, SumTyped
  <1>5. \A i, j, k \in Nat : i + j <= i + (j + k)
    OBVIOUS
  <1> HIDE DEF R
  <1>6. Sum(f, S) = f[a] + (f[b] + Sum(f, R))
    BY <1>3
  <1> QED BY <1>2, <1>4, <1>5, <1>6

-----------------------------------------------------------------------------
\* What the bank is set up with: finitely many accounts, opening balances that
\* fit an int64, and orders for whole amounts.
BankConstants ==
    /\ IsFiniteSet(Accounts)
    /\ Opening \in [Accounts -> 0..MaxInt64]
    /\ \A order \in Orders : order.request.amount \in Int

\* The types that the sums need.
Typed ==
    /\ balance \in [Accounts -> 0..MaxInt64]
    /\ IsFiniteSet(ledger)
    /\ \A e \in ledger : e.amount \in Int

\* The books of the bank.
Books ==
    /\ Typed
    /\ DoubleEntry
    /\ LedgerReconciles
    /\ MoneyConserved

\* The sum that LedgerSum takes.
LEMMA LedgerSumIs ==
    \A a : LedgerSum(a) = LET own == {x \in ledger : x.account = a} IN
                          Sum([e \in own |-> e.amount], own)
  BY DEF Sum, SumFunctionOnSet, FoldFunctionOnSet, MapThenFoldSet, SumFunction, LedgerSum

\* What a step of the bank does, with its types.
LEMMA BankStep ==
    ASSUME BankConstants, Typed, Next
    PROVE  \E id \in TransferIDs \ {t.id : t \in transfers}, order \in Orders :
             LET q == order.request IN
             \/ /\ transfers' = transfers \cup {Row(id, order, "failed")}
                /\ UNCHANGED <<balance, ledger>>
             \/ /\ q.from \in Accounts /\ q.to \in Accounts /\ q.from # q.to
                /\ q.amount \in Int /\ Currency[q.from] = Currency[q.to]
                /\ q.amount > 0 /\ Funded(q) /\ Room(q)
                /\ transfers' = transfers \cup {Row(id, order, "completed")}
                /\ balance' = Moved(q)
                /\ ledger' = ledger \cup Entries(id, q)
  <1>1. PICK id \in TransferIDs \ {t.id : t \in transfers}, order \in Orders :
             Complete(id, order) \/ Reject(id, order)
    BY DEF Next
  <1> DEFINE q == order.request
  <1>2. CASE Reject(id, order)
    BY <1>2 DEF Reject
  <1>3. CASE Complete(id, order)
    <2>1. Acceptable(order) /\ Funded(q) /\ Room(q)
      BY <1>3 DEF Complete
    <2>2. q.from \in Accounts /\ q.to \in Accounts /\ Currency[q.from] = Currency[q.to]
      BY <2>1 DEF Acceptable
    <2>3. Validate(q) = Nil
      BY <2>1 DEF Acceptable
    <2>4. q.from # q.to /\ ~(q.amount <= 0)
      BY <2>3 DEF Validate, Nil
    <2>5. q.amount \in Int
      BY DEF BankConstants
    <2> QED BY <1>3, <2>1, <2>2, <2>4, <2>5 DEF Complete
  <1> QED BY <1>1, <1>2, <1>3

\* What a completed transfer does to the balances.
LEMMA MovedValues ==
    ASSUME balance \in [Accounts -> 0..MaxInt64], NEW q, q.from \in Accounts, q.to \in Accounts,
           q.from # q.to, q.amount \in Int, balance' = Moved(q)
    PROVE  /\ balance' \in [Accounts -> Int]
           /\ balance'[q.from] = balance[q.from] - q.amount
           /\ balance'[q.to] = balance[q.to] + q.amount
           /\ \A a \in Accounts \ {q.from, q.to} : balance'[a] = balance[a]
  <1>1. balance \in [Accounts -> Int]
    BY EntitiesAssumption
  <1> QED BY <1>1 DEF Moved

\* The balances stay within an int64 and none becomes negative.
LEMMA BalanceStep ==
    ASSUME BankConstants, Typed, Next
    PROVE  balance' \in [Accounts -> 0..MaxInt64]
  <1>1. PICK id \in TransferIDs \ {t.id : t \in transfers}, order \in Orders :
             LET q == order.request IN
             \/ balance' = balance
             \/ /\ q.from \in Accounts /\ q.to \in Accounts /\ q.from # q.to
                /\ q.amount \in Int /\ q.amount > 0 /\ Funded(q) /\ Room(q)
                /\ balance' = Moved(q)
    BY BankStep
  <1> DEFINE q == order.request
  <1>2. CASE balance' = balance
    BY <1>2 DEF Typed
  <1>3. CASE /\ q.from \in Accounts /\ q.to \in Accounts /\ q.from # q.to
             /\ q.amount \in Int /\ q.amount > 0 /\ Funded(q) /\ Room(q)
             /\ balance' = Moved(q)
    <2>1. /\ balance' \in [Accounts -> Int]
          /\ balance'[q.from] = balance[q.from] - q.amount
          /\ balance'[q.to] = balance[q.to] + q.amount
          /\ \A a \in Accounts \ {q.from, q.to} : balance'[a] = balance[a]
      BY <1>3, MovedValues DEF Typed
    <2>2. \A a \in Accounts : balance[a] \in Int /\ 0 <= balance[a] /\ balance[a] <= MaxInt64
      BY EntitiesAssumption DEF Typed
    <2>3. q.amount <= balance[q.from] /\ balance[q.to] + q.amount <= MaxInt64
      BY <1>3 DEF Funded, Room
    <2>4. ASSUME NEW a \in Accounts PROVE balance'[a] \in 0..MaxInt64
      <3> HIDE DEF q
      <3>1. CASE a \notin {q.from, q.to}
        BY <2>1, <2>2, <3>1, EntitiesAssumption
      <3>2. CASE a = q.from
        BY <1>3, <2>1, <2>2, <2>3, <3>2, EntitiesAssumption
      <3>3. CASE a = q.to
        BY <1>3, <2>1, <2>2, <2>3, <3>3, EntitiesAssumption
      <3> QED BY <3>1, <3>2, <3>3
    <2> QED BY <2>1, <2>4
  <1> QED BY <1>1, <1>2, <1>3

\* A transfer moves money between two accounts of one currency.
LEMMA MoneyStep ==
    ASSUME BankConstants, Typed, MoneyConserved, Next
    PROVE  MoneyConserved'
  <1>1. PICK id \in TransferIDs \ {t.id : t \in transfers}, order \in Orders :
             LET q == order.request IN
             \/ balance' = balance
             \/ /\ q.from \in Accounts /\ q.to \in Accounts /\ q.from # q.to
                /\ q.amount \in Int /\ Currency[q.from] = Currency[q.to]
                /\ balance' = Moved(q)
    BY BankStep DEF Books
  <1> DEFINE q == order.request
             held(c) == {a \in Accounts : Currency[a] = c}
  <1>2. balance \in [Accounts -> Int]
    BY EntitiesAssumption DEF Typed
  <1>3. \A c \in CurrencyCodes : Sum(balance, held(c)) = Sum(Opening, held(c))
    BY DEF MoneyConserved, Sum
  <1>4. ASSUME NEW c \in CurrencyCodes PROVE Sum(balance', held(c)) = Sum(balance, held(c))
    <2>0. IsFiniteSet(held(c)) /\ \A a \in held(c) : a \in Accounts /\ balance[a] \in Int
      BY <1>2, FS_Subset DEF BankConstants
    <2>1. CASE balance' = balance
      BY <2>1
    <2>2. CASE /\ q.from \in Accounts /\ q.to \in Accounts /\ q.from # q.to
               /\ q.amount \in Int /\ Currency[q.from] = Currency[q.to]
               /\ balance' = Moved(q)
      <3>1. /\ balance'[q.from] = balance[q.from] - q.amount
            /\ balance'[q.to] = balance[q.to] + q.amount
            /\ \A a \in Accounts \ {q.from, q.to} : balance'[a] = balance[a]
        BY <2>2, MovedValues DEF Typed
      <3>2. CASE Currency[q.from] = c
        <4>1. q.from \in held(c) /\ q.to \in held(c)
          BY <2>2, <3>2
        <4>2. \A a \in held(c) \ {q.from, q.to} : balance'[a] = balance[a]
          BY <3>1
        <4> HIDE DEF held, q
        <4> QED BY <2>0, <2>2, <3>1, <4>1, <4>2, SumMoves
      <3>3. CASE Currency[q.from] # c
        <4>1. \A a \in held(c) : balance'[a] = balance[a]
          BY <2>2, <3>1, <3>3
        <4> HIDE DEF held, q
        <4> QED BY <2>0, <4>1, SumSame
      <3> QED BY <3>2, <3>3
    <2> QED BY <1>1, <2>1, <2>2
  <1>5. \A c \in CurrencyCodes : Sum(balance', held(c)) = Sum(Opening, held(c))
    BY <1>3, <1>4
  <1> QED BY <1>5 DEF MoneyConserved, Sum

\* The row of an order.
LEMMA RowFields ==
    \A id, order, s : LET t == Row(id, order, s) IN
        t.id = id /\ t.request = order.request /\ t.status = s
  BY DEF Row

\* A transfer that is stored brings its own two entries, or none: nothing in
\* the ledger had its id before.
LEMMA DoubleEntryStep ==
    ASSUME BankConstants, Typed, DoubleEntry, Next
    PROVE  DoubleEntry'
  <1> DEFINE Legs(L, t) == {<<e.account, e.amount>> : e \in {x \in L : x.transfer = t.id}}
             Due(t) == IF t.status = "completed"
                       THEN {<<t.request.from, -t.request.amount>>,
                             <<t.request.to, t.request.amount>>}
                       ELSE {}
  <1>1. /\ \A e \in ledger : \E t \in transfers : t.id = e.transfer
        /\ \A t \in transfers : Legs(ledger, t) = Due(t)
    BY DEF DoubleEntry
  <1> SUFFICES /\ \A e \in ledger' : \E t \in transfers' : t.id = e.transfer
               /\ \A t \in transfers' : Legs(ledger', t) = Due(t)
    BY DEF DoubleEntry
  <1>2. PICK id \in TransferIDs \ {t.id : t \in transfers}, order \in Orders :
             LET q == order.request IN
             \/ /\ transfers' = transfers \cup {Row(id, order, "failed")}
                /\ ledger' = ledger
             \/ /\ transfers' = transfers \cup {Row(id, order, "completed")}
                /\ ledger' = ledger \cup Entries(id, q)
    BY BankStep DEF Books
  <1> DEFINE q == order.request
             debit == Entry(id, q.from, -q.amount, balance[q.from] - q.amount)
             credit == Entry(id, q.to, q.amount, balance[q.to] + q.amount)
  <1>3. \A e \in ledger : e.transfer # id
    BY <1>1
  <1>4. \A t \in transfers : t.id # id
    OBVIOUS
  <1>5. CASE /\ transfers' = transfers \cup {Row(id, order, "failed")}
             /\ ledger' = ledger
    <2> DEFINE row == Row(id, order, "failed")
    <2>1. row.id = id /\ row.status = "failed"
      BY RowFields
    <2> HIDE DEF row
    <2>2. Legs(ledger, row) = Due(row)
      BY <1>3, <2>1
    <2> HIDE DEF Legs, Due
    <2> QED BY <1>1, <1>5, <2>2 DEF row
  <1>6. CASE /\ transfers' = transfers \cup {Row(id, order, "completed")}
             /\ ledger' = ledger \cup Entries(id, q)
    <2> DEFINE row == Row(id, order, "completed")
    <2>1. row.id = id /\ row.status = "completed" /\ row.request = q
      BY RowFields
    <2>2. ledger' = ledger \cup {debit, credit}
      BY <1>6 DEF Entries
    <2>3. /\ debit.transfer = id /\ debit.account = q.from /\ debit.amount = -q.amount
          /\ credit.transfer = id /\ credit.account = q.to /\ credit.amount = q.amount
      BY DEF Entry
    <2> HIDE DEF row, debit, credit, q
    <2>4. \A t \in transfers : Legs(ledger', t) = Legs(ledger, t)
      BY <1>4, <2>2, <2>3
    <2>5. {x \in ledger' : x.transfer = row.id} = {debit, credit}
      BY <1>3, <2>1, <2>2, <2>3
    <2>6. Legs(ledger', row) = {<<debit.account, debit.amount>>, <<credit.account, credit.amount>>}
      BY <2>5
    <2>7. Legs(ledger', row) = Due(row)
      BY <2>1, <2>3, <2>6
    <2>8. \A e \in ledger' : \E t \in transfers' : t.id = e.transfer
      BY <1>1, <1>6, <2>1, <2>2, <2>3 DEF row
    <2> HIDE DEF Legs, Due
    <2> QED BY <1>1, <1>6, <2>4, <2>7, <2>8 DEF row
  <1> QED BY <1>2, <1>5, <1>6

\* Each account's balance and the sum of its entries move together.
LEMMA ReconcilesStep ==
    ASSUME BankConstants, Books, Next
    PROVE  /\ IsFiniteSet(ledger') /\ \A e \in ledger' : e.amount \in Int
           /\ LedgerReconciles'
  <1> DEFINE Of(L, a) == {x \in L : x.account = a}
             Total(L, a) == Sum([e \in Of(L, a) |-> e.amount], Of(L, a))
  <1>1. IsFiniteSet(ledger) /\ \A e \in ledger : \E t \in transfers : t.id = e.transfer
    BY DEF Books, Typed, DoubleEntry
  <1>2. \A a \in Accounts : balance[a] = Opening[a] + Total(ledger, a)
    BY LedgerSumIs DEF Books, LedgerReconciles
  <1>3. LedgerReconciles' <=> \A a \in Accounts : balance'[a] = Opening[a] + Total(ledger', a)
    <2>1. \A a : LedgerSum(a)' = Total(ledger', a)
      BY DEF Sum, SumFunctionOnSet, FoldFunctionOnSet, MapThenFoldSet, SumFunction, LedgerSum
    <2> HIDE DEF Total
    <2> QED BY <2>1 DEF LedgerReconciles
  <1>4. PICK id \in TransferIDs \ {t.id : t \in transfers}, order \in Orders :
             LET q == order.request IN
             \/ balance' = balance /\ ledger' = ledger
             \/ /\ q.from \in Accounts /\ q.to \in Accounts /\ q.from # q.to
                /\ q.amount \in Int
                /\ balance' = Moved(q)
                /\ ledger' = ledger \cup Entries(id, q)
    BY BankStep DEF Books
  <1> DEFINE q == order.request
             debit == Entry(id, q.from, -q.amount, balance[q.from] - q.amount)
             credit == Entry(id, q.to, q.amount, balance[q.to] + q.amount)
  <1>5. \A e \in ledger : e.transfer # id
    BY <1>1
  <1>6. /\ balance \in [Accounts -> Int] /\ \A e \in ledger : e.amount \in Int
        /\ Opening \in [Accounts -> Int]
    BY EntitiesAssumption DEF Books, Typed, BankConstants
  <1>7. \A a \in Accounts : /\ IsFiniteSet(Of(ledger, a)) /\ Total(ledger, a) \in Int
                            /\ \A e \in Of(ledger, a) : e.amount \in Int
    <2>1. \A a \in Accounts : IsFiniteSet(Of(ledger, a))
      BY <1>1, FS_Subset
    <2>2. ASSUME NEW a \in Accounts PROVE Total(ledger, a) \in Int
      <3> DEFINE f == [e \in Of(ledger, a) |-> e.amount]
      <3>1. \A e \in Of(ledger, a) : f[e] \in Int
        BY <1>6
      <3> HIDE DEF Of, f
      <3>2. Sum(f, Of(ledger, a)) \in Int
        BY <2>1, <3>1, SumTyped
      <3> QED BY <3>2 DEF f
    <2> QED BY <1>6, <2>1, <2>2
  <1>8. ASSUME NEW a \in Accounts, NEW e, e \notin ledger, e.amount \in Int, Of(ledger', a) = Of(ledger, a) \cup {e}
        PROVE  Total(ledger', a) = Total(ledger, a) + e.amount
    <2> DEFINE f == [x \in Of(ledger, a) |-> x.amount]
               g == [x \in Of(ledger, a) \cup {e} |-> x.amount]
    <2>1. /\ \A x \in Of(ledger, a) : f[x] \in Int /\ g[x] = f[x]
          /\ g[e] = e.amount
      BY Zenon, <1>7
    <2>2. e \notin Of(ledger, a) /\ IsFiniteSet(Of(ledger, a))
      BY <1>7, <1>8
    <2>3. Sum(g, Of(ledger, a) \cup {e}) = Sum(f, Of(ledger, a)) + g[e]
      <3> HIDE DEF f, g, Of
      <3> QED BY <1>8, <2>1, <2>2, SumAdds
    <2> HIDE DEF Of
    <2> QED BY <1>8, <2>1, <2>3
  <1>9. CASE balance' = balance /\ ledger' = ledger
    BY <1>1, <1>2, <1>3, <1>6, <1>9
  <1>10. CASE /\ q.from \in Accounts /\ q.to \in Accounts /\ q.from # q.to
              /\ q.amount \in Int
              /\ balance' = Moved(q)
              /\ ledger' = ledger \cup Entries(id, q)
    <2>1. ledger' = ledger \cup {debit, credit}
      BY <1>10 DEF Entries
    <2>2. /\ debit.transfer = id /\ debit.account = q.from /\ debit.amount = -q.amount
          /\ credit.transfer = id /\ credit.account = q.to /\ credit.amount = q.amount
      BY DEF Entry
    <2>3. /\ balance'[q.from] = balance[q.from] - q.amount
          /\ balance'[q.to] = balance[q.to] + q.amount
          /\ \A a \in Accounts \ {q.from, q.to} : balance'[a] = balance[a]
      BY <1>10, MovedValues DEF Books, Typed
    <2> HIDE DEF debit, credit
    <2>4. debit \notin ledger /\ credit \notin ledger
      BY <1>5, <2>2
    <2>5. IsFiniteSet(ledger')
      <3>1. ledger' = (ledger \cup {debit}) \cup {credit}
        BY <2>1
      <3> QED BY Zenon, <1>1, <3>1, FS_AddElement
    <2>6. ASSUME NEW a \in Accounts PROVE balance'[a] = Opening[a] + Total(ledger', a)
      <3>0. /\ Opening[a] \in Int /\ Total(ledger, a) \in Int /\ balance[a] = Opening[a] + Total(ledger, a)
        BY <1>2, <1>6, <1>7
      <3>1. CASE a = q.from
        <4>1. Of(ledger', a) = Of(ledger, a) \cup {debit}
          BY <1>10, <2>1, <2>2, <3>1
        <4>2. Total(ledger', a) = Total(ledger, a) + (-q.amount)
          <5>1. -q.amount \in Int
            BY <1>10
          <5> HIDE DEF Of, Total, q
          <5> QED BY <1>8, <2>2, <2>4, <4>1, <5>1
        <4> HIDE DEF Total
        <4> QED BY <1>10, <2>3, <3>0, <3>1, <4>2
      <3>2. CASE a = q.to
        <4>1. Of(ledger', a) = Of(ledger, a) \cup {credit}
          BY <1>10, <2>1, <2>2, <3>2
        <4>2. Total(ledger', a) = Total(ledger, a) + q.amount
          <5> HIDE DEF Of, Total, q
          <5> QED BY <1>8, <1>10, <2>2, <2>4, <4>1
        <4> HIDE DEF Total
        <4> QED BY <1>10, <2>3, <3>0, <3>2, <4>2
      <3>3. CASE a # q.from /\ a # q.to
        <4>1. Of(ledger', a) = Of(ledger, a)
          BY <2>1, <2>2, <3>3
        <4>2. Total(ledger', a) = Total(ledger, a)
          BY <4>1
        <4> HIDE DEF Total
        <4> QED BY <2>3, <3>0, <3>3, <4>2
      <3> QED BY <3>1, <3>2, <3>3
    <2>7. \A e \in ledger' : e.amount \in Int
      BY <1>6, <1>10, <2>1, <2>2
    <2> HIDE DEF Total
    <2> QED BY <1>3, <2>5, <2>6, <2>7
  <1> QED BY <1>4, <1>9, <1>10

\* The books are right in every reachable state of the bank.
THEOREM BooksAreKept == BankConstants => (Spec => []Books)
  <1>1. ASSUME BankConstants, Init PROVE Books
    <2>1. ledger = {} /\ transfers = {} /\ balance = Opening
      BY <1>1 DEF Init
    <2>2. Typed
      BY <1>1, <2>1, FS_EmptySet DEF Typed, BankConstants
    <2>3. DoubleEntry
      BY <2>1 DEF DoubleEntry
    <2>4. \A f : Sum(f, {}) = 0
      BY SumUnfolds, FS_EmptySet
    <2>5. LedgerReconciles
      <3>1. \A a : {x \in ledger : x.account = a} = {}
        BY <2>1
      <3>2. \A a : LedgerSum(a) = 0
        BY <2>4, <3>1, LedgerSumIs
      <3>3. \A a \in Accounts : Opening[a] \in Int
        BY <1>1, EntitiesAssumption DEF BankConstants
      <3> QED BY <2>1, <3>2, <3>3 DEF LedgerReconciles
    <2>6. MoneyConserved
      BY <2>1 DEF MoneyConserved
    <2> QED BY <2>2, <2>3, <2>5, <2>6 DEF Books
  <1>2. ASSUME BankConstants, Books, [Next]_vars PROVE Books'
    <2>1. CASE Next
      <3>1. MoneyConserved' /\ DoubleEntry'
        BY <1>2, <2>1, MoneyStep, DoubleEntryStep DEF Books
      <3>2. Typed' /\ LedgerReconciles'
        BY <1>2, <2>1, BalanceStep, ReconcilesStep DEF Books, Typed
      <3> QED BY <3>1, <3>2 DEF Books
    <2>2. CASE UNCHANGED vars
      <3>1. balance' = balance /\ transfers' = transfers /\ ledger' = ledger
        BY <2>2 DEF vars
      <3>2. \A a : LedgerSum(a)' = LedgerSum(a)
        BY <3>1 DEF LedgerSum
      <3>3. DoubleEntry' /\ MoneyConserved'
        BY <1>2, <3>1 DEF Books, DoubleEntry, MoneyConserved
      <3>4. LedgerReconciles'
        BY <1>2, <3>1, <3>2 DEF Books, LedgerReconciles
      <3> QED BY <1>2, <3>1, <3>3, <3>4 DEF Books, Typed
    <2> QED BY <1>2, <2>1, <2>2
  <1>3. BankConstants => BankConstants'
    BY DEF BankConstants
  <1> QED BY <1>1, <1>2, <1>3, PTL DEF Spec

-----------------------------------------------------------------------------
\* No two accounts of one currency hold more than an int64 together: no
\* credit of a funded transfer overflows.
PairsFit ==
    \A a, b \in Accounts :
        a # b /\ Currency[a] = Currency[b] => balance[a] + balance[b] <= MaxInt64

\* In a bank that keeps its books and whose money fits an int64 there is room
\* for every transfer.
LEMMA RoomForAll ==
    ASSUME BankConstants, Currency \in [Accounts -> CurrencyCodes], Affordable, Books
    PROVE  PairsFit
  <1> SUFFICES ASSUME NEW a \in Accounts, NEW b \in Accounts, a # b, Currency[a] = Currency[b]
               PROVE  balance[a] + balance[b] <= MaxInt64
    BY DEF PairsFit
  <1> DEFINE held == {x \in Accounts : Currency[x] = Currency[a]}
  <1>1. /\ Currency[a] \in CurrencyCodes /\ IsFiniteSet(held) /\ MaxInt64 \in Nat
    BY EntitiesAssumption, FS_Subset DEF BankConstants
  <1>2. /\ \A x \in Accounts : balance[x] \in Nat /\ Opening[x] \in Nat
    BY EntitiesAssumption DEF Books, Typed, BankConstants
  <1>3. Sum(balance, held) = Sum(Opening, held)
    BY <1>1 DEF Books, MoneyConserved, Sum
  <1>4. Sum(Opening, held) <= MaxInt64
    BY <1>1 DEF Affordable, Sum
  <1>5. a \in held /\ b \in held /\ \A x \in held : balance[x] \in Nat /\ Opening[x] \in Nat
    BY <1>2
  <1> HIDE DEF held
  <1>6. balance[a] + balance[b] <= Sum(balance, held)
    BY <1>1, <1>5, SumBounds
  <1>7. Sum(Opening, held) \in Nat
    BY <1>1, <1>5, SumTyped
  <1> QED BY <1>1, <1>2, <1>3, <1>4, <1>6, <1>7

-----------------------------------------------------------------------------
\* The completed transfers, and what one of them did to an account.
Completed == {t \in transfers : t.status = "completed"}

Effect(t, a) ==
    IF a = t.request.to THEN t.request.amount
    ELSE IF a = t.request.from THEN -t.request.amount ELSE 0

\* A balance is the opening balance and what the completed transfers did to it.
Explained ==
    /\ IsFiniteSet(transfers) /\ \A t \in transfers : t.request.amount \in Int
    /\ \A a \in Accounts :
        balance[a] = Opening[a] + SumFunction([t \in Completed |-> Effect(t, a)])

\* A transfer moves an integer amount.
LEMMA EffectTyped ==
    ASSUME NEW t, t.request.amount \in Int
    PROVE  \A a : Effect(t, a) \in Int
  BY DEF Effect

\* One more completed transfer moves its accounts and nothing else.
LEMMA ExplainedStep ==
    ASSUME BankConstants, Typed, Explained, Next
    PROVE  Explained'
  <1> DEFINE Total(C, a) == Sum([t \in C |-> Effect(t, a)], C)
  <1>0. \A C, a : SumFunction([t \in C |-> Effect(t, a)]) = Total(C, a)
    BY DEF Sum, SumFunction
  <1>1. /\ IsFiniteSet(transfers) /\ \A t \in transfers : t.request.amount \in Int
        /\ \A a \in Accounts : balance[a] = Opening[a] + Total(Completed, a)
    BY <1>0 DEF Explained
  <1>2. Explained' <=> /\ IsFiniteSet(transfers') /\ \A t \in transfers' : t.request.amount \in Int
                       /\ \A a \in Accounts : balance'[a] = Opening[a] + Total(Completed', a)
    <2>1. \A a : SumFunction([t \in Completed' |-> Effect(t, a)]) = Total(Completed', a)
      BY <1>0
    <2> HIDE DEF Total
    <2> QED BY <2>1 DEF Explained, Effect
  <1>3. PICK id \in TransferIDs \ {t.id : t \in transfers}, order \in Orders :
             LET q == order.request IN
             \/ /\ transfers' = transfers \cup {Row(id, order, "failed")}
                /\ balance' = balance
             \/ /\ q.from \in Accounts /\ q.to \in Accounts /\ q.from # q.to
                /\ q.amount \in Int
                /\ transfers' = transfers \cup {Row(id, order, "completed")}
                /\ balance' = Moved(q)
    BY BankStep
  <1> DEFINE q == order.request
  <1>4. q.amount \in Int
    BY DEF BankConstants
  <1>5. \A s : /\ Row(id, order, s).id = id /\ Row(id, order, s).status = s
               /\ Row(id, order, s).request = q
    BY RowFields
  <1>6. /\ IsFiniteSet(Completed) /\ \A t \in Completed : t.request.amount \in Int
    BY <1>1, FS_Subset DEF Completed
  <1>7. ASSUME NEW s, transfers' = transfers \cup {Row(id, order, s)}
        PROVE  IsFiniteSet(transfers') /\ \A t \in transfers' : t.request.amount \in Int
    <2>1. IsFiniteSet(transfers')
      BY Zenon, <1>1, <1>7, FS_AddElement
    <2> QED BY Zenon, <2>1, <1>1, <1>4, <1>5, <1>7
  <1>8. CASE transfers' = transfers \cup {Row(id, order, "failed")} /\ balance' = balance
    <2>1. Completed' = Completed
      BY <1>5, <1>8 DEF Completed
    <2> HIDE DEF Total
    <2> QED BY <1>1, <1>2, <1>7, <1>8, <2>1
  <1>9. CASE /\ q.from \in Accounts /\ q.to \in Accounts /\ q.from # q.to
             /\ transfers' = transfers \cup {Row(id, order, "completed")}
             /\ balance' = Moved(q)
    <2> DEFINE row == Row(id, order, "completed")
    <2>1. row.id = id /\ row.status = "completed" /\ row.request = q
      BY <1>5
    <2>2. transfers' = transfers \cup {row} /\ row \notin transfers
      BY <1>9, <2>1
    <2> HIDE DEF row
    <2>3. Completed' = Completed \cup {row} /\ row \notin Completed
      BY <2>1, <2>2 DEF Completed
    <2>4. /\ balance'[q.from] = balance[q.from] - q.amount
          /\ balance'[q.to] = balance[q.to] + q.amount
          /\ \A a \in Accounts \ {q.from, q.to} : balance'[a] = balance[a]
      BY <1>4, <1>9, MovedValues DEF Typed
    <2>5. ASSUME NEW a \in Accounts PROVE balance'[a] = Opening[a] + Total(Completed', a)
      <3> DEFINE f == [t \in Completed |-> Effect(t, a)]
                 g == [t \in Completed \cup {row} |-> Effect(t, a)]
      <3>1. /\ \A t \in Completed : f[t] \in Int /\ g[t] = f[t]
            /\ g[row] = Effect(row, a) /\ Effect(row, a) \in Int
        <4>1. \A t \in Completed : Effect(t, a) \in Int
          BY <1>6, EffectTyped
        <4>2. Effect(row, a) \in Int
          BY <1>4, <2>1, EffectTyped
        <4> QED BY Zenon, <4>1, <4>2
      <3>2. Sum(g, Completed \cup {row}) = Sum(f, Completed) + g[row] /\ Sum(f, Completed) \in Int
        <4> HIDE DEF f, g
        <4> QED BY <1>6, <2>3, <3>1, SumAdds, SumTyped
      <3>3. Total(Completed', a) = Total(Completed, a) + Effect(row, a) /\ Total(Completed, a) \in Int
        BY Zenon, <2>3, <3>1, <3>2
      <3> HIDE DEF Total
      <3>4. balance[a] = Opening[a] + Total(Completed, a) /\ Opening[a] \in Int
        BY <1>1, EntitiesAssumption DEF BankConstants
      <3>5. balance'[a] = balance[a] + Effect(row, a)
        <4>1. balance[a] \in Int
          BY <3>3, <3>4
        <4>2. CASE a = q.to
          BY <2>1, <2>4, <4>2 DEF Effect
        <4>3. CASE a = q.from
          BY <1>4, <1>9, <2>1, <2>4, <4>1, <4>3 DEF Effect
        <4>4. CASE a # q.from /\ a # q.to
          BY <2>1, <2>4, <4>1, <4>4 DEF Effect
        <4> QED BY <4>2, <4>3, <4>4
      <3>6. Effect(row, a) \in Int
        BY <3>1
      <3> QED BY <3>3, <3>4, <3>5, <3>6
    <2> HIDE DEF Total
    <2> QED BY <1>2, <1>7, <1>9, <2>5
  <1> QED BY <1>3, <1>8, <1>9

\* The completed transfers explain every balance of the bank.
THEOREM TransfersExplain == BankConstants => (Spec => []Explained)
  <1>1. ASSUME BankConstants, Init PROVE Explained
    <2>1. transfers = {} /\ balance = Opening
      BY <1>1 DEF Init
    <2>2. \A f : Sum(f, {}) = 0
      BY SumUnfolds, FS_EmptySet
    <2>3. Completed = {}
      BY <2>1 DEF Completed
    <2>4. \A a : SumFunction([t \in Completed |-> Effect(t, a)]) = 0
      BY <2>2, <2>3 DEF Sum, SumFunction
    <2>5. \A a \in Accounts : Opening[a] \in Int
      BY <1>1, EntitiesAssumption DEF BankConstants
    <2> QED BY <2>1, <2>4, <2>5, FS_EmptySet DEF Explained
  <1>2. ASSUME BankConstants, Books, Explained, [Next]_vars PROVE Explained'
    <2>1. CASE Next
      BY <1>2, <2>1, ExplainedStep DEF Books
    <2>2. CASE UNCHANGED vars
      BY <1>2, <2>2 DEF vars, Explained, Completed, Effect
    <2> QED BY <1>2, <2>1, <2>2
  <1>3. BankConstants => BankConstants'
    BY DEF BankConstants
  <1> QED BY <1>1, <1>2, <1>3, BooksAreKept, PTL DEF Spec
=============================================================================
