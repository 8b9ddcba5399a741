----------------------------- MODULE ReadsProofs -----------------------------
(***************************************************************************)
(* The read-only routes disturb no transfer, and all that they show is one *)
(* history of whole transfers.                                             *)
(*                                                                         *)
(* A response outlives the snapshot it was taken from, so the inductive    *)
(* invariant says that there is a T which gives each read the set of       *)
(* transfers its snapshot saw (History). Steps of the transfers only add   *)
(* transfers that are in none of these sets (Grows); the step Query puts   *)
(* the stored transfers into the set of its read; and no read that has     *)
(* begun has to follow one that is still under way, so a step of one read  *)
(* is about that read alone (OneRead).                                     *)
(*                                                                         *)
(* That the service gives the reads what they rest on is shown in          *)
(* TransferRefinementProofs.                                               *)
(***************************************************************************)
EXTENDS Reads, TLAPS

\* What the reads rest on: a step adds transfers with ids of their own, the
\* stored transfers explain the balances, and a transfer that somebody was told
\* of is stored.
Grows ==
    /\ transfers \subseteq transfers'
    /\ \A t \in transfers' \ transfers : t.id \notin Stored

StoredExplain == \A a \in Accounts : balance[a] = Opening[a] + Moved(Stored, a)

ToldAreStored ==
    \A r \in Requests :
        pc[r] = "done" /\ outcome[r].transfer # NoTransfer => outcome[r].transfer.id \in Stored

\* The reads that have shown something, an absence included.
AnsweredReads == {d \in Readers : code[d] \in {200, 404}}

\* What is known of a read wherever it is.
ReadingOf(d) ==
    /\ step[d] # "done" => code[d] = 0
    /\ step[d] \in {"idle", "query"} => shown[d] = {}
    /\ known[d] \subseteq Stored
    /\ earlier[d] \subseteq {e \in Readers : step[e] = "done"}

ReadTypes ==
    /\ get = [d \in Readers |-> get[d]] /\ step = [d \in Readers |-> step[d]]
    /\ seen = [d \in Readers |-> seen[d]] /\ shown = [d \in Readers |-> shown[d]]
    /\ code = [d \in Readers |-> code[d]] /\ known = [d \in Readers |-> known[d]]
    /\ earlier = [d \in Readers |-> earlier[d]]

\* T gives each read the transfers its snapshot has seen.  They hold all that it
\* has to show...
Follows(T, d) ==
    /\ known[d] \subseteq T[d]
    /\ \A e \in earlier[d] \cap AnsweredReads : T[e] \subseteq T[d]

\* ...and the snapshot, and the rows collected from it, show no more and no less.
Snapshot(T, d) ==
    /\ seen[d].transfers = {t \in transfers : t.id \in T[d]}
    /\ \A a \in Accounts : seen[d].balance[a] = Opening[a] + Moved(T[d], a)
    /\ shown[d] \subseteq {RowVersion(d, a) : a \in Visible(get[d])}

TellsOf(T, d) ==
    /\ step[d] = "rows" => Follows(T, d) /\ Snapshot(T, d)
    /\ d \in AnsweredReads => Follows(T, d) /\ ShowsExactly(d, T[d])

History == \E T \in [Readers -> SUBSET Stored] : \A d \in Readers : TellsOf(T, d)

ReadInv == ReadTypes /\ (\A d \in Readers : ReadingOf(d)) /\ History

-----------------------------------------------------------------------------
\* Transfers that come later have no part in what a set of stored ones did.
LEMMA LaterTransfers ==
    ASSUME Grows, NEW S \in SUBSET Stored
    PROVE  /\ S \in SUBSET Stored'
           /\ {t \in transfers' : t.id \in S} = {t \in transfers : t.id \in S}
           /\ \A a : Moved(S, a)' = Moved(S, a)
  <1>1. Stored \subseteq Stored'
    BY DEF Stored, Grows
  <1>2. \A t \in transfers' : t.id \in S => t \in transfers
    BY DEF Grows
  <1>3. {t \in transfers' : t.id \in S} = {t \in transfers : t.id \in S}
    BY <1>2 DEF Grows
  <1>4. {t \in transfers' : t.id \in S /\ t.status = "completed"} =
        {t \in transfers : t.id \in S /\ t.status = "completed"}
    BY <1>2 DEF Grows
  <1>5. \A a : Moved(S, a)' = Moved(S, a)
    BY Zenon, <1>4 DEF Moved, Effect
  <1> QED BY <1>1, <1>3, <1>5

\* A read is not disturbed by what transfers and other reads do.
LEMMA ReadUndisturbed ==
    ASSUME Grows, NEW T \in [Readers -> SUBSET Stored], NEW U, NEW d \in Readers,
           TellsOf(T, d), U[d] = T[d],
           get'[d] = get[d], step'[d] = step[d], seen'[d] = seen[d], shown'[d] = shown[d],
           code'[d] = code[d], known'[d] = known[d], earlier'[d] = earlier[d],
           \A e \in earlier[d] : e \in AnsweredReads' => e \in AnsweredReads /\ U[e] = T[e]
    PROVE  TellsOf(U, d)'
  <1>1. U[d] \in SUBSET Stored
    OBVIOUS
  <1>2. /\ {t \in transfers' : t.id \in U[d]} = {t \in transfers : t.id \in T[d]}
        /\ \A a : Moved(U[d], a)' = Moved(T[d], a)
    BY <1>1, LaterTransfers
  <1>3. Follows(T, d) => Follows(U, d)'
    BY Zenon DEF Follows
  <1>4. Snapshot(T, d) => Snapshot(U, d)'
    <2> SUFFICES ASSUME Snapshot(T, d) PROVE Snapshot(U, d)'
      OBVIOUS
    <2>1. seen'[d].transfers = {t \in transfers' : t.id \in U[d]}
      BY Zenon, <1>2 DEF Snapshot
    <2>2. \A a \in Accounts : seen'[d].balance[a] = Opening[a] + Moved(U[d], a)'
      BY Zenon, <1>2 DEF Snapshot
    <2>3. shown'[d] \subseteq {RowVersion(d, a)' : a \in Visible(get'[d])}
      BY Zenon DEF Snapshot, RowVersion
    <2> QED BY Zenon, <2>1, <2>2, <2>3 DEF Snapshot, Visible
  <1>5. ShowsExactly(d, T[d]) => ShowsExactly(d, U[d])'
    <2>1. CASE get[d].route = "getTransfer"
      BY <1>2, <2>1 DEF ShowsExactly, FindByID
    <2>2. CASE get[d].route # "getTransfer"
      <3>1. {[account |-> a, balance |-> Opening[a] + Moved(U[d], a)'] : a \in Visible(get'[d])} =
            {[account |-> a, balance |-> Opening[a] + Moved(T[d], a)] : a \in Visible(get[d])}
        <4>1. Visible(get'[d]) = Visible(get[d])
          OBVIOUS
        <4> QED BY <1>2, <4>1
      <3> QED BY Zenon, <2>2, <3>1 DEF ShowsExactly, Visible
    <2> QED BY <2>1, <2>2
  <1>6. d \in AnsweredReads' <=> d \in AnsweredReads
    BY DEF AnsweredReads
  <1> QED BY Zenon, <1>3, <1>4, <1>5, <1>6 DEF TellsOf

\* The same for what is known of it.
LEMMA ReadingStays ==
    ASSUME Grows, NEW d \in Readers, ReadingOf(d),
           step'[d] = step[d], shown'[d] = shown[d], code'[d] = code[d],
           known'[d] = known[d], earlier'[d] = earlier[d],
           \A e \in Readers : step[e] = "done" => step'[e] = "done"
    PROVE  ReadingOf(d)'
  <1>1. Stored \subseteq Stored'
    BY DEF Stored, Grows
  <1> QED BY <1>1 DEF ReadingOf

\* Steps of the transfers.
LEMMA TransfersKeep ==
    ASSUME Grows, ReadInv, UNCHANGED readVars
    PROVE  ReadInv'
  <1>0. UNCHANGED <<get, step, seen, shown, code, known, earlier>>
    BY DEF readVars
  <1>1. ReadTypes'
    BY <1>0 DEF ReadInv, ReadTypes
  <1>2. \A d \in Readers : ReadingOf(d)'
    BY Zenon, <1>0, ReadingStays DEF ReadInv
  <1>3. PICK T \in [Readers -> SUBSET Stored] : \A d \in Readers : TellsOf(T, d)
    BY DEF ReadInv, History
  <1>4. \A d \in Readers : TellsOf(T, d)'
    <2>1. AnsweredReads' = AnsweredReads
      BY <1>0 DEF AnsweredReads
    <2> QED BY <1>0, <1>3, <2>1, ReadUndisturbed
  <1>5. T \in [Readers -> SUBSET Stored']
    <2>1. \A d \in Readers : T[d] \in SUBSET Stored'
      BY LaterTransfers
    <2> QED BY <2>1
  <1>6. History'
    <2>1. \E U \in [Readers -> SUBSET Stored'] : \A d \in Readers : TellsOf(U, d)'
      BY Zenon, <1>4, <1>5
    <2> QED BY Zenon, <2>1 DEF History
  <1> QED BY <1>1, <1>2, <1>6 DEF ReadInv

-----------------------------------------------------------------------------
\* A step of one read, in which U takes the place of T: it is enough to look at
\* that read, as nobody who has begun has to follow it.
LEMMA OneRead ==
    ASSUME ReadInv, UNCHANGED vars, NEW d \in Readers, step[d] # "done",
           NEW T \in [Readers -> SUBSET Stored], \A e \in Readers : TellsOf(T, e),
           NEW U \in [Readers -> SUBSET Stored], \A e \in Readers \ {d} : U[e] = T[e],
           ReadTypes',
           \A e \in Readers \ {d} :
               /\ get'[e] = get[e] /\ step'[e] = step[e] /\ seen'[e] = seen[e]
               /\ shown'[e] = shown[e] /\ code'[e] = code[e] /\ known'[e] = known[e]
               /\ earlier'[e] = earlier[e],
           ReadingOf(d)', TellsOf(U, d)'
    PROVE  ReadInv'
  <1>1. transfers' = transfers /\ Stored' = Stored /\ Grows
    BY DEF vars, storeVars, committed, Stored, Grows
  <1>2. \A e \in Readers : ReadingOf(e)
    BY DEF ReadInv
  <1>3. ASSUME NEW e \in Readers \ {d} PROVE ReadingOf(e)'
    BY Zenon, <1>1, <1>2, ReadingStays
  <1>4. ASSUME NEW e \in Readers \ {d} PROVE TellsOf(U, e)'
    <2>1. ASSUME NEW x \in earlier[e], x \in AnsweredReads'
          PROVE  x \in AnsweredReads /\ U[x] = T[x]
      <3>1. x \in Readers \ {d}
        BY <1>2 DEF ReadingOf
      <3> QED BY <2>1, <3>1 DEF AnsweredReads
    <2> QED BY Zenon, <1>1, <2>1, ReadUndisturbed
  <1>5. History'
    <2>1. U \in [Readers -> SUBSET Stored']
      BY <1>1
    <2>2. \A e \in Readers : TellsOf(U, e)'
      BY <1>4
    <2> QED BY Zenon, <2>1, <2>2 DEF History
  <1> QED BY Zenon, <1>3, <1>5 DEF ReadInv

\* GET is sent: it has to show all that was told before.
LEMMA SendKeeps ==
    ASSUME ReadInv, ToldAreStored, NEW d \in Readers, NEW g, Send(d, g)
    PROVE  ReadInv'
  <1>1. PICK T \in [Readers -> SUBSET Stored] : \A e \in Readers : TellsOf(T, e)
    BY DEF ReadInv, History
  <1>2. /\ ReadTypes /\ ReadingOf(d) /\ step[d] = "idle" /\ UNCHANGED <<vars, seen, shown, code>>
        /\ transfers' = transfers
    BY DEF ReadInv, Send, vars, storeVars, committed
  <1> DEFINE told == {outcome[r].transfer.id : r \in
                        {q \in Requests : pc[q] = "done" /\ outcome[q].transfer # NoTransfer}}
             before == {e \in Readers : step[e] = "done"}
  <1>3. /\ step' = [step EXCEPT ![d] = "query"] /\ get' = [get EXCEPT ![d] = g]
        /\ known' = [known EXCEPT ![d] = told] /\ earlier' = [earlier EXCEPT ![d] = before]
    BY DEF Send
  <1>4. told \subseteq Stored
    BY DEF ToldAreStored
  <1> HIDE DEF told
  <1>5. ReadTypes'
    BY <1>2, <1>3 DEF ReadTypes
  <1>6. /\ step'[d] = "query" /\ known'[d] = told /\ earlier'[d] = before
        /\ \A e \in Readers \ {d} :
               /\ get'[e] = get[e] /\ step'[e] = step[e] /\ seen'[e] = seen[e]
               /\ shown'[e] = shown[e] /\ code'[e] = code[e] /\ known'[e] = known[e]
               /\ earlier'[e] = earlier[e]
    BY <1>2, <1>3 DEF ReadTypes
  <1>7. ReadingOf(d)'
    <2>1. Stored' = Stored
      BY <1>2 DEF Stored
    <2>2. \A e \in before : step'[e] = "done"
      BY <1>2, <1>6
    <2> QED BY <1>2, <1>4, <1>6, <2>1, <2>2 DEF ReadingOf
  <1>8. TellsOf(T, d)'
    BY <1>2, <1>6 DEF TellsOf, AnsweredReads, ReadingOf
  <1> QED BY <1>1, <1>2, <1>5, <1>6, <1>7, <1>8, OneRead

\* The SELECT starts: its snapshot has all transfers stored at that time.
LEMMA QueryKeeps ==
    ASSUME ReadInv, StoredExplain, NEW d \in Readers, Query(d)
    PROVE  ReadInv'
  <1>1. PICK T \in [Readers -> SUBSET Stored] : \A e \in Readers : TellsOf(T, e)
    BY DEF ReadInv, History
  <1> DEFINE now == [balance |-> balance, transfers |-> transfers]
  <1>2. /\ ReadTypes /\ ReadingOf(d) /\ step[d] = "query"
        /\ UNCHANGED <<vars, get, shown, code, known, earlier>>
        /\ transfers' = transfers /\ balance' = balance
    BY DEF ReadInv, Query, vars, storeVars, committed
  <1>3. step' = [step EXCEPT ![d] = "rows"] /\ seen' = [seen EXCEPT ![d] = now]
    BY DEF Query
  <1>4. PICK U \in [Readers -> SUBSET Stored] :
            U[d] = Stored /\ \A e \in Readers \ {d} : U[e] = T[e]
    <2> WITNESS [T EXCEPT ![d] = Stored] \in [Readers -> SUBSET Stored]
    <2> QED OBVIOUS
  <1>5. now.balance = balance /\ now.transfers = transfers
    OBVIOUS
  <1> HIDE DEF now
  <1>6. ReadTypes'
    BY <1>2, <1>3 DEF ReadTypes
  <1>7. /\ step'[d] = "rows" /\ seen'[d] = now
        /\ \A e \in Readers \ {d} :
               /\ get'[e] = get[e] /\ step'[e] = step[e] /\ seen'[e] = seen[e]
               /\ shown'[e] = shown[e] /\ code'[e] = code[e] /\ known'[e] = known[e]
               /\ earlier'[e] = earlier[e]
    BY <1>2, <1>3 DEF ReadTypes
  <1>8. Stored' = Stored /\ \A a : Moved(U[d], a)' = Moved(Stored, a)
    BY <1>2, <1>4 DEF Stored, Moved, Effect
  <1>9. ReadingOf(d)'
    <2>1. \A e \in Readers : step[e] = "done" => step'[e] = "done"
      BY <1>2, <1>7
    <2> QED BY <1>2, <1>7, <1>8, <2>1 DEF ReadingOf
  <1>10. Follows(U, d)'
    <2>1. known'[d] \subseteq U[d]
      BY <1>2, <1>4 DEF ReadingOf
    <2>2. \A e \in earlier'[d] : U[e] \subseteq U[d]
      BY <1>2, <1>4 DEF ReadingOf
    <2> QED BY <2>1, <2>2 DEF Follows
  <1>11. Snapshot(U, d)'
    <2>1. transfers = {t \in transfers : t.id \in Stored}
      BY DEF Stored
    <2>2. seen'[d].transfers = {t \in transfers' : t.id \in U[d]}
      BY <1>2, <1>4, <1>5, <1>7, <2>1
    <2>3. \A a \in Accounts : seen'[d].balance[a] = Opening[a] + Moved(U[d], a)'
      BY Zenon, <1>5, <1>7, <1>8 DEF StoredExplain
    <2>4. shown'[d] = {}
      BY <1>2 DEF ReadingOf
    <2> QED BY <2>2, <2>3, <2>4 DEF Snapshot
  <1>12. TellsOf(U, d)'
    BY <1>2, <1>7, <1>10, <1>11 DEF TellsOf, AnsweredReads, ReadingOf
  <1> QED BY <1>1, <1>2, <1>4, <1>6, <1>7, <1>9, <1>12, OneRead

\* A row arrives, in the version of the snapshot.
LEMMA CollectKeeps ==
    ASSUME ReadInv, NEW d \in Readers, CollectRow(d)
    PROVE  ReadInv'
  <1>1. PICK T \in [Readers -> SUBSET Stored] : \A e \in Readers : TellsOf(T, e)
    BY DEF ReadInv, History
  <1>2. /\ ReadTypes /\ ReadingOf(d) /\ step[d] = "rows"
        /\ UNCHANGED <<vars, get, step, seen, code, known, earlier>>
        /\ transfers' = transfers
    BY DEF ReadInv, CollectRow, vars, storeVars, committed
  <1>3. PICK a \in NextRow(d) : shown' = [shown EXCEPT ![d] = @ \cup {RowVersion(d, a)}]
    BY DEF CollectRow
  <1>4. a \in Visible(get[d])
    BY DEF NextRow
  <1>5. ReadTypes'
    BY <1>2, <1>3 DEF ReadTypes
  <1>6. /\ shown'[d] = shown[d] \cup {RowVersion(d, a)}
        /\ \A e \in Readers \ {d} : shown'[e] = shown[e]
    BY <1>2, <1>3 DEF ReadTypes
  <1>7. Stored' = Stored /\ \A b : Moved(T[d], b)' = Moved(T[d], b)
    BY <1>2 DEF Stored, Moved, Effect
  <1>8. ReadingOf(d)'
    BY <1>2, <1>7 DEF ReadingOf
  <1>9. Follows(T, d) /\ Snapshot(T, d) /\ d \notin AnsweredReads
    BY <1>1, <1>2 DEF TellsOf, ReadingOf, AnsweredReads
  <1>10. Snapshot(T, d)'
    <2>1. seen'[d].transfers = {t \in transfers' : t.id \in T[d]}
      BY Zenon, <1>2, <1>9 DEF Snapshot
    <2>2. \A b \in Accounts : seen'[d].balance[b] = Opening[b] + Moved(T[d], b)'
      BY Zenon, <1>2, <1>7, <1>9 DEF Snapshot
    <2>3. shown'[d] \subseteq {RowVersion(d, b) : b \in Visible(get[d])}
      BY Zenon, <1>4, <1>6, <1>9 DEF Snapshot
    <2>4. \A b : RowVersion(d, b)' = RowVersion(d, b)
      BY <1>2 DEF RowVersion
    <2>5. shown'[d] \subseteq {RowVersion(d, b)' : b \in Visible(get'[d])}
      BY <1>2, <2>3, <2>4
    <2> QED BY Zenon, <2>1, <2>2, <2>5 DEF Snapshot, Visible
  <1>11. TellsOf(T, d)'
    BY <1>2, <1>9, <1>10 DEF TellsOf, AnsweredReads, Follows
  <1> QED BY <1>1, <1>2, <1>5, <1>6, <1>8, <1>11, OneRead

\* What Answer leaves of a read that is answered with c.
LEMMA AnswerKeeps ==
    ASSUME ReadInv, NEW d \in Readers, step[d] \in {"query", "rows"}, NEW c, Answer(d, c),
           shown' = [e \in Readers |-> shown'[e]],
           \A e \in Readers \ {d} : shown'[e] = shown[e],
           NEW T \in [Readers -> SUBSET Stored], \A e \in Readers : TellsOf(T, e),
           c \in {200, 404} => step[d] = "rows" /\ ShowsExactly(d, T[d])'
    PROVE  ReadInv'
  <1>1. /\ ReadTypes /\ ReadingOf(d) /\ UNCHANGED <<vars, get, known, earlier>>
        /\ transfers' = transfers
    BY DEF ReadInv, Answer, vars, storeVars, committed
  <1>2. /\ step' = [step EXCEPT ![d] = "done"] /\ code' = [code EXCEPT ![d] = c]
        /\ seen' = [seen EXCEPT ![d] = None]
    BY DEF Answer
  <1>3. ReadTypes'
    BY <1>1, <1>2 DEF ReadTypes
  <1>4. /\ step'[d] = "done" /\ code'[d] = c
        /\ \A e \in Readers \ {d} :
               step'[e] = step[e] /\ seen'[e] = seen[e] /\ code'[e] = code[e]
    BY <1>1, <1>2 DEF ReadTypes
  <1>5. ReadingOf(d)'
    <2>1. Stored' = Stored
      BY <1>1 DEF Stored
    <2>2. \A e \in Readers : step[e] = "done" => step'[e] = "done"
      BY <1>4
    <2> QED BY <1>1, <1>4, <2>1, <2>2 DEF ReadingOf
  <1>6. TellsOf(T, d)'
    <2>1. ASSUME c \in {200, 404} PROVE Follows(T, d)'
      <3>1. Follows(T, d)
        BY <2>1 DEF TellsOf
      <3>2. d \notin earlier[d]
        BY <1>1 DEF ReadingOf
      <3>3. \A e \in earlier[d] : e \in AnsweredReads' => e \in AnsweredReads
        BY <1>1, <1>4, <3>2 DEF ReadingOf, AnsweredReads
      <3> QED BY <1>1, <3>1, <3>3 DEF Follows
    <2> QED BY <1>4, <2>1 DEF TellsOf, AnsweredReads
  <1> QED BY <1>1, <1>3, <1>4, <1>5, <1>6, OneRead

\* All rows have arrived: the response shows the accounts as T[d] left them.
LEMMA AccountsKeep ==
    ASSUME ReadInv, NEW d \in Readers, RespondAccounts(d),
           \A S \in SUBSET Accounts : S # {} => \E m \in S : \A x \in S : m <= x
    PROVE  ReadInv'
  <1>1. PICK T \in [Readers -> SUBSET Stored] : \A e \in Readers : TellsOf(T, e)
    BY DEF ReadInv, History
  <1> DEFINE left == Visible(get[d]) \ {row.account : row \in shown[d]}
  <1>2. PICK c : Answer(d, c)
    BY DEF RespondAccounts
  <1>3. /\ step[d] = "rows" /\ get[d].route # "getTransfer" /\ NextRow(d) = {}
        /\ shown' = shown /\ get' = get /\ transfers' = transfers
    BY <1>2 DEF RespondAccounts, Answer, vars, storeVars, committed
  <1>4. Snapshot(T, d)
    BY <1>1, <1>3 DEF TellsOf
  <1>5. left = {}
    <2>1. left \in SUBSET Accounts
      BY DEF Visible
    <2>2. ~\E m \in left : \A x \in left : m <= x
      BY <1>3 DEF NextRow
    <2> QED BY Zenon, <2>1, <2>2
  <1> DEFINE Row(a) == [account |-> a, balance |-> Opening[a] + Moved(T[d], a)]
  <1>6. \A a \in Visible(get[d]) : RowVersion(d, a) = Row(a)
    BY <1>4 DEF Snapshot, RowVersion, Visible
  <1>7. \A row \in shown[d] : row.account \in Visible(get[d]) /\ row = Row(row.account)
    <2>1. ASSUME NEW row \in shown[d]
          PROVE  row.account \in Visible(get[d]) /\ row = Row(row.account)
      <3>1. PICK a \in Visible(get[d]) : row = RowVersion(d, a)
        BY <1>4 DEF Snapshot
      <3>2. row = Row(a) /\ Row(a).account = a
        BY <1>6, <3>1
      <3> HIDE DEF Row
      <3> QED BY <3>2
    <2> QED BY <2>1
  <1> HIDE DEF Row
  <1>8. shown[d] = {Row(a) : a \in Visible(get[d])}
    <2>1. \A a \in Visible(get[d]) : \E row \in shown[d] : row.account = a
      BY <1>5
    <2> QED BY <1>7, <2>1
  <1>9. \A a : Moved(T[d], a)' = Moved(T[d], a)
    BY <1>3 DEF Moved, Effect
  <1>10. ShowsExactly(d, T[d])'
    <2>1. {Row(a) : a \in Visible(get[d])} =
          {[account |-> a, balance |-> Opening[a] + Moved(T[d], a)'] : a \in Visible(get[d])}
      BY <1>9 DEF Row
    <2> QED BY Zenon, <1>3, <1>8, <2>1 DEF ShowsExactly, Visible
  <1>11. ReadTypes
    BY DEF ReadInv
  <1> QED BY <1>1, <1>2, <1>3, <1>10, <1>11, AnswerKeeps DEF ReadTypes

\* The row of a transfer, or none, as the snapshot has it.
LEMMA TransferKeeps ==
    ASSUME ReadInv, NEW d \in Readers, RespondTransfer(d)
    PROVE  ReadInv'
  <1>1. PICK T \in [Readers -> SUBSET Stored] : \A e \in Readers : TellsOf(T, e)
    BY DEF ReadInv, History
  <1>2. PICK c : Answer(d, c)
    BY DEF RespondTransfer
  <1>3. /\ step[d] = "rows" /\ get[d].route = "getTransfer"
        /\ shown' = [shown EXCEPT ![d] = FindByID(seen[d].transfers, get[d])]
        /\ get' = get /\ transfers' = transfers
    BY <1>2 DEF RespondTransfer, Answer, vars, storeVars, committed
  <1>4. Snapshot(T, d) /\ ReadTypes
    BY <1>1, <1>3 DEF TellsOf, ReadInv
  <1>5. /\ shown' = [e \in Readers |-> shown'[e]]
        /\ shown'[d] = FindByID(seen[d].transfers, get[d])
        /\ \A e \in Readers \ {d} : shown'[e] = shown[e]
    BY <1>3, <1>4 DEF ReadTypes
  <1>6. ShowsExactly(d, T[d])'
    <2>1. shown'[d] = FindByID({t \in transfers' : t.id \in T[d]}, get'[d])
      BY Zenon, <1>3, <1>4, <1>5 DEF Snapshot
    <2> QED BY Zenon, <1>3, <2>1 DEF ShowsExactly, FindByID
  <1>7. step[d] = "rows"
    BY <1>3
  <1> QED BY <1>1, <1>2, <1>5, <1>6, <1>7, AnswerKeeps

\* An internal error shows nothing, an absence included.
LEMMA FailureKeeps ==
    ASSUME ReadInv, NEW d \in Readers, ReadFails(d)
    PROVE  ReadInv'
  <1>1. PICK T \in [Readers -> SUBSET Stored] : \A e \in Readers : TellsOf(T, e)
    BY DEF ReadInv, History
  <1>2. step[d] \in {"query", "rows"} /\ Answer(d, 500) /\ shown' = [shown EXCEPT ![d] = {}]
    BY DEF ReadFails
  <1>3. shown' = [e \in Readers |-> shown'[e]] /\ \A e \in Readers \ {d} : shown'[e] = shown[e]
    BY <1>2 DEF ReadInv, ReadTypes
  <1>4. PICK c : c \notin {200, 404} /\ Answer(d, c)
    BY <1>2
  <1>5. c \in {200, 404} => step[d] = "rows" /\ ShowsExactly(d, T[d])'
    BY <1>4
  <1>6. step[d] \in {"query", "rows"}
    BY <1>2
  <1> QED BY <1>1, <1>3, <1>4, <1>5, <1>6, AnswerKeeps

\* Every step of the routes.
LEMMA ReadStep ==
    ASSUME ReadInv, Grows, StoredExplain, ToldAreStored, [ReadNext]_allVars,
           \A S \in SUBSET Accounts : S # {} => \E m \in S : \A x \in S : m <= x
    PROVE  ReadInv'
  <1>1. ASSUME UNCHANGED readVars PROVE ReadInv'
    BY <1>1, TransfersKeep
  <1>2. ASSUME NEW d \in Readers, NEW g \in Gets, Send(d, g) PROVE ReadInv'
    BY <1>2, SendKeeps
  <1>3. ASSUME NEW d \in Readers, ServeRead(d) PROVE ReadInv'
    BY <1>3, QueryKeeps, CollectKeeps, AccountsKeep, TransferKeeps DEF ServeRead
  <1>4. ASSUME NEW d \in Readers, ReadFails(d) PROVE ReadInv'
    BY <1>4, FailureKeeps
  <1> QED BY Zenon, <1>1, <1>2, <1>3, <1>4 DEF ReadNext, ServeTransfer, ReadsQuiet, allVars

\* Nothing was shown yet.
LEMMA ReadsBegin == ReadInit => ReadInv
  <1> SUFFICES ASSUME ReadInit PROVE ReadInv
    OBVIOUS
  <1>1. ReadTypes
    BY DEF ReadInit, ReadTypes
  <1>2. \A d \in Readers : step[d] = "idle" /\ code[d] = 0 /\ ReadingOf(d)
    BY DEF ReadInit, ReadingOf
  <1>3. \A T : \A d \in Readers : TellsOf(T, d)
    BY <1>2 DEF TellsOf, AnsweredReads
  <1>4. [d \in Readers |-> {}] \in [Readers -> SUBSET Stored]
    OBVIOUS
  <1>5. History
    BY Zenon, <1>3, <1>4 DEF History
  <1> QED BY <1>1, <1>2, <1>5 DEF ReadInv

\* What was answered is part of the history.
LEMMA AnswersTell == ReadInv => ReadsTellOneHistory
  <1> SUFFICES ASSUME ReadInv PROVE ReadsTellOneHistory
    OBVIOUS
  <1>1. PICK T \in [Readers -> SUBSET Stored] : \A d \in Readers : TellsOf(T, d)
    BY DEF ReadInv, History
  <1>2. PICK U \in [AnsweredReads -> SUBSET Stored] : \A d \in AnsweredReads : U[d] = T[d]
    <2>1. AnsweredReads \subseteq Readers
      BY DEF AnsweredReads
    <2>2. [d \in AnsweredReads |-> T[d]] \in [AnsweredReads -> SUBSET Stored]
      BY <2>1
    <2> QED BY Zenon, <2>2
  <1>3. ASSUME NEW d \in AnsweredReads
        PROVE  /\ known[d] \subseteq U[d] /\ ShowsExactly(d, U[d])
               /\ \A e \in earlier[d] \cap AnsweredReads : U[e] \subseteq U[d]
    <2>1. d \in Readers
      BY DEF AnsweredReads
    <2>2. Follows(T, d) /\ ShowsExactly(d, T[d])
      BY <1>1, <2>1 DEF TellsOf
    <2> QED BY <1>2, <2>2 DEF Follows
  <1>4. \E V \in [AnsweredReads -> SUBSET Stored] : \A d \in AnsweredReads :
            /\ known[d] \subseteq V[d]
            /\ ShowsExactly(d, V[d])
            /\ \A e \in earlier[d] \cap AnsweredReads : V[e] \subseteq V[d]
    BY Zenon, <1>3
  <1> QED BY Zenon, <1>4 DEF ReadsTellOneHistory, AnsweredReads

-----------------------------------------------------------------------------
\* A step of the routes leaves the tables and the transfers alone, and a step of
\* a transfer is one it could take without them.
LEMMA ReadNextIsNext == [ReadNext]_allVars => [Next]_vars
  <1> SUFFICES ASSUME [ReadNext]_allVars PROVE [Next]_vars
    OBVIOUS
  <1>1. ASSUME NEW d \in Readers, NEW g \in Gets, Send(d, g) PROVE UNCHANGED vars
    BY <1>1 DEF Send
  <1>2. ASSUME NEW d \in Readers, ServeRead(d) \/ ReadFails(d) PROVE UNCHANGED vars
    BY <1>2 DEF ServeRead, Query, CollectRow, RespondAccounts, RespondTransfer, ReadFails, Answer
  <1>3. ASSUME ReadsQuiet \/ UNCHANGED allVars PROVE UNCHANGED vars
    BY <1>3 DEF ReadsQuiet, Quiet, allVars
  <1> QED BY Zenon, <1>1, <1>2, <1>3 DEF ReadNext, ServeTransfer, Next

\* The reads disturb nothing: next to them, and with fewer connections to be
\* had, Create still does only what it does without them, so all that is proved
\* of the service holds next to them.
THEOREM ReadsDisturbNothing == ReadSpec => Spec
  <1>1. ReadInit => Init
    BY DEF ReadInit
  <1> QED BY <1>1, ReadNextIsNext, PTL DEF ReadSpec, Spec
=============================================================================
