------------------------- MODULE TransferApiProofs --------------------------
(***************************************************************************)
(* What CreateTransfer and POST /transfers answer is true of the tables.   *)
(*                                                                         *)
(* Answering says what each request is about to answer. A behaviour of the *)
(* API is one of the service (ApiIsService), so all that is known of the   *)
(* service holds here; what is added is what a response says (Responded)   *)
(* and what was stored when a message arrived (Settled).                   *)
(***************************************************************************)
EXTENDS TransferServiceProofs, TransferApi

\* The errors Create answers with of its own accord.
Refusals == Errors \ {Nil, "internal"}

\* The transfer in the answer of r is stored, is what r asked for, and is
\* marked as created exactly when r made it.
Shown(r) ==
    LET t == outcome[r].transfer IN
    /\ t \in StoredUnder(call[r].user, Key(r))
    /\ t.request = Request(r)
    /\ outcome[r].created <=> t.id = r

\* What a request is about to answer, or has answered.
AnsweringOf(r) ==
    /\ pc[r] = "select" => StoredUnder(call[r].user, Key(r)) # {}
    /\ r \in orphans \/ pc[r] \in {"rollback", "abort"} => outcome[r].err # Nil
    /\ outcome[r].err # Nil => outcome[r].transfer = NoTransfer
    /\ pc[r] \in {"save", "append", "commit"} /\ newRow[r] # {} /\ r \notin orphans =>
        outcome[r] = Success(Draft(r), TRUE)
    /\ pc[r] = "commit" /\ newRow[r] = {} /\ r \notin orphans => Shown(r)
    /\ pc[r] \in {"ack", "done"} /\ outcome[r].err = Nil => Shown(r)
    /\ outcome[r].err \in Refusals =>
        /\ pc[r] \in {"rollback", "abort", "done"}
        /\ newRow[r] = {}
        /\ \A t \in transfers : t.id # r
    /\ outcome[r].err = "ErrIdempotencyConflict" =>
        \E s \in StoredUnder(call[r].user, Key(r)) : s.request # Request(r)

Answering == \A r \in Requests : AnsweringOf(r)

\* What was shown stays stored.
LEMMA ShownStays ==
    ASSUME NEW s \in Requests, Shown(s), transfers \subseteq transfers',
           call'[s] = call[s], outcome'[s] = outcome[s]
    PROVE  Shown(s)'
  BY DEF Shown, StoredUnder, Key, Request

\* A step of r leaves the answers of the others as they are.
LEMMA AnsweringFrame ==
    ASSUME TypeOK, KeysDistinct, Answering, NEW r \in Requests, Step(r),
           NEW s \in Requests \ {r}
    PROVE  AnsweringOf(s)'
  <1>1. /\ pc'[s] = pc[s] /\ call'[s] = call[s] /\ status'[s] = status[s]
        /\ outcome'[s] = outcome[s] /\ newRow'[s] = newRow[s]
        /\ s \in orphans' <=> s \in orphans
    BY Zenon, Frame DEF Untouched
  <1>2. /\ transfers \subseteq transfers'
        /\ \A t \in transfers' : t \in transfers \/ t.id # s
    BY TransfersGrow
  <1>3. Key(s)' = Key(s) /\ Request(s)' = Request(s) /\ Draft(s)' = Draft(s)
    BY <1>1 DEF Key, Request, Draft
  <1>4. StoredUnder(call[s].user, Key(s)) \subseteq StoredUnder(call[s].user, Key(s))'
    BY <1>1, <1>2, <1>3 DEF StoredUnder
  <1>5. Shown(s) => Shown(s)'
    BY <1>1, <1>2, ShownStays
  <1>6. AnsweringOf(s)
    BY DEF Answering
  <1> QED BY Zenon, <1>1, <1>2, <1>3, <1>4, <1>5, <1>6 DEF AnsweringOf

\* An error that Create raises is an answer that leaves no trace.
LEMMA AnsweringRaise ==
    ASSUME TypeOK, KeysDistinct, NEW r \in Requests, AnsweringOf(r), NEW e \in Errors \ {Nil},
           Raise(r, e), UNCHANGED <<storeVars, call, status, orphans>>,
           pc[r] \in InTx, e \in Refusals => newRow[r] = {},
           e = "ErrIdempotencyConflict" =>
             \E s \in StoredUnder(call[r].user, Key(r)) : s.request # Request(r)
    PROVE  AnsweringOf(r)'
  <1>1. /\ UNCHANGED <<transfers, newRow>> /\ call' = call /\ status' = status /\ orphans' = orphans
        /\ Key(r)' = Key(r) /\ Request(r)' = Request(r)
        /\ StoredUnder(call[r].user, Key(r))' = StoredUnder(call[r].user, Key(r))
    BY Zenon DEF storeVars, committed, written, Key, Request, StoredUnder
  <1>2. \A t \in transfers : t.id # r
    BY Zenon DEF KeysDistinct, InTx
  <1>3. CASE r \in orphans
    <2>1. pc'[r] = "abort" /\ outcome'[r] = outcome[r]
      BY <1>3 DEF Raise, Goto, TypeOK
    <2> QED BY Zenon, <2>1, <1>1, <1>2, <1>3 DEF AnsweringOf
  <1>4. CASE r \notin orphans
    <2>1. pc'[r] = "rollback" /\ outcome'[r] = Failure(e)
      BY <1>4 DEF Raise, Goto, TypeOK
    <2>2. outcome'[r].err = e /\ outcome'[r].transfer = NoTransfer
      BY Zenon, <2>1, FailureFields
    <2> QED BY Zenon, <2>1, <2>2, <1>1, <1>2, <1>4 DEF AnsweringOf
  <1> QED BY <1>3, <1>4

\* Answering is kept: an answer is prepared from the row just inserted, or from
\* the one that holds the key, and is given only after COMMIT.
LEMMA AnsweringStep ==
    ASSUME IInv, Answering, NEW r \in Requests, Step(r)
    PROVE  Answering'
  <1>0. /\ TypeOK /\ Control /\ ControlOf(r) /\ WrittenOf(r) /\ KeysDistinct /\ AnsweringOf(r)
        /\ \A t \in transfers : t.id = r => pc[r] \in {"ack", "done"}
    BY DEF IInv, Control, Written, Answering, KeysDistinct
  <1> SUFFICES AnsweringOf(r)'
    BY <1>0, AnsweringFrame DEF Answering
  <1>a. ASSUME UNCHANGED transfers, call'[r] = call[r]
        PROVE  /\ Key(r)' = Key(r) /\ Request(r)' = Request(r)
               /\ StoredUnder(call[r].user, Key(r))' = StoredUnder(call[r].user, Key(r))
    BY <1>a DEF Key, Request, StoredUnder
  <1>s. UNCHANGED storeVars => UNCHANGED <<transfers, newRow>>
    BY DEF storeVars, committed, written
  <1>b. {"internal", "ErrInvalidTransfer", "ErrForbidden", "ErrIdempotencyConflict"} \subseteq Errors \ {Nil}
    BY DEF Errors, Nil
  <1>c. /\ Nil \notin Refusals /\ "internal" \notin Refusals
        /\ Nil # "ErrIdempotencyConflict" /\ "internal" # "ErrIdempotencyConflict"
    BY DEF Refusals, Nil
  <1>1. ASSUME NEW c \in Calls, Create(r, c) PROVE AnsweringOf(r)'
    <2> DEFINE e == IF c.user = NoUser THEN "ErrForbidden" ELSE Validate(c.request)
    <2>1. e \in {Nil, "ErrForbidden", "ErrInvalidTransfer"}
      BY DEF Validate
    <2>2. /\ pc[r] = "idle" /\ pc'[r] = (IF e = Nil THEN "begin" ELSE "done")
          /\ outcome'[r] = Failure(e)
          /\ UNCHANGED storeVars /\ orphans' = orphans
      BY <1>0, <1>1 DEF Create, TypeOK
    <2>3. outcome'[r].err = e /\ outcome'[r].transfer = NoTransfer
      BY Zenon, <2>2, FailureFields
    <2>4. r \notin orphans /\ newRow[r] = {} /\ \A t \in transfers : t.id # r
      BY <2>2, <1>0 DEF ControlOf, WrittenOf, InTx
    <2> HIDE DEF e
    <2> QED BY Zenon, <2>1, <2>2, <2>3, <2>4, <1>c, <1>s DEF AnsweringOf
  <1>2. CASE Begin(r) \/ LockForTransfer(r)
    <2>1. /\ pc[r] \in {"begin", "lock"} /\ pc'[r] = "lock" /\ UNCHANGED <<call, outcome, orphans>>
          /\ UNCHANGED <<transfers, newRow>>
      BY <1>0, <1>2 DEF Begin, LockForTransfer, LockRow, storeVars, committed, written, TypeOK
    <2> QED BY Zenon, <2>1, <1>0, <1>a DEF AnsweringOf
  <1>3. CASE Decide(r)
    <2>1. /\ pc[r] = "lock" /\ r \notin orphans /\ UNCHANGED <<storeVars, call, orphans>>
          /\ newRow[r] = {}
      BY <1>0, <1>3 DEF Decide, WrittenOf
    <2>2. CASE Refusal(r) # Nil
      <3>1. Raise(r, Refusal(r)) /\ UNCHANGED status
        BY <2>2, <1>3 DEF Decide
      <3>2. Refusal(r) \in Errors \ {Nil} /\ Refusal(r) # "ErrIdempotencyConflict"
        BY Zenon, <2>2 DEF Refusal, DebitError, CreditError, Errors, Nil
      <3> QED BY Zenon, <3>1, <3>2, <2>1, <1>0, AnsweringRaise DEF InTx
    <2>3. CASE Refusal(r) = Nil
      <3>1. pc'[r] = "insert" /\ outcome' = outcome
        BY Zenon, <2>3, <1>0, <1>3 DEF Decide, TypeOK
      <3> QED BY Zenon, <3>1, <2>1, <1>0, <1>a, <1>s DEF AnsweringOf
    <2> QED BY <2>2, <2>3
  <1>4. CASE CreateIdempotent(r)
    <2>1. /\ pc[r] = "insert" /\ UNCHANGED <<call, status, orphans>> /\ newRow[r] = {}
      BY <1>0, <1>4 DEF CreateIdempotent, WrittenOf
    <2>2. CASE Key(r) = None
      <3>1. Raise(r, "ErrInvalidTransfer") /\ UNCHANGED storeVars
        BY <2>2, <1>4 DEF CreateIdempotent
      <3> QED BY Zenon, <3>1, <2>1, <1>0, <1>b, AnsweringRaise DEF InTx
    <2>3. CASE Key(r) # None /\ StoredUnder(call[r].user, Key(r)) # {}
      <3>1. Goto(r, "select") /\ UNCHANGED <<storeVars, outcome>>
        BY Zenon, <2>3, <1>4 DEF CreateIdempotent
      <3>2. pc'[r] = IF r \in orphans THEN "abort" ELSE "select"
        BY <3>1, <1>0 DEF Goto, TypeOK
      <3> QED BY Zenon, <3>1, <3>2, <2>1, <2>3, <1>0, <1>a, <1>s DEF AnsweringOf
    <2>4. CASE Key(r) # None /\ StoredUnder(call[r].user, Key(r)) = {}
      <3>1. /\ InsertTransfer(r, Draft(r))
            /\ outcome' = [outcome EXCEPT ![r] = IF r \in orphans THEN @ ELSE Success(Draft(r), TRUE)]
            /\ Goto(r, IF status[r] = "completed" THEN "save" ELSE "commit")
        BY Zenon, <2>4, <1>4 DEF CreateIdempotent
      <3>2. newRow'[r] = {Draft(r)} /\ transfers' = transfers /\ Draft(r)' = Draft(r)
        BY Zenon, <3>1, <2>1, <1>0 DEF InsertTransfer, committed, Draft, Key, Request, TypeOK
      <3>3. CASE r \in orphans
        <4>1. pc'[r] = "abort" /\ outcome'[r] = outcome[r]
          BY <3>1, <3>3, <1>0 DEF Goto, TypeOK
        <4> QED BY Zenon, <4>1, <3>2, <3>3, <2>1, <1>0, <1>a DEF AnsweringOf
      <3>4. CASE r \notin orphans
        <4>1. pc'[r] \in {"save", "commit"} /\ outcome'[r] = Success(Draft(r), TRUE)
          BY <3>1, <3>4, <1>0 DEF Goto, TypeOK
        <4>2. outcome'[r].err = Nil
          <5>1. Success(Draft(r), TRUE).err = Nil
            BY DEF Success
          <5> QED BY Zenon, <4>1, <5>1
        <4> QED BY Zenon, <4>1, <4>2, <1>c, <3>2, <3>4, <2>1 DEF AnsweringOf
      <3> QED BY <3>3, <3>4
    <2> QED BY <2>2, <2>3, <2>4
  <1>5. CASE FindExisting(r)
    <2>1. /\ pc[r] = "select" /\ r \notin orphans /\ newRow[r] = {}
          /\ UNCHANGED <<storeVars, call, status, orphans>>
      BY Zenon, <1>0, <1>5 DEF FindExisting, WrittenOf
    <2>2. CASE Raise(r, "internal")
      BY Zenon, <2>1, <2>2, <1>0, <1>b, AnsweringRaise DEF InTx
    <2>3. ASSUME NEW t \in StoredUnder(call[r].user, Key(r)), t.request # Request(r),
                 Raise(r, "ErrIdempotencyConflict")
          PROVE  AnsweringOf(r)'
      BY Zenon, <2>1, <2>3, <1>0, <1>b, AnsweringRaise DEF InTx
    <2>4. ASSUME NEW t \in StoredUnder(call[r].user, Key(r)), t.request = Request(r),
                 outcome' = [outcome EXCEPT ![r] = Success(t, FALSE)],
                 pc' = [pc EXCEPT ![r] = "commit"]
          PROVE  AnsweringOf(r)'
      <3>1. t.id # r
        BY Zenon, <2>1, <2>4, <1>0 DEF StoredUnder
      <3>2. outcome'[r] = Success(t, FALSE) /\ pc'[r] = "commit"
        BY <2>4, <1>0 DEF TypeOK
      <3>3. /\ outcome'[r].err = Nil /\ outcome'[r].transfer = t /\ ~outcome'[r].created
        <4>1. /\ Success(t, FALSE).err = Nil /\ Success(t, FALSE).transfer = t
              /\ Success(t, FALSE).created = FALSE
          BY DEF Success
        <4> QED BY Zenon, <3>2, <4>1
      <3>4. Shown(r)'
        BY Zenon, <3>1, <3>3, <2>1, <2>4, <1>a, <1>s DEF Shown
      <3> QED BY Zenon, <3>2, <3>3, <3>4, <2>1, <1>c, <1>s DEF AnsweringOf
    <2> QED BY <2>2, <2>3, <2>4, <1>5 DEF FindExisting, replay, Nil
  <1>6. CASE Save(r) \/ AppendLedger(r)
    <2>1. /\ pc[r] \in {"save", "append"} /\ UNCHANGED <<call, status, orphans>>
          /\ newRow[r] = {Draft(r)}
      BY Zenon, <1>0, <1>6 DEF Save, AppendLedger, WrittenOf
    <2>2. CASE Raise(r, "internal") /\ UNCHANGED storeVars
      BY <2>1, <2>2, <1>0, <1>b, AnsweringRaise DEF InTx, Refusals
    <2>3. CASE /\ Goto(r, "append") \/ Goto(r, "commit")
               /\ UNCHANGED <<newRow, transfers, outcome>>
      <3>1. IF r \in orphans THEN pc'[r] = "abort" ELSE pc'[r] \in {"append", "commit"}
        BY <2>3, <1>0 DEF Goto, TypeOK
      <3>2. Draft(r)' = Draft(r)
        BY <2>1 DEF Draft, Key, Request
      <3> QED BY Zenon, <3>1, <3>2, <2>1, <2>3, <1>0, <1>a DEF AnsweringOf
    <2> QED BY Zenon, <2>2, <2>3, <1>6 DEF Save, SaveBalances, AppendLedger, AppendEntries, committed
  <1>7. CASE Commit(r)
    <2>1. /\ pc[r] = "commit" /\ UNCHANGED outcome /\ call'[r] = call[r]
          /\ transfers' = transfers \cup newRow[r] /\ newRow'[r] = {}
      BY Zenon, <1>0, <1>7 DEF Commit, CommitTx, Release, Finish, TypeOK
    <2>2. /\ Key(r)' = Key(r) /\ Request(r)' = Request(r)
          /\ StoredUnder(call[r].user, Key(r)) \subseteq StoredUnder(call[r].user, Key(r))'
      BY Zenon, <2>1 DEF Key, Request, StoredUnder
    <2>3. outcome[r].err \notin Refusals
      BY Zenon, <2>1, <1>0 DEF AnsweringOf
    <2>4. outcome[r].err # "ErrIdempotencyConflict"
      BY <2>3, <1>b DEF Refusals
    <2>5. CASE r \in orphans
      <3>1. pc'[r] = "done" /\ r \notin orphans'
        BY <2>5, <1>0, <1>7 DEF Commit, Finish, TypeOK
      <3>2. outcome[r].err # Nil
        BY Zenon, <2>5, <1>0 DEF AnsweringOf
      <3> QED BY Zenon, <3>1, <3>2, <2>1, <2>3, <2>4, <1>0 DEF AnsweringOf
    <2>6. CASE r \notin orphans
      <3>1. pc'[r] = "ack" /\ r \notin orphans'
        BY <2>6, <1>0, <1>7 DEF Commit, TypeOK
      <3>2. CASE newRow[r] = {}
        <4>1. Shown(r)
          BY Zenon, <3>2, <2>1, <2>6, <1>0 DEF AnsweringOf
        <4>2. Shown(r)'
          BY Zenon, <4>1, <2>1, ShownStays
        <4> QED BY Zenon, <4>2, <3>1, <2>1, <2>3, <2>4, <1>0 DEF AnsweringOf
      <3>3. CASE newRow[r] # {}
        <4>1. outcome[r] = Success(Draft(r), TRUE) /\ newRow[r] = {Draft(r)}
          BY Zenon, <3>3, <2>1, <2>6, <1>0 DEF AnsweringOf, WrittenOf, InTx
        <4>2. /\ outcome'[r].transfer = Draft(r) /\ outcome'[r].created /\ outcome'[r].err = Nil
              /\ Draft(r).id = r /\ Draft(r).request = Request(r)
              /\ Draft(r).user = call[r].user /\ Draft(r).key = Key(r)
          <5>1. /\ Success(Draft(r), TRUE).transfer = Draft(r)
                /\ Success(Draft(r), TRUE).created = TRUE /\ Success(Draft(r), TRUE).err = Nil
            BY DEF Success
          <5>2. outcome'[r] = Success(Draft(r), TRUE)
            BY Zenon, <4>1, <2>1
          <5> QED BY Zenon, <5>1, <5>2, DraftFields
        <4>3. Draft(r) \in StoredUnder(call[r].user, Key(r))'
          BY Zenon, <4>1, <4>2, <2>1, <2>2 DEF StoredUnder, SameKey
        <4>4. Shown(r)'
          BY <4>2, <4>3, <2>1, <2>2 DEF Shown
        <4> QED BY Zenon, <4>2, <4>4, <3>1, <2>1, <2>3, <2>4 DEF AnsweringOf
      <3> QED BY <3>2, <3>3
    <2> QED BY <2>5, <2>6
  <1>8. CASE Return(r) \/ Rollback(r) \/ Abort(r)
    <2>1. /\ pc'[r] = "done" /\ r \notin orphans' /\ UNCHANGED <<outcome, transfers>>
          /\ call'[r] = call[r]
          /\ pc[r] \in {"ack", "rollback"} \/ r \in orphans
          /\ newRow'[r] = newRow[r] \/ newRow'[r] = {}
      <3>1. Finish(r) /\ UNCHANGED outcome /\ (pc[r] \in {"ack", "rollback"} \/ r \in orphans)
        BY <1>8 DEF Return, Rollback, Abort
      <3>2. UNCHANGED storeVars \/ RollbackTx(r)
        BY <1>8 DEF Return, Rollback, Abort
      <3>3. UNCHANGED transfers /\ (newRow'[r] = newRow[r] \/ newRow'[r] = {})
        BY <3>2, <1>0, <1>s DEF RollbackTx, Release, committed, TypeOK
      <3> QED BY Zenon, <3>1, <3>3, <1>0 DEF Finish, TypeOK
    <2>2. /\ Key(r)' = Key(r) /\ Request(r)' = Request(r)
          /\ StoredUnder(call[r].user, Key(r))' = StoredUnder(call[r].user, Key(r))
      BY <2>1 DEF Key, Request, StoredUnder
    <2>3. Shown(r) => Shown(r)'
      BY <2>1, ShownStays
    <2> QED BY Zenon, <2>1, <2>2, <2>3, <1>0 DEF AnsweringOf
  <1>9. CASE Fail(r)
    <2>1. Raise(r, "internal") /\ pc[r] \in InTx /\ UNCHANGED <<storeVars, call, status, orphans>>
      BY <1>9 DEF Fail
    <2> QED BY <2>1, <1>0, <1>b, AnsweringRaise DEF Refusals
  <1>10. CASE Interrupt(r)
    <2>1. /\ UNCHANGED storeVars /\ call'[r] = call[r]
          /\ \/ pc'[r] = pc[r] /\ pc[r] \in InTx
             \/ pc'[r] = "done" /\ pc[r] \in {"begin", "ack"}
          /\ outcome'[r] = IF pc[r] = "rollback" THEN outcome[r] ELSE Failure("internal")
      BY <1>0, <1>10 DEF Interrupt, Finish, TypeOK
    <2>2. Failure("internal").err = "internal" /\ Failure("internal").transfer = NoTransfer
      BY Zenon, FailureFields
    <2>3. "internal" # Nil
      BY DEF Nil
    <2>4. pc'[r] = "done" => r \notin orphans'
      BY <2>1, <1>10 DEF Interrupt, Finish, InTx
    <2>5. CASE pc[r] = "rollback"
      BY Zenon, <2>1, <2>4, <2>5, <1>0, <1>a, <1>s DEF AnsweringOf
    <2>6. CASE pc[r] # "rollback"
      <3>1. outcome'[r].err = "internal" /\ outcome'[r].transfer = NoTransfer
        BY Zenon, <2>1, <2>2, <2>6
      <3>2. r \in orphans' \/ pc'[r] = "done"
        BY <1>0, <1>10 DEF Interrupt, Finish, TypeOK
      <3>3. pc'[r] = "select" => StoredUnder(call[r].user, Key(r))' # {}
        BY Zenon, <2>1, <1>0, <1>a, <1>s DEF AnsweringOf, InTx
      <3> QED BY Zenon, <3>1, <3>2, <3>3, <2>1, <2>3, <2>4, <1>c, <1>s DEF AnsweringOf
    <2> QED BY <2>5, <2>6
  <1> QED
    BY <1>1, <1>2, <1>3, <1>4, <1>5, <1>6, <1>7, <1>8, <1>9, <1>10 DEF Step, Serve, Fault

\* What requests answer is invariant.
LEMMA AnsweringInvariant == Spec => []Answering
  <1>1. Init => Answering
    <2> SUFFICES ASSUME Init, NEW r \in Requests PROVE AnsweringOf(r)
      BY DEF Answering
    <2>1. /\ pc[r] = "idle" /\ orphans = {} /\ outcome[r] = Failure(Nil)
      BY DEF Init
    <2>2. outcome[r].err = Nil /\ Nil \notin Refusals /\ Nil # "ErrIdempotencyConflict"
      BY <2>1 DEF Failure, Refusals, Nil
    <2> QED BY Zenon, <2>1, <2>2 DEF AnsweringOf
  <1>2. ASSUME IInv, Answering, [Next]_vars PROVE Answering'
    <2>1. ASSUME NEW r \in Requests, Step(r) PROVE Answering'
      BY <1>2, <2>1, AnsweringStep
    <2>2. ASSUME UNCHANGED vars PROVE Answering'
      <3> SUFFICES ASSUME NEW r \in Requests PROVE AnsweringOf(r)'
        BY DEF Answering
      <3>1. UNCHANGED <<pc, call, status, outcome, orphans, transfers, newRow>>
        BY <2>2 DEF vars, storeVars, committed, written, serviceVars
      <3>2. /\ Key(r)' = Key(r) /\ Request(r)' = Request(r) /\ Draft(r)' = Draft(r)
            /\ StoredUnder(call[r].user, Key(r))' = StoredUnder(call[r].user, Key(r))
        BY <3>1 DEF Key, Request, Draft, StoredUnder
      <3>3. Shown(r) => Shown(r)'
        BY <3>1, ShownStays
      <3>4. AnsweringOf(r)
        BY <1>2 DEF Answering
      <3> QED BY Zenon, <3>1, <3>2, <3>3, <3>4 DEF AnsweringOf
    <2> QED BY <1>2, <2>1, <2>2 DEF Next, Step, Quiet
  <1> QED BY <1>1, <1>2, Invariance, PTL DEF Spec

\* Whatever is interrupted, aborted or waited for, an answer without an error
\* shows the stored transfer, and "created" goes to its maker alone.
THEOREM AnswersHold == Spec => []AnswersAreStored
  <1>1. ASSUME IInv, Answering PROVE AnswersAreStored
    <2> SUFFICES ASSUME NEW r \in Requests, Answered(r), outcome[r].err = Nil
                 PROVE  Shown(r)
      BY DEF AnswersAreStored, Shown
    <2>1. AnsweringOf(r)
      BY <1>1 DEF Answering
    <2> QED BY <2>1 DEF AnsweringOf, Answered
  <1> QED BY <1>1, Invariance, AnsweringInvariant, PTL

\* FindExisting never comes back empty-handed: a row that made the INSERT do
\* nothing is committed, and stays.
THEOREM ConflictsAreVisible == Spec => []ConflictIsVisible
  <1>1. ASSUME Answering PROVE ConflictIsVisible
    BY Zenon, <1>1 DEF Answering, AnsweringOf, ConflictIsVisible
  <1> QED BY <1>1, AnsweringInvariant, PTL

-----------------------------------------------------------------------------
\* What a message has been answered: nothing yet, the handler's own refusal, or
\* what Create returned.
RespondedOf(r) ==
    \/ response[r] = NoResponse
    \/ pc[r] = "idle" /\ \E c \in {400, 413, 415} : response[r] = writeError(c)
    \/ Answered(r) /\ response[r] = ResponseTo(outcome[r])

Responded ==
    /\ response = [r \in Requests |-> response[r]]
    /\ \A r \in Requests : RespondedOf(r)

\* The two entries of every completed transfer, none of a failed one, and no
\* entry without its transfer.
Paired ==
    /\ \A e \in ledger : \E t \in transfers : t.id = e.transfer
    /\ \A t \in transfers :
        LET moved == {e \in ledger : e.transfer = t.id} IN
        IF t.status = "completed" THEN \E d, c \in moved : d # c /\ moved = {d, c}
        ELSE moved = {}

\* What every stored transfer was checked for.
Sound ==
    \A t \in transfers :
        LET q == t.request IN
        /\ Validate(q) = Nil /\ t.user # NoUser /\ t.key # None
        /\ q.from \in Accounts /\ q.to \in Accounts /\ Owner[q.from] = t.user
        /\ Currency[q.from] = q.currency /\ Currency[q.to] = q.currency

\* A request that repeats a stored one.
Repeats(r) == \E t \in settled[r] : t.request = Request(r)

SettledOf(r) ==
    IF pc[r] = "idle" THEN settled[r] = {}
    ELSE /\ settled[r] \subseteq StoredUnder(call[r].user, Key(r))
         /\ Repeats(r) => outcome[r].err \in {Nil, "internal"}

Settled ==
    /\ settled = [r \in Requests |-> settled[r]]
    /\ \A r \in Requests : SettledOf(r)

-----------------------------------------------------------------------------
\* The handler drives Create and nothing else: a behaviour of the API is one of
\* the service.
LEMMA ApiStep == [ApiNext]_apiVars => [Next]_vars
  <1> SUFFICES ASSUME [ApiNext]_apiVars PROVE [Next]_vars
    OBVIOUS
  <1>1. ASSUME NEW r \in Requests, NEW m \in Messages, Refuse(r, m) PROVE UNCHANGED vars
    BY <1>1 DEF Refuse
  <1>2. ASSUME NEW r \in Requests, NEW m \in Messages, Handle(r, m)
        PROVE  \E c \in Calls : Create(r, c)
    BY <1>2, CallsAssumption DEF Handle
  <1>3. ASSUME NEW r \in Requests, Respond(r) PROVE UNCHANGED vars
    BY <1>3 DEF Respond
  <1>4. ASSUME ApiQuiet \/ UNCHANGED apiVars PROVE UNCHANGED vars
    BY <1>4 DEF ApiQuiet, apiVars
  <1> QED BY <1>1, <1>2, <1>3, <1>4 DEF ApiNext, Next

\* So every behaviour of createTransfer over Create is one of Create.
LEMMA ApiIsService == ApiSpec => Spec
  <1>1. ApiInit => Init
    BY DEF ApiInit
  <1> QED BY <1>1, ApiStep, PTL DEF ApiSpec, Spec

\* The codes that decodeJSON and the handler answer with by themselves.
LEMMA InputCodes == \A m : InputError(m) # 0 => InputError(m) \in {400, 413, 415}
  <1>1. \A b : decodeJSON(b) \in {0, 400, 413, 415}
    BY DEF decodeJSON
  <1> QED BY <1>1 DEF InputError

\* The codes of a response that shows no transfer.
RefusalCodes == {0, 400, 403, 409, 413, 415, 422, 500}

\* The fields of the zero response...
LEMMA NoResponseFields == NoResponse.code = 0 /\ NoResponse.transfer = NoTransfer
  BY DEF NoResponse

\* ...of the answer to a call of Create that succeeded...
LEMMA ResponseFields ==
    ASSUME NEW o, o.err = Nil
    PROVE  /\ ResponseTo(o).code = transferStatusCode(o.transfer, o.created)
           /\ ResponseTo(o).transfer = o.transfer
           /\ ResponseTo(o).replayed = ~o.created
  BY Zenon DEF ResponseTo

\* ...and the code of an internal error.
LEMMA InternalResponse ==
    ASSUME NEW o, o.err = "internal"
    PROVE  ResponseTo(o).code = 500
  <1>1. writeError(ErrorCode("internal")).code = 500 /\ "internal" # Nil
    BY DEF writeError, ErrorCode, Nil
  <1> QED BY Zenon, <1>1 DEF ResponseTo

\* The codes of the switch on the error.
LEMMA ErrorCodes ==
    \A e \in Errors \ {Nil} :
        /\ ErrorCode(e) \in {400, 403, 409, 422, 500}
        /\ ErrorCode(e) = 409 => e = "ErrIdempotencyConflict"
        /\ ErrorCode(e) # 500 => e \in Refusals
  BY DEF ErrorCode, Errors, Refusals, Nil

\* Once Create has returned its answer is final.
LEMMA AnswerIsFinal ==
    ASSUME TypeOK, Control, NEW r \in Requests, Step(r), Answered(r)
    PROVE  Answered(r)' /\ outcome'[r] = outcome[r] /\ call'[r] = call[r] /\ pc[r] # "idle"
  <1>0. /\ pc[r] = "done" \/ r \in orphans
        /\ r \in orphans => pc[r] \in InTx
    BY DEF Answered, Control, ControlOf
  <1> USE DEF Answered, TypeOK, InTx
  <1>1. ASSUME NEW c \in Calls, Create(r, c) PROVE FALSE
    BY <1>0, <1>1 DEF Create
  <1>2. CASE Begin(r) \/ Return(r) \/ Decide(r) \/ FindExisting(r) \/ Rollback(r) \/ Fail(r) \/ Interrupt(r)
    BY Zenon, <1>0, <1>2 DEF Begin, Return, Decide, FindExisting, Rollback, Fail, Interrupt
  <1>3. CASE LockForTransfer(r)
    BY <1>0, <1>3 DEF LockForTransfer
  <1>4. CASE CreateIdempotent(r)
    BY <1>0, <1>4 DEF CreateIdempotent, Raise
  <1>5. CASE Save(r) \/ AppendLedger(r)
    BY <1>0, <1>5 DEF Save, AppendLedger, Raise
  <1>6. CASE Commit(r) \/ Abort(r)
    BY <1>0, <1>6 DEF Commit, Abort, Finish
  <1> QED BY <1>1, <1>2, <1>3, <1>4, <1>5, <1>6 DEF Step, Serve, Fault

\* The messages one by one.
LEMMA RespondedStep ==
    ASSUME IInv, Responded, [ApiNext]_apiVars
    PROVE  Responded'
  <1>0. TypeOK /\ Control
    BY DEF IInv
  <1>1. ASSUME NEW r \in Requests, NEW m \in Messages, Refuse(r, m) PROVE Responded'
    <2>1. /\ response' = [response EXCEPT ![r] = writeError(InputError(m))]
          /\ pc[r] = "idle" /\ UNCHANGED <<pc, outcome, orphans>>
          /\ InputError(m) \in {400, 413, 415}
      BY <1>1, InputCodes DEF Refuse, vars, serviceVars
    <2>2. response'[r] = writeError(InputError(m)) /\ \A s \in Requests \ {r} : response'[s] = response[s]
      BY <2>1 DEF Responded
    <2>3. ASSUME NEW s \in Requests PROVE RespondedOf(s)'
      BY <2>1, <2>2 DEF Responded, RespondedOf, Answered
    <2>4. response' = [s \in Requests |-> response'[s]]
      BY <2>1 DEF Responded
    <2> QED BY <2>3, <2>4 DEF Responded
  <1>2. ASSUME NEW r \in Requests, Respond(r) PROVE Responded'
    <2>1. /\ response' = [response EXCEPT ![r] = ResponseTo(outcome[r])]
          /\ Answered(r) /\ UNCHANGED <<pc, outcome, orphans>>
      BY <1>2 DEF Respond, vars, serviceVars
    <2>2. response'[r] = ResponseTo(outcome[r]) /\ \A s \in Requests \ {r} : response'[s] = response[s]
      BY <2>1 DEF Responded
    <2>3. ASSUME NEW s \in Requests PROVE RespondedOf(s)'
      <3>1. ResponseTo(outcome'[s]) = ResponseTo(outcome[s])
        BY <2>1
      <3> QED BY <2>1, <2>2, <3>1 DEF Responded, RespondedOf, Answered
    <2>4. response' = [s \in Requests |-> response'[s]]
      BY <2>1 DEF Responded
    <2> QED BY <2>3, <2>4 DEF Responded
  <1>3. ASSUME NEW r \in Requests, Step(r), response' = response,
               pc[r] = "idle" => response[r] = NoResponse
        PROVE  Responded'
    <2>1. ASSUME NEW s \in Requests \ {r} PROVE RespondedOf(s)'
      <3>1. RespondedOf(s) /\ Untouched(s)
        BY <1>0, <1>3, Frame DEF Responded
      <3> QED BY <1>3, <3>1 DEF RespondedOf, Answered, Untouched
    <2>2. RespondedOf(r)'
      <3>1. RespondedOf(r)
        BY DEF Responded
      <3>2. CASE response[r] = NoResponse
        BY <1>3, <3>2 DEF RespondedOf
      <3>3. CASE pc[r] # "idle" /\ Answered(r) /\ response[r] = ResponseTo(outcome[r])
        <4>1. Answered(r)' /\ outcome'[r] = outcome[r]
          BY <1>0, <1>3, <3>3, AnswerIsFinal
        <4> QED BY <1>3, <3>3, <4>1 DEF RespondedOf
      <3> QED BY <1>3, <3>1, <3>2, <3>3 DEF RespondedOf
    <2> QED BY <1>3, <2>1, <2>2 DEF Responded
  <1>4. ASSUME NEW r \in Requests, NEW m \in Messages, Handle(r, m) PROVE Responded'
    <2>1. response[r] = NoResponse /\ response' = response /\ \E c \in Calls : Create(r, c)
      BY <1>4, CallsAssumption DEF Handle
    <2> QED BY <2>1, <1>3 DEF Step
  <1>5. ASSUME NEW r \in Requests, Serve(r) \/ Fault(r), UNCHANGED <<response, settled>>
        PROVE  Responded'
    <2>1. pc[r] # "idle"
      <3>1. CASE Abort(r)
        BY <1>0, <3>1 DEF Abort, Control, ControlOf, InTx
      <3> QED BY <1>5, <3>1 DEF Serve, Fault, Begin, LockForTransfer, Decide, CreateIdempotent,
              FindExisting, Save, AppendLedger, Commit, Return, Rollback, Fail, Interrupt, InTx
    <2> QED BY <2>1, <1>3, <1>5 DEF Step
  <1>6. CASE ApiQuiet \/ UNCHANGED apiVars
    <2>1. UNCHANGED <<response, pc, outcome, orphans>>
      BY <1>6 DEF ApiQuiet, apiVars, vars, serviceVars
    <2>2. ASSUME NEW r \in Requests PROVE RespondedOf(r)'
      <3>1. RespondedOf(r)
        BY DEF Responded
      <3> QED BY <2>1, <3>1 DEF RespondedOf, Answered
    <2> QED BY <2>1, <2>2 DEF Responded
  <1> QED BY <1>1, <1>2, <1>4, <1>5, <1>6 DEF ApiNext

-----------------------------------------------------------------------------
\* A transfer that COMMIT stores has passed every check of Create.
LEMMA SoundStep ==
    ASSUME IInv, Sound, NEW r \in Requests, Step(r)
    PROVE  Sound'
  <1>1. CASE Commit(r)
    <2>1. /\ pc[r] = "commit" /\ ControlOf(r) /\ LockingOf(r) /\ WrittenOf(r)
          /\ transfers' = transfers \cup newRow[r] /\ newRow[r] \subseteq Transfer
      BY <1>1 DEF IInv, Control, Locking, Written, Commit, CommitTx, TypeOK
    <2>2. newRow[r] \subseteq {Draft(r)}
      BY <2>1 DEF WrittenOf, InTx
    <2>3. /\ Draft(r).request = Request(r) /\ Draft(r).user = call[r].user
      BY DEF Draft
    <2>4. Validate(Request(r)) = Nil /\ call[r].user # NoUser
      BY <2>1 DEF ControlOf
    <2>5. LET q == Request(r) IN
          /\ q.from \in Accounts /\ q.to \in Accounts /\ Owner[q.from] = call[r].user
          /\ Currency[q.from] = q.currency /\ Currency[q.to] = q.currency
      BY <2>1 DEF LockingOf, Decided
    <2>6. \A t \in newRow[r] : t.key # None
      BY <2>1, StoreAssumption DEF Transfer
    <2>7. \A t \in transfers' : t \in transfers \/ (t = Draft(r) /\ t.key # None)
      BY <2>1, <2>2, <2>6
    <2> HIDE DEF Draft
    <2> QED BY <2>3, <2>4, <2>5, <2>7 DEF Sound
  <1>2. CASE ~Commit(r)
    BY <1>2, OnlyCommitShows DEF Sound, committed
  <1> QED BY <1>1, <1>2

\* COMMIT of a completed transfer brings two entries with its id.
LEMMA PairedStep ==
    ASSUME IInv, Paired, NEW r \in Requests, Step(r)
    PROVE  Paired'
  <1>0. TypeOK /\ WrittenOf(r) /\ KeysDistinct
    BY DEF IInv, Written
  <1>1. CASE Commit(r)
    <2>1. /\ pc[r] = "commit" /\ transfers' = transfers \cup newRow[r]
      BY <1>1 DEF Commit, CommitTx
    <2>2. newRow[r] \subseteq {Draft(r)} /\ Draft(r).status = status[r] /\ Draft(r).id = r
      BY <1>0, <2>1 DEF WrittenOf, InTx, Draft
    <2>3. \A t \in transfers : t.id # r
      BY <1>0, <2>1 DEF KeysDistinct
    <2>4. CASE newRow[r] = {} \/ status[r] = "failed"
      <3>1. ledger' = ledger
        BY Zenon, <1>1, <2>4, CommitsNoMoney
      <3>2. ASSUME NEW t \in newRow[r]
            PROVE  t.status # "completed" /\ {e \in ledger : e.transfer = t.id} = {}
        BY <2>2, <2>3, <2>4, <3>2 DEF Paired
      <3>3. \A e \in ledger' : \E t \in transfers' : t.id = e.transfer
        BY Zenon, <2>1, <3>1 DEF Paired
      <3>4. ASSUME NEW t \in transfers'
            PROVE  LET moved == {e \in ledger' : e.transfer = t.id} IN
                   IF t.status = "completed" THEN \E d, c \in moved : d # c /\ moved = {d, c}
                   ELSE moved = {}
        <4>1. CASE t \in transfers
          BY Zenon, <3>1, <4>1 DEF Paired
        <4>2. CASE t \in newRow[r]
          BY Zenon, <3>1, <3>2, <4>2
        <4> QED BY Zenon, <2>1, <4>1, <4>2
      <3> QED BY Zenon, <3>3, <3>4 DEF Paired
    <2>5. CASE newRow[r] # {} /\ status[r] = "completed"
      <3> DEFINE q == Request(r)
                 Moved(L, t) == {e \in L : e.transfer = t.id}
      <3>1. q.from # q.to /\ ledger' = ledger \cup newEntries[r]
        BY Zenon, <1>1, <2>5, CommitsMoney
      <3>2. PICK m, n \in 1..sequence : newEntries[r] = TwoEntries(r, m, n)
        BY Zenon, <1>1, <2>5, CommitsMoney
      <3> DEFINE debit == Entry(r, m, q.from, -q.amount)
                 credit == Entry(r, n, q.to, q.amount)
      <3>3. newEntries[r] = {debit, credit}
        BY Zenon, <3>2 DEF TwoEntries
      <3>4. /\ debit.transfer = r /\ credit.transfer = r
            /\ debit.account = q.from /\ credit.account = q.to
        BY EntryFields
      <3>5. debit # credit
        BY Zenon, <3>1, <3>4
      <3> HIDE DEF debit, credit, q
      <3>6. newRow[r] = {Draft(r)} /\ Draft(r).status = "completed"
        BY Zenon, <2>2, <2>5
      <3>7. \A e \in ledger : e.transfer # r
        BY Zenon, <2>3 DEF Paired
      <3>8. ledger' = ledger \cup {debit, credit}
        BY Zenon, <3>1, <3>3
      <3>9. Moved(ledger', Draft(r)) = {debit, credit}
        BY <2>2, <3>4, <3>7, <3>8
      <3>10. \A t \in transfers : Moved(ledger', t) = Moved(ledger, t)
        BY <2>3, <3>4, <3>8
      <3>11. \A e \in ledger' : \E t \in transfers' : t.id = e.transfer
        BY Zenon, <2>1, <2>2, <3>4, <3>6, <3>8 DEF Paired
      <3>12. ASSUME NEW t \in transfers'
             PROVE  IF t.status = "completed"
                    THEN \E d, c \in Moved(ledger', t) : d # c /\ Moved(ledger', t) = {d, c}
                    ELSE Moved(ledger', t) = {}
        <4>1. CASE t \in transfers
          <5>1. IF t.status = "completed"
                THEN \E d, c \in Moved(ledger, t) : d # c /\ Moved(ledger, t) = {d, c}
                ELSE Moved(ledger, t) = {}
            BY Zenon, <4>1 DEF Paired
          <5> HIDE DEF Moved
          <5> QED BY Zenon, <3>10, <4>1, <5>1
        <4>2. CASE t = Draft(r)
          <5>1. debit \in {debit, credit} /\ credit \in {debit, credit}
            OBVIOUS
          <5> HIDE DEF Moved
          <5> QED BY Zenon, <3>5, <3>6, <3>9, <4>2, <5>1
        <4> QED BY Zenon, <2>1, <3>6, <4>1, <4>2
      <3> QED BY Zenon, <3>11, <3>12 DEF Paired
    <2>6. status[r] \in {"completed", "failed"}
      BY <1>0 DEF TypeOK, Statuses
    <2> QED BY <2>4, <2>5, <2>6
  <1>2. CASE ~Commit(r)
    BY <1>2, OnlyCommitShows DEF Paired, committed
  <1> QED BY <1>1, <1>2

\* Everything known of a reachable state of the API.
ApiInv == IInv /\ Answering /\ Paired /\ Sound /\ Responded

\* It holds in every reachable state.
LEMMA ApiInvariant == ApiSpec => []ApiInv
  <1>1. ApiInit => Paired /\ Sound /\ Responded
    <2> SUFFICES ASSUME ApiInit PROVE Paired /\ Sound /\ Responded
      OBVIOUS
    <2>1. transfers = {} /\ ledger = {} /\ response = [r \in Requests |-> NoResponse]
      BY Zenon DEF ApiInit, Init, StoreInit
    <2>2. Paired /\ Sound
      BY <2>1 DEF Paired, Sound
    <2>3. Responded
      BY Zenon, <2>1 DEF Responded, RespondedOf
    <2> QED BY Zenon, <2>2, <2>3
  <1>2. ASSUME IInv, Paired, Sound, [Next]_vars PROVE Paired' /\ Sound'
    <2>1. ASSUME NEW r \in Requests, Step(r) PROVE Paired' /\ Sound'
      BY <1>2, <2>1, PairedStep, SoundStep
    <2>2. CASE UNCHANGED vars
      <3>1. transfers' = transfers /\ ledger' = ledger
        BY <2>2 DEF vars, storeVars, committed
      <3> QED BY <1>2, <3>1 DEF Paired, Sound
    <2> QED BY <1>2, <2>1, <2>2 DEF Next, Step, Quiet
  <1> QED BY <1>1, <1>2, ApiStep, ApiIsService, RespondedStep, Invariance, AnsweringInvariant,
          PTL DEF ApiSpec, ApiInv

-----------------------------------------------------------------------------
\* A stored transfer is not the empty one.
LEMMA StoredIsTransfer ==
    ASSUME TypeOK, NEW t \in transfers
    PROVE  t # NoTransfer /\ t.status \in Statuses /\ t.id \in Requests
  <1>1. t \in Transfer
    BY DEF TypeOK
  <1>2. t.id \in Requests /\ t.status \in Statuses
    BY <1>1 DEF Transfer
  <1>3. NoTransfer.id = None
    BY DEF NoTransfer
  <1> QED BY <1>2, <1>3, StoreAssumption

\* The two kinds of responses: one that shows a stored transfer, and one that
\* shows none and, unless its code is 500 (or 0), reports that the request left
\* no trace.
LEMMA ResponseShows ==
    ASSUME ApiInv, NEW r \in Requests
    PROVE  LET t == response[r].transfer IN
           \/ /\ t \in transfers /\ t # NoTransfer
              /\ t \in StoredUnder(call[r].user, Key(r)) /\ t.request = Request(r)
              /\ response[r].code = transferStatusCode(t, t.id = r)
              /\ response[r].replayed <=> t.id # r
           \/ /\ t = NoTransfer
              /\ response[r].code \in RefusalCodes
              /\ response[r].code \notin {0, 500} => {u \in AllRows : u.id = r} = {}
              /\ response[r].code = 409 =>
                  \E s \in StoredUnder(call[r].user, Key(r)) : s.request # Request(r)
  <1>0. /\ TypeOK /\ WrittenOf(r) /\ KeysDistinct /\ AnsweringOf(r) /\ RespondedOf(r)
    BY DEF ApiInv, IInv, Written, Answering, Responded
  <1>a. ASSUME newRow[r] = {}, \A t \in transfers : t.id # r
        PROVE  {u \in AllRows : u.id = r} = {}
    <2>1. \A q \in Requests : \A u \in newRow[q] : u.id # r
      BY <1>0, <1>a DEF KeysDistinct
    <2> QED BY <2>1, <1>a DEF AllRows
  <1>b. \A c : writeError(c).code = c /\ writeError(c).transfer = NoTransfer
    BY DEF writeError
  <1>1. CASE response[r] = NoResponse
    <2>1. response[r].code = 0 /\ response[r].transfer = NoTransfer
      BY Zenon, <1>1, NoResponseFields
    <2>2. 0 \in RefusalCodes /\ 0 \in {0, 500} /\ 0 # 409
      BY DEF RefusalCodes
    <2> QED BY Zenon, <2>1, <2>2
  <1>2. CASE pc[r] = "idle" /\ \E c \in {400, 413, 415} : response[r] = writeError(c)
    <2>1. newRow[r] = {} /\ \A t \in transfers : t.id # r
      <3>1. newRow[r] = {}
        BY <1>0, <1>2 DEF WrittenOf
      <3>2. \A t \in transfers : pc[t.id] # "idle"
        BY <1>0 DEF KeysDistinct
      <3> QED BY <1>2, <3>1, <3>2
    <2>2. PICK c \in {400, 413, 415} : response[r] = writeError(c)
      BY Zenon, <1>2
    <2>3. response[r].code = c /\ response[r].transfer = NoTransfer
      BY <1>b, <2>2
    <2>4. c \in RefusalCodes /\ c # 409
      BY DEF RefusalCodes
    <2> QED BY Zenon, <1>a, <2>1, <2>3, <2>4
  <1>3. CASE Answered(r) /\ response[r] = ResponseTo(outcome[r])
    <2>1. CASE outcome[r].err # Nil
      <3> DEFINE e == outcome[r].err
      <3>1. e \in Errors \ {Nil}
        BY <1>0, <2>1 DEF TypeOK, Outcomes
      <3>2. response[r] = writeError(ErrorCode(e))
        BY <1>3, <2>1 DEF ResponseTo
      <3>3. /\ ErrorCode(e) \in {400, 403, 409, 422, 500}
            /\ ErrorCode(e) = 409 => e = "ErrIdempotencyConflict"
            /\ ErrorCode(e) # 500 => e \in Refusals
        BY <3>1, ErrorCodes
      <3>4. e \in Refusals => {u \in AllRows : u.id = r} = {}
        BY <1>0, <1>a DEF AnsweringOf
      <3>5. e = "ErrIdempotencyConflict" =>
              \E s \in StoredUnder(call[r].user, Key(r)) : s.request # Request(r)
        BY <1>0 DEF AnsweringOf
      <3> HIDE DEF e
      <3> DEFINE c == ErrorCode(e)
      <3>6. response[r].code = c /\ response[r].transfer = NoTransfer
        BY Zenon, <1>b, <3>2
      <3> HIDE DEF c
      <3>7. c \in RefusalCodes
        BY <3>3 DEF c, RefusalCodes
      <3>8. /\ c = 409 => e = "ErrIdempotencyConflict"
            /\ c \notin {0, 500} => e \in Refusals
        BY <3>3 DEF c
      <3> QED BY Zenon, <3>4, <3>5, <3>6, <3>7, <3>8
    <2>2. CASE outcome[r].err = Nil
      <3> DEFINE t == outcome[r].transfer
      <3>1. pc[r] = "done"
        BY Zenon, <1>0, <1>3, <2>2 DEF AnsweringOf, Answered
      <3>2. Shown(r)
        BY <1>0, <2>2, <3>1 DEF AnsweringOf
      <3>3. /\ t \in StoredUnder(call[r].user, Key(r)) /\ t.request = Request(r)
            /\ outcome[r].created <=> t.id = r
        BY <3>2 DEF Shown
      <3>4. t \in transfers /\ t # NoTransfer
        BY <1>0, <3>3, StoredIsTransfer DEF StoredUnder
      <3>5. /\ response[r].transfer = t /\ response[r].replayed = ~outcome[r].created
            /\ response[r].code = transferStatusCode(t, outcome[r].created)
        BY Zenon, <1>3, <2>2, ResponseFields
      <3>6. transferStatusCode(t, outcome[r].created) = transferStatusCode(t, t.id = r)
        BY <3>3 DEF transferStatusCode
      <3> HIDE DEF t
      <3> QED BY <3>3, <3>4, <3>5, <3>6
    <2> QED BY Zenon, <2>1, <2>2
  <1> QED BY Zenon, <1>0, <1>1, <1>2, <1>3 DEF RespondedOf

\* What a code says of the transfer shown and of the rows, for request id.
Agrees(code, t, holder, own, moved, id, q) ==
    /\ code \in {200, 201} =>
        /\ t \in holder /\ t.status = "completed" /\ t.request = q
        /\ \E d, c \in moved : d # c /\ moved = {d, c}
        /\ t.id = id <=> code = 201
    /\ code = 409 => own = {} /\ \E s \in holder : s.request # q
    /\ code \in {400, 403, 413, 415} => own = {}
    /\ code = 422 =>
        IF t = NoTransfer THEN own = {}
        ELSE t \in holder /\ t.status = "failed" /\ moved = {}

\* transferStatusCode says what became of the transfer.
LEMMA ShownAgrees ==
    ASSUME NEW t, NEW holder, NEW own, NEW moved, NEW id, NEW q,
           t # NoTransfer, t \in holder, t.request = q,
           t.status \in {"completed", "failed"},
           t.status = "completed" => \E d, c \in moved : d # c /\ moved = {d, c},
           t.status = "failed" => moved = {}
    PROVE  Agrees(transferStatusCode(t, t.id = id), t, holder, own, moved, id, q)
  <1>1. CASE t.status = "failed"
    <2>1. transferStatusCode(t, t.id = id) = 422
      BY Zenon, <1>1 DEF transferStatusCode
    <2>2. Agrees(422, t, holder, own, moved, id, q)
      BY <1>1 DEF Agrees
    <2> QED BY Zenon, <2>1, <2>2
  <1>2. CASE t.status = "completed" /\ t.id = id
    <2>1. transferStatusCode(t, t.id = id) = 201
      BY <1>2 DEF transferStatusCode
    <2>2. Agrees(201, t, holder, own, moved, id, q)
      BY <1>2 DEF Agrees
    <2> QED BY Zenon, <2>1, <2>2
  <1>3. CASE t.status = "completed" /\ t.id # id
    <2>1. transferStatusCode(t, t.id = id) = 200
      BY <1>3 DEF transferStatusCode
    <2>2. Agrees(200, t, holder, own, moved, id, q)
      BY <1>3 DEF Agrees
    <2> QED BY Zenon, <2>1, <2>2
  <1> QED BY Zenon, <1>1, <1>2, <1>3

\* A code without a transfer says that the request left no row.
LEMMA RefusalAgrees ==
    ASSUME NEW code \in RefusalCodes,
           NEW holder, NEW own, NEW moved, NEW id, NEW q,
           code \notin {0, 500} => own = {},
           code = 409 => \E s \in holder : s.request # q
    PROVE  Agrees(code, NoTransfer, holder, own, moved, id, q)
  BY DEF Agrees, RefusalCodes

\* What a response says of the tables is so for ever after.
THEOREM ResponsesAreTrue == ApiSpec => []ResponsesMatchTheTables
  <1> DEFINE Own(r) == {u \in AllRows : u.id = r}
             Moved(t) == {e \in ledger : e.transfer = t.id}
             Holder(r) == StoredUnder(call[r].user, Key(r))
  <1>1. ASSUME ApiInv, NEW r \in Requests
        PROVE  Agrees(response[r].code, response[r].transfer, Holder(r), Own(r),
                      Moved(response[r].transfer), r, Request(r))
    <2> DEFINE t == response[r].transfer
               code == response[r].code
    <2>0. TypeOK /\ Paired
      BY Zenon, <1>1 DEF ApiInv, IInv
    <2>1. \/ /\ t \in transfers /\ t # NoTransfer /\ t \in Holder(r) /\ t.request = Request(r)
             /\ code = transferStatusCode(t, t.id = r)
          \/ /\ t = NoTransfer
             /\ code \in RefusalCodes
             /\ code \notin {0, 500} => Own(r) = {}
             /\ code = 409 => \E s \in Holder(r) : s.request # Request(r)
      BY SMTT(20), <1>1, ResponseShows
    <2> HIDE DEF t, code, Own, Holder
    <2>2. CASE t \in transfers /\ t # NoTransfer
      <3>1. t.status \in {"completed", "failed"}
        BY Zenon, <2>0, <2>2, StoredIsTransfer DEF Statuses
      <3>2. "failed" # "completed"
        OBVIOUS
      <3>3. /\ t.status = "completed" =>
                  \E d, c \in Moved(t) : d # c /\ Moved(t) = {d, c}
            /\ t.status = "failed" => Moved(t) = {}
        BY Zenon, <2>0, <2>2, <3>2 DEF Paired
      <3> HIDE DEF Moved
      <3>4. Agrees(transferStatusCode(t, t.id = r), t, Holder(r), Own(r), Moved(t), r, Request(r))
        BY Zenon, <2>1, <2>2, <3>1, <3>3, ShownAgrees
      <3> QED BY Zenon, <2>1, <2>2, <3>4 DEF t, code
    <2> HIDE DEF Moved
    <2>3. CASE t = NoTransfer
      <3>1. Agrees(code, NoTransfer, Holder(r), Own(r), Moved(t), r, Request(r))
        BY Zenon, <2>1, <2>3, RefusalAgrees
      <3> QED BY Zenon, <2>3, <3>1 DEF t, code
    <2> QED BY Zenon, <2>1, <2>2, <2>3
  <1>2. ApiInv => ResponsesMatchTheTables
    BY Zenon, <1>1 DEF ResponsesMatchTheTables, Agrees
  <1> QED BY <1>2, ApiInvariant, PTL

\* All who retry a request are told of the same transfer, only its maker is
\* told that it was created, and everybody else that it is a replay.
THEOREM RetriesAlwaysAgree == ApiSpec => []RetriesAgree
  <1>1. ASSUME ApiInv, NEW r \in Requests, NEW q \in Requests
        PROVE  LET t == response[r].transfer
                   u == response[q].transfer
               IN  /\ t # NoTransfer /\ u # NoTransfer /\ SameKey(t, u.user, u.key) =>
                       /\ t = u
                       /\ response[r].code = 201 /\ response[q].code = 201 => r = q
                   /\ t # NoTransfer => (response[r].replayed <=> t.id # r)
    <2>1. ASSUME NEW s \in Requests, response[s].transfer # NoTransfer
          PROVE  LET t == response[s].transfer IN
                 /\ t \in transfers
                 /\ response[s].code = transferStatusCode(t, t.id = s)
                 /\ response[s].replayed <=> t.id # s
      BY <1>1, <2>1, ResponseShows
    <2>2. ASSUME NEW s \in Requests, response[s].transfer # NoTransfer, response[s].code = 201
          PROVE  response[s].transfer.id = s
      BY <2>1, <2>2 DEF transferStatusCode
    <2>3. \A t, u \in transfers : SameKey(t, u.user, u.key) => t = u
      BY <1>1 DEF ApiInv, IInv, KeysDistinct
    <2>4. CASE /\ response[r].transfer # NoTransfer /\ response[q].transfer # NoTransfer
               /\ SameKey(response[r].transfer, response[q].transfer.user, response[q].transfer.key)
      <3>1. response[r].transfer = response[q].transfer
        BY Zenon, <2>1, <2>3, <2>4
      <3> QED BY <2>1, <2>2, <2>4, <3>1
    <2> QED BY Zenon, <2>1, <2>4
  <1>2. ApiInv => RetriesAgree
    BY <1>1 DEF RetriesAgree
  <1> QED BY <1>2, ApiInvariant, PTL

-----------------------------------------------------------------------------
\* There is room for every credit of a funded transfer.
RoomForAll ==
    \A a, b \in Accounts :
        a # b /\ Currency[a] = Currency[b] => balance[a] + balance[b] <= MaxInt64

\* Create refuses nothing that it has stored before.
LEMMA NoRefusal ==
    ASSUME RoomForAll, ApiInv, NEW r \in Requests, pc[r] = "lock",
           NextToLock(r, Wanted(r)) = {},
           NEW t \in StoredUnder(call[r].user, Key(r)), t.request = Request(r)
    PROVE  Refusal(r) = Nil
  <1> DEFINE q == Request(r)
  <1>0. /\ TypeOK /\ Control /\ LockingOf(r) /\ FreshOf(r) /\ Sound
    BY Zenon DEF ApiInv, IInv, Locking, Fresh
  <1>1. t \in transfers /\ t.user = call[r].user
    BY DEF StoredUnder, SameKey
  <1>2. /\ Validate(q) = Nil
        /\ q.from \in Accounts /\ q.to \in Accounts /\ Owner[q.from] = call[r].user
        /\ Currency[q.from] = q.currency /\ Currency[q.to] = q.currency
    BY <1>0, <1>1 DEF Sound
  <1>3. q.amount \in Int64
    BY <1>0, CallTyped
  <1>4. q.from # q.to /\ ~(q.amount <= 0)
    BY <1>2 DEF Validate, Nil
  <1>5. q.from \in Held(r) /\ q.to \in Held(r)
    <2>1. q.from \in Nat /\ q.to \in Nat
      BY Zenon, <1>2, StoreAssumption
    <2>2. \A a \in Accounts : a \in {q.from, q.to} /\ rowLock[a] # r =>
            \E b \in Accounts : b \in {q.from, q.to} /\ rowLock[b] # r /\ ~(a <= b)
      BY DEF NextToLock, Wanted, Held
    <2>3. rowLock[q.from] = r /\ rowLock[q.to] = r
      BY SMTT(20), <1>2, <2>1, <2>2
    <2> QED BY Zenon, <1>2, <2>3 DEF Held
  <1>6. copy[r][q.from] = balance[q.from] /\ copy[r][q.to] = balance[q.to]
    BY Zenon, <1>0, <1>2, <1>5 DEF FreshOf, Held
  <1>7. q.amount \in Int /\ q.amount > 0 /\ q.amount <= MaxInt64
    BY <1>3, <1>4, EntitiesAssumption DEF Int64
  <1>8. balance[q.from] \in Int /\ balance[q.to] \in Int /\ MaxInt64 \in Int
    <2>1. MaxInt64 \in Int /\ \A n \in 0..MaxInt64 : n \in Int
      BY EntitiesAssumption
    <2>2. balance[q.from] \in 0..MaxInt64 /\ balance[q.to] \in 0..MaxInt64
      BY Zenon, <1>0, <1>2 DEF TypeOK
    <2> QED BY Zenon, <2>1, <2>2
  <1>9. q.amount <= balance[q.from] => balance[q.to] + q.amount <= MaxInt64
    <2>1. balance[q.from] + balance[q.to] <= MaxInt64
      BY Zenon, <1>2, <1>4 DEF RoomForAll
    <2> QED BY <1>7, <1>8, <2>1
  <1> HIDE DEF q
  <1>10. DebitError(balance[q.from], q.amount) =
            IF q.amount <= balance[q.from] THEN Nil ELSE "ErrInsufficientFunds"
    BY <1>7, <1>8 DEF DebitError
  <1>11. q.amount <= balance[q.from] => CreditError(balance[q.to], q.amount) = Nil
    BY <1>7, <1>8, <1>9, EntitiesAssumption DEF CreditError, Wrap
  <1> QED BY Zenon, <1>2, <1>5, <1>6, <1>10, <1>11 DEF Refusal, Nil, q

\* Only Create sets the arguments of a call.
LEMMA CallStays ==
    ASSUME NEW r \in Requests, Serve(r) \/ Fault(r)
    PROVE  call' = call
  BY Zenon DEF Serve, Fault, Begin, LockForTransfer, Decide, CreateIdempotent, FindExisting, Save,
     AppendLedger, Commit, Return, Rollback, Abort, Fail, Interrupt, Finish

\* A request that repeats a stored one meets no error but an internal one.
LEMMA RepeatStep ==
    ASSUME RoomForAll, ApiInv, NEW r \in Requests, Serve(r) \/ Fault(r),
           NEW t \in StoredUnder(call[r].user, Key(r)), t.request = Request(r),
           outcome[r].err \in {Nil, "internal"}
    PROVE  outcome'[r].err \in {Nil, "internal"}
  <1>0. TypeOK /\ KeysDistinct /\ Sound /\ t \in transfers /\ t.key = Key(r) /\ t.user = call[r].user
    BY Zenon DEF ApiInv, IInv, StoredUnder, SameKey
  <1>1. \A e : Failure(e).err = e
    BY DEF Failure
  <1>2. \A u, b : Success(u, b).err = Nil
    BY DEF Success
  <1>3. ASSUME NEW e, Raise(r, e), e = "internal" PROVE outcome'[r].err \in {Nil, "internal"}
    BY Zenon, <1>0, <1>1, <1>3 DEF Raise, TypeOK
  <1>4. CASE Decide(r)
    <2>1. Refusal(r) = Nil
      BY <1>4, NoRefusal DEF Decide
    <2> QED BY <1>4, <2>1 DEF Decide
  <1>5. CASE CreateIdempotent(r)
    <2>1. Key(r) # None
      BY <1>0 DEF Sound
    <2>2. UNCHANGED outcome \/ outcome' = [outcome EXCEPT ![r] =
                        IF r \in orphans THEN @ ELSE Success(Draft(r), TRUE)]
      BY <1>5, <2>1 DEF CreateIdempotent
    <2>3. outcome'[r] = outcome[r] \/ outcome'[r] = Success(Draft(r), TRUE)
      BY Zenon, <1>0, <2>2 DEF TypeOK
    <2> QED BY Zenon, <1>2, <2>3
  <1>6. CASE FindExisting(r)
    <2>1. ASSUME NEW u \in StoredUnder(call[r].user, Key(r)) PROVE u = t
      BY <1>0, <2>1 DEF KeysDistinct, StoredUnder, SameKey
    <2>2. replay(t, Request(r)) = Nil
      BY DEF replay
    <2>3. \E u \in StoredUnder(call[r].user, Key(r)) :
             IF replay(u, Request(r)) # Nil
             THEN Raise(r, replay(u, Request(r)))
             ELSE /\ outcome' = [outcome EXCEPT ![r] = Success(u, FALSE)]
                  /\ pc' = [pc EXCEPT ![r] = "commit"]
      BY <1>6 DEF FindExisting
    <2>4. outcome' = [outcome EXCEPT ![r] = Success(t, FALSE)]
      BY <2>1, <2>2, <2>3
    <2> QED BY Zenon, <1>0, <1>2, <2>4 DEF TypeOK
  <1>7. CASE Save(r) \/ AppendLedger(r) \/ Fail(r)
    BY Zenon, <1>3, <1>7 DEF Save, AppendLedger, Fail
  <1>8. CASE Interrupt(r)
    BY Zenon, <1>0, <1>1, <1>8 DEF Interrupt, TypeOK
  <1>9. CASE Begin(r) \/ LockForTransfer(r) \/ Commit(r) \/ Return(r) \/ Rollback(r) \/ Abort(r)
    BY <1>9 DEF Begin, LockForTransfer, Commit, Return, Rollback, Abort
  <1> QED BY Zenon, <1>4, <1>5, <1>6, <1>7, <1>8, <1>9 DEF Serve, Fault

\* What was stored under a message's key when it arrived stays so, and a
\* repeated request is not refused.
LEMMA SettledStep ==
    ASSUME RoomForAll, ApiInv, Settled, [ApiNext]_apiVars
    PROVE  Settled'
  <1>0. TypeOK /\ Control /\ KeysDistinct /\ Sound
    BY DEF ApiInv, IInv
  <1>1. ASSUME NEW s \in Requests, settled'[s] = settled[s], pc'[s] = pc[s], call'[s] = call[s],
               outcome'[s] = outcome[s], transfers \subseteq transfers'
        PROVE  SettledOf(s)'
    <2>1. SettledOf(s)
      BY DEF Settled
    <2>2. Key(s)' = Key(s) /\ Request(s)' = Request(s) /\ (Repeats(s)' <=> Repeats(s))
      BY Zenon, <1>1 DEF Key, Request, Repeats
    <2>3. StoredUnder(call[s].user, Key(s)) \subseteq StoredUnder(call[s].user, Key(s))'
      BY <1>1, <2>2 DEF StoredUnder
    <2> QED BY Zenon, <1>1, <2>1, <2>2, <2>3 DEF SettledOf
  <1>2. ASSUME NEW r \in Requests, Step(r), NEW s \in Requests \ {r}, settled'[s] = settled[s]
        PROVE  SettledOf(s)'
    <2>1. Untouched(s) /\ transfers \subseteq transfers'
      BY <1>0, <1>2, Frame, TransfersGrow
    <2> QED BY Zenon, <1>1, <1>2, <2>1 DEF Untouched
  <1>3. ASSUME NEW r \in Requests, NEW m \in Messages, Handle(r, m) PROVE Settled'
    <2> DEFINE c == CallOf(m)
    <2>1. /\ Create(r, c) /\ c \in Calls
          /\ settled' = [settled EXCEPT ![r] = StoredUnder(m.subject, parseKey(HeaderKey(m)))]
      BY <1>3, CallsAssumption DEF Handle
    <2>2. c.user = m.subject /\ c.key = HeaderKey(m) /\ c.request = m.request
      BY DEF CallOf
    <2> HIDE DEF c
    <2>3. /\ settled'[r] = StoredUnder(c.user, parseKey(c.key))
          /\ \A s \in Requests \ {r} : settled'[s] = settled[s]
          /\ settled' = [s \in Requests |-> settled'[s]]
      BY <2>1, <2>2 DEF Settled
    <2>4. call'[r] = c /\ transfers' = transfers /\ pc'[r] \in {"begin", "done"}
      BY <1>0, <2>1 DEF Create, TypeOK, storeVars, committed
    <2>5. Key(r)' = parseKey(c.key) /\ Request(r)' = c.request
      BY <2>4 DEF Key, Request, parseKey
    <2>6. settled'[r] = StoredUnder(call[r].user, Key(r))'
      BY <2>3, <2>4, <2>5 DEF StoredUnder
    <2>7. ASSUME NEW t \in settled'[r], t.request = Request(r)' PROVE outcome'[r].err = Nil
      <3>1. t \in transfers /\ t.user = c.user
        BY <2>3, <2>7 DEF StoredUnder, SameKey
      <3>2. c.user # NoUser /\ Validate(c.request) = Nil
        BY <1>0, <2>5, <2>7, <3>1 DEF Sound
      <3>3. outcome'[r] = Failure(Nil)
        BY <1>0, <2>1, <3>2 DEF Create, TypeOK
      <3>4. Failure(Nil).err = Nil
        BY DEF Failure
      <3> QED BY Zenon, <3>3, <3>4
    <2>8. SettledOf(r)'
      BY Zenon, <2>4, <2>6, <2>7 DEF SettledOf, Repeats
    <2> QED BY <1>2, <2>1, <2>3, <2>8 DEF Settled, Step
  <1>4. ASSUME NEW r \in Requests, Serve(r) \/ Fault(r), UNCHANGED <<response, settled>>
        PROVE  Settled'
    <2>1. pc[r] # "idle" /\ pc'[r] # "idle"
      <3>1. pc[r] # "idle"
        <4>1. CASE Abort(r)
          BY Zenon, <1>0, <4>1 DEF Abort, Control, ControlOf, InTx
        <4> QED BY Zenon, <1>4, <4>1 DEF Serve, Fault, Begin, LockForTransfer, Decide, CreateIdempotent,
                FindExisting, Save, AppendLedger, Commit, Return, Rollback, Fail, Interrupt, InTx
      <3>2. pc'[r] # "idle"
        <4>1. CASE Begin(r) \/ LockForTransfer(r) \/ Decide(r) \/ FindExisting(r)
          BY Zenon, <1>0, <3>1, <4>1 DEF Begin, LockForTransfer, Decide, FindExisting, Raise, Goto, TypeOK
        <4>2. CASE CreateIdempotent(r)
          BY Zenon, <1>0, <4>2 DEF CreateIdempotent, Raise, Goto, TypeOK
        <4>3. CASE Save(r) \/ AppendLedger(r) \/ Fail(r)
          BY <1>0, <4>3 DEF Save, AppendLedger, Fail, Raise, Goto, TypeOK
        <4>4. CASE Commit(r) \/ Return(r) \/ Rollback(r) \/ Abort(r) \/ Interrupt(r)
          BY <1>0, <3>1, <4>4 DEF Commit, Return, Rollback, Abort, Interrupt, Finish, TypeOK
        <4> QED BY <1>4, <4>1, <4>2, <4>3, <4>4 DEF Serve, Fault
      <3> QED BY <3>1, <3>2
    <2>2. call' = call /\ transfers \subseteq transfers' /\ SettledOf(r)
      BY <1>0, <1>4, CallStays, TransfersGrow DEF Step, Settled
    <2>3. Key(r)' = Key(r) /\ Request(r)' = Request(r) /\ (Repeats(r)' <=> Repeats(r))
      BY <1>4, <2>2 DEF Key, Request, Repeats
    <2>4. settled[r] \subseteq StoredUnder(call[r].user, Key(r))
      BY <2>1, <2>2 DEF SettledOf
    <2>5. StoredUnder(call[r].user, Key(r)) \subseteq StoredUnder(call[r].user, Key(r))'
      BY <2>2, <2>3 DEF StoredUnder
    <2>6. ASSUME Repeats(r) PROVE outcome'[r].err \in {Nil, "internal"}
      <3>1. PICK t \in settled[r] : t.request = Request(r)
        BY <2>6 DEF Repeats
      <3>2. outcome[r].err \in {Nil, "internal"}
        BY <2>1, <2>2, <2>6 DEF SettledOf
      <3> QED BY <1>4, <2>4, <3>1, <3>2, RepeatStep
    <2>7. SettledOf(r)'
      BY Zenon, <1>4, <2>1, <2>3, <2>4, <2>5, <2>6 DEF SettledOf
    <2> QED BY <1>2, <1>4, <2>7 DEF Settled, Step
  <1>5. ASSUME UNCHANGED <<vars, settled>> PROVE Settled'
    <2>1. \A s \in Requests : /\ settled'[s] = settled[s] /\ pc'[s] = pc[s] /\ call'[s] = call[s]
                              /\ outcome'[s] = outcome[s] /\ transfers \subseteq transfers'
      BY <1>5 DEF vars, storeVars, committed, serviceVars
    <2> QED BY <1>1, <1>5, <2>1 DEF Settled
  <1>6. ASSUME NEW r \in Requests, NEW m \in Messages, Refuse(r, m) PROVE Settled'
    BY <1>5, <1>6 DEF Refuse
  <1>7. ASSUME NEW r \in Requests, Respond(r) PROVE Settled'
    BY <1>5, <1>7 DEF Respond
  <1>8. CASE ApiQuiet \/ UNCHANGED apiVars
    BY <1>5, <1>8 DEF ApiQuiet, apiVars
  <1> QED BY <1>3, <1>4, <1>6, <1>7, <1>8 DEF ApiNext

\* What a retry is then shown is the stored transfer.
LEMMA Replayed ==
    ASSUME ApiInv, Settled
    PROVE  RetriesAreReplayed
  <1> SUFFICES ASSUME NEW r \in Requests, response[r].code \notin {0, 500},
                      NEW t \in settled[r], t.request = Request(r)
               PROVE  response[r].transfer \in {u \in settled[r] : u.request = Request(r)}
    BY DEF RetriesAreReplayed
  <1>1. /\ KeysDistinct /\ SettledOf(r) /\ RespondedOf(r) /\ TypeOK
    BY DEF ApiInv, IInv, Settled, Responded
  <1>2. /\ pc[r] # "idle" /\ t \in StoredUnder(call[r].user, Key(r))
        /\ outcome[r].err \in {Nil, "internal"}
    BY SMTT(20), <1>1 DEF SettledOf, Repeats
  <1>3. response[r] = ResponseTo(outcome[r])
    <2>1. response[r] # NoResponse
      BY Zenon, NoResponseFields
    <2> QED BY Zenon, <1>1, <1>2, <2>1 DEF RespondedOf
  <1>4. outcome[r].err = Nil
    <2>1. outcome[r].err = "internal" => ResponseTo(outcome[r]).code = 500
      BY InternalResponse
    <2> QED BY <1>2, <1>3, <2>1
  <1>5. response[r].code \in {200, 201, 422} /\ response[r].transfer = outcome[r].transfer
    <2>1. transferStatusCode(outcome[r].transfer, outcome[r].created) \in {200, 201, 422}
      BY DEF transferStatusCode
    <2>2. /\ ResponseTo(outcome[r]).code
               = transferStatusCode(outcome[r].transfer, outcome[r].created)
          /\ ResponseTo(outcome[r]).transfer = outcome[r].transfer
      BY SMTT(20), <1>4, ResponseFields
    <2> QED BY SMTT(20), <1>3, <2>1, <2>2
  <1>6. pc[r] = "done" /\ Shown(r)
    <2>0. response[r] # NoResponse
      BY Zenon, NoResponseFields
    <2>1. Answered(r) /\ AnsweringOf(r)
      BY Zenon, <1>1, <1>2, <2>0 DEF RespondedOf, ApiInv, Answering
    <2> QED BY Zenon, <1>4, <2>1 DEF AnsweringOf, Answered
  <1>7. outcome[r].transfer \in StoredUnder(call[r].user, Key(r))
    BY Zenon, <1>6 DEF Shown
  <1>8. outcome[r].transfer = t
    <2>1. \A u, v \in transfers : SameKey(v, u.user, u.key) => v = u
      BY Zenon, <1>1 DEF KeysDistinct
    <2> QED BY SMTT(20), <1>2, <1>7, <2>1 DEF StoredUnder, SameKey
  <1> QED BY <1>5, <1>8
=============================================================================
