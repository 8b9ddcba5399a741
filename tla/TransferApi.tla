----------------------------- MODULE TransferApi -----------------------------
(***************************************************************************)
(* POST /transfers (internal/httpapi): what the handler checks before it   *)
(* calls Create, and the HTTP response it makes of what Create returns.    *)
(*                                                                         *)
(* The handler runs behind Authenticate and RequirePermission, so a        *)
(* message arrives with the subject of a valid token.  A message is the    *)
(* list of its Idempotency-Key headers, the shape of its body, and the     *)
(* request the body decodes to.                                            *)
(***************************************************************************)
EXTENDS TransferService, Sequences

CONSTANTS Messages,  \* the HTTP requests that clients send
          Trimmed    \* strings.TrimSpace on the header texts

\* How decodeJSON may find a body.
Bodies == {"object", "wrong type", "too large", "malformed", "null", "trailing data"}

ASSUME ApiAssumption ==
    /\ Trimmed \in [KeyTexts -> KeyTexts]
    /\ \A m \in Messages :
        /\ m.subject \in Users /\ m.keys \in Seq(KeyTexts)
        /\ m.body \in Bodies /\ m.request \in CreateTransfer

VARIABLES response,  \* what each message was answered
          settled    \* history: what was stored under its key when it arrived

apiVars == <<vars, response, settled>>

NoResponse == [code |-> 0, replayed |-> FALSE, transfer |-> NoTransfer]

ApiInit ==
    /\ Init
    /\ response = [r \in Requests |-> NoResponse]
    /\ settled = [r \in Requests |-> {}]

writeError(code) == [code |-> code, replayed |-> FALSE, transfer |-> NoTransfer]

\* decodeJSON: the code of its error response, 0 when the body is usable.
decodeJSON(body) ==
    CASE body = "wrong type" -> 415
      [] body = "too large" -> 413
      [] body \in {"malformed", "null", "trailing data"} -> 400
      [] OTHER -> 0

\* createTransfer up to the call of Create.
HeaderKey(m) == Trimmed[m.keys[1]]

InputError(m) ==
    IF Len(m.keys) # 1 THEN 400
    ELSE IF parseKey(HeaderKey(m)) = None THEN 400
    ELSE decodeJSON(m.body)

CallOf(m) == [user |-> m.subject, key |-> HeaderKey(m), request |-> m.request]

\* Create is called with what the handler makes of the messages.
ASSUME CallsAssumption ==
    \A m \in Messages : InputError(m) = 0 => CallOf(m) \in Calls

\* createTransfer after it: the switch on the error, and the code of a stored
\* transfer.
ErrorCode(err) ==
    CASE err = "ErrForbidden" -> 403
      [] err = "ErrInvalidTransfer" -> 400
      [] err = "ErrIdempotencyConflict" -> 409
      [] err \in {"ErrDestinationNotFound", "ErrCurrencyMismatch", "ErrBalanceOverflow"} -> 422
      [] OTHER -> 500

\* Faulty variant: the cases of the switch in the other order.
CreatedFirst(t, created) == IF created THEN 201 ELSE IF t.status = "failed" THEN 422 ELSE 200
\* Faulty variant: a replay is answered like the original.
AlwaysCreated(t, created) == IF t.status = "failed" THEN 422 ELSE 201
transferStatusCode(t, created) ==
    IF t.status = "failed" THEN 422 ELSE IF created THEN 201 ELSE 200

ResponseTo(result) ==
    IF result.err # Nil
    THEN writeError(ErrorCode(result.err))
    ELSE [code |-> transferStatusCode(result.transfer, result.created),
          replayed |-> ~result.created, transfer |-> result.transfer]

-----------------------------------------------------------------------------
\* The handler refuses the message itself: Create is never called.
Refuse(r, m) ==
    /\ pc[r] = "idle"
    /\ response[r] = NoResponse
    /\ InputError(m) # 0
    /\ response' = [response EXCEPT ![r] = writeError(InputError(m))]
    /\ UNCHANGED <<vars, settled>>

\* The handler calls Create.
Handle(r, m) ==
    /\ response[r] = NoResponse
    /\ InputError(m) = 0
    /\ Create(r, CallOf(m))
    /\ settled' = [settled EXCEPT ![r] = StoredUnder(m.subject, parseKey(HeaderKey(m)))]
    /\ UNCHANGED response

\* Create has returned: the handler writes the response.
Respond(r) ==
    /\ Answered(r)
    /\ response[r] = NoResponse
    /\ response' = [response EXCEPT ![r] = ResponseTo(outcome[r])]
    /\ UNCHANGED <<vars, settled>>

\* Every message has its response and no transaction is open.
ApiQuiet ==
    /\ \A r \in Requests : response[r] # NoResponse /\ pc[r] \in {"idle", "done"}
    /\ UNCHANGED apiVars

ApiNext ==
    \/ \E r \in Requests :
        \/ \E m \in Messages : Refuse(r, m) \/ Handle(r, m)
        \/ (Serve(r) \/ Fault(r)) /\ UNCHANGED <<response, settled>>
        \/ Respond(r)
    \/ ApiQuiet

ApiSpec == ApiInit /\ [][ApiNext]_apiVars

-----------------------------------------------------------------------------
\* What a response says of the tables is so, and stays so: 201 means this very
\* request stored a completed transfer and its two ledger entries; 200 that
\* another one did; 409 that the key is taken by a different request; any other
\* refusal that nothing of the request is stored, or ever will be ("a rejected
\* transfer must leave no trace"); a failed transfer is stored as failed and
\* moved nothing.
ResponsesMatchTheTables ==
    \A r \in Requests :
        LET own == {t \in AllRows : t.id = r}
            t == response[r].transfer
            moved == {e \in ledger : e.transfer = t.id}
            holder == StoredUnder(call[r].user, Key(r))
        IN  /\ response[r].code \in {200, 201} =>
                /\ t \in holder /\ t.status = "completed" /\ t.request = Request(r)
                /\ \E d, c \in moved : d # c /\ moved = {d, c}
                /\ t.id = r <=> response[r].code = 201
            /\ response[r].code = 409 =>
                own = {} /\ \E s \in holder : s.request # Request(r)
            /\ response[r].code \in {400, 403, 413, 415} => own = {}
            /\ response[r].code = 422 =>
                IF t = NoTransfer THEN own = {}
                ELSE t \in holder /\ t.status = "failed" /\ moved = {}

\* "A completed one answers 201 first and 200 on replays", "a failed transfer
\* answers 422 every time": over all the messages with one key of one user, at
\* most one is told 201, and all those shown a transfer are shown the same one,
\* with the Idempotent-Replayed header on every copy but the maker's.
RetriesAgree ==
    \A r, q \in Requests :
        LET t == response[r].transfer
            u == response[q].transfer
        IN  /\ t # NoTransfer /\ u # NoTransfer /\ SameKey(t, u.user, u.key) =>
                /\ t = u
                /\ response[r].code = 201 /\ response[q].code = 201 => r = q
            /\ t # NoTransfer => (response[r].replayed <=> t.id # r)

\* "It returns the stored transfer ... and the same status code family": a
\* message that repeats a request already stored is shown the stored transfer,
\* unless it meets an internal error.
RetriesAreReplayed ==
    \A r \in Requests :
        LET repeated == {t \in settled[r] : t.request = Request(r)} IN
        response[r].code \notin {0, 500} /\ repeated # {} =>
            response[r].transfer \in repeated

\* "Reusing a key with a different body answers 409", unless the message meets
\* an internal error.
ReuseIsAConflict ==
    \A r \in Requests :
        response[r].code \notin {0, 500}
            /\ (\E t \in settled[r] : t.request # Request(r)) =>
                response[r].code = 409
=============================================================================
