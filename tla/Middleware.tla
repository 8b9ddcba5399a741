----------------------------- MODULE Middleware ------------------------------
(***************************************************************************)
(* The chain every request passes (internal/httpapi, NewHandler):          *)
(*                                                                         *)
(*   recoverPanics > requestID > accessLog > withTimeout > mux > handler   *)
(*                                                                         *)
(* Each layer keeps its state in values of its own request, so one request *)
(* is modelled.  A handler may panic before, between or after its writes;  *)
(* the panic then skips what accessLog does after the call.                *)
(*                                                                         *)
(* The deadline of withTimeout is the Interrupt of TransferService.        *)
(***************************************************************************)
EXTENDS Naturals, Sequences, Functions

CONSTANTS SentIDs,   \* what a client may send as X-Request-ID
          ValidIDs,  \* those that match validRequestID
          None

Generated == "generated"

\* The answers of the handlers behind the mux.  The documentation pages write
\* their body without a status.
Implicit == 0
Answers ==
    [health |-> {200}, ready |-> {200, 503}, docs |-> {Implicit},
     api |-> {200, 201, 400, 401, 403, 404, 409, 413, 415, 422, 500}]
Statuses == UNION {Answers[p] : p \in DOMAIN Answers}

ASSUME MiddlewareAssumption ==
    /\ ValidIDs \subseteq SentIDs /\ Generated \notin SentIDs
    /\ \A status \in Statuses, i \in SentIDs \cup {Generated} :
        None # [status |-> status, id |-> i]

VARIABLES step,    \* idle, handler, done, or aborted: net/http cut the connection
          path,
          sent,    \* X-Request-ID of the request; None without one
          id,      \* the id in the context of the inner layers
          header,  \* X-Request-ID in the header map of the response
          rec,     \* statusRecorder: status and wroteHeader
          wire,    \* the status line and X-Request-ID as sent; None before
          body,    \* number of writes of the body
          lines    \* what this request has logged

chainVars == <<step, path, sent, id, header, rec, wire, body, lines>>

ChainInit ==
    /\ step = "idle" /\ path = None /\ sent = None
    /\ id = None /\ header = None
    /\ rec = [status |-> 200, wroteHeader |-> FALSE]
    /\ wire = None /\ body = 0
    /\ lines = <<>>

\* requestID: a sane id is kept, another is replaced.  It is in the header before
\* the next layer is called.
requestID(s) == IF s \in ValidIDs THEN s ELSE Generated

Arrive(p, s) ==
    /\ step = "idle"
    /\ step' = "handler"
    /\ path' = p
    /\ sent' = s
    /\ id' = requestID(s)
    /\ header' = requestID(s)
    /\ UNCHANGED <<rec, wire, body, lines>>

\* net/http sends the first status it is given, with the header map of then.
Transmit(status) ==
    wire' = IF wire = None THEN [status |-> status, id |-> header] ELSE wire

\* statusRecorder.WriteHeader.
\* Faulty variant: the status is passed on and not recorded.
Unrecorded(status) == [rec EXCEPT !.wroteHeader = TRUE]
Recorded(status) ==
    IF rec.wroteHeader THEN rec ELSE [status |-> status, wroteHeader |-> TRUE]

\* writeJSON: the status, then (in Write) the body.
WriteHeader(status) ==
    /\ step = "handler"
    /\ body = 0 /\ ~rec.wroteHeader
    /\ status \in Answers[path] \ {Implicit}
    /\ rec' = Recorded(status)
    /\ Transmit(status)
    /\ UNCHANGED <<step, path, sent, id, header, body, lines>>

\* statusRecorder.Write.
Write ==
    /\ step = "handler"
    /\ body = 0
    /\ rec.wroteHeader \/ Implicit \in Answers[path]
    /\ IF rec.wroteHeader THEN UNCHANGED <<rec, wire>>
                          ELSE rec' = Recorded(200) /\ Transmit(200)
    /\ body' = body + 1
    /\ UNCHANGED <<step, path, sent, id, header, lines>>

\* accessLog after the call.  The level of the line, debug for probes, is left
\* out.
Return ==
    /\ step = "handler"
    /\ body > 0
    /\ step' = "done"
    /\ lines' = Append(lines, [message |-> "http request", id |-> id,
                               status |-> rec.status])
    /\ UNCHANGED <<path, sent, id, header, rec, wire, body>>

\* recoverPanics.  Its request is the one from before requestID, without an id
\* in the context; its writer is the one under the recorder.
\* Faulty variant: the panic is logged and not answered; net/http then sends 200.
LogOnly == Transmit(200) /\ UNCHANGED body
WriteError == Transmit(500) /\ body' = body + 1

Panic ==
    /\ step = "handler"
    /\ step' = "done"
    /\ lines' = Append(lines, [message |-> "panic", id |-> None, status |-> None])
    /\ WriteError
    /\ UNCHANGED <<path, sent, id, header, rec>>

\* ErrAbortHandler is passed on.
PanicAbort ==
    /\ step = "handler"
    /\ step' = "aborted"
    /\ UNCHANGED <<path, sent, id, header, rec, wire, body, lines>>

Ended ==
    /\ step \in {"done", "aborted"}
    /\ UNCHANGED chainVars

ChainNext ==
    \/ \E p \in DOMAIN Answers, s \in SentIDs \cup {None} : Arrive(p, s)
    \/ \E status \in Statuses : WriteHeader(status)
    \/ Write \/ Return \/ Panic \/ PanicAbort
    \/ Ended

ChainSpec == ChainInit /\ [][ChainNext]_chainVars

-----------------------------------------------------------------------------
\* A line of the access log tells what the client got: the status sent and the
\* X-Request-ID sent, so that a client's report can be traced.
LogMatchesResponse ==
    \A line \in Range(lines) :
        line.message = "http request" =>
            wire # None /\ line.status = wire.status /\ line.id = wire.id

\* A panic is never reported as success: unless the status was already sent,
\* the client gets 500; and no request ends without a response, with the id that
\* is "accepted from the caller or generated" (README.md:317), but by
\* ErrAbortHandler.
PanicsAreAnswered ==
    step = "done" =>
        /\ wire # None /\ wire.id = requestID(sent)
        /\ (\E line \in Range(lines) : line.message = "panic") /\ ~rec.wroteHeader
            => wire.status = 500
=============================================================================
