------------------------------ MODULE Lifecycle ------------------------------
(***************************************************************************)
(* One process from start to exit (cmd/api): main and run, the goroutine   *)
(* of the HTTP server, the handlers of its requests, the pool they share,  *)
(* and the signals that end it.                                            *)
(*                                                                         *)
(* The steps of run:                                                       *)
(*                                                                         *)
(*   load -> tokens -> migrate -> pool -> seed -> select                   *)
(*     -> shutdown -> receive -> close -> exit                             *)
(*                                                                         *)
(* A return with an error leads from any of them to close (the deferred    *)
(* calls) or to exit.  A handler uses at most one connection of the pool;  *)
(* its request deadline gives that connection back at the latest.          *)
(***************************************************************************)
EXTENDS Config, FiniteSets

CONSTANTS Environments,  \* the environments a process may be started in
          Requests,      \* HTTP connections, each with one request
          MaxSignals     \* bound of the model: SIGINT and SIGTERM sent

ASSUME LifecycleAssumption ==
    /\ MaxSignals \in Nat
    /\ \A env \in Environments :
        /\ env.DEMO_PASSWORD \in Nat
        /\ env.DB_MAX_CONNS.kind \in {"blank", "junk", "value"}
        /\ {env.HTTP_ADDR.kind, env.PORT.kind} \subseteq {"blank", "junk", "value"}
        /\ env.HTTP_ADDR.kind = "value" => env.HTTP_ADDR.value \in [host: STRING, port: Port]
        /\ env.PORT.kind = "value" => env.PORT.value \in Port

VARIABLES env,       \* the environment, fixed at start
          step,      \* where run is
          exit,      \* "running", or how the process ended
          result,    \* what run is about to return
          blame,     \* history: the variable a later check refused
          caught,    \* whether NotifyContext takes the signals
          done,      \* whether its context is done
          signals,   \* signals sent so far
          early,     \* history: a signal was caught before the database answered Ping
          server,    \* the server goroutine
          closing,   \* whether Shutdown or Close was called
          channel,   \* serverErrors, of capacity 1
          pool,      \* the connection pool
          phase,     \* where the handler of each request is
          refused,   \* history: requests that found the pool closed
          cut        \* history: requests whose connection was broken

runVars == <<step, exit, result, blame, pool, cut>>
signalVars == <<caught, done, signals, early>>
serverVars == <<server, closing, channel>>
handlerVars == <<phase, refused>>
vars == <<env, runVars, signalVars, serverVars, handlerVars>>

cfg == Load(env)

Active == {q \in Requests : phase[q] \notin {"none", "ended"}}
Holding == {q \in Requests : phase[q] = "holding"}

Init ==
    /\ env \in Environments
    /\ step = "load" /\ exit = "running" /\ result = "ok" /\ blame = "none"
    /\ pool = "none" /\ cut = {}
    /\ caught = FALSE /\ done = FALSE /\ signals = 0 /\ early = FALSE
    /\ server = "none" /\ closing = FALSE /\ channel = "empty"
    /\ phase = [q \in Requests |-> "none"] /\ refused = {}

\* The process ends; what its handlers were doing is cut off.
Exit(how) ==
    /\ exit' = how
    /\ step' = "exit"
    /\ cut' = cut \cup Active

Goto(next) == step' = next /\ UNCHANGED <<exit, result, blame, cut>>

\* A return of run: before the pool is open, no deferred call takes time.  An
\* error may be due to the value of a variable of the environment.
Return(err, variable) ==
    /\ result' = err
    /\ blame' = variable
    /\ IF pool = "open"
       THEN step' = "close" /\ UNCHANGED <<exit, cut>>
       ELSE Exit(err)

-----------------------------------------------------------------------------
\* main: an environment that Load complains about ends the process at once.
Main ==
    /\ step = "load"
    /\ IF LoadErrors(env) = {} THEN Goto("tokens") ELSE Return("error", blame)
    /\ UNCHANGED <<env, pool, signalVars, serverVars, handlerVars>>

\* NewTokenService, and then NotifyContext.
BadToken ==
    IF cfg.JWTSecret < 32 THEN "JWT_SECRET"
    ELSE IF cfg.JWTIssuer.kind = "blank" THEN "JWT_ISSUER"
    ELSE IF cfg.JWTAudience.kind = "blank" THEN "JWT_AUDIENCE"
    ELSE "none"

NewTokenService ==
    /\ step = "tokens"
    /\ caught' = (BadToken = "none")
    /\ IF BadToken = "none"
       THEN Goto(IF cfg.RunMigrations THEN "migrate" ELSE "pool")
       ELSE Return("error", BadToken)
    /\ UNCHANGED <<env, pool, done, signals, early, serverVars, handlerVars>>

\* Migrate (module Migrations) takes no context: it does not see the signal.
BadURL == cfg.DatabaseURL.kind = "junk"
URLFailure == Return("error", IF BadURL THEN "DATABASE_URL" ELSE blame)

Migrate ==
    /\ step = "migrate"
    /\ URLFailure \/ (~BadURL /\ Goto("pool"))
    /\ UNCHANGED <<env, pool, signalVars, serverVars, handlerVars>>

\* NewPool: Ping fails when the database is down, and when the context is done.
\* Faulty variant: Ping has a context of its own.
PingInBackground == ~BadURL
PingMayWork == ~BadURL /\ ~done

NewPool ==
    /\ step = "pool"
    /\ \/ URLFailure /\ UNCHANGED pool
       \/ /\ PingMayWork
          /\ pool' = "open"
          /\ Goto(IF cfg.SeedDemoData THEN "seed" ELSE "listen")
    /\ UNCHANGED <<env, signalVars, serverVars, handlerVars>>

\* Demo (module Seed): HashPassword takes 72 bytes at most.
Demo ==
    /\ step = "seed"
    /\ \/ Return("error", IF cfg.DemoPassword > 72 THEN "DEMO_PASSWORD" ELSE blame)
       \/ cfg.DemoPassword <= 72 /\ ~done /\ Goto("listen")
    /\ UNCHANGED <<env, pool, signalVars, serverVars, handlerVars>>

\* The handler is built and the server goroutine is started.
Listen ==
    /\ step = "listen"
    /\ Goto("select")
    /\ server' = "starting"
    /\ UNCHANGED <<env, pool, signalVars, closing, channel, handlerVars>>

-----------------------------------------------------------------------------
\* select: the server has stopped by itself, or a signal has come.  When both
\* are so, either case may be taken.
ServerStopped ==
    /\ step = "select"
    /\ channel # "empty"
    /\ channel' = "empty"
    /\ Return("error", blame)
    /\ UNCHANGED <<env, pool, signalVars, server, closing, handlerVars>>

\* Faulty variant: the context is only looked at when the server has stopped.
DoneAfterServer == done /\ server \in {"stopped", "failed"}
ContextDone == done

\* stop gives the signals back to their default; Shutdown closes the listener.
Stop ==
    /\ step = "select"
    /\ ContextDone
    /\ caught' = FALSE
    /\ closing' = TRUE
    /\ Goto("shutdown")
    /\ UNCHANGED <<env, pool, done, signals, early, server, channel, handlerVars>>

\* Shutdown waits for the listener to be gone and for every request to end.
\* Faulty variant: it does not wait for the requests.
ListenerGone == server # "serving"
Drained == server # "serving" /\ Active = {}

ShutdownReturns ==
    /\ step = "shutdown"
    /\ Drained
    /\ Goto("receive")
    /\ UNCHANGED <<env, pool, signalVars, serverVars, handlerVars>>

\* Its timeout passes: Close breaks the connections of the requests.
ShutdownTimesOut ==
    /\ step = "shutdown"
    /\ step' = "close"
    /\ result' = "error"
    /\ cut' = cut \cup Active
    /\ UNCHANGED <<env, exit, blame, pool, signalVars, serverVars, handlerVars>>

\* <-serverErrors: anything but ErrServerClosed is still an error.
\* Faulty variant: whatever comes is taken for the end.
AlwaysOk(err) == "ok"
ResultOf(err) == IF err = "ErrServerClosed" THEN "ok" ELSE "error"

Receive ==
    /\ step = "receive"
    /\ channel # "empty"
    /\ channel' = "empty"
    /\ Return(ResultOf(channel), blame)
    /\ UNCHANGED <<env, pool, signalVars, server, closing, handlerVars>>

\* The deferred calls: pool.Close refuses new users and waits for those that
\* hold a connection; then stop; then main returns or exits.
ClosePool ==
    /\ step = "close"
    /\ pool = "open"
    /\ pool' = "closed"
    /\ UNCHANGED <<env, step, exit, result, blame, cut, signalVars, serverVars, handlerVars>>

\* Faulty variant: the pool is closed without waiting.
PoolRefuses == pool = "closed"
PoolClosed == pool = "closed" /\ Holding = {}

Leave ==
    /\ step = "close"
    /\ PoolClosed
    /\ caught' = FALSE
    /\ Exit(result)
    /\ UNCHANGED <<env, result, blame, pool, done, signals, early, serverVars, handlerVars>>

Run ==
    \/ Main \/ NewTokenService \/ Migrate \/ NewPool \/ Demo \/ Listen
    \/ ServerStopped \/ Stop \/ ShutdownReturns \/ ShutdownTimesOut \/ Receive
    \/ ClosePool \/ Leave

-----------------------------------------------------------------------------
\* The goroutine of ListenAndServe, which sends its error on serverErrors: the
\* listener cannot be had, is up, is closed by Shutdown, or fails later.  On an
\* unusable address it never can be had; on another, somebody else may listen.
Send(err, variable) ==
    /\ server' = IF err = "ErrServerClosed" THEN "stopped" ELSE "failed"
    /\ channel' = err
    /\ blame' = variable
    /\ UNCHANGED <<env, step, exit, result, pool, cut, signalVars, closing, handlerVars>>

BadAddr == cfg.HTTPAddr.kind = "junk"

ListenAndServe ==
    /\ exit = "running"
    /\ \/ /\ server = "starting"
          /\ Send("failure", IF BadAddr THEN AddrVariable(env) ELSE blame)
       \/ /\ server \in {"starting", "serving"} /\ closing
          /\ Send("ErrServerClosed", blame)
       \/ /\ server = "starting" /\ ~closing
          /\ ~BadAddr
          /\ server' = "serving"
          /\ UNCHANGED <<env, runVars, signalVars, closing, channel, handlerVars>>

Accepting == server = "serving" /\ ~closing /\ exit = "running"

AcceptFails == Accepting /\ Send("failure", blame)

\* A signal cancels the context while NotifyContext takes it; otherwise it
\* ends the process.
Signal ==
    /\ exit = "running"
    /\ signals < MaxSignals
    /\ signals' = signals + 1
    /\ IF caught
       THEN /\ done' = TRUE
            /\ early' = (early \/ step \in {"migrate", "pool"})
            /\ UNCHANGED <<step, exit, cut>>
       ELSE Exit("killed") /\ UNCHANGED <<done, early>>
    /\ UNCHANGED <<env, result, blame, pool, caught, serverVars, handlerVars>>

-----------------------------------------------------------------------------
\* Requests.  A connection is accepted, and dropped if no request comes on it;
\* Shutdown waits for it meanwhile.
Move(q, from, to) ==
    /\ exit = "running"
    /\ phase[q] = from
    /\ phase' = [phase EXCEPT ![q] = to]
    /\ UNCHANGED <<env, runVars, signalVars, serverVars>>

Accept(q) == Accepting /\ Move(q, "none", "new") /\ UNCHANGED refused
Drop(q) == Move(q, "new", "none") /\ UNCHANGED refused
ReadRequest(q) == Move(q, "new", "running") /\ UNCHANGED refused

\* The handler gets a connection, finds the pool closed, or needs none (its
\* deadline while it waits for one included).
\* Faulty variant: a pool without a limit.
AlwaysFree == TRUE
ConnectionFree == Cardinality(Holding) < cfg.DBMaxConns

Acquire(q) ==
    /\ pool = "open"
    /\ ConnectionFree
    /\ Move(q, "running", "holding")
    /\ UNCHANGED refused
FindPoolClosed(q) ==
    /\ pool = "closed"
    /\ Move(q, "running", "answering")
    /\ refused' = refused \cup {q}
Proceed(q) == Move(q, "running", "answering") /\ UNCHANGED refused

\* It gives the connection back, by its deadline at the latest, and answers.
Release(q) == Move(q, "holding", "answering") /\ UNCHANGED refused
Respond(q) == Move(q, "answering", "ended") /\ UNCHANGED refused

Handle(q) ==
    \/ Drop(q) \/ ReadRequest(q) \/ Acquire(q) \/ FindPoolClosed(q) \/ Proceed(q)
    \/ Release(q) \/ Respond(q)

Exited == exit # "running" /\ UNCHANGED vars

Next ==
    \/ Run \/ ListenAndServe \/ AcceptFails \/ Signal \/ Exited
    \/ \E q \in Requests : Accept(q) \/ Handle(q)

Spec == Init /\ [][Next]_vars

\* The goroutines run: run itself (Migrate returns, the timer of Shutdown
\* fires), the server, and every handler, whose deadline ends its wait for the
\* database.  Nothing is assumed of clients and signals.
FairSpec ==
    /\ Spec
    /\ WF_vars(Run) /\ WF_vars(ListenAndServe)
    /\ \A q \in Requests : WF_vars(Handle(q))

-----------------------------------------------------------------------------
\* healthcheck: the exit code of the command in the container of the process.
healthcheck ==
    IF URLParses(ProbeAddr(env)) /\ Accepting /\ Reaches(cfg.HTTPAddr, ProbeAddr(env))
    THEN 0 ELSE 1

\* Types; in particular the handlers never hold more than DB_MAX_CONNS
\* connections, and serverErrors never holds an error nobody sent.
TypeOK ==
    /\ env \in Environments
    /\ step \in {"load", "tokens", "migrate", "pool", "seed", "listen", "select",
                 "shutdown", "receive", "close", "exit"}
    /\ exit \in {"running", "ok", "error", "killed"}
    /\ result \in {"ok", "error"}
    /\ blame \in {"none", "JWT_SECRET", "JWT_ISSUER", "JWT_AUDIENCE", "DATABASE_URL",
                  "DEMO_PASSWORD", "HTTP_ADDR", "PORT"}
    /\ {caught, done, early, closing} \subseteq BOOLEAN
    /\ signals \in 0..MaxSignals
    /\ server \in {"none", "starting", "serving", "stopped", "failed"}
    /\ channel \in {"empty", "ErrServerClosed", "failure"}
    /\ pool \in {"none", "open", "closed"}
    /\ phase \in [Requests -> {"none", "new", "running", "holding", "answering", "ended"}]
    /\ refused \subseteq Requests /\ cut \subseteq Requests
    /\ pool # "none" => Cardinality(Holding) <= cfg.DBMaxConns

\* "Graceful shutdown on SIGTERM": when the process reports success, every
\* request that reached it was answered over a connection that was still open,
\* and none of them found the pool closed under it.
CleanExitIsGraceful == exit = "ok" => cut = {} /\ refused = {}

\* Whatever makes run return, no handler holds a connection of the closed pool
\* any more: pool.Close waits for the handlers, also for those whose client is
\* cut off.  (What the server does with a transaction whose statement was
\* interrupted is the matter of TransferService.)
NothingHeldAtExit == exit \in {"ok", "error"} => Holding = {}

\* A listener that failed is reported by the exit code, also when a signal
\* came at the same time and select saw only that.
FailureIsReported == server = "failed" => exit # "ok"

\* A process told to stop while it migrates, or before the database has answered
\* its first Ping, never serves.
EarlySignalPreventsServing == early => server = "none"

\* The variables whose values Load lets through although a later step cannot use
\* them: only the driver judges DATABASE_URL, only bcrypt the longest password,
\* and only net.Listen the address.
Unusable ==
    {v \in {"DATABASE_URL", "DEMO_PASSWORD", "HTTP_ADDR", "PORT"} :
        \/ v = "DATABASE_URL" /\ BadURL
        \/ v = "DEMO_PASSWORD" /\ cfg.SeedDemoData /\ cfg.DemoPassword > 72
        \/ v = AddrVariable(env) /\ BadAddr}

\* What Load accepts is refused later, with the database migrated already, only
\* for one of these four reasons: the checks of NewTokenService repeat those of
\* Load and never fail.  And a process that comes to serve has none of the four.
LateRefusalsAreKnown ==
    /\ blame # "none" => blame \in Unusable
    /\ server = "serving" => LoadErrors(env) = {} /\ Unusable = {}

\* The health check finds a server that accepts connections, whichever of
\* HTTP_ADDR and PORT sets the address; with two exceptions, and in these it never
\* does: on port 0 the server listens elsewhere, and a port named as a service
\* (":http") is good for a listener and not for a URL.
ProbeFindsServer ==
    LET port == cfg.HTTPAddr.value.port IN
    Accepting => (healthcheck = 0 <=> port.digits /\ port.number # 0)

\* Once told to stop, or without its listener, the process ends: no wait of
\* run, of pool.Close or on serverErrors is for ever.
ProcessEnds == signals > 0 \/ channel # "empty" ~> exit # "running"
=============================================================================
