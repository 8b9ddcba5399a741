--------------------------- MODULE LifecycleProofs ---------------------------
(***************************************************************************)
(* Theorems about Lifecycle, for any environments, any number of requests  *)
(* and any number of signals.                                              *)
(*                                                                         *)
(* The inductive invariant says what run can rely on at each of its steps: *)
(* which of pool, server and requests exist, and that success is decided   *)
(* only when the requests are gone and none can come any more.  Configured *)
(* adds what each step has found out about the environment, and Bounded    *)
(* counts the connections of the pool.                                     *)
(***************************************************************************)
EXTENDS Lifecycle, FiniteSetTheorems, TLAPS

Phases == {"none", "new", "running", "holding", "answering", "ended"}

Stages ==
    /\ exit = "running" <=> step # "exit"
    /\ step \in {"load", "tokens", "migrate", "pool"} => pool = "none" /\ server = "none"
    /\ step \in {"seed", "listen"} => pool = "open" /\ server = "none"
    /\ step \in {"select", "shutdown", "receive"} => pool = "open"
    /\ step \in {"shutdown", "receive"} => closing
    /\ step \notin {"close", "exit"} => cut = {} /\ result = "ok"
    /\ result \in {"ok", "error"}
    /\ pool # "closed" => refused = {}
    /\ pool = "none" => Holding = {}
    /\ channel = "ErrServerClosed" => server = "stopped"

\* Nothing is left to do for anybody, and nothing can come.
Finished == closing /\ Active = {} /\ cut = {} /\ refused = {} /\ server = "stopped"

Endings ==
    /\ step = "receive" => Active = {}
    /\ step = "close" /\ result = "ok" => Finished
    /\ exit = "ok" => cut = {} /\ refused = {} /\ server = "stopped"
    /\ exit \in {"ok", "error"} => Holding = {}

EarlyStop == early => done /\ server = "none" /\ step \in {"migrate", "pool", "exit"}

IInv == phase \in [Requests -> Phases] /\ Stages /\ Endings /\ EarlyStop

\* Demo is asked to hash more than bcrypt takes.
LongPassword == cfg.SeedDemoData /\ cfg.DemoPassword > 72

\* What the steps so far have found out about the environment.
Configured ==
    /\ step \in {"tokens", "migrate", "pool"} \/ pool # "none" => LoadErrors(env) = {}
    /\ pool # "none" => ~BadURL
    /\ server # "none" => pool # "none"
    /\ step = "seed" => cfg.SeedDemoData
    /\ step = "listen" \/ server # "none" => ~LongPassword
    /\ server = "serving" => ~BadAddr
    /\ blame # "none" => blame \in Unusable

\* The pool and its limit.
Bounded ==
    /\ IsFiniteSet(Holding)
    /\ pool # "none" => Cardinality(Holding) <= cfg.DBMaxConns

-----------------------------------------------------------------------------
\* Where no handler moves, the same ones are active and hold a connection.
LEMMA SameRequests ==
    ASSUME UNCHANGED phase PROVE Active' = Active /\ Holding' = Holding
  BY DEF Active, Holding

\* run up to the start of the server.
LEMMA StartingSteps ==
    ASSUME IInv, Main \/ NewTokenService \/ Migrate \/ NewPool \/ Demo \/ Listen
    PROVE  IInv'
  <1>0. UNCHANGED <<phase, refused, channel, closing>> /\ Active' = Active /\ Holding' = Holding
    BY SameRequests DEF Main, NewTokenService, Migrate, NewPool, Demo, Listen,
       handlerVars, serverVars
  <1> USE DEF IInv, Stages, Endings, EarlyStop
  <1>1. CASE Main
    BY <1>0, <1>1 DEF Main, Goto, Return, Exit, signalVars, serverVars, handlerVars, Finished
  <1>2. CASE NewTokenService
    BY <1>0, <1>2 DEF NewTokenService, Goto, Return, Exit, signalVars, serverVars, handlerVars, Finished
  <1>3. CASE Migrate
    BY <1>0, <1>3 DEF Migrate, URLFailure, Goto, Return, Exit, signalVars, serverVars, handlerVars, Finished
  <1>4. CASE NewPool
    BY <1>0, <1>4 DEF NewPool, URLFailure, PingMayWork, Goto, Return, Exit, signalVars, serverVars, handlerVars, Finished
  <1>5. CASE Demo
    BY <1>0, <1>5 DEF Demo, Goto, Return, Exit, signalVars, serverVars, handlerVars, Finished
  <1>6. CASE Listen
    BY <1>0, <1>6 DEF Listen, Goto, signalVars, handlerVars, Finished
  <1> QED BY <1>1, <1>2, <1>3, <1>4, <1>5, <1>6

\* run from the select on.
LEMMA StoppingSteps ==
    ASSUME IInv, \/ ServerStopped \/ Stop \/ ShutdownReturns \/ ShutdownTimesOut
                 \/ Receive \/ ClosePool \/ Leave
    PROVE  IInv'
  <1>0. UNCHANGED <<phase, refused, server>> /\ Active' = Active /\ Holding' = Holding
    BY SameRequests DEF ServerStopped, Stop, ShutdownReturns, ShutdownTimesOut, Receive,
       ClosePool, Leave, handlerVars, serverVars
  <1> USE DEF IInv, Stages, Endings, EarlyStop, Finished
  <1>1. CASE ServerStopped
    BY <1>0, <1>1 DEF ServerStopped, Return, Exit, signalVars
  <1>2. CASE Stop
    BY <1>0, <1>2 DEF Stop, Goto
  <1>3. CASE ShutdownReturns
    BY <1>0, <1>3 DEF ShutdownReturns, Drained, Goto, signalVars, serverVars
  <1>4. CASE ShutdownTimesOut
    BY <1>0, <1>4 DEF ShutdownTimesOut, signalVars, serverVars
  <1>5. CASE Receive
    BY <1>0, <1>5 DEF Receive, ResultOf, Return, Exit, signalVars
  <1>6. CASE ClosePool
    BY <1>0, <1>6 DEF ClosePool, signalVars, serverVars
  <1>7. CASE Leave
    BY <1>0, <1>7 DEF Leave, PoolClosed, Exit, serverVars
  <1> QED BY <1>1, <1>2, <1>3, <1>4, <1>5, <1>6, <1>7

\* The server goroutine and the signals.
LEMMA OutsideSteps ==
    ASSUME IInv, ListenAndServe \/ AcceptFails \/ Signal
    PROVE  IInv'
  <1>0. UNCHANGED <<phase, refused, pool, closing, result>>
        /\ Active' = Active /\ Holding' = Holding
    BY SameRequests DEF ListenAndServe, AcceptFails, Send, Signal, handlerVars, serverVars, runVars
  <1> USE DEF IInv, Stages, Endings, EarlyStop, Finished
  <1>1. CASE ListenAndServe
    BY <1>0, <1>1 DEF ListenAndServe, Send, runVars, signalVars
  <1>2. CASE AcceptFails
    BY <1>0, <1>2 DEF AcceptFails, Accepting, Send, runVars, signalVars
  <1>3. CASE Signal
    <2>1. CASE caught
      <3>1. /\ early' => early \/ step \in {"migrate", "pool"}
            /\ done' /\ UNCHANGED <<step, exit, cut, server, channel>>
        BY <1>3, <2>1 DEF Signal, serverVars
      <3>2. EarlyStop'
        BY <3>1
      <3>3. Stages' /\ Endings'
        BY <3>1, <1>0
      <3> QED BY <3>2, <3>3, <1>0
    <2>2. CASE ~caught
      BY <1>0, <1>3, <2>2 DEF Signal, Exit, serverVars
    <2> QED BY <2>1, <2>2
  <1> QED BY <1>1, <1>2, <1>3

\* A request comes, or its handler goes on: not when the server is finished.
LEMMA RequestSteps ==
    ASSUME IInv, NEW q \in Requests, Accept(q) \/ Handle(q)
    PROVE  IInv'
  <1>0. UNCHANGED <<runVars, signalVars, serverVars>> /\ exit = "running"
    BY DEF Accept, Handle, Drop, ReadRequest, Acquire, FindPoolClosed, Proceed, Release,
       Respond, Move
  <1>1. phase' \in [Requests -> Phases]
    <2>1. PICK to \in Phases : phase' = [phase EXCEPT ![q] = to]
      BY DEF Phases, Accept, Handle, Drop, ReadRequest, Acquire, FindPoolClosed, Proceed, Release,
         Respond, Move
    <2> QED BY <2>1 DEF IInv
  <1>2. step # "receive" /\ ~(step = "close" /\ result = "ok")
    <2>1. CASE Accept(q)
      BY <2>1 DEF IInv, Stages, Endings, Finished, Accept, Accepting
    <2>2. CASE Handle(q)
      <3>1. q \in Active
        BY <2>2 DEF Handle, Drop, ReadRequest, Acquire, FindPoolClosed, Proceed, Release,
           Respond, Move, Active
      <3> QED BY <3>1 DEF IInv, Endings, Finished
    <2> QED BY <2>1, <2>2
  <1>3. pool = "none" => Holding' = {}
    <2>1. CASE Acquire(q)
      BY <2>1 DEF Acquire
    <2>2. CASE Accept(q) \/ (Handle(q) /\ ~Acquire(q))
      <3>1. PICK to \in {"none", "new", "running", "answering", "ended"} :
              phase' = [phase EXCEPT ![q] = to]
        BY <2>2 DEF Accept, Handle, Drop, ReadRequest, FindPoolClosed, Proceed, Release,
           Respond, Move
      <3>2. Holding' \subseteq Holding
        BY <3>1 DEF Holding, IInv
      <3> QED BY <3>2 DEF IInv, Stages
    <2> QED BY <2>1, <2>2
  <1>4. pool # "closed" => refused' = refused
    BY DEF Accept, Handle, Drop, ReadRequest, Acquire, FindPoolClosed, Proceed, Release, Respond
  <1>5. Stages'
    BY <1>0, <1>3, <1>4 DEF IInv, Stages, runVars, serverVars
  <1>6. Endings' /\ EarlyStop'
    BY <1>0, <1>2 DEF IInv, Endings, EarlyStop, runVars, signalVars, serverVars
  <1> QED BY <1>1, <1>5, <1>6 DEF IInv

\* The invariant holds from start to exit.
THEOREM Invariance == Spec => []IInv
  <1>1. Init => IInv
    <2> SUFFICES ASSUME Init PROVE IInv
      OBVIOUS
    <2>1. phase \in [Requests -> Phases] /\ Active = {} /\ Holding = {}
      <3>1. phase = [q \in Requests |-> "none"]
        BY DEF Init
      <3>2. \A q \in Requests : phase[q] = "none"
        BY <3>1
      <3>3. phase \in [Requests -> Phases]
        BY <3>1 DEF Phases
      <3>4. Active = {} /\ Holding = {}
        BY <3>2 DEF Active, Holding
      <3> QED BY <3>3, <3>4
    <2> QED BY <2>1 DEF Init, IInv, Stages, Endings, EarlyStop
  <1>2. IInv /\ [Next]_vars => IInv'
    <2> SUFFICES ASSUME IInv, [Next]_vars PROVE IInv'
      OBVIOUS
    <2>1. CASE UNCHANGED vars
      <3>1. Active' = Active /\ Holding' = Holding
        BY <2>1, SameRequests DEF vars, handlerVars
      <3> QED BY <2>1, <3>1 DEF vars, runVars, signalVars, serverVars, handlerVars, IInv,
              Stages, Endings, EarlyStop, Finished
    <2>2. CASE Exited
      BY <2>1, <2>2 DEF Exited
    <2> QED BY <2>1, <2>2, StartingSteps, StoppingSteps, OutsideSteps, RequestSteps DEF Next, Run
  <1> QED BY <1>1, <1>2, PTL DEF Spec

-----------------------------------------------------------------------------
\* What an environment that Load accepts is good for.
LEMMA LoadAccepts ==
    ASSUME NEW e, LoadErrors(e) = {}
    PROVE  ~BadSecret(e.JWT_SECRET) /\ ~BadMaxConns(e.DB_MAX_CONNS)
  BY DEF LoadErrors

\* NewTokenService takes what Load lets through.
LEMMA TokenServiceAccepts ==
    ASSUME LoadErrors(env) = {} PROVE BadToken = "none"
  <1>1. ~(cfg.JWTSecret < 32)
    BY LoadAccepts DEF BadSecret, cfg, Load
  <1>2. cfg.JWTIssuer.kind # "blank" /\ cfg.JWTAudience.kind # "blank"
    BY DEF cfg, Load, withDefault, Value
  <1> QED BY <1>1, <1>2 DEF BadToken

\* DB_MAX_CONNS, its default included, leaves the pool at least one connection.
LEMMA PoolHasASize ==
    ASSUME env \in Environments, LoadErrors(env) = {} PROVE cfg.DBMaxConns \in Nat \ {0}
  <1>1. ~BadMaxConns(env.DB_MAX_CONNS)
    BY LoadAccepts
  <1>2. env.DB_MAX_CONNS.kind \in {"blank", "junk", "value"}
    BY LifecycleAssumption
  <1>3. cfg.DBMaxConns = withDefault(env.DB_MAX_CONNS, 20).value
    BY DEF cfg, Load
  <1>4. \A n \in 1..MaxInt32 : n \in Nat \ {0}
    OBVIOUS
  <1> QED BY <1>1, <1>2, <1>3, <1>4 DEF withDefault, Value, BadMaxConns

\* The members of Unusable, one by one.
LEMMA UnusableNames ==
    /\ BadURL => "DATABASE_URL" \in Unusable
    /\ LongPassword => "DEMO_PASSWORD" \in Unusable
    /\ BadAddr => AddrVariable(env) \in Unusable
    /\ ~BadURL /\ ~LongPassword /\ ~BadAddr => Unusable = {}
    /\ Unusable \subseteq {"DATABASE_URL", "DEMO_PASSWORD", "HTTP_ADDR", "PORT"}
  BY DEF Unusable, LongPassword, AddrVariable

\* No step changes the environment.
LEMMA EnvironmentStays == [Next]_vars => env' = env
  BY DEF Next, Run, Main, NewTokenService, Migrate, NewPool, Demo, Listen, ServerStopped, Stop,
     ShutdownReturns, ShutdownTimesOut, Receive, ClosePool, Leave, ListenAndServe, AcceptFails,
     Send, Signal, Exited, Accept, Handle, Drop, ReadRequest, Acquire, FindPoolClosed, Proceed,
     Release, Respond, Move, vars

\* What is known of the environment stays known.
LEMMA ConfiguredStep ==
    ASSUME IInv, Configured, env \in Environments, [Next]_vars
    PROVE  Configured'
  <1>0. env' = env
    BY Zenon, EnvironmentStays
  <1>e. /\ LoadErrors(env)' = LoadErrors(env) /\ cfg' = cfg /\ Unusable' = Unusable
        /\ (BadURL' <=> BadURL) /\ (BadAddr' <=> BadAddr) /\ (LongPassword' <=> LongPassword)
    BY Zenon, <1>0 DEF cfg, BadURL, BadAddr, LongPassword, Unusable, AddrVariable
  <1>u. /\ BadURL => "DATABASE_URL" \in Unusable
        /\ LongPassword => "DEMO_PASSWORD" \in Unusable
        /\ BadAddr => AddrVariable(env) \in Unusable
    BY Zenon, UnusableNames
  <1>p. cfg.DemoPassword \in Nat
    BY LifecycleAssumption DEF cfg, Load
  <1>s. Stages
    BY DEF IInv
  <1> USE DEF Configured, Stages
  <1>1. CASE Main
    BY <1>e, <1>s, <1>1 DEF Main, Goto, Return, Exit, serverVars
  <1>2. CASE NewTokenService
    BY <1>e, <1>s, <1>2, TokenServiceAccepts DEF NewTokenService, Goto, serverVars
  <1>3. CASE Migrate
    BY <1>e, <1>s, <1>u, <1>3 DEF Migrate, URLFailure, Goto, Return, Exit, serverVars
  <1>4. CASE NewPool
    BY <1>e, <1>s, <1>u, <1>4 DEF NewPool, URLFailure, PingMayWork, Goto, Return, Exit, serverVars,
       LongPassword
  <1>5. CASE Demo
    BY <1>e, <1>s, <1>u, <1>p, <1>5 DEF Demo, Goto, Return, Exit, serverVars, LongPassword
  <1>6. CASE Listen
    BY <1>e, <1>s, <1>6 DEF Listen, Goto
  <1>7. CASE ServerStopped \/ Receive
    BY <1>e, <1>s, <1>7 DEF ServerStopped, Receive, Return, Exit
  <1>8. CASE Stop \/ ShutdownReturns \/ ShutdownTimesOut \/ ClosePool \/ Leave
    BY <1>e, <1>s, <1>8 DEF Stop, ShutdownReturns, ShutdownTimesOut, ClosePool, Leave, Goto, Exit,
       serverVars
  <1>9. CASE ListenAndServe \/ AcceptFails
    BY <1>e, <1>u, <1>9 DEF ListenAndServe, AcceptFails, Accepting, Send, runVars
  <1>10. CASE Signal
    BY <1>e, <1>10 DEF Signal, Exit, serverVars
  <1>11. CASE UNCHANGED <<runVars, serverVars>>
    BY <1>e, <1>11 DEF runVars, serverVars
  <1>12. ASSUME NEW q \in Requests, Accept(q) \/ Handle(q) PROVE Configured'
    BY <1>11, <1>12 DEF Accept, Handle, Drop, ReadRequest, Acquire, FindPoolClosed, Proceed,
       Release, Respond, Move
  <1>13. CASE Exited \/ UNCHANGED vars
    BY <1>11, <1>13 DEF Exited, vars
  <1> HIDE DEF Configured, Stages
  <1> QED BY <1>1, <1>2, <1>3, <1>4, <1>5, <1>6, <1>7, <1>8, <1>9, <1>10, <1>12, <1>13 DEF Next, Run

\* Acquire hands out a connection only while the pool has one left.
LEMMA BoundedStep ==
    ASSUME IInv, Configured, Configured', Bounded, env \in Environments, [Next]_vars
    PROVE  Bounded'
  <1>0. env' = env /\ cfg' = cfg
    BY Zenon, EnvironmentStays DEF cfg
  <1>1. pool' # "none" => cfg.DBMaxConns \in Nat \ {0}
    BY <1>0, PoolHasASize DEF Configured
  <1>2. Cardinality(Holding) \in Nat /\ IsFiniteSet(Holding)
    BY FS_CardinalityType DEF Bounded
  <1>3. CASE UNCHANGED phase
    <2>1. Holding' = Holding
      BY <1>3, SameRequests
    <2>2. pool = "none" => Cardinality(Holding) = 0
      BY FS_EmptySet DEF IInv, Stages
    <2> QED BY <1>0, <1>1, <1>2, <2>1, <2>2 DEF Bounded
  <1>4. ASSUME NEW q \in Requests, Accept(q) \/ Handle(q) PROVE Bounded'
    <2>0. pool' = pool /\ phase \in [Requests -> Phases]
      BY <1>4 DEF IInv, Accept, Handle, Drop, ReadRequest, Acquire, FindPoolClosed, Proceed,
         Release, Respond, Move, runVars
    <2>1. CASE Acquire(q)
      <3>1. pool = "open" /\ Cardinality(Holding) < cfg.DBMaxConns /\ phase' = [phase EXCEPT ![q] = "holding"]
        BY <2>1 DEF Acquire, ConnectionFree, Move
      <3>2. Holding' = Holding \cup {q}
        BY <2>0, <3>1 DEF Holding
      <3>3. IsFiniteSet(Holding') /\ Cardinality(Holding') <= Cardinality(Holding) + 1
        BY <1>2, <3>2, FS_AddElement
      <3>4. Cardinality(Holding') \in Nat
        BY <3>3, FS_CardinalityType
      <3> QED BY <1>0, <1>1, <1>2, <2>0, <3>1, <3>3, <3>4 DEF Bounded
    <2>2. CASE ~Acquire(q)
      <3>1. PICK to \in {"none", "new", "running", "answering", "ended"} :
              phase' = [phase EXCEPT ![q] = to]
        BY <1>4, <2>2 DEF Accept, Handle, Drop, ReadRequest, FindPoolClosed, Proceed, Release,
           Respond, Move
      <3>2. Holding' \subseteq Holding
        BY <2>0, <3>1 DEF Holding
      <3>3. /\ IsFiniteSet(Holding') /\ Cardinality(Holding') <= Cardinality(Holding)
            /\ Cardinality(Holding') \in Nat
        BY <1>2, <3>2, FS_Subset, FS_CardinalityType
      <3> QED BY <1>0, <1>1, <1>2, <2>0, <3>3 DEF Bounded
    <2> QED BY <2>1, <2>2
  <1>5. ASSUME Run \/ ListenAndServe \/ AcceptFails \/ Signal \/ Exited \/ UNCHANGED vars
        PROVE  UNCHANGED phase
    BY <1>5 DEF Run, Main, NewTokenService, Migrate, NewPool, Demo, Listen, ServerStopped, Stop,
       ShutdownReturns, ShutdownTimesOut, Receive, ClosePool, Leave, ListenAndServe, AcceptFails,
       Send, Signal, Exited, vars, handlerVars
  <1> QED BY <1>3, <1>4, <1>5 DEF Next

\* The variables of run and of the signals keep their types.
LEMMA TypedStep ==
    ASSUME IInv', Configured', Bounded', TypeOK, [Next]_vars
    PROVE  TypeOK'
  <1>0. env' \in Environments /\ result' \in {"ok", "error"}
        /\ phase' \in [Requests -> Phases]
    BY EnvironmentStays DEF IInv, Stages, TypeOK
  <1>b. blame' \in {"none", "DATABASE_URL", "DEMO_PASSWORD", "HTTP_ADDR", "PORT"}
    <2>1. (Unusable \subseteq {"DATABASE_URL", "DEMO_PASSWORD", "HTTP_ADDR", "PORT"})'
      BY Zenon, UnusableNames, PTL
    <2> QED BY <2>1 DEF Configured
  <1>1. /\ step' \in {"load", "tokens", "migrate", "pool", "seed", "listen", "select",
                      "shutdown", "receive", "close", "exit"}
        /\ pool' \in {"none", "open", "closed"}
        /\ server' \in {"none", "starting", "serving", "stopped", "failed"}
        /\ channel' \in {"empty", "ErrServerClosed", "failure"}
    <2>1. CASE Run
      BY <2>1 DEF TypeOK, Run, Main, NewTokenService, Migrate, URLFailure, NewPool, Demo, Listen,
         ServerStopped, Stop, ShutdownReturns, ShutdownTimesOut, Receive, ClosePool, Leave, Goto,
         Return, Exit, serverVars
    <2>2. CASE ~Run
      BY <2>2 DEF TypeOK, Next, ListenAndServe, AcceptFails, Send, Signal, Exit, Exited, Accept,
         Handle, Drop, ReadRequest, Acquire, FindPoolClosed, Proceed, Release, Respond, Move,
         vars, runVars, serverVars
    <2> QED BY <2>1, <2>2
  <1>2. exit' \in {"running", "ok", "error", "killed"} /\ cut' \subseteq Requests
    <2>1. CASE Run
      BY <2>1 DEF TypeOK, Run, Main, NewTokenService, Migrate, URLFailure, NewPool, Demo, Listen,
         ServerStopped, Stop, ShutdownReturns, ShutdownTimesOut, Receive, ResultOf, ClosePool,
         Leave, Goto, Return, Exit, Active
    <2>2. CASE ~Run
      BY <2>2 DEF TypeOK, Next, ListenAndServe, AcceptFails, Send, Signal, Exit, Active, Exited,
         Accept, Handle, Drop, ReadRequest, Acquire, FindPoolClosed, Proceed, Release, Respond,
         Move, vars, runVars
    <2> QED BY <2>1, <2>2
  <1>3. {caught', done', early', closing'} \subseteq BOOLEAN
    BY Zenon DEF TypeOK, Next, Run, Main, NewTokenService, Migrate, NewPool, Demo, Listen,
       ServerStopped, Stop, ShutdownReturns, ShutdownTimesOut, Receive, ClosePool, Leave,
       ListenAndServe, AcceptFails, Send, Signal, Exited, Accept, Handle, Drop, ReadRequest,
       Acquire, FindPoolClosed, Proceed, Release, Respond, Move, vars, signalVars, serverVars
  <1>4. signals' \in 0..MaxSignals
    <2>1. CASE Signal
      <3>1. signals \in 0..MaxSignals /\ signals < MaxSignals /\ signals' = signals + 1
        BY Zenon, <2>1 DEF TypeOK, Signal
      <3>2. MaxSignals \in Nat
        BY Zenon, LifecycleAssumption
      <3> QED BY <3>1, <3>2
    <2>2. ASSUME ~Signal PROVE signals' = signals
      BY Zenon, <2>2 DEF Next, Run, Main, NewTokenService, Migrate, NewPool, Demo, Listen,
         ServerStopped, Stop, ShutdownReturns, ShutdownTimesOut, Receive, ClosePool, Leave,
         ListenAndServe, AcceptFails, Send, Exited, Accept, Handle, Drop, ReadRequest, Acquire,
         FindPoolClosed, Proceed, Release, Respond, Move, vars, signalVars
    <2> QED BY Zenon, <2>1, <2>2 DEF TypeOK
  <1>5. refused' \subseteq Requests
    BY DEF TypeOK, Next, Run, Main, NewTokenService, Migrate, NewPool, Demo, Listen, ServerStopped,
       Stop, ShutdownReturns, ShutdownTimesOut, Receive, ClosePool, Leave, ListenAndServe,
       AcceptFails, Send, Signal, Exited, Accept, Handle, Drop, ReadRequest, Acquire,
       FindPoolClosed, Proceed, Release, Respond, Move, vars, handlerVars
  <1> QED BY <1>0, <1>b, <1>1, <1>2, <1>3, <1>4, <1>5 DEF TypeOK, Bounded, Phases

\* All of it holds from start to exit.
LEMMA Settings == Spec => [](IInv /\ Configured /\ Bounded /\ TypeOK)
  <1>1. Init => Configured /\ Bounded /\ TypeOK
    <2> SUFFICES ASSUME Init PROVE Configured /\ Bounded /\ TypeOK
      OBVIOUS
    <2>1. phase \in [Requests -> Phases] /\ Holding = {}
      BY DEF Init, Holding, Phases
    <2>2. Configured
      BY DEF Init, Configured
    <2>3. Bounded
      BY <2>1, FS_EmptySet DEF Init, Bounded
    <2>4. {caught, done, early, closing} \subseteq BOOLEAN
      BY Zenon DEF Init
    <2>5. signals \in 0..MaxSignals
      BY LifecycleAssumption DEF Init
    <2>6. TypeOK
      BY Zenon, <2>1, <2>4, <2>5 DEF Init, TypeOK, Phases
    <2> QED BY Zenon, <2>2, <2>3, <2>6
  <1>2. /\ IInv /\ Configured /\ Bounded /\ TypeOK /\ [Next]_vars /\ IInv'
        => Configured' /\ Bounded' /\ TypeOK'
    <2> SUFFICES ASSUME IInv, Configured, Bounded, TypeOK, [Next]_vars, IInv'
                 PROVE  Configured' /\ Bounded' /\ TypeOK'
      OBVIOUS
    <2>1. env \in Environments
      BY Zenon DEF TypeOK
    <2>2. Configured'
      BY Zenon, <2>1, ConfiguredStep
    <2>3. Bounded'
      BY Zenon, <2>1, <2>2, BoundedStep
    <2> QED BY Zenon, <2>2, <2>3, TypedStep
  <1> QED BY <1>1, <1>2, Invariance, PTL DEF Spec

-----------------------------------------------------------------------------
\* A process that reports success has answered every request that reached it,
\* over a connection still open and from a pool still open.
THEOREM CleanExit == Spec => []CleanExitIsGraceful
  <1>1. IInv => CleanExitIsGraceful
    BY DEF IInv, Endings, CleanExitIsGraceful
  <1> QED BY <1>1, Invariance, PTL

\* When run has returned, with whatever result, no handler holds a connection of
\* the pool.
THEOREM NothingHeld == Spec => []NothingHeldAtExit
  <1>1. IInv => NothingHeldAtExit
    BY DEF IInv, Endings, NothingHeldAtExit
  <1> QED BY <1>1, Invariance, PTL

\* A process whose listener failed never exits with success.
THEOREM FailureReported == Spec => []FailureIsReported
  <1>1. IInv => FailureIsReported
    BY DEF IInv, Endings, FailureIsReported
  <1> QED BY <1>1, Invariance, PTL

\* A process told to stop while it migrates, or before its first Ping is answered,
\* never starts its server.
THEOREM EarlySignal == Spec => []EarlySignalPreventsServing
  <1>1. IInv => EarlySignalPreventsServing
    BY DEF IInv, EarlyStop, EarlySignalPreventsServing
  <1> QED BY <1>1, Invariance, PTL

\* Types; in particular the handlers never hold more than DB_MAX_CONNS
\* connections, whatever DB_MAX_CONNS and however many requests there are.
THEOREM TypeCorrect == Spec => []TypeOK
  BY Settings, PTL

\* Of an environment that config.Load accepts, no later step refuses anything but
\* an unusable DATABASE_URL or address and a password too long to hash, and a
\* process that has one of these never serves.
THEOREM LateRefusals == Spec => []LateRefusalsAreKnown
  <1>1. Configured => LateRefusalsAreKnown
    <2> SUFFICES ASSUME Configured PROVE LateRefusalsAreKnown
      OBVIOUS
    <2>1. server = "serving" => LoadErrors(env) = {} /\ ~BadURL /\ ~LongPassword /\ ~BadAddr
      BY DEF Configured
    <2> QED BY <2>1, UnusableNames DEF Configured, LateRefusalsAreKnown
  <1> QED BY <1>1, Settings, PTL

\* The address is junk, or a host and a port.
LEMMA AddrTyped ==
    ASSUME env \in Environments, ~BadAddr
    PROVE  /\ cfg.HTTPAddr = HTTPAddr(env) /\ cfg.HTTPAddr.kind = "value"
           /\ \E h : \E p \in Port : cfg.HTTPAddr.value = [host |-> h, port |-> p]
  <1>1. cfg.HTTPAddr = HTTPAddr(env)
    BY DEF cfg, Load
  <1>2. DefaultPort \in Port
    BY DEF DefaultPort, Port, MaxPort
  <1>3. /\ env.HTTP_ADDR.kind \in {"blank", "junk", "value"}
        /\ env.PORT.kind \in {"blank", "junk", "value"}
        /\ env.HTTP_ADDR.kind = "value" => env.HTTP_ADDR.value \in [host: STRING, port: Port]
        /\ env.PORT.kind = "value" => env.PORT.value \in Port
    BY LifecycleAssumption
  <1>4. CASE env.HTTP_ADDR.kind # "blank"
    BY <1>1, <1>3, <1>4 DEF HTTPAddr, BadAddr
  <1>5. CASE env.HTTP_ADDR.kind = "blank"
    <2>1. env.PORT.kind # "junk"
      BY <1>1, <1>5 DEF HTTPAddr, BadAddr, Junk
    <2>2. withDefault(env.PORT, DefaultPort).value \in Port
      BY <1>2, <1>3, <2>1 DEF withDefault, Value
    <2>3. cfg.HTTPAddr = Value([host |-> NoHost, port |-> withDefault(env.PORT, DefaultPort).value])
      BY <1>1, <1>5, <2>1 DEF HTTPAddr
    <2>4. /\ cfg.HTTPAddr.kind = "value"
          /\ cfg.HTTPAddr.value = [host |-> NoHost, port |-> withDefault(env.PORT, DefaultPort).value]
      BY <2>3 DEF Value
    <2> QED BY Zenon, <1>1, <2>2, <2>4
  <1> QED BY <1>4, <1>5

\* The healthcheck command finds the server wherever HTTP_ADDR and PORT put it,
\* if the port is a number other than 0, and never otherwise.
THEOREM ProbeFinds == Spec => []ProbeFindsServer
  <1>1. ASSUME Configured, env \in Environments, Accepting
        PROVE  healthcheck = 0 <=> cfg.HTTPAddr.value.port.digits /\ cfg.HTTPAddr.value.port.number # 0
    <2> DEFINE addr == cfg.HTTPAddr
    <2>0. ~BadAddr
      BY <1>1 DEF Configured, Accepting
    <2>1. addr = HTTPAddr(env) /\ addr.kind = "value"
      BY <1>1, <2>0, AddrTyped
    <2>2. PICK h, p : addr.value = [host |-> h, port |-> p]
      BY <1>1, <2>0, AddrTyped
    <2> HIDE DEF addr
    <2>3. \E t : /\ ProbeAddr(env).kind = "value" /\ ProbeAddr(env).value = [host |-> t, port |-> p]
                /\ h \in {NoHost, t}
      <3>1. CASE h = NoHost
        <4>1. ProbeAddr(env) = Value([host |-> "127.0.0.1", port |-> p])
          BY <2>1, <2>2, <3>1 DEF ProbeAddr
        <4>2. /\ ProbeAddr(env).kind = "value"
              /\ ProbeAddr(env).value = [host |-> "127.0.0.1", port |-> p]
          BY <4>1 DEF Value
        <4> QED BY Zenon, <3>1, <4>2
      <3>2. CASE h # NoHost
        <4>1. ProbeAddr(env) = addr
          BY <2>1, <2>2, <3>2 DEF ProbeAddr
        <4> QED BY <2>1, <2>2, <4>1
      <3> QED BY <3>1, <3>2
    <2>4. PICK t : /\ ProbeAddr(env).kind = "value" /\ ProbeAddr(env).value = [host |-> t, port |-> p]
                   /\ h \in {NoHost, t}
      BY <2>3
    <2>5. URLParses(ProbeAddr(env)) <=> p.digits
      BY <2>4 DEF URLParses
    <2>6. Reaches(addr, ProbeAddr(env)) <=> p.number # 0
      BY <2>1, <2>2, <2>4 DEF Reaches
    <2>7. healthcheck = 0 <=> p.digits /\ p.number # 0
      BY <1>1, <2>5, <2>6 DEF healthcheck, addr
    <2> QED BY <2>2, <2>7 DEF addr
  <1>2. Configured /\ TypeOK => ProbeFindsServer
    BY Zenon, <1>1 DEF TypeOK, ProbeFindsServer
  <1> QED BY <1>2, Settings, PTL
=============================================================================
