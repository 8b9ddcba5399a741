------------------------------- MODULE Config -------------------------------
(***************************************************************************)
(* config.Load (internal/config): the settings of a process, read from its *)
(* environment.                                                            *)
(*                                                                         *)
(* A text is the value of a variable after TrimSpace: blank, junk (it does *)
(* not parse) or the value it parses to.  A secret and a password are      *)
(* their lengths in bytes, a duration is a number of seconds.  A port is   *)
(* its number, and whether it is written in digits or as the name of a     *)
(* service; an address is a host and a port.                               *)
(***************************************************************************)
EXTENDS Integers

Blank == [kind |-> "blank"]
Junk == [kind |-> "junk"]
Value(v) == [kind |-> "value", value |-> v]

MaxInt32 == 2147483647
MaxPort == 65535
Port == [number: 0..MaxPort, digits: BOOLEAN]
DefaultPort == [number |-> 8080, digits |-> TRUE]
NoHost == ""  \* in an address that is only a port

withDefault(text, fallback) == IF text.kind = "blank" THEN Value(fallback) ELSE text

\* An unusable text is reported, and leaves the fallback in place.
boolean(text, fallback) == IF text.kind = "value" THEN text.value ELSE fallback

BadDuration(text) == text.kind = "junk" \/ (text.kind = "value" /\ text.value <= 0)

BadMaxConns(text) ==
    text.kind = "junk" \/ (text.kind = "value" /\ text.value \notin 1..MaxInt32)

\* HTTPAddr: HTTP_ADDR before PORT before :8080.  It is junk when no listener
\* can be had on it; nothing is checked here.
HTTPAddr(env) ==
    IF env.HTTP_ADDR.kind # "blank" THEN env.HTTP_ADDR
    ELSE IF env.PORT.kind = "junk" THEN Junk
    ELSE Value([host |-> NoHost, port |-> withDefault(env.PORT, DefaultPort).value])

SeedDemoData(env) == boolean(env.SEED_DEMO_DATA, FALSE)

\* Faulty variant: a shorter key is let through.
BadSecretUnder16(text) == text.kind # "value" \/ text.value < 16
BadSecret(text) == text.kind # "value" \/ text.value < 32

\* The variables Load complains about, all of them at once.
LoadErrors(env) ==
    LET rejected ==
        [DATABASE_URL |-> env.DATABASE_URL.kind = "blank",
         JWT_SECRET |-> BadSecret(env.JWT_SECRET),
         LOG_LEVEL |-> withDefault(env.LOG_LEVEL, "info").kind = "junk",
         DB_MAX_CONNS |-> BadMaxConns(env.DB_MAX_CONNS),
         REQUEST_TIMEOUT |-> BadDuration(env.REQUEST_TIMEOUT),
         SHUTDOWN_TIMEOUT |-> BadDuration(env.SHUTDOWN_TIMEOUT),
         RUN_MIGRATIONS |-> env.RUN_MIGRATIONS.kind = "junk",
         SEED_DEMO_DATA |-> env.SEED_DEMO_DATA.kind = "junk",
         DEMO_PASSWORD |-> SeedDemoData(env) /\ env.DEMO_PASSWORD < 8]
    IN {v \in DOMAIN rejected : rejected[v]}

\* The settings Load returns, when it has nothing to complain about.
Load(env) ==
    [HTTPAddr |-> HTTPAddr(env),
     DatabaseURL |-> env.DATABASE_URL,
     JWTSecret |-> env.JWT_SECRET.value,
     JWTIssuer |-> withDefault(env.JWT_ISSUER, "bankmonitoring"),
     JWTAudience |-> withDefault(env.JWT_AUDIENCE, "bankmonitoring-api"),
     DBMaxConns |-> withDefault(env.DB_MAX_CONNS, 20).value,
     RunMigrations |-> boolean(env.RUN_MIGRATIONS, TRUE),
     SeedDemoData |-> SeedDemoData(env),
     DemoPassword |-> env.DEMO_PASSWORD]

\* Which variable the address comes from.
AddrVariable(env) == IF env.HTTP_ADDR.kind # "blank" THEN "HTTP_ADDR" ELSE "PORT"

\* Where the healthcheck command of the same container looks for the server.
\* Faulty variant: the default port.
DefaultProbe(env) == Value([host |-> "127.0.0.1", port |-> DefaultPort])
ProbeAddr(env) ==
    LET addr == HTTPAddr(env) IN
    IF addr.kind = "value" /\ addr.value.host = NoHost
    THEN Value([addr.value EXCEPT !.host = "127.0.0.1"])
    ELSE addr

\* NewRequest: the address as part of a URL, in which a port has digits only.
URLParses(addr) == addr.kind = "value" /\ addr.value.port.digits

\* A server that listens on addr can be reached at target: a listener without
\* a host, or on 0.0.0.0, takes connections on every address.  For port 0 the
\* system picks another, which target does not know.
Reaches(addr, target) ==
    /\ addr.kind = "value" /\ target.kind = "value"
    /\ addr.value.port = target.value.port /\ addr.value.port.number # 0
    /\ addr.value.host \in {NoHost, "0.0.0.0", target.value.host}
=============================================================================
