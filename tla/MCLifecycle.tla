---------------------------- MODULE MCLifecycle ----------------------------
(***************************************************************************)
(* An instance of Lifecycle for TLC.                                       *)
(***************************************************************************)
EXTENDS Lifecycle

\* Only the required variables are set.
Defaults ==
    [HTTP_ADDR |-> Blank, PORT |-> Blank, DATABASE_URL |-> Value("postgres"),
     JWT_SECRET |-> Value(32), JWT_ISSUER |-> Blank, JWT_AUDIENCE |-> Blank,
     LOG_LEVEL |-> Blank, DB_MAX_CONNS |-> Blank, REQUEST_TIMEOUT |-> Blank,
     SHUTDOWN_TIMEOUT |-> Blank, RUN_MIGRATIONS |-> Blank, SEED_DEMO_DATA |-> Blank,
     DEMO_PASSWORD |-> 0]

\* One connection for all requests; with and without migrations and seed.
Small == [Defaults EXCEPT !.DB_MAX_CONNS = Value(1)]
Seeding == [Small EXCEPT !.SEED_DEMO_DATA = Value(TRUE), !.DEMO_PASSWORD = 8]
ServingEnvironments == {Small, Seeding, [Small EXCEPT !.RUN_MIGRATIONS = Value(FALSE)]}

Digits(n) == [number |-> n, digits |-> TRUE]
Name(n) == [number |-> n, digits |-> FALSE]
Addr(host, port) == Value([host |-> host, port |-> port])

\* Every variable blank, junk, at its limits and beyond.
Texts ==
    [HTTP_ADDR |-> {Blank, Junk, Addr("0.0.0.0", Digits(80)), Addr("127.0.0.1", Digits(80)),
                    Addr("", Digits(MaxPort)), Addr("", Digits(0)), Addr("0.0.0.0", Name(80))},
     PORT |-> {Blank, Junk, Value(Digits(3000)), Value(Digits(0)), Value(Name(80))},
     DATABASE_URL |-> {Blank, Junk},
     JWT_SECRET |-> {Blank, Junk, Value(31), Value(33)},
     JWT_ISSUER |-> {Value("me")},
     LOG_LEVEL |-> {Junk, Value("warn")},
     DB_MAX_CONNS |-> {Junk, Value(-1), Value(0), Value(MaxInt32)},
     REQUEST_TIMEOUT |-> {Junk, Value(0), Value(1)},
     SHUTDOWN_TIMEOUT |-> {Junk, Value(0), Value(1)},
     RUN_MIGRATIONS |-> {Junk, Value(FALSE)},
     SEED_DEMO_DATA |-> {Junk, Value(FALSE)},
     DEMO_PASSWORD |-> {0, 7, 8, 72, 73}]

\* One variable at a time differs, with the seed and without; and both of those
\* that set the address.
VariedEnvironments ==
    UNION {{[e EXCEPT ![v] = t] : e \in {Defaults, Seeding}, t \in Texts[v]} : v \in DOMAIN Texts}
    \cup {[Defaults EXCEPT !.HTTP_ADDR = a, !.PORT = p] : a \in Texts.HTTP_ADDR, p \in Texts.PORT}

AllEnvironments == ServingEnvironments \cup VariedEnvironments
=============================================================================
