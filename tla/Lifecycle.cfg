SPECIFICATION FairSpec
CONSTANTS
    Requests = {q1, q2}
    Environments <- AllEnvironments
    MaxSignals = 2
INVARIANTS
    TypeOK
    CleanExitIsGraceful
    NothingHeldAtExit
    FailureIsReported
    EarlySignalPreventsServing
    LateRefusalsAreKnown
    ProbeFindsServer
PROPERTY ProcessEnds
