SPECIFICATION SeedSpec
CONSTANTS
    s1 = s1
    s2 = s2
    s3 = s3
    Starts = {s1, s2, s3}
    Password <- MCPassword
    Nothing = Nothing
    Funds = 1
INVARIANTS
    SeedIsWhole
    BalancesAreKept
    NoDeadlock
