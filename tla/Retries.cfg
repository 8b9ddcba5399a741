SPECIFICATION ApiSpec
CONSTANTS
    MaxInt64 = 3
    MaxDescription = 255
    Currencies = {"PEN", "USD"}
    CurrencyCodes = {"PEN", "USD"}
    None = None
    NoUser = ""
    r1 = r1
    r2 = r2
    r3 = r3
    Requests <- ThreeRequests
    Accounts <- TwoAccounts
    Opening <- TwoOpening
    Owner <- TwoOwners
    Currency <- TwoCurrencies
    Users <- MCUsers
    KeyTexts = {"k", "K", " K ", "l", "junk"}
    Keys = {"k", "l"}
    UUIDOf <- MCUUIDOf
    Trimmed <- MCTrimmed
    Messages <- RetryMessages
    Calls <- RetryCalls
    MaxConns = 2
SYMMETRY Symmetry
INVARIANTS
    ResponsesMatchTheTables
    RetriesAgree
    RetriesAreReplayed
