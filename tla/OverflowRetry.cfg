SPECIFICATION ApiSpec
CONSTANTS
    MaxInt64 = 2
    MaxDescription = 255
    Currencies = {"PEN", "USD"}
    CurrencyCodes = {"PEN", "USD"}
    None = None
    NoUser = ""
    r1 = r1
    r2 = r2
    r3 = r3
    Requests <- TwoRequests
    Accounts <- TwoAccounts
    Opening <- FullOpening
    Owner <- TwoOwners
    Currency <- TwoCurrencies
    Users <- MCUsers
    KeyTexts = {"k", "K", " K ", "l", "junk"}
    Keys = {"k", "l"}
    UUIDOf <- MCUUIDOf
    Trimmed <- MCTrimmed
    Messages <- RepeatMessages
    Calls <- RepeatCalls
    MaxConns = 2
INVARIANT RetriesAreReplayed
