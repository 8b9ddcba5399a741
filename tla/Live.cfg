SPECIFICATION LiveSpec
CONSTANTS
    MaxInt64 = 3
    MaxDescription = 255
    Currencies = {"PEN", "USD"}
    CurrencyCodes = {"PEN", "USD"}
    None = None
    NoUser = ""
    r1 = r1
    r2 = r2
    d1 = d1
    d2 = d2
    Requests <- TwoRequests
    Readers <- OneReader
    Accounts <- ThreeAccounts
    Opening <- MCOpening
    Owner <- MCOwner
    Currency <- MCCurrency
    Users <- MCUsers
    KeyTexts = {"k", "l"}
    Keys = {"k", "l"}
    UUIDOf <- MCUUIDOf
    Calls <- MCCalls
    Gets <- FewGets
    MaxConns = 2
PROPERTIES
    EverybodyIsAnswered
    LocksAreReleased
