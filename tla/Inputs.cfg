SPECIFICATION ApiSpec
CONSTANTS
    MaxInt64 = 3
    MaxDescription = 255
    Currencies = {"PEN", "USD", "pen"}
    CurrencyCodes = {"PEN", "USD"}
    None = None
    NoUser = ""
    r1 = r1
    r2 = r2
    r3 = r3
    Requests <- TwoRequests
    Accounts <- FourAccounts
    Opening <- FourOpening
    Owner <- FourOwners
    Currency <- FourCurrencies
    Users <- MCUsers
    KeyTexts = {"k", "K", " K ", "l", "junk"}
    Keys = {"k", "l"}
    UUIDOf <- MCUUIDOf
    Trimmed <- MCTrimmed
    Messages <- InputMessages
    Calls <- InputCalls
    MaxConns = 2
SYMMETRY PairSymmetry
INVARIANTS
    ResponsesMatchTheTables
    LedgerReconciles
    MoneyConserved
    DoubleEntry
PROPERTY ImplementsBank
