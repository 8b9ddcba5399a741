SPECIFICATION Spec
CONSTANTS
    MaxInt64 = 2
    MaxDescription = 255
    Currencies = {"PEN", "USD"}
    CurrencyCodes = {"PEN", "USD"}
    None = None
    NoUser = ""
    r1 = r1
    r2 = r2
    r3 = r3
    Requests <- ThreeRequests
    Accounts <- FourAccounts
    Opening <- PairOpening
    Owner <- PairOwners
    Currency <- PairCurrencies
    Users <- MCUsers
    KeyTexts = {"k", "K", "l"}
    Keys = {"k", "l"}
    UUIDOf <- MCUUIDOf
    Calls <- MCCalls
    MaxConns = 3
SYMMETRY Symmetry
INVARIANTS
    TypeOK
    OneTransferPerKey
    DecisionStillValid
    AnswersAreStored
    ConflictIsVisible
    StatementsAreChained
    NoDeadlock
PROPERTY ImplementsBank
