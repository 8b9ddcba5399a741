SPECIFICATION ChainSpec
CONSTANTS
    SentIDs = {"trace", "too long"}
    ValidIDs = {"trace"}
    None = None
INVARIANTS
    LogMatchesResponse
    PanicsAreAnswered
