SPECIFICATION FairSpec
CONSTANTS
    Setups <- MCSetups
    Token <- MCToken
    MaxPayload = 40
    MaxRecords = 1
    MaxBatch = 20
    MaxSessions = 1
INVARIANTS
    AnsweredInKind
    TokenFirst
    ZstdOnlyIfAsked
    PayloadsAgree
PROPERTY RequestsAnswered
CHECK_DEADLOCK FALSE
