\* Two queries besides those of the start-up, an update, and every end of a session.
SPECIFICATION FairSpec
CONSTANTS
    MaxQueries = 4
    MaxPending = 2
    MaxUpdates = 1
    MaxResponses = 3
    Racy = TRUE
INVARIANTS
    TypeOK
    NoLostQuery
    NoLeakedHandler
PROPERTIES
    AbortsOnlyOnEnding
    ImplementsQueryService
    GetIsAnswered
    CloseReturns
CHECK_DEADLOCK FALSE
