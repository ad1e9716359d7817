CONSTANTS
    MaxRequests = 2
    MaxSessions = 3
SPECIFICATION FairSpec
INVARIANTS
    TypeOK
    SessionInUse
    TokensMatch
PROPERTIES
    RequestReturns
    PollsForEver
