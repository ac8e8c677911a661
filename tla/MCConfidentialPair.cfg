\* Two concurrent calls, one possibly a replay of the other.
SPECIFICATION FairSpec
CONSTANTS
    Base <- MCBase
    MaxPathAndQuery = 2
    MaxFieldSection = 1
    Calls = {c1, c2}
    Requests <- PairRequests
    Responses <- PairResponses
    Encs <- MCEncs
    Nonces = {n1, n2}
    MinEnvelope = 1
    MaxRequestBytes = 2
    MaxResponseBytes = 2
    MaxBatchSize = 2
    MaxClock = 1
    NoRequest = NoRequest
    NoResponse = NoResponse
    NoNonce = NoNonce
INVARIANTS NodeUntouched KeyUsedOnce AnswerBindsExchange TimestampFollowsResult
PROPERTIES CompletesOnceCollected ImplementsNodeCall
