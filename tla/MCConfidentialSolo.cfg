\* One call, every request and response the checks tell apart.
SPECIFICATION Spec
CONSTANTS
    Base <- MCBase
    MaxPathAndQuery = 2
    MaxFieldSection = 1
    Calls = {c1}
    Requests <- SoloRequests
    Responses <- SoloResponses
    Encs <- MCEncs
    Nonces = {n1, n2}
    MinEnvelope = 1
    MaxRequestBytes = 2
    MaxResponseBytes = 2
    MaxBatchSize = 2
    MaxClock = 2
    NoRequest = NoRequest
    NoResponse = NoResponse
    NoNonce = NoNonce
INVARIANTS TypeOK VerdictsJustified BufferedWithinCaps LogTellsOutcome
