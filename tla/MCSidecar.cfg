\* The process with one passthrough and one confidential call in it.
SPECIFICATION FairSpec
CONSTANTS
    Base <- MCBase
    MaxPathAndQuery = 2
    MaxFieldSection = 1
    MaxClock = 1
    NoRequest = NoRequest
    NoResponse = NoResponse
    NoNonce = NoNonce
    ProxyCalls = {proxied}
    ProxyRequests <- ProxyRequestsMC
    ProxyResponses <- ProxyResponsesMC
    MaxBodyBytes = Unset
    UsizeMax = 1
    PubKey = "sidecar"
    NodeHonours = TRUE
    Unset = Unset
    ConfidentialCalls = {sealing}
    ConfidentialRequests <- ConfidentialRequestsMC
    ConfidentialResponses <- ConfidentialResponsesMC
    Encs <- EncsMC
    Nonces = {n1}
    MinEnvelope = 1
    MaxRequestBytes = 1
    MaxResponseBytes = 1
    MaxBatchSize = 1
    Configs <- ConfigsMC
    Keys <- KeysMC
    Hashes <- HashesMC
    SeedLen = 2
    BatchLimit = 3
    NonceBytes = 1
    ChainIdMaxLen = 2
INVARIANT NothingLost
PROPERTY DrainEnds
CHECK_DEADLOCK FALSE
