\* A node that is itself a sidecar.
SPECIFICATION Spec
CONSTANTS
    Base <- MCBase
    MaxPathAndQuery = 2
    Calls = {c1}
    Requests <- MCRequests
    Responses <- SidecarResponses
    MaxBodyBytes = 2
    UsizeMax = 4
    PubKey = "sidecar"
    NodeHonours = TRUE
    MaxClock = 1
    Unset = Unset
    NoRequest = NoRequest
    NoResponse = NoResponse
INVARIANT OnePubkey
