\* A node that codes its body though it was offered identity only.
SPECIFICATION Spec
CONSTANTS
    Base <- MCBase
    MaxPathAndQuery = 2
    Calls = {c1}
    Requests <- MCRequests
    Responses <- MCResponses
    MaxBodyBytes = 2
    UsizeMax = 4
    PubKey = "sidecar"
    NodeHonours = FALSE
    MaxClock = 1
    Unset = Unset
    NoRequest = NoRequest
    NoResponse = NoResponse
INVARIANT SignedIsPlaintext
