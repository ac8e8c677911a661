\* A base URL without a scheme.
SPECIFICATION Spec
CONSTANTS
    Base <- AuthorityBase
    MaxPathAndQuery = 2
    Calls = {c1}
    Requests <- MCRequests
    Responses <- MCResponses
    MaxBodyBytes = 2
    UsizeMax = 4
    PubKey = "sidecar"
    NodeHonours = TRUE
    MaxClock = 1
    Unset = Unset
    NoRequest = NoRequest
    NoResponse = NoResponse
INVARIANT NoSilent500s
