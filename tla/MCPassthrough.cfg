\* Two concurrent calls: every request, response and failure, at the cap and around it.
SPECIFICATION FairSpec
CONSTANTS
    Base <- MCBase
    MaxPathAndQuery = 2
    Calls = {c1, c2}
    Requests <- MCRequests
    Responses <- MCResponses
    MaxBodyBytes = 2
    UsizeMax = 4
    PubKey = "sidecar"
    NodeHonours = TRUE
    MaxClock = 1
    Unset = Unset
    NoRequest = NoRequest
    NoResponse = NoResponse
INVARIANTS TypeOK VerifiesAtClient SignedIsPlaintext LimitsExact
PROPERTIES EndsIfNodeAnswers ForwardsOnce
