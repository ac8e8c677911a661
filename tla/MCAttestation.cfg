\* Three concurrent callers, two of which may send the same nonce.
SPECIFICATION Spec
CONSTANTS
    NonceBytes = 1
    ChainIdMaxLen = 3
    Calls = {c1, c2, c3}
    Queries <- MCQueries
    Missing = Missing
    PubKey <- MCPubKey
    Infos <- MCInfos
    AllowEmpty = FALSE
    NoInfo = NoInfo
INVARIANTS TypeOK QuoteIsOwn ComposeConsistent
SYMMETRY CallSymmetry
