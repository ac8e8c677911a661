\* Texts long enough for a nonce of one byte behind two prefixes.
SPECIFICATION Spec
CONSTANTS
    Alphabet = {"0", "a", "x", "X", " "}
    MaxText = 6
    NonceBytes = 1
    ChainIdMaxLen = 3
INVARIANT NonceDocumented
CHECK_DEADLOCK FALSE
