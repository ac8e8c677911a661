\* Two chains; timestamps of two bits, the clock before the epoch, in range and over it.
SPECIFICATION Spec
CONSTANTS
    ChainIds = {"1", "2"}
    Bodies = {"1", "{}"}
    Digest <- MCDigest
    HashLen = 2
    TimeLen = 2
    Radix = 2
    Clocks <- MCClocks
    MaxSignatures = 2
INVARIANT SignatureBinds
