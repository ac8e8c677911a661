\* The process with every border of its checks and two reused connections.
SPECIFICATION FairSpec
CONSTANTS
    Connections = {k1, k2}
    Configs <- CommandLinesMC
    Keys <- KeysMC
    Hashes <- HashesMC
    SeedLen = 2
    BatchLimit = 3
    NonceBytes = 1
    ChainIdMaxLen = 2
INVARIANTS TypeOK ServesWithIdentity GracefulExit
PROPERTIES BootEnds DrainEnds
CHECK_DEADLOCK FALSE
