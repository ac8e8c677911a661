\* Every text over the classes of characters; every message of four sections, cut anywhere.
SPECIFICATION ParserSpec
CONSTANTS
    Alphabet = {"0", "a", "A", "x", "X", " ", "wide space", "wide letter", "control"}
    MaxText = 6
    NonceBytes = 1
    ChainIdMaxLen = 3
    ByteValues = 8
    PrefixUnit = 2
    ControlStrings = 1
    MaxFieldSection = 2
    NoLimit = 100000
    MaxWidth = 2
    MaxLength = 3
    Fillers = {0, 7}
    MaxPadding = 1
INVARIANTS NonceAsWritten ChainIdCanonical SectionsBounded
CHECK_DEADLOCK FALSE
