------------------------------- MODULE Inputs -------------------------------
(***************************************************************************)
(* The two texts the sidecar reads: the nonce of /attestation              *)
(* (attestation.rs) and the chain id of the command line (signing.rs),     *)
(* as operators.  A text is a sequence of characters, one or a few for     *)
(* each class the code tells apart.                                        *)
(***************************************************************************)
EXTENDS Naturals, Sequences, FiniteSets, FiniteSetsExt

CONSTANTS
    NonceBytes,      \* length of a nonce, 32 in the code
    ChainIdMaxLen    \* CHAIN_ID_MAX_LEN

HexDigits == {"0", "1", "a", "A"}

White == {" ", "wide space"}

Graphic == HexDigits \cup {"x", "X"}

(* Characters of two bytes.                                                *)
Wide == {"wide space", "wide letter"}

Characters == Graphic \cup White \cup Wide \cup {"control"}

ASSUME InputsAssumption ==
    /\ NonceBytes \in Nat /\ ChainIdMaxLen \in Nat

(* Result: what an operation that may fail returns.                        *)
Rejected == [ok |-> FALSE]

Accepted(v) == [ok |-> TRUE, value |-> v]

-----------------------------------------------------------------------------

Trim(s) ==
    LET kept == {i \in DOMAIN s : s[i] \notin White}
    IN  IF kept = {} THEN << >> ELSE SubSeq(s, Min(kept), Max(kept))

(* Mutant of TrimStartMatches: the characters of the prefix, not the       *)
(* prefix, are removed.                                                    *)
TrimStartChars(s, p) ==
    LET kept == {i \in DOMAIN s : \A j \in DOMAIN p : s[i] # p[j]}
    IN  IF kept = {} THEN << >> ELSE SubSeq(s, Min(kept), Len(s))

(* str::trim_start_matches removes the prefix as often as it is there.     *)
TrimStartMatches(s, p) ==
    LET times == {k \in 0..Len(s) : /\ k * Len(p) <= Len(s)
                                    /\ \A i \in 1..(k * Len(p)) :
                                         s[i] = p[((i - 1) % Len(p)) + 1]}
    IN  SubSeq(s, Max(times) * Len(p) + 1, Len(s))

Nibble(d) == CASE d = "0" -> 0 [] d = "1" -> 1 [] OTHER -> 10

(* hex::decode of a text of hex digits of even length.                     *)
HexDecode(s) ==
    [i \in 1..(Len(s) \div 2) |-> 16 * Nibble(s[2 * i - 1]) + Nibble(s[2 * i])]

IsHex(s) == Len(s) % 2 = 0 /\ \A i \in DOMAIN s : s[i] \in HexDigits

ParseUserNonce(s) ==
    LET trimmed == TrimStartMatches(TrimStartMatches(Trim(s), <<"0", "x">>), <<"0", "X">>)
    IN  IF IsHex(trimmed) /\ Len(trimmed) = 2 * NonceBytes
        THEN Accepted(HexDecode(trimmed))
        ELSE Rejected

(* str::len counts bytes.                                                  *)
ByteLen(s) == Len(s) + Cardinality({i \in DOMAIN s : s[i] \in Wide})

(* Mutant of ValidateChainId: the id is validated without its whitespace   *)
(* and returned with it.                                                   *)
ValidateUntrimmed(text) ==
    LET s == Trim(text)
    IN  IF s # << >> /\ ByteLen(s) <= ChainIdMaxLen /\ \A i \in DOMAIN s : s[i] \in Graphic
        THEN Accepted(text)
        ELSE Rejected

ValidateChainId(text) ==
    LET s == Trim(text)
    IN  IF s # << >> /\ ByteLen(s) <= ChainIdMaxLen /\ \A i \in DOMAIN s : s[i] \in Graphic
        THEN Accepted(s)
        ELSE Rejected

=============================================================================
