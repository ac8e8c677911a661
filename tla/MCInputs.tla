------------------------------ MODULE MCInputs ------------------------------
(***************************************************************************)
(* The operators of Inputs against definitions of what they should accept. *)
(* A text grows one character at a time, so that every text up to MaxText  *)
(* is a state.                                                             *)
(***************************************************************************)
EXTENDS Inputs

CONSTANTS
    Alphabet,   \* the characters texts are made of
    MaxText     \* bound on the length of a text

ASSUME TextAssumption == Alphabet \subseteq Characters /\ MaxText \in Nat

VARIABLE text

Init == text = << >>

Type(ch) ==
    /\ Len(text) < MaxText
    /\ text' = Append(text, ch)

Next == \E ch \in Alphabet : Type(ch)

Spec == Init /\ [][Next]_text

-----------------------------------------------------------------------------
(* Properties.                                                             *)

LastDigits(s) == SubSeq(s, Len(s) - 2 * NonceBytes + 1, Len(s))

(* s is the digits of a nonce after k prefixes 0x and l prefixes 0X.       *)
Spelled(s, k, l) ==
    /\ Len(s) = 2 * (k + l) + 2 * NonceBytes
    /\ \A i \in 1..(k + l) : s[2 * i - 1] = "0" /\ s[2 * i] = IF i <= k THEN "x" ELSE "X"
    /\ \A i \in (2 * (k + l) + 1)..Len(s) : s[i] \in HexDigits

(* NonceAsWritten: inside white space a nonce is accepted exactly when it  *)
(* is its digits after any number of prefixes 0x, then 0X, and has the     *)
(* value of those digits: removing prefixes never eats into the value, nor *)
(* makes a nonce of a text that is too short (parse_user_nonce).           *)
NonceAsWritten ==
    LET s == Trim(text)
        r == ParseUserNonce(text)
    IN  /\ r.ok <=> \E k, l \in 0..Len(s) : Spelled(s, k, l)
        /\ r.ok => r.value = HexDecode(LastDigits(s))

(* NonceDocumented: what the README and the comment on parse_user_nonce    *)
(* say of the form of a nonce: its digits, with or without a prefix; any   *)
(* other text is malformed and not accepted.                               *)
NonceDocumented ==
    ParseUserNonce(text).ok =>
        \E k, l \in 0..1 : k + l <= 1 /\ Spelled(Trim(text), k, l)

(* ChainIdCanonical: a chain id is accepted exactly when, inside           *)
(* whitespace, it is a run of printable ASCII of at most the allowed       *)
(* length, and it is that run: the id that is hashed into signatures does  *)
(* not depend on how it was quoted on the command line.                    *)
ChainIdCanonical ==
    LET r == ValidateChainId(text)
        Is(i, j) == /\ j - i < ChainIdMaxLen
                    /\ \A k \in DOMAIN text :
                         text[k] \in (IF k \in i..j THEN Graphic ELSE White)
    IN  /\ r.ok <=> \E i, j \in DOMAIN text : i <= j /\ Is(i, j)
        /\ \A i, j \in DOMAIN text : i <= j /\ Is(i, j) => r = Accepted(SubSeq(text, i, j))

=============================================================================
