-------------------------- MODULE MCFieldSections ---------------------------
(***************************************************************************)
(* FieldSections against the encoding: a message is written section by     *)
(* section, with every width a length may have, and the walk is asked      *)
(* about every beginning of what was written.                              *)
(***************************************************************************)
EXTENDS FieldSections

CONSTANTS
    MaxWidth,     \* largest exponent of a varint's width
    MaxLength,    \* largest length of a section
    Fillers,      \* bytes a section may consist of
    MaxPadding    \* bytes after the last section

ASSUME WriterAssumption ==
    /\ MaxWidth \in Nat /\ MaxLength \in Nat /\ MaxPadding \in Nat
    /\ Fillers \subseteq Nat

VARIABLES
    message,  \* what is written
    ends,     \* where each section ends
    lengths   \* the length of each

(* ByteValues to the k                                                     *)
Place[k \in Nat] == IF k = 0 THEN 1 ELSE ByteValues * Place[k - 1]

(* A length as a varint of width 2^w, most significant digit first.        *)
Encode(n, w) ==
    [i \in 1..Shl1[w] |->
       (IF i = 1 THEN w * PrefixUnit ELSE 0) + ((n \div Place[Shl1[w] - i]) % ByteValues)]

Fits(n, w) == n < PrefixUnit * Place[Shl1[w] - 1]

WriterInit ==
    /\ message = << >>
    /\ ends = << >>
    /\ lengths = << >>

WriteSection ==
    /\ Len(ends) < Len(Sections)
    /\ \E n \in 0..MaxLength, w \in 0..MaxWidth, b \in Fillers :
         /\ Fits(n, w)
         /\ message' = message \o Encode(n, w) \o [i \in 1..n |-> b]
         /\ lengths' = Append(lengths, n)
         /\ ends' = Append(ends, Len(message'))

WritePadding ==
    /\ Len(ends) = Len(Sections)
    /\ Len(message) < ends[Len(ends)] + MaxPadding
    /\ message' = Append(message, 0)
    /\ UNCHANGED <<ends, lengths>>

WriterNext == WriteSection \/ WritePadding

WriterSpec == WriterInit /\ [][WriterNext]_<<message, ends, lengths>>

Within(k) == \A i \in 1..k : lengths[i] <= Sections[i].limit

(* Cut after n bytes, the message is whole up to a section from which on   *)
(* sections may be missing, and its field sections are within the limit.   *)
Acceptable(n) ==
    \/ \E k \in ControlStrings..Len(ends) : ends[k] = n /\ Within(k)
    \/ Len(ends) = Len(Sections) /\ n >= ends[Len(ends)] /\ Within(Len(ends))

(* SectionsBounded: check_field_sections accepts exactly the messages,     *)
(* truncated as RFC 9292 allows or padded, whose header and trailer        *)
(* sections are within MAX_FIELD_SECTION_BYTES, however their lengths are  *)
(* encoded; a message cut anywhere else is refused.                        *)
SectionsBounded ==
    \A n \in 0..Len(message) : CheckFieldSections(SubSeq(message, 1, n)) <=> Acceptable(n)

=============================================================================
