--------------------------- MODULE FieldSections ----------------------------
(***************************************************************************)
(* check_field_sections of confidential/inner.rs: the walk over the framed *)
(* bytes of an inner request that bounds its two field sections before     *)
(* bhttp decodes them.                                                     *)
(*                                                                         *)
(* The numbers of the encoding are constants, so that bytes can be few: a  *)
(* byte has ByteValues values, and the quotient of a varint's first byte   *)
(* by PrefixUnit gives its width, the remainder its leading digit.         *)
(***************************************************************************)
EXTENDS Naturals, Sequences

CONSTANTS
    ByteValues,        \* 256 in the code
    PrefixUnit,        \* 64
    ControlStrings,    \* 4: method, scheme, authority, path
    MaxFieldSection,   \* MAX_FIELD_SECTION_BYTES
    NoLimit            \* u64::MAX

ASSUME SectionsAssumption ==
    /\ ByteValues \in Nat /\ PrefixUnit \in 1..ByteValues
    /\ ControlStrings \in Nat \ {0} /\ MaxFieldSection \in Nat
    /\ NoLimit \in Nat

(* 1 << e                                                                  *)
Shl1[e \in Nat] == IF e = 0 THEN 1 ELSE 2 * Shl1[e - 1]

VarintWidth(first) == Shl1[first \div PrefixUnit]

(* The sections in order: whether one must be there, and its limit.        *)
Sections ==
    [i \in 1..ControlStrings |-> [required |-> TRUE, limit |-> NoLimit]]
      \o <<[required |-> FALSE, limit |-> MaxFieldSection],
           [required |-> FALSE, limit |-> NoLimit],
           [required |-> FALSE, limit |-> MaxFieldSection]>>

(* take_varint of a rest that is not empty and holds the whole varint: the *)
(* value after its first byte and i more.                                  *)
VarintUpTo(rest) ==
    LET value[i \in 0..(VarintWidth(rest[1]) - 1)] ==
          IF i = 0 THEN rest[1] % PrefixUnit ELSE value[i - 1] * ByteValues + rest[i + 1]
    IN  value

VarintValue(rest) == VarintUpTo(rest)[VarintWidth(rest[1]) - 1]

AfterVarint(rest) == SubSeq(rest, VarintWidth(rest[1]) + 1, Len(rest))

Go(rest) == [verdict |-> "go", rest |-> rest]

Stop(verdict) == [verdict |-> verdict, rest |-> << >>]

(* Mutant of Section: a section exactly at its limit is refused.           *)
SectionExclusive(walk, s) ==
    LET rest == walk.rest
    IN  IF walk.verdict # "go" THEN walk
        ELSE IF rest = << >> THEN IF s.required THEN Stop("bad-request") ELSE Stop("ok")
        ELSE IF \/ Len(rest) < VarintWidth(rest[1])
                \/ VarintValue(rest) >= s.limit
                \/ VarintValue(rest) > Len(AfterVarint(rest)) THEN Stop("bad-request")
        ELSE Go(SubSeq(AfterVarint(rest), VarintValue(rest) + 1, Len(AfterVarint(rest))))

(* One turn of either loop: take_varint, the limit, skip.                  *)
Section(walk, s) ==
    LET rest == walk.rest
    IN  IF walk.verdict # "go" THEN walk
        ELSE IF rest = << >> THEN IF s.required THEN Stop("bad-request") ELSE Stop("ok")
        ELSE IF \/ Len(rest) < VarintWidth(rest[1])
                \/ VarintValue(rest) > s.limit
                \/ VarintValue(rest) > Len(AfterVarint(rest)) THEN Stop("bad-request")
        ELSE Go(SubSeq(AfterVarint(rest), VarintValue(rest) + 1, Len(AfterVarint(rest))))

(* The walk after k sections.                                              *)
Walk(framed) ==
    LET walk[k \in 0..Len(Sections)] ==
          IF k = 0 THEN Go(framed) ELSE Section(walk[k - 1], Sections[k])
    IN  walk

CheckFieldSections(framed) == Walk(framed)[Len(Sections)].verdict \in {"go", "ok"}

=============================================================================
