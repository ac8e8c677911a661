---------------------------- MODULE InnerRequest ----------------------------
(***************************************************************************)
(* The decrypted inner request of /confidential: which plaintexts are      *)
(* accepted, with which error the others are refused, and how many calls a *)
(* body counts for (confidential/inner.rs).                                *)
(*                                                                         *)
(* A plaintext is a record of what the checks look at:                     *)
(*   framing   first byte, or "none" when the plaintext is empty           *)
(*   parses    the section lengths fit the bytes and bhttp decodes them    *)
(*   headers, trailers   declared lengths of the two field sections        *)
(*   method    "token", "CONNECT" or "invalid"                             *)
(*   path      its leading bytes, whether it has a '#', length, validity   *)
(*   fields    the header fields in order                                  *)
(*   body      its length, and what the JSON counter finds in it           *)
(***************************************************************************)
EXTENDS Origin, Sequences

CONSTANT MaxFieldSection   \* MAX_FIELD_SECTION_BYTES

ASSUME InnerAssumption == MaxFieldSection \in Nat

Paths == [lead : {"/", "//", "other"}, fragment : BOOLEAN, len : Nat, valid : BOOLEAN]

Fields == [name : {"content-type", "accept", "pseudo", "other"}, valid : BOOLEAN]

(* elements: what visit_seq counts when the first JSON value is an array   *)
(* that parses.                                                            *)
Bodies == [len : Nat, array : BOOLEAN, parses : BOOLEAN, elements : Nat]

Plaintexts == [framing : {"known-length request", "other", "none"},
               parses : BOOLEAN, headers : Nat, trailers : Nat,
               method : {"token", "CONNECT", "invalid"},
               path : Paths, fields : Seq(Fields), body : Bodies]

-----------------------------------------------------------------------------

CheckFieldSections(p) ==
    /\ p.headers <= MaxFieldSection
    /\ p.trailers <= MaxFieldSection

InnerMethod(p) == p.method = "token"

InnerPath(p) ==
    /\ p.path.lead = "/"
    /\ ~p.path.fragment
    /\ p.path.len <= MaxPathAndQuery

Named(p, name) == {i \in DOMAIN p.fields : p.fields[i].name = name}

InnerFields(p) ==
    /\ Named(p, "pseudo") = {}
    /\ \A i, j \in Named(p, "content-type") : i = j
    /\ \A i \in Named(p, "content-type") \cup Named(p, "accept") : p.fields[i].valid

WellFormed(p) ==
    /\ p.framing = "known-length request"
    /\ CheckFieldSections(p)
    /\ p.parses
    /\ InnerMethod(p)
    /\ InnerPath(p)
    /\ InnerFields(p)

DecodeInner(p) ==
    IF ~WellFormed(p) THEN "bad-request"
    ELSE IF p.body.len > 0 /\ Named(p, "content-type") = {}
    THEN "unsupported-media-type"
    ELSE "ok"

(* An empty array, and an array that does not parse, count as one call.    *)
BatchSize(b) ==
    IF b.array /\ b.parses /\ b.elements > 0 THEN b.elements ELSE 1

=============================================================================
