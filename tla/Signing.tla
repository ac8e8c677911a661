------------------------------ MODULE Signing -------------------------------
(***************************************************************************)
(* What a signature covers (signing.rs): the chain, both bodies and the    *)
(* time, each in its slot of one pre-image.  Sidecars of one application   *)
(* that serve different chains hold the same key, so the pre-image alone   *)
(* keeps their signatures apart.                                           *)
(*                                                                         *)
(* Bytes have Radix values.  Hashing is symbolic: Digest maps equal texts  *)
(* to equal digests and, being collision-free, only those.                 *)
(***************************************************************************)
EXTENDS Integers, FiniteSets

CONSTANTS
    ChainIds, Bodies,   \* texts that are hashed
    Digest,             \* sha256
    HashLen,            \* length of a digest, 32 in the code
    TimeLen,            \* length of a timestamp, 8 in the code
    Radix,              \* values of a byte, 256 in the code
    Clocks,             \* milliseconds since 1970 the clock may show
    MaxSignatures       \* bound on how many are issued

Digests == [1..HashLen -> 0..(Radix - 1)]

ASSUME SigningAssumption ==
    /\ HashLen \in Nat /\ TimeLen \in Nat /\ Radix \in Nat \ {0, 1}
    /\ Digest \in [ChainIds \cup Bodies -> Digests]
    /\ \A x, y \in ChainIds \cup Bodies : Digest[x] = Digest[y] => x = y
    /\ Clocks \subseteq Int
    /\ MaxSignatures \in Nat

-----------------------------------------------------------------------------

ReqHashOffset == HashLen

RespHashOffset == ReqHashOffset + HashLen

TimestampOffset == RespHashOffset + HashLen

PreImageLen == TimestampOffset + TimeLen

(* The weight of digit n: Radix to the power n.                            *)
Weight[n \in Nat] == IF n = 0 THEN 1 ELSE Radix * Weight[n - 1]

TimeLimit == Weight[TimeLen]

(* u64::to_le_bytes.                                                       *)
ToLeBytes(t) == [i \in 1..TimeLen |-> (t \div Weight[i - 1]) % Radix]

(* build_pre_image: four slots, the time as bytes.                         *)
BuildPreImage(chain, request, response, time) ==
    [i \in 1..PreImageLen |->
        IF i <= ReqHashOffset THEN chain[i]
        ELSE IF i <= RespHashOffset THEN request[i - ReqHashOffset]
        ELSE IF i <= TimestampOffset THEN response[i - RespHashOffset]
        ELSE time[i - TimestampOffset]]

-----------------------------------------------------------------------------

VARIABLES
    clock,    \* the system clock
    issued    \* signatures: the pre-image, and what it was made from

vars == <<clock, issued>>

(* Mutant of NowMs: the milliseconds are cut to the width of a timestamp.  *)
NowMsWraps(t) == t >= 0

(* now_ms is Ok: not before the epoch, and within the width.               *)
NowMs(t) == t >= 0 /\ t < TimeLimit

Init == clock \in Clocks /\ issued = {}

ClockMoves ==
    /\ clock' \in Clocks \ {clock}
    /\ UNCHANGED issued

(* SigningState::sign, for the sidecar of one chain.                       *)
Sign(chain, request, response) ==
    /\ Cardinality(issued) < MaxSignatures
    /\ NowMs(clock)
    /\ issued' = issued \cup
         {[pre |-> BuildPreImage(Digest[chain], Digest[request], Digest[response],
                                 ToLeBytes(clock)),
           chain |-> chain, request |-> request, response |-> response, at |-> clock]}
    /\ UNCHANGED clock

Next ==
    \/ ClockMoves
    \/ \E chain \in ChainIds, q, r \in Bodies : Sign(chain, q, r)

Spec == Init /\ [][Next]_vars

-----------------------------------------------------------------------------

(* SignatureBinds: two signatures over one pre-image are for one chain,    *)
(* one request, one response and one reading of the clock: none verifies   *)
(* for another chain or exchange, bodies cannot be swapped, and a clock    *)
(* out of range is refused, not folded into the width of the timestamp.    *)
SignatureBinds ==
    \A s, t \in issued : s.pre = t.pre => s = t

=============================================================================
