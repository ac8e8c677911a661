---------------------------- MODULE SigningProofs ---------------------------
(***************************************************************************)
(* Proofs about Signing, for every width of a digest and of a timestamp    *)
(* and every radix: the slots of the pre-image bind what was signed, and a *)
(* timestamp within its width is determined by its bytes.                  *)
(***************************************************************************)
EXTENDS Signing, NumberProofs

(* What the bytes of a signature's pre-image alone bind.                   *)
SlotsBind ==
    \A s, t \in issued : s.pre = t.pre =>
        /\ s.chain = t.chain /\ s.request = t.request /\ s.response = t.response
        /\ ToLeBytes(s.at) = ToLeBytes(t.at)

(* Every signature is over its own chain, exchange and time.               *)
Faithful(s) ==
    /\ s \in [pre : {s.pre}, chain : ChainIds, request : Bodies, response : Bodies, at : Clocks]
    /\ s.pre = BuildPreImage(Digest[s.chain], Digest[s.request], Digest[s.response],
                             ToLeBytes(s.at))
    /\ NowMs(s.at)

IInv == clock \in Clocks /\ \A s \in issued : Faithful(s)

-----------------------------------------------------------------------------
(* Positional notation.                                                    *)

LEMMA Weights ==
    /\ Weight[0] = 1
    /\ \A n \in Nat : Weight[n] \in Nat \ {0} /\ Weight[n + 1] = Radix * Weight[n]
  <1>1. Radix \in Nat \ {0}
    BY SigningAssumption
  <1>2. Weight = CHOOSE f : IsPowers(f, Radix)
    BY DEF Weight, IsPowers
  <1>3. IsPowers(Weight, Radix)
    BY <1>1, <1>2, PowersExist, Zenon
  <1> QED
    BY <1>1, <1>3, Powers

(* Two numbers below Weight[n] with the same n digits are equal.           *)
SameDigits(t, u, n) ==
    \A i \in 1..n : (t \div Weight[i - 1]) % Radix = (u \div Weight[i - 1]) % Radix

LEMMA RestBelow ==
    ASSUME NEW n \in Nat, NEW t \in Nat, t < Weight[n + 1]
    PROVE  t \div Radix \in Nat /\ t \div Radix < Weight[n]
  <1> DEFINE q == t \div Radix
             r == t % Radix
  <1>1. Radix \in Nat \ {0}
    BY SigningAssumption
  <1>2. Weight[n] \in Nat /\ Weight[n + 1] = Radix * Weight[n]
    BY Weights
  <1>3. q \in Nat /\ r \in Nat /\ t = Radix * q + r
    BY <1>1, DivMod
  <1> HIDE DEF q, r
  <1>4. ASSUME Weight[n] <= q PROVE FALSE
    <2>1. q - Weight[n] \in Nat
      BY <1>2, <1>3, <1>4
    <2>2. PICK d \in Nat : q = Weight[n] + d
      BY <1>2, <1>3, <2>1
    <2>3. Radix * q = Radix * Weight[n] + Radix * d
      BY <1>1, <1>2, <2>2
    <2>4. Radix * d \in Nat /\ Radix * Weight[n] \in Nat
      BY <1>1, <1>2
    <2> QED
      BY <1>2, <1>3, <2>3, <2>4
  <1>5. q < Weight[n]
    BY <1>2, <1>3, <1>4
  <1> QED
    BY <1>3, <1>5 DEF q

LEMMA RestDigits ==
    ASSUME NEW n \in Nat, NEW t \in Nat, NEW u \in Nat, SameDigits(t, u, n + 1)
    PROVE  t % Radix = u % Radix /\ SameDigits(t \div Radix, u \div Radix, n)
  <1>1. Radix \in Nat \ {0}
    BY SigningAssumption
  <1>2. t % Radix = u % Radix
    <2>1. 1 \in 1..(n + 1) /\ 1 - 1 = 0
      OBVIOUS
    <2>2. (t \div Weight[0]) % Radix = (u \div Weight[0]) % Radix
      BY <2>1 DEF SameDigits
    <2>3. t \div 1 = t /\ u \div 1 = u
      OBVIOUS
    <2> QED
      BY <2>2, <2>3, Weights
  <1>3. ASSUME NEW i \in 1..n
        PROVE  ((t \div Radix) \div Weight[i - 1]) % Radix
                 = ((u \div Radix) \div Weight[i - 1]) % Radix
    <2>1. i + 1 \in 1..(n + 1) /\ (i + 1) - 1 = i /\ i - 1 \in Nat /\ (i - 1) + 1 = i
      OBVIOUS
    <2>2. (t \div Weight[i]) % Radix = (u \div Weight[i]) % Radix
      BY <2>1 DEF SameDigits
    <2>3. Weight[i - 1] \in Nat \ {0} /\ Weight[i] = Radix * Weight[i - 1]
      BY <2>1, Weights
    <2>4. /\ t \div Weight[i] = (t \div Radix) \div Weight[i - 1]
          /\ u \div Weight[i] = (u \div Radix) \div Weight[i - 1]
      BY <1>1, <2>3, DivDiv
    <2> QED
      BY <2>2, <2>4
  <1> QED
    BY <1>2, <1>3 DEF SameDigits

LEMMA DigitsDetermine ==
    \A n \in Nat : \A t, u \in Nat :
        t < Weight[n] /\ u < Weight[n] /\ SameDigits(t, u, n) => t = u
  <1> DEFINE T == {n \in Nat : \A t, u \in Nat :
                      t < Weight[n] /\ u < Weight[n] /\ SameDigits(t, u, n) => t = u}
  <1>1. 0 \in T
    BY Weights
  <1>2. ASSUME NEW n \in T PROVE n + 1 \in T
    <2> SUFFICES ASSUME NEW t \in Nat, NEW u \in Nat, t < Weight[n + 1], u < Weight[n + 1],
                        SameDigits(t, u, n + 1)
                 PROVE  t = u
      OBVIOUS
    <2>1. n \in Nat /\ Radix \in Nat \ {0}
      BY SigningAssumption
    <2>2. t \div Radix = u \div Radix
      BY <2>1, RestBelow, RestDigits, Zenon
    <2>3. t % Radix = u % Radix
      BY <2>1, RestDigits, Zenon
    <2>4. /\ t = Radix * (t \div Radix) + (t % Radix)
          /\ u = Radix * (u \div Radix) + (u % Radix)
      BY <2>1, DivMod
    <2> QED
      BY <2>2, <2>3, <2>4
  <1>3. T = Nat
    <2> HIDE DEF T
    <2>1. T \in SUBSET Nat
      BY DEF T
    <2> QED
      BY <1>1, <1>2, <2>1, Induct
  <1> QED
    BY <1>3

(* Different readings within the width have different bytes.               *)
LEMMA TimeBytesDistinct ==
    ASSUME NEW t \in Clocks, NEW u \in Clocks, NowMs(t), NowMs(u), ToLeBytes(t) = ToLeBytes(u)
    PROVE  t = u
  <1>1. TimeLen \in Nat /\ t \in Int /\ u \in Int
    BY SigningAssumption
  <1>2. t \in Nat /\ u \in Nat /\ t < Weight[TimeLen] /\ u < Weight[TimeLen]
    BY <1>1 DEF NowMs, TimeLimit
  <1>3. ASSUME NEW i \in 1..TimeLen
        PROVE  (t \div Weight[i - 1]) % Radix = (u \div Weight[i - 1]) % Radix
    <2>1. ToLeBytes(t)[i] = ToLeBytes(u)[i]
      OBVIOUS
    <2> QED
      BY <2>1, Zenon DEF ToLeBytes
  <1> QED
    BY <1>1, <1>2, <1>3, DigitsDetermine, Zenon DEF SameDigits

-----------------------------------------------------------------------------

(* A pre-image has every slot in its place: it can be read back.           *)
LEMMA Slots ==
    ASSUME NEW a, NEW b, NEW d, NEW t
    PROVE  /\ \A i \in 1..HashLen :
                /\ BuildPreImage(a, b, d, t)[i] = a[i]
                /\ BuildPreImage(a, b, d, t)[ReqHashOffset + i] = b[i]
                /\ BuildPreImage(a, b, d, t)[RespHashOffset + i] = d[i]
           /\ \A i \in 1..TimeLen : BuildPreImage(a, b, d, t)[TimestampOffset + i] = t[i]
  <1> DEFINE pre == BuildPreImage(a, b, d, t)
  <1>1. HashLen \in Nat /\ TimeLen \in Nat
    BY SigningAssumption
  <1>2. ASSUME NEW i \in 1..HashLen PROVE pre[i] = a[i]
    BY <1>1 DEF BuildPreImage, PreImageLen, TimestampOffset, RespHashOffset, ReqHashOffset
  <1>3. ASSUME NEW i \in 1..HashLen PROVE pre[ReqHashOffset + i] = b[i]
    BY <1>1 DEF BuildPreImage, PreImageLen, TimestampOffset, RespHashOffset, ReqHashOffset
  <1>4. ASSUME NEW i \in 1..HashLen PROVE pre[RespHashOffset + i] = d[i]
    BY <1>1 DEF BuildPreImage, PreImageLen, TimestampOffset, RespHashOffset, ReqHashOffset
  <1>5. ASSUME NEW i \in 1..TimeLen PROVE pre[TimestampOffset + i] = t[i]
    BY <1>1 DEF BuildPreImage, PreImageLen, TimestampOffset, RespHashOffset, ReqHashOffset
  <1> QED
    BY <1>2, <1>3, <1>4, <1>5

(* Digests that agree byte by byte are equal.                              *)
LEMMA DigestsEqual ==
    ASSUME NEW f \in Digests, NEW g \in Digests, \A i \in 1..HashLen : f[i] = g[i]
    PROVE  f = g
  <1>1. f = [i \in 1..HashLen |-> f[i]] /\ g = [i \in 1..HashLen |-> g[i]]
    BY DEF Digests
  <1> QED
    BY <1>1

-----------------------------------------------------------------------------

(* The pre-image of a faithful signature, slot by slot.                    *)
LEMMA FaithfulSlots ==
    ASSUME NEW s, Faithful(s)
    PROVE  /\ s.chain \in ChainIds /\ s.request \in Bodies /\ s.response \in Bodies
           /\ Digest[s.chain] \in Digests /\ Digest[s.request] \in Digests
           /\ Digest[s.response] \in Digests
           /\ \A i \in 1..HashLen : /\ s.pre[i] = Digest[s.chain][i]
                                    /\ s.pre[ReqHashOffset + i] = Digest[s.request][i]
                                    /\ s.pre[RespHashOffset + i] = Digest[s.response][i]
           /\ \A i \in 1..TimeLen : s.pre[TimestampOffset + i] = ToLeBytes(s.at)[i]
  <1>1. s.chain \in ChainIds /\ s.request \in Bodies /\ s.response \in Bodies
    BY DEF Faithful
  <1>2. /\ Digest[s.chain] \in Digests /\ Digest[s.request] \in Digests
        /\ Digest[s.response] \in Digests
    BY <1>1, SigningAssumption
  <1>3. s.pre = BuildPreImage(Digest[s.chain], Digest[s.request], Digest[s.response],
                              ToLeBytes(s.at))
    BY DEF Faithful
  <1>4. /\ \A i \in 1..HashLen : /\ s.pre[i] = Digest[s.chain][i]
                                 /\ s.pre[ReqHashOffset + i] = Digest[s.request][i]
                                 /\ s.pre[RespHashOffset + i] = Digest[s.response][i]
        /\ \A i \in 1..TimeLen : s.pre[TimestampOffset + i] = ToLeBytes(s.at)[i]
    BY <1>3, Slots
  <1> QED
    BY <1>1, <1>2, <1>4, Zenon

(* Equal pre-images of faithful signatures are over one chain, exchange    *)
(* and reading of the clock, up to its bytes.                              *)
LEMMA FaithfulBinds ==
    ASSUME NEW s, NEW t, Faithful(s), Faithful(t), s.pre = t.pre
    PROVE  /\ s.chain = t.chain /\ s.request = t.request /\ s.response = t.response
           /\ ToLeBytes(s.at) = ToLeBytes(t.at)
  <1>1. Digest[s.chain] = Digest[t.chain]
    BY FaithfulSlots, DigestsEqual
  <1>2. Digest[s.request] = Digest[t.request]
    BY FaithfulSlots, DigestsEqual
  <1>3. Digest[s.response] = Digest[t.response]
    BY FaithfulSlots, DigestsEqual
  <1>4. s.chain = t.chain /\ s.request = t.request /\ s.response = t.response
    <2>1. /\ s.chain \in ChainIds /\ s.request \in Bodies /\ s.response \in Bodies
          /\ t.chain \in ChainIds /\ t.request \in Bodies /\ t.response \in Bodies
      BY FaithfulSlots
    <2> QED
      BY <1>1, <1>2, <1>3, <2>1, SigningAssumption
  <1>5. \A i \in 1..TimeLen : ToLeBytes(s.at)[i] = ToLeBytes(t.at)[i]
    BY FaithfulSlots
  <1>6. ToLeBytes(s.at) = ToLeBytes(t.at)
    BY <1>5 DEF ToLeBytes
  <1> QED
    BY <1>4, <1>6

LEMMA InitIInv == Init => IInv
  BY SigningAssumption DEF Init, IInv

LEMMA NextIInv == IInv /\ [Next]_vars => IInv'
  <1> SUFFICES ASSUME IInv, [Next]_vars PROVE IInv'
    OBVIOUS
  <1>1. CASE ClockMoves
    BY <1>1, SigningAssumption DEF IInv, ClockMoves
  <1>2. ASSUME NEW chain \in ChainIds, NEW q \in Bodies, NEW r \in Bodies, Sign(chain, q, r)
        PROVE  IInv'
    <2> DEFINE pre == BuildPreImage(Digest[chain], Digest[q], Digest[r], ToLeBytes(clock))
               new == [pre |-> pre, chain |-> chain, request |-> q, response |-> r, at |-> clock]
    <2>1. clock \in Clocks /\ NowMs(clock) /\ issued' = issued \cup {new} /\ clock' = clock
      BY <1>2 DEF Sign, IInv
    <2>2. pre = BuildPreImage(Digest[chain], Digest[q], Digest[r], ToLeBytes(clock))
      OBVIOUS
    <2> HIDE DEF pre
    <2>3. Faithful(new)
      BY <2>1, <2>2 DEF Faithful
    <2> HIDE DEF new
    <2> QED
      BY <2>1, <2>3 DEF IInv
  <1>3. CASE UNCHANGED vars
    BY <1>3 DEF IInv, vars
  <1> QED
    BY <1>1, <1>2, <1>3 DEF Next

THEOREM Invariance == Spec => []IInv
  BY InitIInv, NextIInv, PTL DEF Spec

(* A signature is for one chain, one request and one response: whatever    *)
(* the widths, none verifies for another chain or exchange.                *)
THEOREM BindsSlots == Spec => []SlotsBind
  <1>1. IInv => SlotsBind
    BY FaithfulBinds, Zenon DEF IInv, SlotsBind
  <1> QED
    BY <1>1, Invariance, PTL

(* ... nor for another reading of the clock: one pre-image, one signature. *)
THEOREM Binds == Spec => []SignatureBinds
  <1>1. IInv => SignatureBinds
    <2> SUFFICES ASSUME IInv, NEW s \in issued, NEW t \in issued, s.pre = t.pre PROVE s = t
      BY DEF SignatureBinds
    <2>1. Faithful(s) /\ Faithful(t)
      BY DEF IInv
    <2>2. /\ s.chain = t.chain /\ s.request = t.request /\ s.response = t.response
          /\ ToLeBytes(s.at) = ToLeBytes(t.at)
      BY <2>1, FaithfulBinds, Zenon
    <2>3. s.at \in Clocks /\ t.at \in Clocks /\ NowMs(s.at) /\ NowMs(t.at)
      BY <2>1 DEF Faithful
    <2>4. s.at = t.at
      BY <2>2, <2>3, TimeBytesDistinct, Zenon
    <2> QED
      BY <2>1, <2>2, <2>4 DEF Faithful
  <1> QED
    BY <1>1, Invariance, PTL

=============================================================================
