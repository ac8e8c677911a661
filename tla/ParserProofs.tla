---------------------------- MODULE ParserProofs ----------------------------
(***************************************************************************)
(* Proofs about the parsers of client input. First Inputs, for texts of    *)
(* every length and every limit: what parse_user_nonce and                 *)
(* validate_chain_id accept, and as what. Then FieldSections, for every    *)
(* message a writer produces, whatever the lengths, widths and limits:     *)
(* which prefixes check_field_sections lets through.                       *)
(***************************************************************************)
EXTENDS MCInputs, MCFieldSections, NumberProofs, FiniteSetTheorems


IInv == text \in Seq(Characters)

(* The characters of s that trim keeps the ends of.                        *)
Kept(s) == {i \in DOMAIN s : s[i] \notin White}

(* Is of ChainIdCanonical, for any text.                                   *)
Printed(s, i, j) ==
    /\ j - i < ChainIdMaxLen
    /\ \A k \in DOMAIN s : s[k] \in (IF k \in i..j THEN Graphic ELSE White)

-----------------------------------------------------------------------------
(* Least and greatest positions.                                           *)

LEMMA MinIs ==
    ASSUME NEW T \in SUBSET Nat, T # {}
    PROVE  Min(T) \in T /\ \A y \in T : Min(T) <= y
  BY WellOrdered, Zenon DEF Min

LEMMA MaxIs ==
    ASSUME NEW T \in SUBSET Nat, T # {}, NEW b \in Nat, \A x \in T : x <= b
    PROVE  Max(T) \in T /\ \A y \in T : y <= Max(T)
  BY Greatest, Zenon DEF Max

LEMMA KeptBounds ==
    ASSUME NEW s \in Seq(Characters), Kept(s) # {}
    PROVE  /\ Min(Kept(s)) \in Kept(s) /\ Max(Kept(s)) \in Kept(s)
           /\ \A k \in Kept(s) : Min(Kept(s)) <= k /\ k <= Max(Kept(s))
           /\ Min(Kept(s)) \in 1..Len(s) /\ Max(Kept(s)) \in 1..Len(s)
           /\ Min(Kept(s)) <= Max(Kept(s))
  <1>1. Kept(s) \in SUBSET Nat /\ Kept(s) \subseteq 1..Len(s) /\ Len(s) \in Nat
    BY DEF Kept
  <1>2. \A x \in Kept(s) : x <= Len(s)
    BY <1>1
  <1>3. Min(Kept(s)) \in Kept(s) /\ \A y \in Kept(s) : Min(Kept(s)) <= y
    BY <1>1, MinIs, Zenon
  <1>4. Max(Kept(s)) \in Kept(s) /\ \A y \in Kept(s) : y <= Max(Kept(s))
    BY <1>1, <1>2, MaxIs, Zenon
  <1> QED
    BY <1>1, <1>3, <1>4, Zenon

(* What trim returns.                                                      *)
LEMMA TrimIs ==
    ASSUME NEW s
    PROVE  Trim(s) = IF Kept(s) = {} THEN << >> ELSE SubSeq(s, Min(Kept(s)), Max(Kept(s)))
  BY Zenon DEF Trim, Kept

LEMMA Part ==
    ASSUME NEW s \in Seq(Characters), NEW i \in 1..Len(s), NEW j \in 1..Len(s), i <= j
    PROVE  /\ SubSeq(s, i, j) \in Seq(Characters)
           /\ Len(SubSeq(s, i, j)) = j - i + 1
           /\ \A k \in 1..(j - i + 1) : SubSeq(s, i, j)[k] = s[i + k - 1]
           /\ SubSeq(s, i, j) # << >>
  OBVIOUS

LEMMA TrimType ==
    ASSUME NEW s \in Seq(Characters)
    PROVE  Trim(s) \in Seq(Characters)
  <1>1. CASE Kept(s) = {}
    <2>1. Trim(s) = << >>
      BY <1>1, TrimIs, Zenon
    <2> QED
      BY <2>1
  <1>2. CASE Kept(s) # {}
    <2>1. Trim(s) = SubSeq(s, Min(Kept(s)), Max(Kept(s)))
      BY <1>2, TrimIs, Zenon
    <2> QED
      BY <1>2, <2>1, KeptBounds, Part, Zenon
  <1> QED
    BY <1>1, <1>2

(* Printable ASCII takes one byte a character.                             *)
LEMMA GraphicBytes ==
    ASSUME NEW s \in Seq(Characters), \A i \in DOMAIN s : s[i] \in Graphic
    PROVE  ByteLen(s) = Len(s)
  <1>1. {i \in DOMAIN s : s[i] \in Wide} = {}
    BY Zenon DEF Wide, Graphic, HexDigits
  <1>2. Cardinality({}) = 0
    BY FS_EmptySet, Zenon
  <1>3. ByteLen(s) = Len(s) + 0
    BY <1>1, <1>2, Zenon DEF ByteLen
  <1> QED
    BY <1>3

-----------------------------------------------------------------------------

(* Texts are texts, however they grow.                                     *)
LEMMA Texts == Spec => []IInv
  <1>1. Init => IInv
    BY DEF Init, IInv
  <1>2. IInv /\ [Next]_text => IInv'
    BY TextAssumption DEF IInv, Next, Type
  <1> QED
    BY <1>1, <1>2, PTL DEF Spec

-----------------------------------------------------------------------------
(* validate_chain_id.                                                      *)

(* A run of printable characters in white space is what trim returns.      *)
LEMMA TrimPrinted ==
    ASSUME NEW s \in Seq(Characters), NEW i \in 1..Len(s), NEW j \in 1..Len(s), i <= j,
           Printed(s, i, j)
    PROVE  Trim(s) = SubSeq(s, i, j)
  <1>1. \A x \in Graphic : x \notin White
    BY Zenon DEF Graphic, White, HexDigits
  <1>2. DOMAIN s = 1..Len(s) /\ Len(s) \in Nat
    OBVIOUS
  <1>3. \A k \in 1..Len(s) : k \in Kept(s) <=> k \in i..j
    BY <1>1, <1>2, Zenon DEF Kept, Printed
  <1>4. i \in Kept(s) /\ j \in Kept(s)
    <2>1. i \in i..j /\ j \in i..j
      OBVIOUS
    <2> QED
      BY <1>3, <2>1, Zenon
  <1>5. Kept(s) # {}
    BY <1>4
  <1>6. Min(Kept(s)) = i /\ Max(Kept(s)) = j
    <2>1. /\ Min(Kept(s)) \in i..j /\ Max(Kept(s)) \in i..j
          /\ Min(Kept(s)) <= i /\ j <= Max(Kept(s))
      BY <1>3, <1>4, <1>5, KeptBounds, Zenon
    <2> QED
      BY <2>1
  <1> QED
    BY <1>5, <1>6, TrimIs, Zenon

LEMMA AcceptsPrinted ==
    ASSUME NEW s \in Seq(Characters), NEW i \in 1..Len(s), NEW j \in 1..Len(s), i <= j,
           Printed(s, i, j)
    PROVE  ValidateChainId(s) = Accepted(SubSeq(s, i, j))
  <1> DEFINE t == SubSeq(s, i, j)
  <1>1. Trim(s) = t
    BY TrimPrinted, Zenon
  <1>2. /\ t \in Seq(Characters) /\ Len(t) = j - i + 1 /\ t # << >>
        /\ \A k \in 1..(j - i + 1) : t[k] = s[i + k - 1]
    BY Part, Zenon
  <1>3. \A k \in DOMAIN t : t[k] \in Graphic
    <2> SUFFICES ASSUME NEW k \in DOMAIN t PROVE t[k] \in Graphic
      OBVIOUS
    <2> HIDE DEF t
    <2>1. k \in 1..(j - i + 1) /\ i + k - 1 \in i..j /\ i + k - 1 \in DOMAIN s
      BY <1>2
    <2>2. s[i + k - 1] \in Graphic
      BY <2>1, Zenon DEF Printed
    <2> QED
      BY <1>2, <2>1, <2>2, Zenon
  <1> HIDE DEF t
  <1>4. ByteLen(t) = j - i + 1
    BY <1>2, <1>3, GraphicBytes, Zenon
  <1>5. ByteLen(t) <= ChainIdMaxLen
    BY <1>4, InputsAssumption DEF Printed
  <1> QED
    BY <1>1, <1>2, <1>3, <1>5, Zenon DEF ValidateChainId, t

(* A chain id that is accepted is such a run.                              *)
LEMMA AcceptedIsPrinted ==
    ASSUME NEW s \in Seq(Characters), ValidateChainId(s).ok
    PROVE  \E i, j \in 1..Len(s) : i <= j /\ Printed(s, i, j)
  <1> DEFINE t == Trim(s)
  <1>1. ValidateChainId(s) =
          IF t # << >> /\ ByteLen(t) <= ChainIdMaxLen /\ \A k \in DOMAIN t : t[k] \in Graphic
          THEN Accepted(t) ELSE Rejected
    BY Zenon DEF ValidateChainId
  <1> HIDE DEF t
  <1>2. Rejected.ok = FALSE
    BY DEF Rejected
  <1>3. t # << >> /\ ByteLen(t) <= ChainIdMaxLen /\ \A k \in DOMAIN t : t[k] \in Graphic
    BY <1>1, <1>2, Zenon
  <1>4. Kept(s) # {}
    BY <1>3, TrimIs, Zenon DEF t
  <1> DEFINE i == Min(Kept(s))
             j == Max(Kept(s))
  <1>5. /\ i \in 1..Len(s) /\ j \in 1..Len(s) /\ i <= j
        /\ \A k \in Kept(s) : i <= k /\ k <= j
    BY <1>4, KeptBounds, Zenon
  <1>6. t = SubSeq(s, i, j)
    BY <1>4, TrimIs, Zenon DEF t
  <1> HIDE DEF i, j
  <1>7. /\ t \in Seq(Characters) /\ Len(t) = j - i + 1
        /\ \A k \in 1..(j - i + 1) : t[k] = s[i + k - 1]
    BY <1>5, <1>6, Part, Zenon
  <1>8. ByteLen(t) = j - i + 1
    BY <1>3, <1>7, GraphicBytes, Zenon
  <1>9. j - i < ChainIdMaxLen
    BY <1>3, <1>5, <1>8, InputsAssumption
  <1>10. ASSUME NEW k \in DOMAIN s PROVE s[k] \in (IF k \in i..j THEN Graphic ELSE White)
    <2>1. CASE k \in i..j
      <3>0. DOMAIN t = 1..(j - i + 1)
        BY <1>7
      <3>1. k - i + 1 \in 1..(j - i + 1) /\ i + (k - i + 1) - 1 = k /\ k - i + 1 \in DOMAIN t
        BY <1>5, <2>1, <3>0
      <3>2. t[k - i + 1] = s[k]
        BY <1>7, <3>1
      <3> QED
        BY <1>3, <2>1, <3>1, <3>2, Zenon
    <2>2. CASE k \notin i..j
      <3>1. k \in Int /\ i \in Int /\ j \in Int
        BY <1>5
      <3>2. k \notin Kept(s)
        BY <1>5, <2>2, <3>1
      <3> QED
        BY <2>2, <3>2, Zenon DEF Kept
    <2> QED
      BY <2>1, <2>2
  <1>11. Printed(s, i, j)
    BY <1>9, <1>10, Zenon DEF Printed
  <1> QED
    BY <1>5, <1>11, Zenon

(* ChainIdHolds: validate_chain_id accepts exactly the runs of printable   *)
(* ASCII within the limit, whatever white space is around them, and        *)
(* returns the run: for texts of every length and every limit.             *)
THEOREM ChainIdHolds == Spec => []ChainIdCanonical
  <1>1. IInv => ChainIdCanonical
    <2> SUFFICES ASSUME IInv PROVE ChainIdCanonical
      OBVIOUS
    <2>1. text \in Seq(Characters)
      BY DEF IInv
    <2>2. DOMAIN text = 1..Len(text)
      BY <2>1
    <2>3. \A i, j \in 1..Len(text) :
             i <= j /\ Printed(text, i, j) => ValidateChainId(text) = Accepted(SubSeq(text, i, j))
      BY <2>1, AcceptsPrinted, Zenon
    <2>4. \A v : Accepted(v).ok
      BY DEF Accepted
    <2>5. ValidateChainId(text).ok <=> \E i, j \in 1..Len(text) : i <= j /\ Printed(text, i, j)
      BY <2>1, <2>3, <2>4, AcceptedIsPrinted, Zenon
    <2> QED
      BY <2>2, <2>3, <2>5, Zenon DEF ChainIdCanonical, Printed
  <1> QED
    BY <1>1, Texts, PTL

-----------------------------------------------------------------------------
(* parse_user_nonce.                                                       *)

(* How often s begins with 0c.                                             *)
Times(s, c) ==
    {k \in 0..Len(s) : /\ k * Len(<<"0", c>>) <= Len(s)
                       /\ \A i \in 1..(k * Len(<<"0", c>>)) :
                            s[i] = <<"0", c>>[((i - 1) % Len(<<"0", c>>)) + 1]}

(* The j-th two characters of s are 0c.                                    *)
Prefix(s, j, c) == s[2 * j - 1] = "0" /\ s[2 * j] = c

LEMMA Parity ==
    ASSUME NEW i \in Nat \ {0}
    PROVE  \E j \in Nat \ {0} : \/ i = 2 * j - 1 /\ (i - 1) % 2 = 0
                                \/ i = 2 * j /\ (i - 1) % 2 = 1
  <1> DEFINE q == (i - 1) \div 2
             r == (i - 1) % 2
  <1>1. q \in Nat /\ r \in Nat /\ r < 2 /\ i - 1 = 2 * q + r
    <2>1. i - 1 \in Nat /\ 2 \in Nat \ {0}
      OBVIOUS
    <2> QED
      BY <2>1, DivMod, Zenon
  <1> HIDE DEF q
  <1>2. q + 1 \in Nat \ {0} /\ (r = 0 => i = 2 * (q + 1) - 1) /\ (r = 1 => i = 2 * (q + 1))
    <2> HIDE DEF r
    <2> QED
      BY <1>1
  <1>3. r = 0 \/ r = 1
    <2> HIDE DEF r
    <2> QED
      BY <1>1
  <1> QED
    BY <1>2, <1>3, Zenon

LEMMA EvenOdd ==
    ASSUME NEW j \in Nat \ {0}
    PROVE  ((2 * j - 1) - 1) % 2 = 0 /\ (2 * j - 1) % 2 = 1
  <1>1. j - 1 \in Nat /\ 2 \in Nat \ {0} /\ 0 \in Nat /\ 1 \in Nat /\ 0 < 2 /\ 1 < 2
    OBVIOUS
  <1>2. (2 * (j - 1) + 0) % 2 = 0 /\ (2 * (j - 1) + 1) % 2 = 1
    BY <1>1, Remainder, Zenon
  <1>3. 2 * (j - 1) + 0 = (2 * j - 1) - 1 /\ 2 * (j - 1) + 1 = 2 * j - 1
    OBVIOUS
  <1> QED
    BY <1>2, <1>3

LEMMA TimesIs ==
    ASSUME NEW s \in Seq(Characters), NEW c, NEW k
    PROVE  k \in Times(s, c) <=>
             k \in Nat /\ 2 * k <= Len(s) /\ \A j \in 1..k : Prefix(s, j, c)
  <1> DEFINE p == <<"0", c>>
  <1>1. Len(p) = 2 /\ p[1] = "0" /\ p[2] = c /\ Len(s) \in Nat
    OBVIOUS
  <1>2. k \in Times(s, c) <=>
               /\ k \in 0..Len(s) /\ k * 2 <= Len(s)
               /\ \A i \in 1..(k * 2) : s[i] = p[((i - 1) % 2) + 1]
    BY <1>1, Zenon DEF Times
  <1> HIDE DEF p
  <1>3. ASSUME k \in Times(s, c)
        PROVE  k \in Nat /\ 2 * k <= Len(s) /\ \A j \in 1..k : Prefix(s, j, c)
    <2>1. k \in 0..Len(s) /\ k * 2 <= Len(s) /\ \A i \in 1..(k * 2) : s[i] = p[((i - 1) % 2) + 1]
      BY <1>2, <1>3, Zenon
    <2>2. k \in Nat /\ 2 * k <= Len(s)
      BY <1>1, <2>1
    <2>3. ASSUME NEW j \in 1..k PROVE Prefix(s, j, c)
      <3>1. j \in Nat \ {0} /\ 2 * j - 1 \in 1..(k * 2) /\ 2 * j \in 1..(k * 2)
        BY <2>2
      <3>2. /\ s[2 * j - 1] = p[(((2 * j - 1) - 1) % 2) + 1]
            /\ s[2 * j] = p[((2 * j - 1) % 2) + 1]
        BY <2>1, <3>1, Zenon
      <3>3. ((2 * j - 1) - 1) % 2 = 0 /\ (2 * j - 1) % 2 = 1
        BY <3>1, EvenOdd, Zenon
      <3>4. s[2 * j - 1] = p[0 + 1] /\ s[2 * j] = p[1 + 1]
        BY <3>2, <3>3, Zenon
      <3> QED
        BY <1>1, <3>4 DEF Prefix
    <2> QED
      BY <2>2, <2>3, Zenon
  <1>4. ASSUME k \in Nat, 2 * k <= Len(s), \A j \in 1..k : Prefix(s, j, c)
        PROVE  k \in Times(s, c)
    <2>1. k \in 0..Len(s) /\ k * 2 <= Len(s)
      BY <1>1, <1>4
    <2>2. ASSUME NEW i \in 1..(k * 2) PROVE s[i] = p[((i - 1) % 2) + 1]
      <3>1. i \in Nat \ {0}
        BY <1>4
      <3>2. PICK j \in Nat \ {0} : \/ i = 2 * j - 1 /\ (i - 1) % 2 = 0
                                   \/ i = 2 * j /\ (i - 1) % 2 = 1
        BY <3>1, Parity, Zenon
      <3>3. i = 2 * j - 1 \/ i = 2 * j
        BY <3>2, Zenon
      <3>4. j \in 1..k
        BY <1>4, <3>3
      <3>5. s[2 * j - 1] = p[0 + 1] /\ s[2 * j] = p[1 + 1]
        BY <1>1, <1>4, <3>4 DEF Prefix
      <3> QED
        BY <3>2, <3>5, Zenon
    <2> QED
      BY <1>2, <2>1, <2>2, Zenon
  <1> QED
    BY <1>3, <1>4, Zenon

(* trim_start_matches removes the prefix as often as it is there.          *)
LEMMA Stripped ==
    ASSUME NEW s \in Seq(Characters), NEW c
    PROVE  \E k \in Times(s, c) :
               /\ \A m \in Times(s, c) : m <= k
               /\ TrimStartMatches(s, <<"0", c>>) = SubSeq(s, 2 * k + 1, Len(s))
  <1>1. Times(s, c) \in SUBSET Nat /\ \A x \in Times(s, c) : x <= Len(s)
    BY DEF Times
  <1>2. 0 \in Times(s, c) /\ Len(s) \in Nat
    <2>1. Len(s) \in Nat /\ 2 * 0 <= Len(s) /\ 1..0 = {} /\ 0 \in Nat
      OBVIOUS
    <2>2. \A j \in 1..0 : Prefix(s, j, c)
      BY <2>1, Zenon
    <2> QED
      BY <2>1, <2>2, TimesIs, Zenon
  <1>3. Max(Times(s, c)) \in Times(s, c) /\ \A y \in Times(s, c) : y <= Max(Times(s, c))
    <2>1. Times(s, c) # {}
      BY <1>2
    <2> QED
      BY <1>1, <1>2, <2>1, MaxIs, Zenon
  <1>4. TrimStartMatches(s, <<"0", c>>) =
          SubSeq(s, Max(Times(s, c)) * Len(<<"0", c>>) + 1, Len(s))
    BY Zenon DEF TrimStartMatches, Times
  <1>5. Max(Times(s, c)) * Len(<<"0", c>>) = 2 * Max(Times(s, c))
    BY <1>1, <1>3
  <1> QED
    BY <1>3, <1>4, <1>5, Zenon

(* If the prefix is there k times and not once more, k are removed.        *)
LEMMA Strips ==
    ASSUME NEW s \in Seq(Characters), NEW c, NEW k \in Nat, 2 * k <= Len(s),
           \A j \in 1..k : Prefix(s, j, c),
           2 * (k + 1) <= Len(s) => s[2 * (k + 1)] # c
    PROVE  TrimStartMatches(s, <<"0", c>>) = SubSeq(s, 2 * k + 1, Len(s))
  <1>1. PICK m \in Times(s, c) :
            /\ \A x \in Times(s, c) : x <= m
            /\ TrimStartMatches(s, <<"0", c>>) = SubSeq(s, 2 * m + 1, Len(s))
    BY Stripped, Zenon
  <1>2. m \in Nat /\ 2 * m <= Len(s) /\ \A j \in 1..m : Prefix(s, j, c)
    BY TimesIs, Zenon
  <1>3. k <= m
    BY <1>1, TimesIs, Zenon
  <1>4. ~(k + 1 <= m)
    <2> SUFFICES ASSUME k + 1 <= m PROVE FALSE
      OBVIOUS
    <2>1. k + 1 \in 1..m /\ 2 * (k + 1) <= Len(s)
      <3>1. Len(s) \in Nat
        OBVIOUS
      <3> QED
        BY <1>2, <3>1
    <2>2. Prefix(s, k + 1, c)
      BY <1>2, <2>1, Zenon
    <2> QED
      BY <2>1, <2>2, Zenon DEF Prefix
  <1>5. m = k
    BY <1>2, <1>3, <1>4
  <1> QED
    BY <1>1, <1>5, Zenon

LEMMA Suffix ==
    ASSUME NEW s \in Seq(Characters), NEW n \in 0..Len(s)
    PROVE  /\ SubSeq(s, n + 1, Len(s)) \in Seq(Characters)
           /\ Len(SubSeq(s, n + 1, Len(s))) = Len(s) - n
           /\ \A i \in 1..(Len(s) - n) : SubSeq(s, n + 1, Len(s))[i] = s[n + i]
  OBVIOUS

LEMMA SuffixOfSuffix ==
    ASSUME NEW s \in Seq(Characters), NEW n \in 0..Len(s), NEW m \in 0..(Len(s) - n)
    PROVE  LET u == SubSeq(s, n + 1, Len(s))
           IN  SubSeq(u, m + 1, Len(u)) = SubSeq(s, n + m + 1, Len(s))
  OBVIOUS

Unprefixed(s) == TrimStartMatches(TrimStartMatches(s, <<"0", "x">>), <<"0", "X">>)

(* s begins with k prefixes 0x and then l prefixes 0X.                     *)
Prefixed(s, k, l) ==
    /\ 2 * (k + l) <= Len(s)
    /\ \A i \in 1..(k + l) : s[2 * i - 1] = "0" /\ s[2 * i] = IF i <= k THEN "x" ELSE "X"

(* The prefixes 0X of a text are those of what follows the prefixes 0x.    *)
LEMMA PrefixAfter ==
    ASSUME NEW s \in Seq(Characters), NEW k \in Nat, NEW l \in Nat, 2 * k <= Len(s)
    PROVE  LET u == SubSeq(s, 2 * k + 1, Len(s))
           IN  Prefixed(s, k, l) <=> /\ \A j \in 1..k : Prefix(s, j, "x")
                                     /\ 2 * l <= Len(u)
                                     /\ \A j \in 1..l : Prefix(u, j, "X")
  <1> DEFINE u == SubSeq(s, 2 * k + 1, Len(s))
  <1>1. Len(s) \in Nat /\ 2 * k \in 0..Len(s)
    OBVIOUS
  <1>2. Len(u) = Len(s) - 2 * k /\ \A i \in 1..(Len(s) - 2 * k) : u[i] = s[2 * k + i]
    BY <1>1, Suffix, Zenon
  <1> HIDE DEF u
  <1>3. 2 * (k + l) <= Len(s) <=> 2 * l <= Len(u)
    BY <1>1, <1>2
  <1>4. ASSUME 2 * l <= Len(u), NEW j \in 1..l
        PROVE  /\ k + j \in 1..(k + l) /\ ~(k + j <= k)
               /\ u[2 * j - 1] = s[2 * (k + j) - 1] /\ u[2 * j] = s[2 * (k + j)]
    <2>1. 2 * j - 1 \in 1..(Len(s) - 2 * k) /\ 2 * j \in 1..(Len(s) - 2 * k)
      BY <1>1, <1>2, <1>4
    <2>2. /\ 2 * k + (2 * j - 1) = 2 * (k + j) - 1 /\ 2 * k + 2 * j = 2 * (k + j)
          /\ k + j \in 1..(k + l) /\ ~(k + j <= k)
      OBVIOUS
    <2>3. u[2 * j - 1] = s[2 * k + (2 * j - 1)] /\ u[2 * j] = s[2 * k + 2 * j]
      BY <1>2, <2>1, Zenon
    <2> QED
      BY <2>2, <2>3
  <1>5. \A j \in 1..k : j \in 1..(k + l) /\ j <= k
    OBVIOUS
  <1>6. ASSUME Prefixed(s, k, l)
        PROVE  /\ \A j \in 1..k : Prefix(s, j, "x")
               /\ 2 * l <= Len(u)
               /\ \A j \in 1..l : Prefix(u, j, "X")
    <2>1. 2 * l <= Len(u)
      BY <1>3, <1>6, Zenon DEF Prefixed
    <2>2. ASSUME NEW j \in 1..k PROVE Prefix(s, j, "x")
      BY <1>5, <1>6, Zenon DEF Prefixed, Prefix
    <2>3. ASSUME NEW j \in 1..l PROVE Prefix(u, j, "X")
      <3>1. /\ k + j \in 1..(k + l) /\ ~(k + j <= k)
            /\ u[2 * j - 1] = s[2 * (k + j) - 1] /\ u[2 * j] = s[2 * (k + j)]
        BY <1>4, <2>1, Zenon
      <3>2. s[2 * (k + j) - 1] = "0" /\ s[2 * (k + j)] = IF k + j <= k THEN "x" ELSE "X"
        BY <1>6, <3>1, Zenon DEF Prefixed
      <3> QED
        BY <3>1, <3>2, Zenon DEF Prefix
    <2> QED
      BY <2>1, <2>2, <2>3, Zenon
  <1>7. ASSUME \A j \in 1..k : Prefix(s, j, "x"), 2 * l <= Len(u), \A j \in 1..l : Prefix(u, j, "X")
        PROVE  Prefixed(s, k, l)
    <2>1. ASSUME NEW i \in 1..(k + l)
          PROVE  s[2 * i - 1] = "0" /\ s[2 * i] = IF i <= k THEN "x" ELSE "X"
      <3>1. CASE i <= k
        <4>1. i \in 1..k
          BY <3>1
        <4> QED
          BY <1>7, <3>1, <4>1, Zenon DEF Prefix
      <3>2. CASE ~(i <= k)
        <4>1. i - k \in 1..l /\ k + (i - k) = i
          BY <3>2
        <4>2. /\ u[2 * (i - k) - 1] = s[2 * (k + (i - k)) - 1]
              /\ u[2 * (i - k)] = s[2 * (k + (i - k))]
          BY <1>4, <1>7, <4>1, Zenon
        <4>3. u[2 * (i - k) - 1] = "0" /\ u[2 * (i - k)] = "X"
          BY <1>7, <4>1, Zenon DEF Prefix
        <4>4. s[2 * i - 1] = "0" /\ s[2 * i] = "X"
          BY <4>1, <4>2, <4>3, Zenon
        <4> QED
          BY <3>2, <4>4, Zenon
      <3> QED
        BY <3>1, <3>2, Zenon
    <2> QED
      BY <1>3, <1>7, <2>1, Zenon DEF Prefixed
  <1> QED
    BY <1>6, <1>7, Zenon DEF u

(* What is left is the end of the text, after prefixes.                    *)
LEMMA LeavesSuffix ==
    ASSUME NEW s \in Seq(Characters)
    PROVE  \E k, l \in Nat : Prefixed(s, k, l) /\ Unprefixed(s) = SubSeq(s, 2 * (k + l) + 1, Len(s))
  <1>1. PICK k \in Times(s, "x") : TrimStartMatches(s, <<"0", "x">>) = SubSeq(s, 2 * k + 1, Len(s))
    BY Stripped, Zenon
  <1>2. k \in Nat /\ 2 * k <= Len(s) /\ \A j \in 1..k : Prefix(s, j, "x")
    BY TimesIs, Zenon
  <1>3. Len(s) \in Nat
    OBVIOUS
  <1>4. 2 * k \in 0..Len(s)
    BY <1>2, <1>3
  <1> DEFINE u == SubSeq(s, 2 * k + 1, Len(s))
  <1>5. u \in Seq(Characters) /\ Len(u) = Len(s) - 2 * k
    BY <1>4, Suffix, Zenon
  <1>6. PICK l \in Times(u, "X") : TrimStartMatches(u, <<"0", "X">>) = SubSeq(u, 2 * l + 1, Len(u))
    BY <1>5, Stripped, Zenon
  <1>7. l \in Nat /\ 2 * l <= Len(u) /\ \A j \in 1..l : Prefix(u, j, "X")
    BY <1>5, TimesIs, Zenon
  <1>8. Prefixed(s, k, l)
    BY <1>2, <1>7, PrefixAfter, Zenon
  <1>9. 2 * l \in 0..(Len(s) - 2 * k) /\ 2 * k + 2 * l + 1 = 2 * (k + l) + 1
    <2> HIDE DEF u
    <2> QED
      BY <1>2, <1>3, <1>5, <1>7
  <1>10. SubSeq(u, 2 * l + 1, Len(u)) = SubSeq(s, 2 * k + 2 * l + 1, Len(s))
    BY <1>4, <1>9, SuffixOfSuffix, Zenon
  <1>11. Unprefixed(s) = SubSeq(s, 2 * (k + l) + 1, Len(s))
    BY <1>1, <1>6, <1>9, <1>10, Zenon DEF Unprefixed
  <1> QED
    BY <1>2, <1>7, <1>8, <1>11, Zenon

(* Of a spelled nonce exactly the digits are left.                         *)
LEMMA LeavesDigits ==
    ASSUME NEW s \in Seq(Characters), NEW k \in Nat, NEW l \in Nat, Spelled(s, k, l)
    PROVE  Unprefixed(s) = SubSeq(s, 2 * (k + l) + 1, Len(s))
  <1> DEFINE u == SubSeq(s, 2 * k + 1, Len(s))
  <1>1. Len(s) \in Nat /\ NonceBytes \in Nat
    BY InputsAssumption
  <1>2. "x" \notin HexDigits /\ "X" \notin HexDigits /\ "x" # "X"
    BY DEF HexDigits
  <1>3. Len(s) = 2 * (k + l) + 2 * NonceBytes /\ \A i \in (2 * (k + l) + 1)..Len(s) : s[i] \in HexDigits
    BY Zenon DEF Spelled
  <1>4. Prefixed(s, k, l)
    <2>1. 2 * (k + l) <= Len(s)
      BY <1>1, <1>3
    <2> QED
      BY <2>1, Zenon DEF Spelled, Prefixed
  <1>5. 2 * k <= Len(s) /\ 2 * k \in 0..Len(s)
    BY <1>1, <1>3
  <1>6. /\ \A j \in 1..k : Prefix(s, j, "x")
        /\ 2 * l <= Len(u) /\ \A j \in 1..l : Prefix(u, j, "X")
    BY <1>4, <1>5, PrefixAfter, Zenon
  <1>7. /\ u \in Seq(Characters) /\ Len(u) = Len(s) - 2 * k
        /\ \A i \in 1..(Len(s) - 2 * k) : u[i] = s[2 * k + i]
    BY <1>5, Suffix, Zenon
  <1>8. 2 * (k + 1) <= Len(s) => s[2 * (k + 1)] # "x"
    <2> SUFFICES ASSUME 2 * (k + 1) <= Len(s) PROVE s[2 * (k + 1)] # "x"
      OBVIOUS
    <2>1. CASE l = 0
      <3>1. 2 * (k + 1) \in (2 * (k + l) + 1)..Len(s)
        BY <1>1, <2>1
      <3> QED
        BY <1>2, <1>3, <3>1, Zenon
    <2>2. CASE l # 0
      <3>1. k + 1 \in 1..(k + l) /\ ~(k + 1 <= k)
        BY <2>2
      <3> QED
        BY <1>2, <1>4, <3>1, Zenon DEF Prefixed
    <2> QED
      BY <2>1, <2>2, Zenon
  <1>9. TrimStartMatches(s, <<"0", "x">>) = u
    BY <1>5, <1>6, <1>8, Strips, Zenon
  <1>10. 2 * (l + 1) <= Len(u) => u[2 * (l + 1)] # "X"
    <2> HIDE DEF u
    <2> SUFFICES ASSUME 2 * (l + 1) <= Len(u) PROVE u[2 * (l + 1)] # "X"
      OBVIOUS
    <2>1. /\ 2 * (l + 1) \in 1..(Len(s) - 2 * k)
          /\ 2 * k + 2 * (l + 1) \in (2 * (k + l) + 1)..Len(s)
      BY <1>1, <1>7
    <2>2. u[2 * (l + 1)] = s[2 * k + 2 * (l + 1)]
      BY <1>7, <2>1, Zenon
    <2> QED
      BY <1>2, <1>3, <2>1, <2>2, Zenon
  <1>11. TrimStartMatches(u, <<"0", "X">>) = SubSeq(u, 2 * l + 1, Len(u))
    BY <1>6, <1>7, <1>10, Strips, Zenon
  <1>12. 2 * l \in 0..(Len(s) - 2 * k) /\ 2 * k + 2 * l + 1 = 2 * (k + l) + 1
    BY <1>1, <1>3
  <1>13. SubSeq(u, 2 * l + 1, Len(u)) = SubSeq(s, 2 * k + 2 * l + 1, Len(s))
    BY <1>5, <1>12, SuffixOfSuffix, Zenon
  <1> QED
    BY <1>9, <1>11, <1>12, <1>13, Zenon DEF Unprefixed

(* The accepted texts are the spelled ones, for their last digits.         *)
LEMMA DigitsOf ==
    ASSUME NEW s \in Seq(Characters), NEW k \in Nat, NEW l \in Nat, Prefixed(s, k, l)
    PROVE  LET u == SubSeq(s, 2 * (k + l) + 1, Len(s))
           IN  /\ Spelled(s, k, l) <=> IsHex(u) /\ Len(u) = 2 * NonceBytes
               /\ Len(u) = 2 * NonceBytes => u = LastDigits(s)
               /\ k \in 0..Len(s) /\ l \in 0..Len(s)
  <1> DEFINE n == 2 * (k + l)
             u == SubSeq(s, n + 1, Len(s))
  <1>1. Len(s) \in Nat /\ NonceBytes \in Nat /\ n \in Nat /\ (2 * NonceBytes) % 2 = 0
    BY InputsAssumption
  <1>2. n \in 0..Len(s) /\ k \in 0..Len(s) /\ l \in 0..Len(s)
    BY <1>1 DEF Prefixed
  <1>3. /\ u \in Seq(Characters) /\ Len(u) = Len(s) - n
        /\ \A i \in 1..(Len(s) - n) : u[i] = s[n + i]
    BY <1>2, Suffix, Zenon
  <1>4. Len(u) = 2 * NonceBytes => n = Len(s) - 2 * NonceBytes
    <2> HIDE DEF u, n
    <2> QED
      BY <1>1, <1>3
  <1>5. Len(u) = 2 * NonceBytes => u = LastDigits(s)
    BY <1>4, Zenon DEF LastDigits
  <1> HIDE DEF u
  <1>6. DOMAIN u = 1..(Len(s) - n)
    BY <1>3
  <1>7. (\A i \in DOMAIN u : u[i] \in HexDigits) <=> \A i \in (n + 1)..Len(s) : s[i] \in HexDigits
    <2>1. ASSUME \A i \in DOMAIN u : u[i] \in HexDigits, NEW i \in (n + 1)..Len(s)
          PROVE  s[i] \in HexDigits
      <3>1. i - n \in 1..(Len(s) - n) /\ n + (i - n) = i
        <4> HIDE DEF n
        <4> QED
          BY <1>1
      <3>2. u[i - n] = s[n + (i - n)] /\ u[i - n] \in HexDigits
        BY <1>3, <1>6, <2>1, <3>1, Zenon
      <3> QED
        BY <3>1, <3>2
    <2>2. ASSUME \A i \in (n + 1)..Len(s) : s[i] \in HexDigits, NEW i \in DOMAIN u
          PROVE  u[i] \in HexDigits
      <3>1. i \in 1..(Len(s) - n) /\ n + i \in (n + 1)..Len(s)
        <4> HIDE DEF n
        <4> QED
          BY <1>1, <1>6
      <3> QED
        BY <1>3, <2>2, <3>1, Zenon
    <2> QED
      BY <2>1, <2>2, Zenon
  <1>8. Len(s) = n + 2 * NonceBytes <=> Len(u) = 2 * NonceBytes
    <2> HIDE DEF n
    <2> QED
      BY <1>1, <1>3
  <1>9. Spelled(s, k, l) <=> /\ Len(s) = n + 2 * NonceBytes
                             /\ \A i \in (n + 1)..Len(s) : s[i] \in HexDigits
    BY Zenon DEF Spelled, Prefixed
  <1>10. Len(u) = 2 * NonceBytes => (IsHex(u) <=> \A i \in DOMAIN u : u[i] \in HexDigits)
    BY <1>1, Zenon DEF IsHex
  <1> HIDE DEF n
  <1>11. Spelled(s, k, l) <=> IsHex(u) /\ Len(u) = 2 * NonceBytes
    BY <1>7, <1>8, <1>9, <1>10, Zenon
  <1> QED
    BY <1>2, <1>5, <1>11, Zenon DEF u, n

(* NonceHolds: parse_user_nonce accepts exactly the digits after prefixes, *)
(* and gives them their value, for texts and nonces of every length and    *)
(* any number of prefixes.                                                 *)
THEOREM NonceHolds == Spec => []NonceAsWritten
  <1>1. IInv => NonceAsWritten
    <2> DEFINE s == Trim(text)
               u == Unprefixed(s)
               r == ParseUserNonce(text)
    <2> SUFFICES ASSUME IInv PROVE NonceAsWritten
      OBVIOUS
    <2>1. s \in Seq(Characters)
      BY TrimType, Zenon DEF IInv
    <2>2. r = IF IsHex(u) /\ Len(u) = 2 * NonceBytes THEN Accepted(HexDecode(u)) ELSE Rejected
      BY Zenon DEF ParseUserNonce, Unprefixed
    <2> HIDE DEF r
    <2>3. Rejected.ok = FALSE /\ \A v : Accepted(v).ok /\ Accepted(v).value = v
      BY DEF Rejected, Accepted
    <2>4. r.ok <=> IsHex(u) /\ Len(u) = 2 * NonceBytes
      BY <2>2, <2>3, Zenon
    <2>5. PICK k \in Nat, l \in Nat : Prefixed(s, k, l) /\ u = SubSeq(s, 2 * (k + l) + 1, Len(s))
      BY <2>1, LeavesSuffix, Zenon
    <2>6. /\ Spelled(s, k, l) <=> IsHex(u) /\ Len(u) = 2 * NonceBytes
          /\ Len(u) = 2 * NonceBytes => u = LastDigits(s)
          /\ k \in 0..Len(s) /\ l \in 0..Len(s)
      BY <2>1, <2>5, DigitsOf, Zenon
    <2>7. ASSUME NEW i \in 0..Len(s), NEW j \in 0..Len(s), Spelled(s, i, j) PROVE r.ok
      <3>1. i \in Nat /\ j \in Nat
        OBVIOUS
      <3>2. Prefixed(s, i, j)
        <4>1. 2 * (i + j) <= 2 * (i + j) + 2 * NonceBytes
          BY <3>1, InputsAssumption
        <4> QED
          BY <2>7, <4>1, Zenon DEF Spelled, Prefixed
      <3>3. u = SubSeq(s, 2 * (i + j) + 1, Len(s))
        BY <2>1, <2>7, <3>1, LeavesDigits, Zenon
      <3>4. IsHex(u) /\ Len(u) = 2 * NonceBytes
        BY <2>1, <2>7, <3>1, <3>2, <3>3, DigitsOf, Zenon
      <3> QED
        BY <2>4, <3>4, Zenon
    <2>8. r.ok => r.value = HexDecode(LastDigits(s))
      BY <2>2, <2>3, <2>4, <2>6, Zenon
    <2> QED
      BY <2>4, <2>6, <2>7, <2>8, Zenon DEF NonceAsWritten, r
  <1> QED
    BY <1>1, Texts, PTL

-----------------------------------------------------------------------------
(* Varints.                                                                *)

LEMMA Widths ==
    /\ Shl1[0] = 1
    /\ \A w \in Nat : Shl1[w] \in Nat \ {0}
  <1>1. Shl1 = CHOOSE f : IsPowers(f, 2)
    BY DEF Shl1, IsPowers
  <1>2. IsPowers(Shl1, 2)
    BY <1>1, PowersExist, Zenon
  <1> QED
    BY <1>2, Powers

LEMMA PlaceValues ==
    /\ Place[0] = 1
    /\ \A k \in Nat : Place[k] \in Nat \ {0} /\ Place[k + 1] = ByteValues * Place[k]
  <1>1. ByteValues \in Nat \ {0}
    BY SectionsAssumption
  <1>2. Place = CHOOSE f : IsPowers(f, ByteValues)
    BY DEF Place, IsPowers
  <1>3. IsPowers(Place, ByteValues)
    BY <1>1, <1>2, PowersExist, Zenon
  <1> QED
    BY <1>1, <1>3, Powers

LEMMA EncodeType ==
    ASSUME NEW n \in Nat, NEW w \in Nat
    PROVE  /\ Encode(n, w) \in Seq(Nat)
           /\ Len(Encode(n, w)) = Shl1[w]
           /\ \A i \in 1..Shl1[w] :
                Encode(n, w)[i] = (IF i = 1 THEN w * PrefixUnit ELSE 0)
                                    + ((n \div Place[Shl1[w] - i]) % ByteValues)
  <1>1. Shl1[w] \in Nat \ {0} /\ ByteValues \in Nat \ {0} /\ PrefixUnit \in Nat
    BY Widths, SectionsAssumption
  <1> DEFINE e(i) == (IF i = 1 THEN w * PrefixUnit ELSE 0)
                       + ((n \div Place[Shl1[w] - i]) % ByteValues)
  <1>2. ASSUME NEW i \in 1..Shl1[w] PROVE e(i) \in Nat
    <2>1. Shl1[w] - i \in Nat
      BY <1>1
    <2>2. Place[Shl1[w] - i] \in Nat \ {0}
      BY <2>1, PlaceValues, Zenon
    <2>3. n \div Place[Shl1[w] - i] \in Nat
      BY <2>2, DivMod
    <2>4. (n \div Place[Shl1[w] - i]) % ByteValues \in Nat
      BY <1>1, <2>3, DivMod
    <2>5. (IF i = 1 THEN w * PrefixUnit ELSE 0) \in Nat
      BY <1>1
    <2> QED
      BY <2>4, <2>5
  <1>3. Encode(n, w) = [i \in 1..Shl1[w] |-> e(i)]
    BY Zenon DEF Encode
  <1> HIDE DEF e
  <1>4. Encode(n, w) \in Seq(Nat) /\ Len(Encode(n, w)) = Shl1[w]
    BY <1>1, <1>2, <1>3
  <1>5. \A i \in 1..Shl1[w] : Encode(n, w)[i] = e(i)
    BY <1>3, Zenon
  <1> QED
    BY <1>4, <1>5, Zenon DEF e

(* The first byte tells the width, and its remainder begins the value.     *)
LEMMA FirstByte ==
    ASSUME NEW n \in Nat, NEW w \in Nat, Fits(n, w)
    PROVE  /\ VarintWidth(Encode(n, w)[1]) = Shl1[w]
           /\ Encode(n, w)[1] % PrefixUnit = n \div Place[Shl1[w] - 1]
  <1> DEFINE P == Place[Shl1[w] - 1]
             q == n \div P
  <1>1. Shl1[w] \in Nat \ {0} /\ Shl1[w] - 1 \in Nat /\ 1 \in 1..Shl1[w]
    BY Widths
  <1>2. P \in Nat \ {0}
    BY <1>1, PlaceValues, Zenon
  <1>3. PrefixUnit \in Nat \ {0} /\ ByteValues \in Nat \ {0} /\ PrefixUnit <= ByteValues
    BY SectionsAssumption
  <1>4. n < PrefixUnit * P
    BY Zenon DEF Fits
  <1> HIDE DEF P
  <1>5. q \in Nat /\ q < PrefixUnit
    BY <1>2, <1>3, <1>4, DivMod, QuotientBelow
  <1>6. Encode(n, w)[1] = w * PrefixUnit + (q % ByteValues)
    BY <1>1, EncodeType, ZenonT(40) DEF P
  <1> HIDE DEF q
  <1>7. q % ByteValues = q
    <2>1. q < ByteValues /\ ByteValues * 0 + q = q /\ 0 \in Nat
      BY <1>3, <1>5
    <2> QED
      BY <1>3, <1>5, <2>1, Remainder
  <1>8. Encode(n, w)[1] = PrefixUnit * w + q
    BY <1>3, <1>5, <1>6, <1>7
  <1>9. Encode(n, w)[1] \div PrefixUnit = w /\ Encode(n, w)[1] % PrefixUnit = q
    BY <1>3, <1>5, <1>8, Quotient, Remainder
  <1> QED
    BY <1>9, Zenon DEF VarintWidth, q, P

(* The fold of take_varint.                                                *)
IsUpTo(v, rest) ==
    v = [i \in 0..(VarintWidth(rest[1]) - 1) |->
           IF i = 0 THEN rest[1] % PrefixUnit ELSE v[i - 1] * ByteValues + rest[i + 1]]

LEMMA UpToExists ==
    ASSUME NEW rest \in Seq(Nat), rest # << >>, VarintWidth(rest[1]) <= Len(rest)
    PROVE  \E v : IsUpTo(v, rest) /\ v \in [0..(VarintWidth(rest[1]) - 1) -> Nat]
  <1> DEFINE W == VarintWidth(rest[1])
             a == rest[1] % PrefixUnit
             g == [k \in Nat |-> [x \in Nat |->
                     IF k + 2 \in 1..Len(rest) THEN x * ByteValues + rest[k + 2] ELSE 0]]
  <1>1. rest[1] \in Nat /\ Len(rest) \in Nat /\ \A i \in 1..Len(rest) : rest[i] \in Nat
    OBVIOUS
  <1>2. PrefixUnit \in Nat \ {0} /\ ByteValues \in Nat
    BY SectionsAssumption
  <1>3. W \in Nat \ {0} /\ W - 1 \in Nat
    <2>1. rest[1] \div PrefixUnit \in Nat
      BY <1>1, <1>2, DivMod
    <2>2. W \in Nat \ {0}
      BY <2>1, Widths, Zenon DEF VarintWidth
    <2> HIDE DEF W
    <2> QED
      BY <2>2
  <1>4. a \in Nat
    BY <1>1, <1>2, DivMod
  <1>5. ASSUME NEW k \in Nat, NEW x \in Nat
        PROVE  (IF k + 2 \in 1..Len(rest) THEN x * ByteValues + rest[k + 2] ELSE 0) \in Nat
    <2>1. CASE k + 2 \in 1..Len(rest)
      <3>1. rest[k + 2] \in Nat
        BY <1>1, <2>1, Zenon
      <3> QED
        BY <1>2, <3>1
    <2> QED
      BY <2>1
  <1>6. g \in [Nat -> [Nat -> Nat]]
    BY <1>5, Zenon
  <1>7. \A k, x \in Nat : k + 2 \in 1..Len(rest) => g[k][x] = x * ByteValues + rest[k + 2]
    BY Zenon
  <1> HIDE DEF W, a, g
  <1>8. PICK v : Begins(v, W - 1, a, g, Nat)
    BY <1>3, <1>4, <1>6, BeginsAll, Zenon
  <1>9. /\ v \in [0..(W - 1) -> Nat] /\ v[0] = a
        /\ \A k \in 0..(W - 1) : k # W - 1 => v[k + 1] = g[k][v[k]]
    BY <1>8, Zenon DEF Begins
  <1>10. ASSUME NEW i \in 0..(W - 1)
         PROVE  v[i] = IF i = 0 THEN a ELSE v[i - 1] * ByteValues + rest[i + 1]
    <2>1. CASE i = 0
      BY <1>9, <2>1
    <2>2. CASE i # 0
      <3>1. /\ i - 1 \in 0..(W - 1) /\ i - 1 # W - 1 /\ (i - 1) + 1 = i /\ i - 1 \in Nat
            /\ (i - 1) + 2 = i + 1 /\ i + 1 \in 1..Len(rest)
        BY <1>1, <1>3, <2>2 DEF W
      <3>2. v[i] = g[i - 1][v[i - 1]]
        BY <1>9, <3>1
      <3>3. v[i - 1] \in Nat
        BY <1>9, <3>1, Zenon
      <3>4. g[i - 1][v[i - 1]] = v[i - 1] * ByteValues + rest[i + 1]
        BY <1>7, <3>1, <3>3
      <3> QED
        BY <2>2, <3>2, <3>4
    <2> QED
      BY <2>1, <2>2
  <1>11. v = [i \in 0..(W - 1) |-> v[i]]
    BY <1>9, Zenon
  <1>12. IsUpTo(v, rest)
    BY <1>10, <1>11, Zenon DEF IsUpTo, W, a
  <1> QED
    BY <1>9, <1>12, Zenon DEF W

LEMMA UpTo ==
    ASSUME NEW rest \in Seq(Nat), rest # << >>, VarintWidth(rest[1]) <= Len(rest)
    PROVE  IsUpTo(VarintUpTo(rest), rest)
  <1>1. VarintUpTo(rest) = CHOOSE v : IsUpTo(v, rest)
    BY DEF VarintUpTo, IsUpTo
  <1> QED
    BY <1>1, UpToExists, Zenon

LEMMA UpToType ==
    ASSUME NEW rest \in Seq(Nat), rest # << >>, VarintWidth(rest[1]) <= Len(rest)
    PROVE  /\ VarintWidth(rest[1]) \in Nat \ {0}
           /\ VarintUpTo(rest)[0] = rest[1] % PrefixUnit
           /\ \A i \in Nat : i < VarintWidth(rest[1]) - 1 =>
                VarintUpTo(rest)[i + 1] = VarintUpTo(rest)[i] * ByteValues + rest[i + 2]
           /\ VarintValue(rest) \in Nat
  <1> DEFINE W == VarintWidth(rest[1])
             v == VarintUpTo(rest)
  <1>1. rest[1] \in Nat /\ Len(rest) \in Nat /\ \A i \in 1..Len(rest) : rest[i] \in Nat
    OBVIOUS
  <1>2. PrefixUnit \in Nat \ {0} /\ ByteValues \in Nat
    BY SectionsAssumption
  <1>3. W \in Nat \ {0} /\ W <= Len(rest)
    <2>1. rest[1] \div PrefixUnit \in Nat
      BY <1>1, <1>2, DivMod
    <2> QED
      BY <2>1, Widths, Zenon DEF VarintWidth
  <1>4. v = [i \in 0..(W - 1) |->
               IF i = 0 THEN rest[1] % PrefixUnit ELSE v[i - 1] * ByteValues + rest[i + 1]]
    BY UpTo, Zenon DEF IsUpTo
  <1> HIDE DEF W, v
  <1>5. 0 \in 0..(W - 1) /\ W - 1 \in Nat
    BY <1>3
  <1>6. v[0] = rest[1] % PrefixUnit
    BY <1>4, <1>5
  <1>7. ASSUME NEW i \in Nat, i < W - 1
        PROVE  v[i + 1] = v[i] * ByteValues + rest[i + 2]
    <2>1. i + 1 \in 0..(W - 1) /\ i + 1 # 0 /\ (i + 1) - 1 = i /\ (i + 1) + 1 = i + 2
      BY <1>3, <1>7
    <2>2. v[i + 1] = v[(i + 1) - 1] * ByteValues + rest[(i + 1) + 1]
      BY <1>4, <2>1, Zenon
    <2> QED
      BY <2>1, <2>2
  <1> DEFINE T == {i \in Nat : i <= W - 1 => v[i] \in Nat}
  <1>8. 0 \in T
    BY <1>1, <1>2, <1>6, DivMod
  <1>9. ASSUME NEW i \in T PROVE i + 1 \in T
    <2> SUFFICES ASSUME i + 1 <= W - 1 PROVE v[i + 1] \in Nat
      OBVIOUS
    <2>1. i \in Nat /\ i < W - 1 /\ i <= W - 1 /\ i + 2 \in 1..Len(rest)
      BY <1>1, <1>3
    <2>2. v[i] \in Nat /\ rest[i + 2] \in Nat
      BY <1>1, <2>1, Zenon
    <2>3. v[i + 1] = v[i] * ByteValues + rest[i + 2]
      BY <1>7, <2>1
    <2>4. \A x, y \in Nat : x * ByteValues + y \in Nat
      BY <1>2
    <2> QED
      BY <2>2, <2>3, <2>4, Zenon
  <1>10. T = Nat
    <2> HIDE DEF T
    <2>1. T \in SUBSET Nat
      BY DEF T
    <2> QED
      BY <1>8, <1>9, <2>1, Induct, Zenon
  <1>11. v[W - 1] \in Nat
    BY <1>5, <1>10
  <1> QED
    BY <1>3, <1>6, <1>7, <1>11, Zenon DEF W, v, VarintValue

(* take_varint reads what was written, in whatever width.                  *)
LEMMA ReadsLength ==
    ASSUME NEW n \in Nat, NEW w \in Nat, Fits(n, w), NEW rest \in Seq(Nat),
           Shl1[w] <= Len(rest), \A j \in 1..Shl1[w] : rest[j] = Encode(n, w)[j]
    PROVE  VarintValue(rest) = n
  <1> DEFINE W == Shl1[w]
             v == VarintUpTo(rest)
  <1>1. W \in Nat \ {0} /\ W - 1 \in Nat /\ 1 \in 1..W /\ Len(rest) \in Nat /\ W <= Len(rest)
    BY Widths
  <1>2. rest # << >>
    BY <1>1
  <1>3. rest[1] = Encode(n, w)[1]
    BY <1>1, Zenon
  <1>4. VarintWidth(rest[1]) = W /\ rest[1] % PrefixUnit = n \div Place[W - 1]
    BY <1>3, FirstByte, Zenon
  <1> HIDE DEF W
  <1>5. /\ v[0] = n \div Place[W - 1]
        /\ \A i \in Nat : i < W - 1 => v[i + 1] = v[i] * ByteValues + rest[i + 2]
    BY <1>1, <1>2, <1>4, UpToType, Zenon
  <1> HIDE DEF v
  <1>6. ByteValues \in Nat \ {0}
    BY SectionsAssumption
  <1> DEFINE T == {i \in Nat : i <= W - 1 => v[i] = n \div Place[W - 1 - i]}
  <1>7. 0 \in T
    <2>1. W - 1 - 0 = W - 1
      BY <1>1
    <2> QED
      BY <1>5, <2>1
  <1>8. ASSUME NEW i \in T PROVE i + 1 \in T
    <2> SUFFICES ASSUME i + 1 <= W - 1 PROVE v[i + 1] = n \div Place[W - 1 - (i + 1)]
      OBVIOUS
    <2> DEFINE P == Place[W - 1 - (i + 1)]
               q == n \div P
    <2>1. /\ i \in Nat /\ i < W - 1 /\ i <= W - 1 /\ i + 2 \in 1..W /\ i + 2 # 1
          /\ W - 1 - (i + 1) \in Nat /\ (W - 1 - (i + 1)) + 1 = W - 1 - i
          /\ W - (i + 2) = W - 1 - (i + 1)
      BY <1>1
    <2>2. P \in Nat \ {0} /\ Place[W - 1 - i] = ByteValues * P
      BY <2>1, PlaceValues, Zenon
    <2>3. v[i] = n \div (P * ByteValues)
      <3>1. v[i] = n \div Place[W - 1 - i]
        BY <2>1, Zenon
      <3>2. ByteValues * P = P * ByteValues
        BY <1>6, <2>2
      <3> QED
        BY <2>2, <3>1, <3>2, Zenon
    <2>4. rest[i + 2] = q % ByteValues
      <3>1. rest[i + 2] = Encode(n, w)[i + 2]
        BY <2>1, Zenon DEF W
      <3>2. Encode(n, w)[i + 2] = 0 + ((n \div Place[W - (i + 2)]) % ByteValues)
        BY <2>1, EncodeType, ZenonT(40) DEF W
      <3>3. Encode(n, w)[i + 2] = 0 + (q % ByteValues)
        BY <2>1, <3>2, Zenon
      <3>4. q % ByteValues \in Nat
        <4>1. q \in Nat
          BY <2>2, DivMod
        <4> QED
          BY <1>6, <4>1, DivMod
      <3> QED
        BY <3>1, <3>3, <3>4
    <2> HIDE DEF P
    <2>5. q \in Nat
      BY <2>2, DivMod
    <2>6. n \div (P * ByteValues) = q \div ByteValues
      BY <1>6, <2>2, DivDiv, Zenon
    <2> HIDE DEF q
    <2>7. q \div ByteValues \in Nat /\ q = ByteValues * (q \div ByteValues) + (q % ByteValues)
      BY <1>6, <2>5, DivMod
    <2>8. v[i + 1] = (q \div ByteValues) * ByteValues + (q % ByteValues)
      BY <1>5, <2>1, <2>3, <2>4, <2>6
    <2>9. v[i + 1] = q
      BY <1>6, <2>7, <2>8
    <2> QED
      BY <2>9 DEF q, P
  <1>9. T = Nat
    <2> HIDE DEF T
    <2>1. T \in SUBSET Nat
      BY DEF T
    <2> QED
      BY <1>7, <1>8, <2>1, Induct, Zenon
  <1>10. v[W - 1] = n \div Place[0]
    <2>1. W - 1 \in Nat /\ W - 1 <= W - 1 /\ W - 1 - (W - 1) = 0
      BY <1>1
    <2> QED
      BY <1>9, <2>1
  <1>11. n \div 1 = n
    OBVIOUS
  <1> QED
    BY <1>4, <1>10, <1>11, PlaceValues, Zenon DEF VarintValue, v

-----------------------------------------------------------------------------
(* The walk.                                                               *)

Walks == [verdict : {"go", "ok", "bad-request"}, rest : Seq(Nat)]

LEMMA WalkTypes ==
    /\ \A r \in Seq(Nat) : Go(r) \in Walks /\ Go(r).verdict = "go" /\ Go(r).rest = r
    /\ \A v \in {"ok", "bad-request"} : Stop(v) \in Walks /\ Stop(v).verdict = v
  BY DEF Walks, Go, Stop

LEMMA SectionType ==
    ASSUME NEW walk \in Walks, NEW s
    PROVE  Section(walk, s) \in Walks
  <1> DEFINE rest == walk.rest
             after == AfterVarint(rest)
             next == SubSeq(after, VarintValue(rest) + 1, Len(after))
  <1>1. rest \in Seq(Nat)
    BY DEF Walks
  <1>2. \/ Section(walk, s) = walk
        \/ Section(walk, s) = Stop("ok")
        \/ Section(walk, s) = Stop("bad-request")
        \/ rest # << >> /\ ~(Len(rest) < VarintWidth(rest[1])) /\ Section(walk, s) = Go(next)
    BY Zenon DEF Section
  <1>3. ASSUME rest # << >>, ~(Len(rest) < VarintWidth(rest[1])) PROVE next \in Seq(Nat)
    <2> HIDE DEF rest
    <2>1. VarintWidth(rest[1]) \in Nat
      <3>1. rest[1] \in Nat /\ PrefixUnit \in Nat \ {0}
        BY <1>1, <1>3, SectionsAssumption
      <3>2. rest[1] \div PrefixUnit \in Nat
        BY <3>1, DivMod
      <3> QED
        BY <3>2, Widths, Zenon DEF VarintWidth
    <2>2. VarintWidth(rest[1]) <= Len(rest)
      <3>1. Len(rest) \in Nat
        BY <1>1
      <3> QED
        BY <1>3, <2>1, <3>1
    <2>3. VarintValue(rest) \in Nat
      BY <1>1, <1>3, <2>2, UpToType, Zenon
    <2>4. after \in Seq(Nat)
      <3>1. SubSeq(rest, VarintWidth(rest[1]) + 1, Len(rest)) \in Seq(Nat)
        BY <1>1, <2>1
      <3> QED
        BY <3>1, Zenon DEF AfterVarint
    <2> HIDE DEF after
    <2> QED
      BY <2>3, <2>4
  <1> HIDE DEF next, rest
  <1> QED
    BY <1>2, <1>3, WalkTypes, Zenon

IsWalk(f, framed) ==
    f = [k \in 0..Len(Sections) |->
           IF k = 0 THEN Go(framed) ELSE Section(f[k - 1], Sections[k])]

LEMMA SectionList ==
    /\ Len(Sections) = ControlStrings + 3
    /\ \A i \in 1..(ControlStrings + 3) :
         /\ Sections[i].required <=> i <= ControlStrings
         /\ Sections[i].limit \in Nat
  BY SectionsAssumption DEF Sections

LEMMA WalkExists ==
    ASSUME NEW framed \in Seq(Nat)
    PROVE  \E f : IsWalk(f, framed)
  <1> DEFINE N == Len(Sections)
             g == [k \in Nat |-> [x \in Walks |-> Section(x, Sections[k + 1])]]
  <1>1. N \in Nat
    BY SectionList, SectionsAssumption
  <1>2. Go(framed) \in Walks
    BY WalkTypes, Zenon
  <1>3. g \in [Nat -> [Walks -> Walks]]
    BY SectionType, Zenon
  <1>4. \A k \in Nat, x \in Walks : g[k][x] = Section(x, Sections[k + 1])
    BY Zenon
  <1> HIDE DEF N, g
  <1>5. PICK f : Begins(f, N, Go(framed), g, Walks)
    BY <1>1, <1>2, <1>3, BeginsAll, Zenon
  <1>6. /\ f \in [0..N -> Walks] /\ f[0] = Go(framed)
        /\ \A k \in 0..N : k # N => f[k + 1] = g[k][f[k]]
    BY <1>5, Zenon DEF Begins
  <1>7. ASSUME NEW k \in 0..N
        PROVE  f[k] = IF k = 0 THEN Go(framed) ELSE Section(f[k - 1], Sections[k])
    <2>1. CASE k = 0
      BY <1>6, <2>1, Zenon
    <2>2. CASE k # 0
      <3>1. k - 1 \in 0..N /\ k - 1 # N /\ (k - 1) + 1 = k /\ k - 1 \in Nat
        BY <1>1, <2>2
      <3>2. f[k] = g[k - 1][f[k - 1]] /\ f[k - 1] \in Walks
        BY <1>6, <3>1, Zenon
      <3>3. g[k - 1][f[k - 1]] = Section(f[k - 1], Sections[k])
        BY <1>4, <3>1, <3>2, Zenon
      <3> QED
        BY <2>2, <3>2, <3>3, Zenon
    <2> QED
      BY <2>1, <2>2, Zenon
  <1>8. f = [k \in 0..N |-> f[k]]
    BY <1>6, Zenon
  <1>9. IsWalk(f, framed)
    BY <1>7, <1>8, Zenon DEF IsWalk, N
  <1> QED
    BY <1>9, Zenon

LEMMA WalkIs ==
    ASSUME NEW framed \in Seq(Nat)
    PROVE  /\ Walk(framed)[0] = Go(framed)
           /\ \A k \in Nat : k < Len(Sections) =>
                Walk(framed)[k + 1] = Section(Walk(framed)[k], Sections[k + 1])
  <1> DEFINE f == Walk(framed)
             N == Len(Sections)
  <1>1. Walk(framed) = CHOOSE h : IsWalk(h, framed)
    BY DEF Walk, IsWalk
  <1>2. IsWalk(f, framed)
    BY <1>1, WalkExists, Zenon
  <1> HIDE DEF f
  <1>3. f = [k \in 0..N |-> IF k = 0 THEN Go(framed) ELSE Section(f[k - 1], Sections[k])]
    BY <1>2, Zenon DEF IsWalk
  <1>4. N \in Nat
    BY SectionList, SectionsAssumption
  <1> HIDE DEF N
  <1>5. f[0] = Go(framed)
    <2>1. 0 \in 0..N
      BY <1>4
    <2> QED
      BY <1>3, <2>1, Zenon
  <1>6. ASSUME NEW k \in Nat, k < N PROVE f[k + 1] = Section(f[k], Sections[k + 1])
    <2>1. k + 1 \in 0..N /\ k + 1 # 0 /\ (k + 1) - 1 = k
      BY <1>4, <1>6
    <2>2. f[k + 1] = Section(f[(k + 1) - 1], Sections[k + 1])
      BY <1>3, <2>1, Zenon
    <2> QED
      BY <2>1, <2>2, Zenon
  <1> QED
    BY <1>5, <1>6, Zenon DEF f, N

(* What has been decided stays decided.                                    *)
LEMMA Decided ==
    ASSUME NEW framed \in Seq(Nat), NEW k \in Nat, k <= Len(Sections),
           Walk(framed)[k].verdict # "go"
    PROVE  Walk(framed)[Len(Sections)] = Walk(framed)[k]
  <1> DEFINE f == Walk(framed)
             N == Len(Sections)
  <1>1. N \in Nat /\ k <= N
    BY SectionList, SectionsAssumption
  <1>2. \A i \in Nat : i < N => f[i + 1] = Section(f[i], Sections[i + 1])
    BY WalkIs, Zenon
  <1>3. f[k].verdict # "go"
    OBVIOUS
  <1> HIDE DEF f, N
  <1> DEFINE T == {d \in Nat : k + d <= N => f[k + d] = f[k]}
  <1>4. 0 \in T
    OBVIOUS
  <1>5. ASSUME NEW d \in T PROVE d + 1 \in T
    <2> SUFFICES ASSUME k + (d + 1) <= N PROVE f[k + (d + 1)] = f[k]
      OBVIOUS
    <2>1. d \in Nat /\ k + d \in Nat /\ k + d < N /\ k + d <= N /\ (k + d) + 1 = k + (d + 1)
      BY <1>1
    <2>2. f[k + d] = f[k]
      BY <2>1, Zenon
    <2>3. f[(k + d) + 1] = Section(f[k + d], Sections[(k + d) + 1])
      BY <1>2, <2>1, Zenon
    <2>4. \A s : Section(f[k], s) = f[k]
      BY <1>3, Zenon DEF Section
    <2> QED
      BY <2>1, <2>2, <2>3, <2>4, Zenon
  <1>6. T = Nat
    <2> HIDE DEF T
    <2>1. T \in SUBSET Nat
      BY DEF T
    <2> QED
      BY <1>4, <1>5, <2>1, Induct, Zenon
  <1>7. N - k \in Nat /\ k + (N - k) = N /\ N <= N
    BY <1>1
  <1>8. f[k + (N - k)] = f[k]
    BY <1>6, <1>7
  <1> QED
    BY <1>7, <1>8, Zenon DEF f, N

-----------------------------------------------------------------------------
(* What was written.                                                       *)

(* Where section k ends, and section k + 1 begins.                         *)
End(k) == IF k = 0 THEN 0 ELSE ends[k]

FramedAt(i, w) ==
    /\ Fits(lengths[i], w)
    /\ ends[i] = End(i - 1) + Shl1[w] + lengths[i]
    /\ \A j \in 1..Shl1[w] : message[End(i - 1) + j] = Encode(lengths[i], w)[j]

(* The inductive invariant: each section is its length, in some width, and *)
(* that many bytes, right after the one before; only the last is followed  *)
(* by anything else.                                                       *)
Framing ==
    /\ message \in Seq(Nat) /\ ends \in Seq(Nat) /\ lengths \in Seq(Nat)
    /\ Len(lengths) = Len(ends) /\ Len(ends) <= Len(Sections)
    /\ \A i \in 1..Len(ends) : ends[i] <= Len(message) /\ \E w \in 0..MaxWidth : FramedAt(i, w)
    /\ Len(ends) < Len(Sections) => Len(message) = End(Len(ends))

LEMMA Framed ==
    ASSUME Framing, NEW k \in Nat, k < Len(ends)
    PROVE  /\ End(k) \in Nat /\ End(k + 1) \in Nat /\ lengths[k + 1] \in Nat
           /\ End(k + 1) <= Len(message)
           /\ \E w \in Nat :
                /\ Fits(lengths[k + 1], w)
                /\ End(k + 1) = End(k) + Shl1[w] + lengths[k + 1]
                /\ \A j \in 1..Shl1[w] : message[End(k) + j] = Encode(lengths[k + 1], w)[j]
  <1>1. /\ ends \in Seq(Nat) /\ lengths \in Seq(Nat) /\ Len(lengths) = Len(ends) /\ Len(ends) \in Nat
    BY DEF Framing
  <1>2. k + 1 \in 1..Len(ends) /\ (k + 1) - 1 = k /\ k + 1 # 0
    BY <1>1
  <1>3. End(k) \in Nat
    BY <1>1 DEF End
  <1>4. End(k + 1) = ends[k + 1] /\ ends[k + 1] \in Nat /\ lengths[k + 1] \in Nat
    BY <1>1, <1>2 DEF End
  <1>5. ends[k + 1] <= Len(message)
    BY <1>2, Zenon DEF Framing
  <1>6. PICK w \in 0..MaxWidth : FramedAt(k + 1, w)
    BY <1>2, Zenon DEF Framing
  <1>7. w \in Nat
    BY WriterAssumption
  <1>8. /\ Fits(lengths[k + 1], w)
        /\ ends[k + 1] = End(k) + Shl1[w] + lengths[k + 1]
        /\ \A j \in 1..Shl1[w] : message[End(k) + j] = Encode(lengths[k + 1], w)[j]
    BY <1>2, <1>6, Zenon DEF FramedAt
  <1> QED
    BY <1>3, <1>4, <1>5, <1>7, <1>8, Zenon

(* Sections follow one another, and none is without bytes.                 *)
LEMMA Ordered ==
    ASSUME Framing, NEW j \in Nat, NEW k \in Nat, j < k, k <= Len(ends)
    PROVE  End(j) \in Nat /\ End(k) \in Nat /\ End(j) < End(k)
  <1>1. Len(ends) \in Nat
    BY DEF Framing
  <1>2. ASSUME NEW i \in Nat, i < Len(ends)
        PROVE  End(i) \in Nat /\ End(i + 1) \in Nat /\ End(i) < End(i + 1)
    <2>1. PICK w \in Nat : End(i + 1) = End(i) + Shl1[w] + lengths[i + 1]
      BY <1>2, Framed, Zenon
    <2>2. End(i) \in Nat /\ End(i + 1) \in Nat /\ lengths[i + 1] \in Nat
      BY <1>2, Framed, Zenon
    <2>3. Shl1[w] \in Nat \ {0}
      BY Widths
    <2> QED
      BY <2>1, <2>2, <2>3, SMTT(30)
  <1> DEFINE T == {d \in Nat : j + d + 1 <= Len(ends) =>
                                 /\ End(j) \in Nat /\ End(j + d + 1) \in Nat
                                 /\ End(j) < End(j + d + 1)}
  <1>3. 0 \in T
    <2>1. j + 0 + 1 = j + 1 /\ (j + 1 <= Len(ends) => j < Len(ends))
      BY <1>1
    <2> QED
      BY <1>2, <2>1
  <1>4. ASSUME NEW d \in T PROVE d + 1 \in T
    <2> SUFFICES ASSUME j + (d + 1) + 1 <= Len(ends)
                 PROVE  /\ End(j) \in Nat /\ End(j + (d + 1) + 1) \in Nat
                        /\ End(j) < End(j + (d + 1) + 1)
      OBVIOUS
    <2>1. /\ j + d + 1 \in Nat /\ j + d + 1 < Len(ends) /\ j + d + 1 <= Len(ends)
          /\ j + (d + 1) + 1 = (j + d + 1) + 1
      BY <1>1
    <2>2. End(j) \in Nat /\ End(j + d + 1) \in Nat /\ End(j) < End(j + d + 1)
      BY <2>1, Zenon
    <2>3. End((j + d + 1) + 1) \in Nat /\ End(j + d + 1) < End((j + d + 1) + 1)
      BY <1>2, <2>1, Zenon
    <2>4. End(j) < End((j + d + 1) + 1)
      BY <2>2, <2>3
    <2> QED
      BY <2>1, <2>2, <2>3, <2>4, Zenon
  <1>5. T = Nat
    <2> HIDE DEF T
    <2>1. T \in SUBSET Nat
      BY DEF T
    <2> QED
      BY <1>3, <1>4, <2>1, Induct, Zenon
  <1>6. k - j - 1 \in Nat /\ j + (k - j - 1) + 1 = k
    OBVIOUS
  <1>7. k - j - 1 \in T
    <2> HIDE DEF T
    <2> QED
      BY <1>5, <1>6
  <1> QED
    BY <1>6, <1>7, Zenon

LEMMA Cut ==
    ASSUME NEW m \in Seq(Nat), NEW n \in 0..Len(m), NEW a \in 0..n
    PROVE  /\ SubSeq(m, a + 1, n) \in Seq(Nat)
           /\ Len(SubSeq(m, a + 1, n)) = n - a
           /\ \A j \in 1..(n - a) : SubSeq(m, a + 1, n)[j] = m[a + j]
  <1>1. SubSeq(m, a + 1, n) \in Seq(Nat)
    OBVIOUS
  <1>2. Len(SubSeq(m, a + 1, n)) = n - a
    OBVIOUS
  <1>3. \A j \in 1..(n - a) : SubSeq(m, a + 1, n)[j] = m[a + j]
    OBVIOUS
  <1> QED
    BY <1>1, <1>2, <1>3

LEMMA CutAgain ==
    ASSUME NEW m \in Seq(Nat), NEW n \in 0..Len(m), NEW a \in 0..n, NEW b \in 0..(n - a)
    PROVE  SubSeq(SubSeq(m, a + 1, n), b + 1, n - a) = SubSeq(m, a + b + 1, n)
  OBVIOUS

(* One turn over a section of which at least a byte is left.               *)
LEMMA Turn ==
    ASSUME Framing, NEW n \in 0..Len(message), NEW k \in Nat, k < Len(ends), End(k) < n,
           NEW s, s.limit \in Nat
    PROVE  Section(Go(SubSeq(message, End(k) + 1, n)), s) =
             IF lengths[k + 1] <= s.limit /\ End(k + 1) <= n
             THEN Go(SubSeq(message, End(k + 1) + 1, n)) ELSE Stop("bad-request")
  <1> DEFINE a == End(k)
             l == lengths[k + 1]
             rest == SubSeq(message, a + 1, n)
             after == AfterVarint(rest)
  <1>1. message \in Seq(Nat) /\ Len(message) \in Nat /\ n \in Nat
    BY DEF Framing
  <1>2. a \in Nat /\ End(k + 1) \in Nat /\ l \in Nat /\ a < n
    BY Framed, Zenon
  <1>3. PICK w \in Nat : /\ Fits(l, w) /\ End(k + 1) = a + Shl1[w] + l
                         /\ \A j \in 1..Shl1[w] : message[a + j] = Encode(l, w)[j]
    BY Framed, Zenon
  <1> DEFINE W == Shl1[w]
  <1>4. W \in Nat \ {0} /\ End(k + 1) = a + W + l
    BY <1>3, Widths, Zenon
  <1> HIDE DEF a, l
  <1>5. \A j \in 1..W : message[a + j] = Encode(l, w)[j]
    BY <1>3, Zenon
  <1> HIDE DEF W
  <1>6. a \in 0..n
    BY <1>1, <1>2
  <1>7. rest \in Seq(Nat) /\ Len(rest) = n - a /\ \A j \in 1..(n - a) : rest[j] = message[a + j]
    BY <1>1, <1>6, Cut, Zenon
  <1> HIDE DEF rest
  <1>8. rest # << >>
    BY <1>1, <1>2, <1>7
  <1>9. VarintWidth(rest[1]) = W
    <2>1. 1 \in 1..(n - a) /\ 1 \in 1..W
      BY <1>1, <1>2, <1>4
    <2>2. rest[1] = message[a + 1] /\ message[a + 1] = Encode(l, w)[1]
      BY <1>7, <1>5, <2>1
    <2>3. VarintWidth(Encode(l, w)[1]) = W
      BY <1>2, <1>3, FirstByte, Zenon DEF W
    <2>4. rest[1] = Encode(l, w)[1]
      BY <2>2
    <2> QED
      BY <2>3, <2>4
  <1>10. Section(Go(rest), s) =
          IF \/ Len(rest) < W \/ VarintValue(rest) > s.limit \/ VarintValue(rest) > Len(after)
          THEN Stop("bad-request")
          ELSE Go(SubSeq(after, VarintValue(rest) + 1, Len(after)))
    BY <1>7, <1>8, <1>9, WalkTypes, Zenon DEF Section
  <1>11. CASE n - a < W
    <2>1. ~(End(k + 1) <= n)
      BY <1>1, <1>2, <1>4, <1>11
    <2> QED
      BY <1>7, <1>10, <1>11, <2>1, Zenon DEF a, rest
  <1>12. CASE ~(n - a < W)
    <2>1. W <= n - a /\ W \in 0..(n - a) /\ n - a - W \in Nat
      BY <1>1, <1>2, <1>4, <1>12
    <2>2. VarintValue(rest) = l
      <3>1. \A j \in 1..W : rest[j] = Encode(l, w)[j]
        <4>1. \A j \in 1..W : j \in 1..(n - a)
          BY <1>1, <1>2, <1>4, <2>1
        <4> QED
          BY <1>7, <1>5, <4>1, Zenon
      <3> QED
        BY <1>2, <1>3, <1>7, <2>1, <3>1, ReadsLength, ZenonT(40) DEF W
    <2>3. after = SubSeq(message, a + W + 1, n)
      BY <1>1, <1>6, <1>7, <1>9, <2>1, CutAgain, Zenon DEF AfterVarint, rest
    <2>4. a + W \in 0..n /\ n - (a + W) = n - a - W
      BY <1>1, <1>2, <1>4, <2>1
    <2>5. Len(after) = n - (a + W)
      BY <1>1, <2>3, <2>4, Cut, Zenon
    <2> HIDE DEF after
    <2>6. l > Len(after) <=> ~(End(k + 1) <= n)
      BY <1>1, <1>2, <1>4, <2>1, <2>5, SMTT(30)
    <2>7. l > s.limit <=> ~(l <= s.limit)
      BY <1>2
    <2>8. ASSUME End(k + 1) <= n
          PROVE  SubSeq(after, l + 1, Len(after)) = SubSeq(message, End(k + 1) + 1, n)
      <3>1. l \in 0..(n - (a + W)) /\ End(k + 1) = (a + W) + l
        BY <1>1, <1>2, <1>4, <2>1, <2>8
      <3> QED
        BY <1>1, <2>3, <2>4, <2>5, <3>1, CutAgain, ZenonT(40)
    <2> QED
      BY <1>7, <1>10, <1>12, <2>2, <2>6, <2>7, <2>8, Zenon DEF a, l, rest
  <1> QED
    BY <1>11, <1>12

LEMMA Below ==
    ASSUME NEW x \in Nat, NEW y \in Nat, NEW z \in Nat, x < y, y <= z
    PROVE  x < z /\ x <= z
  OBVIOUS

(* The walk gets past what is whole and within its limits.                 *)
LEMMA Reaches ==
    ASSUME Framing, NEW n \in 0..Len(message), NEW k \in Nat,
           k <= Len(ends), End(k) <= n, Within(k)
    PROVE  Walk(SubSeq(message, 1, n))[k] = Go(SubSeq(message, End(k) + 1, n))
  <1> DEFINE f == Walk(SubSeq(message, 1, n))
             N == Len(Sections)
  <1>1. message \in Seq(Nat) /\ Len(ends) \in Nat /\ Len(ends) <= N /\ N \in Nat /\ n \in Nat
    BY SectionList, SectionsAssumption DEF Framing
  <1>2. SubSeq(message, 1, n) \in Seq(Nat)
    BY <1>1, SMTT(30)
  <1>3. /\ f[0] = Go(SubSeq(message, 1, n))
        /\ \A i \in Nat : i < N => f[i + 1] = Section(f[i], Sections[i + 1])
    BY <1>2, WalkIs, Zenon
  <1> HIDE DEF f
  <1> DEFINE T == {i \in Nat : i <= Len(ends) /\ End(i) <= n /\ Within(i) =>
                                 f[i] = Go(SubSeq(message, End(i) + 1, n))}
  <1>4. 0 \in T
    <2>1. End(0) + 1 = 1
      BY DEF End
    <2> QED
      BY <1>3, <2>1
  <1>5. ASSUME NEW i \in T PROVE i + 1 \in T
    <2> SUFFICES ASSUME i + 1 <= Len(ends), End(i + 1) <= n, Within(i + 1)
                 PROVE  f[i + 1] = Go(SubSeq(message, End(i + 1) + 1, n))
      OBVIOUS
    <2>1. /\ i \in Nat /\ i + 1 \in Nat /\ i < i + 1 /\ i < Len(ends) /\ i <= Len(ends) /\ i < N
          /\ i + 1 \in 1..(i + 1) /\ \A j \in 1..i : j \in 1..(i + 1)
      BY <1>1
    <2>2. End(i) \in Nat /\ End(i + 1) \in Nat /\ End(i) < End(i + 1)
      BY <2>1, Ordered, Zenon
    <2>3. End(i) < n /\ End(i) <= n
      BY <1>1, <2>2, Below, Zenon
    <2>4. Within(i) /\ lengths[i + 1] <= Sections[i + 1].limit
      BY <2>1, Zenon DEF Within
    <2>5. f[i] = Go(SubSeq(message, End(i) + 1, n))
      BY <2>1, <2>3, <2>4, Zenon
    <2>6. Sections[i + 1].limit \in Nat
      <3>1. i + 1 \in 1..(ControlStrings + 3)
        BY <1>1, <2>1, SectionList
      <3> QED
        BY <3>1, SectionList, Zenon
    <2>7. Section(Go(SubSeq(message, End(i) + 1, n)), Sections[i + 1]) =
            Go(SubSeq(message, End(i + 1) + 1, n))
      BY <2>1, <2>3, <2>4, <2>6, Turn, Zenon
    <2> QED
      BY <1>3, <2>1, <2>5, <2>7, Zenon
  <1>6. T = Nat
    <2> HIDE DEF T
    <2>1. T \in SUBSET Nat
      BY DEF T
    <2> QED
      BY <1>4, <1>5, <2>1, Induct, ZenonT(40)
  <1>7. k \in T
    BY <1>6, Zenon
  <1> QED
    BY <1>7, Zenon DEF f

LEMMA AcceptsExactly ==
    ASSUME Framing, NEW n \in 0..Len(message)
    PROVE  CheckFieldSections(SubSeq(message, 1, n)) <=> Acceptable(n)
  <1> DEFINE f == Walk(SubSeq(message, 1, n))
             N == Len(Sections)
             R == {i \in Nat : i <= Len(ends) /\ End(i) <= n /\ Within(i)}
  <1>1. /\ message \in Seq(Nat) /\ Len(message) \in Nat /\ n \in Nat /\ n <= Len(message)
        /\ ends \in Seq(Nat) /\ Len(ends) \in Nat /\ Len(ends) <= N
        /\ N = ControlStrings + 3 /\ N \in Nat /\ ControlStrings \in Nat \ {0}
    BY SectionList, SectionsAssumption DEF Framing
  <1>2. SubSeq(message, 1, n) \in Seq(Nat)
    BY <1>1
  <1>3. \A i \in Nat : i < N => f[i + 1] = Section(f[i], Sections[i + 1])
    BY <1>2, WalkIs, Zenon
  <1>4. CheckFieldSections(SubSeq(message, 1, n)) <=> f[N].verdict \in {"go", "ok"}
    BY Zenon DEF CheckFieldSections
  <1>5. \A i \in R : f[i] = Go(SubSeq(message, End(i) + 1, n))
    BY Reaches, Zenon
  <1>6. \A i \in Nat : i <= N /\ f[i].verdict # "go" => f[N] = f[i]
    BY <1>2, Decided, Zenon
  <1> HIDE DEF f, N
  <1>7. 0 \in R
    <2>1. 0 \in Nat /\ 0 <= Len(ends) /\ 1..0 = {}
      BY <1>1
    <2>2. End(0) <= n
      BY <1>1 DEF End
    <2> QED
      BY <2>1, <2>2, Zenon DEF Within
  <1>8. PICK k \in R : \A i \in R : i <= k
    <2>1. R \in SUBSET Nat /\ \A x \in R : x <= Len(ends)
      OBVIOUS
    <2> HIDE DEF R
    <2> QED
      BY <1>1, <1>7, <2>1, Greatest, Zenon
  <1>9. k \in Nat /\ k <= Len(ends) /\ End(k) <= n /\ Within(k)
    OBVIOUS
  <1>10. End(k) \in Nat
    BY <1>1, <1>9 DEF End
  <1>11. f[k] = Go(SubSeq(message, End(k) + 1, n))
    BY <1>5, Zenon
  <1>12. ASSUME NEW i \in ControlStrings..Len(ends), ends[i] = n, Within(i)
         PROVE  i \in Nat /\ i <= k /\ End(i) = n
    <2>1. i \in Nat /\ i # 0 /\ i <= Len(ends) /\ n <= n
      BY <1>1
    <2>2. End(i) = n
      BY <1>12, <2>1, Zenon DEF End
    <2>3. i \in R
      BY <1>12, <2>1, <2>2, Zenon
    <2> QED
      BY <1>8, <2>1, <2>2, <2>3, Zenon
  <1>13. ASSUME Len(ends) = N, n >= ends[Len(ends)], Within(Len(ends))
         PROVE  N <= k
    <2>1. N # 0 /\ N \in 1..Len(ends) /\ ends[N] \in Nat
      BY <1>1, <1>13
    <2>2. ends[N] <= n /\ N <= Len(ends)
      BY <1>1, <1>13, <2>1
    <2>3. End(N) <= n
      BY <2>1, <2>2, Zenon DEF End
    <2>4. N \in R
      BY <1>1, <1>13, <2>2, <2>3, Zenon
    <2> QED
      BY <1>8, <2>4, Zenon
  <1> HIDE DEF R
  <1>14. SubSeq(message, End(k) + 1, n) \in Seq(Nat)
    BY <1>1, <1>10
  <1>15. CASE k = N
    <2>1. Len(ends) = N /\ N # 0
      BY <1>1, <1>9, <1>15
    <2>2. ends[Len(ends)] = End(k)
      BY <1>15, <2>1, Zenon DEF End
    <2>3. n >= ends[Len(ends)]
      BY <1>1, <1>9, <1>10, <2>2
    <2>4. Acceptable(n)
      BY <1>9, <1>15, <2>1, <2>3, Zenon DEF Acceptable, N
    <2>5. f[N].verdict = "go"
      BY <1>11, <1>14, <1>15, WalkTypes, Zenon
    <2> QED
      BY <1>4, <2>4, <2>5, Zenon
  <1>16. CASE k < N
    <2>1. k + 1 \in Nat /\ k + 1 <= N /\ k + 1 \in 1..(ControlStrings + 3) /\ ~(N <= k)
      BY <1>1, <1>9, <1>16
    <2>2. f[k + 1] = Section(Go(SubSeq(message, End(k) + 1, n)), Sections[k + 1])
      BY <1>3, <1>9, <1>11, <1>16, Zenon
    <2>3. Sections[k + 1].limit \in Nat /\ (Sections[k + 1].required <=> k + 1 <= ControlStrings)
      BY <2>1, SectionList, Zenon
    <2>4. Acceptable(n) <=> \E i \in ControlStrings..Len(ends) : ends[i] = n /\ Within(i)
      BY <1>13, <2>1, Zenon DEF Acceptable, N
    <2>5. CASE End(k) = n
      <3>1. SubSeq(message, End(k) + 1, n) = << >>
        BY <1>1, <2>5
      <3>2. Go(<< >>).verdict = "go" /\ Go(<< >>).rest = << >>
        BY DEF Go
      <3>3. f[k + 1] = IF k + 1 <= ControlStrings THEN Stop("bad-request") ELSE Stop("ok")
        BY <2>2, <2>3, <3>1, <3>2, Zenon DEF Section
      <3>4. /\ Stop("bad-request").verdict = "bad-request" /\ Stop("ok").verdict = "ok"
            /\ "bad-request" # "go" /\ "ok" # "go" /\ "bad-request" # "ok"
        BY DEF Stop
      <3>5. f[k + 1].verdict # "go" /\ (f[k + 1].verdict \in {"go", "ok"} <=> ~(k + 1 <= ControlStrings))
        BY <3>3, <3>4, Zenon
      <3>6. f[N] = f[k + 1]
        BY <1>6, <2>1, <3>5, Zenon
      <3>7. CASE k + 1 <= ControlStrings
        <4>1. ~\E i \in ControlStrings..Len(ends) : ends[i] = n /\ Within(i)
          <5> SUFFICES ASSUME NEW i \in ControlStrings..Len(ends), ends[i] = n, Within(i)
                       PROVE  FALSE
            OBVIOUS
          <5>1. i <= k
            BY <1>12, Zenon
          <5> QED
            BY <1>1, <1>9, <3>7, <5>1
        <4> QED
          BY <1>4, <2>4, <3>5, <3>6, <3>7, <4>1, Zenon
      <3>8. CASE ~(k + 1 <= ControlStrings)
        <4>1. k \in ControlStrings..Len(ends) /\ k # 0
          BY <1>1, <1>9, <3>8
        <4>2. ends[k] = n
          BY <2>5, <4>1, Zenon DEF End
        <4> QED
          BY <1>4, <1>9, <2>4, <3>5, <3>6, <3>8, <4>1, <4>2, Zenon
      <3> QED
        BY <3>7, <3>8
    <2>6. CASE End(k) # n
      <3>1. End(k) < n
        BY <1>1, <1>9, <1>10, <2>6
      <3>2. k < Len(ends)
        <4>1. ASSUME k = Len(ends) PROVE FALSE
          <5>1. Len(message) = End(k)
            BY <1>16, <4>1, Zenon DEF Framing, N
          <5> QED
            BY <1>1, <1>10, <3>1, <5>1
        <4> QED
          BY <1>1, <1>9, <4>1
      <3>3. ~(lengths[k + 1] <= Sections[k + 1].limit /\ End(k + 1) <= n)
        <4> SUFFICES ASSUME lengths[k + 1] <= Sections[k + 1].limit, End(k + 1) <= n
                     PROVE  FALSE
          OBVIOUS
        <4>1. \A i \in 1..(k + 1) : i \in 1..k \/ i = k + 1
          BY <1>9
        <4>2. Within(k + 1)
          BY <1>9, <4>1, Zenon DEF Within
        <4>3. k + 1 <= Len(ends)
          BY <1>1, <1>9, <3>2
        <4>4. k + 1 \in R
          BY <2>1, <4>2, <4>3, Zenon DEF R
        <4>5. k + 1 <= k
          BY <1>8, <4>4, Zenon
        <4> QED
          BY <1>9, <4>5
      <3>4. f[k + 1] = Stop("bad-request")
        BY <1>9, <2>2, <2>3, <3>1, <3>2, <3>3, Turn, Zenon
      <3>5. Stop("bad-request").verdict = "bad-request" /\ "bad-request" \notin {"go", "ok"}
        BY DEF Stop
      <3>6. f[N].verdict \notin {"go", "ok"}
        BY <1>6, <2>1, <3>4, <3>5, Zenon
      <3>7. ASSUME NEW i \in ControlStrings..Len(ends), ends[i] = n, Within(i) PROVE FALSE
        <4>1. i \in Nat /\ i <= k /\ End(i) = n
          BY <1>12, <3>7, Zenon
        <4>2. i # k /\ i < k
          BY <1>9, <2>6, <4>1
        <4>3. End(i) < End(k)
          BY <1>9, <4>1, <4>2, Ordered, Zenon
        <4> QED
          BY <1>1, <1>10, <3>1, <4>1, <4>3
      <3> QED
        BY <1>4, <2>4, <3>6, <3>7, Zenon
    <2> QED
      BY <2>5, <2>6
  <1> QED
    BY <1>1, <1>9, <1>15, <1>16

LEMMA Offsets ==
    ASSUME NEW a \in Nat, NEW w \in Nat \ {0}, NEW l \in Nat, NEW e \in Nat, e = a + w + l,
           NEW m \in Nat, e <= m
    PROVE  \A j \in 1..w : a + j \in 1..m
  OBVIOUS

LEMMA Join ==
    ASSUME NEW x \in Seq(Nat), NEW y \in Seq(Nat)
    PROVE  /\ x \o y \in Seq(Nat)
           /\ Len(x \o y) = Len(x) + Len(y)
           /\ \A p \in 1..Len(x) : (x \o y)[p] = x[p]
           /\ \A j \in 1..Len(y) : (x \o y)[Len(x) + j] = y[j]
  <1>1. x \o y \in Seq(Nat) /\ Len(x \o y) = Len(x) + Len(y)
    OBVIOUS
  <1>2. \A p \in 1..Len(x) : (x \o y)[p] = x[p]
    OBVIOUS
  <1>3. \A j \in 1..Len(y) : (x \o y)[Len(x) + j] = y[j]
    OBVIOUS
  <1> QED
    BY <1>1, <1>2, <1>3, Zenon

LEMMA Joined ==
    ASSUME NEW x \in Seq(Nat), NEW y \in Seq(Nat), NEW z \in Seq(Nat)
    PROVE  /\ (x \o y) \o z \in Seq(Nat)
           /\ Len((x \o y) \o z) = Len(x) + Len(y) + Len(z)
           /\ \A p \in 1..Len(x) : ((x \o y) \o z)[p] = x[p]
           /\ \A j \in 1..Len(y) : ((x \o y) \o z)[Len(x) + j] = y[j]
  <1> DEFINE u == x \o y
  <1>1. /\ u \in Seq(Nat) /\ Len(u) = Len(x) + Len(y)
        /\ \A p \in 1..Len(x) : u[p] = x[p]
        /\ \A j \in 1..Len(y) : u[Len(x) + j] = y[j]
    BY Join, Zenon
  <1> HIDE DEF u
  <1>2. /\ u \o z \in Seq(Nat) /\ Len(u \o z) = Len(u) + Len(z)
        /\ \A p \in 1..Len(u) : (u \o z)[p] = u[p]
    BY <1>1, Join, Zenon
  <1>3. Len(u) = Len(x) + Len(y) /\ Len(x) \in Nat /\ Len(y) \in Nat
    BY <1>1
  <1>4. \A p \in 1..Len(x) : p \in 1..Len(u)
    BY <1>3
  <1>5. \A j \in 1..Len(y) : Len(x) + j \in 1..Len(u)
    BY <1>3
  <1>6. \A p \in 1..Len(x) : (u \o z)[p] = x[p]
    BY <1>1, <1>2, <1>4, Zenon
  <1>7. \A j \in 1..Len(y) : (u \o z)[Len(x) + j] = y[j]
    BY <1>1, <1>2, <1>5, Zenon
  <1> QED
    BY <1>1, <1>2, <1>6, <1>7, Zenon DEF u

(* A longer message has the sections of the shorter one.                   *)
LEMMA StaysFramed ==
    ASSUME Framing, Len(message') \in Nat, Len(message) <= Len(message'),
           \A p \in 1..Len(message) : message'[p] = message[p],
           \A i \in 1..Len(ends) : ends'[i] = ends[i] /\ lengths'[i] = lengths[i],
           NEW i \in 1..Len(ends)
    PROVE  ends'[i] <= Len(message') /\ \E w \in 0..MaxWidth : FramedAt(i, w)'
  <1>1. /\ ends \in Seq(Nat) /\ lengths \in Seq(Nat) /\ Len(lengths) = Len(ends)
        /\ Len(ends) \in Nat /\ Len(message) \in Nat
    BY DEF Framing
  <1>2. i - 1 \in Nat /\ (i - 1 # 0 => i - 1 \in 1..Len(ends)) /\ i \in Nat
        /\ ends[i] \in Nat /\ lengths[i] \in Nat
    BY <1>1
  <1>3. End(i - 1)' = End(i - 1)
    BY <1>2, Zenon DEF End
  <1>4. End(i - 1) \in Nat
    BY <1>1, <1>2, SMTT(30) DEF End
  <1>5. ends[i] <= Len(message)
    BY Zenon DEF Framing
  <1>6. PICK w \in 0..MaxWidth : FramedAt(i, w)
    BY Zenon DEF Framing
  <1>7. Shl1[w] \in Nat \ {0}
    BY Widths, WriterAssumption
  <1>8. /\ Fits(lengths[i], w) /\ ends[i] = End(i - 1) + Shl1[w] + lengths[i]
        /\ \A j \in 1..Shl1[w] : message[End(i - 1) + j] = Encode(lengths[i], w)[j]
    BY <1>6, Zenon DEF FramedAt
  <1>9. \A j \in 1..Shl1[w] : End(i - 1) + j \in 1..Len(message)
    <2>1. ends[i] = End(i - 1) + Shl1[w] + lengths[i]
      BY <1>8
    <2> QED
      BY <1>1, <1>2, <1>4, <1>5, <1>7, <2>1, Offsets, Zenon
  <1>10. \A j \in 1..Shl1[w] : message'[End(i - 1) + j] = Encode(lengths[i], w)[j]
    BY <1>8, <1>9, Zenon
  <1>11. FramedAt(i, w)'
    <2>1. ends'[i] = ends[i] /\ lengths'[i] = lengths[i]
      OBVIOUS
    <2>2. /\ Fits(lengths'[i], w) /\ ends'[i] = End(i - 1)' + Shl1[w] + lengths'[i]
          /\ \A j \in 1..Shl1[w] : message'[End(i - 1)' + j] = Encode(lengths'[i], w)[j]
      BY <1>3, <1>8, <1>10, <2>1, Zenon
    <2> QED
      BY <2>2, Zenon DEF FramedAt, Fits, Encode
  <1>12. ends'[i] <= Len(message')
    BY <1>1, <1>2, <1>5, SMTT(30)
  <1> QED
    BY <1>11, <1>12, Zenon

LEMMA SectionWritten ==
    ASSUME Framing, WriteSection
    PROVE  Framing'
  <1> DEFINE N == Len(Sections)
  <1>1. /\ message \in Seq(Nat) /\ ends \in Seq(Nat) /\ lengths \in Seq(Nat)
        /\ Len(lengths) = Len(ends) /\ Len(ends) \in Nat /\ Len(message) \in Nat /\ N \in Nat
    BY SectionList, SectionsAssumption DEF Framing
  <1>2. Len(ends) < N
    BY DEF WriteSection
  <1>3. PICK m \in Nat, L \in Nat : m = Len(ends) /\ L = Len(message)
    BY <1>1, Zenon
  <1>4. L = End(m)
    BY <1>3, <1>2, Zenon DEF Framing
  <1>5. PICK n \in 0..MaxLength, w \in 0..MaxWidth, b \in Fillers :
          /\ Fits(n, w)
          /\ message' = message \o Encode(n, w) \o [i \in 1..n |-> b]
          /\ lengths' = Append(lengths, n)
          /\ ends' = Append(ends, Len(message'))
    BY Zenon DEF WriteSection
  <1> DEFINE c == [i \in 1..n |-> b]
  <1>6. n \in Nat /\ w \in Nat /\ b \in Nat
    BY WriterAssumption
  <1>7. Encode(n, w) \in Seq(Nat) /\ Len(Encode(n, w)) = Shl1[w] /\ Shl1[w] \in Nat \ {0}
    BY <1>6, EncodeType, Widths, Zenon
  <1>8. c \in Seq(Nat) /\ Len(c) = n
    BY <1>6
  <1>9. message' = (message \o Encode(n, w)) \o c
    BY <1>5, Zenon
  <1> HIDE DEF c, N
  <1>10. /\ message' \in Seq(Nat) /\ Len(message') = L + Shl1[w] + n
         /\ \A p \in 1..L : message'[p] = message[p]
         /\ \A j \in 1..Shl1[w] : message'[L + j] = Encode(n, w)[j]
    <2> DEFINE x == (message \o Encode(n, w)) \o c
    <2>1. /\ x \in Seq(Nat) /\ Len(x) = Len(message) + Len(Encode(n, w)) + Len(c)
          /\ \A p \in 1..Len(message) : x[p] = message[p]
          /\ \A j \in 1..Len(Encode(n, w)) : x[Len(message) + j] = Encode(n, w)[j]
      <3>1. PICK t \in Seq(Nat) : t = message
        BY <1>1, Zenon
      <3>2. PICK h \in Seq(Nat) : h = Encode(n, w)
        BY <1>7, Zenon
      <3>3. PICK d \in Seq(Nat) : d = c
        BY <1>8, Zenon
      <3>4. /\ (t \o h) \o d \in Seq(Nat) /\ Len((t \o h) \o d) = Len(t) + Len(h) + Len(d)
            /\ \A p \in 1..Len(t) : ((t \o h) \o d)[p] = t[p]
            /\ \A j \in 1..Len(h) : ((t \o h) \o d)[Len(t) + j] = h[j]
        BY Joined, ZenonT(40)
      <3> QED
        BY <3>1, <3>2, <3>3, <3>4, Zenon
    <2>2. message' = x
      BY <1>9
    <2> HIDE DEF x
    <2> QED
      BY <1>3, <1>7, <1>8, <2>1, <2>2, Zenon
  <1>11. Len(message') \in Nat /\ L <= Len(message')
    BY <1>6, <1>7, <1>10
  <1>12. /\ ends' \in Seq(Nat) /\ Len(ends') = m + 1 /\ ends'[m + 1] = Len(message')
         /\ \A i \in 1..m : ends'[i] = ends[i]
    BY <1>1, <1>3, <1>5, <1>11
  <1>13. /\ lengths' \in Seq(Nat) /\ Len(lengths') = m + 1 /\ lengths'[m + 1] = n
         /\ \A i \in 1..m : lengths'[i] = lengths[i]
    BY <1>1, <1>3, <1>5, <1>6
  <1>14. \A i \in 1..m : ends'[i] <= Len(message') /\ \E v \in 0..MaxWidth : FramedAt(i, v)'
    BY <1>3, <1>10, <1>11, <1>12, <1>13, StaysFramed, Zenon
  <1>15. End(m)' = L
    <2>1. m = 0 \/ m \in 1..m
      OBVIOUS
    <2>2. m \in 1..m => ends'[m] = ends[m]
      BY <1>12
    <2> QED
      BY <1>4, <2>1, <2>2, Zenon DEF End
  <1>16. FramedAt(m + 1, w)'
    <2>1. (m + 1) - 1 = m
      OBVIOUS
    <2>2. /\ Fits(lengths'[m + 1], w) /\ ends'[m + 1] = L + Shl1[w] + lengths'[m + 1]
          /\ \A j \in 1..Shl1[w] : message'[L + j] = Encode(lengths'[m + 1], w)[j]
      <3>1. lengths'[m + 1] = n /\ ends'[m + 1] = L + Shl1[w] + n /\ Fits(n, w)
        BY <1>5, <1>10, <1>12, <1>13, Zenon
      <3>2. \A j \in 1..Shl1[w] : message'[L + j] = Encode(n, w)[j]
        BY <1>10, Zenon
      <3>3. Fits(lengths'[m + 1], w)
        BY <3>1, Zenon
      <3>4. ends'[m + 1] = L + Shl1[w] + lengths'[m + 1]
        BY <3>1, Zenon
      <3>5. Encode(lengths'[m + 1], w) = Encode(n, w)
        BY <3>1, Zenon
      <3>6. \A j \in 1..Shl1[w] : message'[L + j] = Encode(lengths'[m + 1], w)[j]
        BY <3>2, <3>5, Zenon
      <3> QED
        BY <3>3, <3>4, <3>6, Zenon
    <2>3. End((m + 1) - 1)' = L
      BY <1>15, <2>1
    <2> QED
      BY <2>2, <2>3, Zenon DEF FramedAt, Fits, Encode
  <1>17. ASSUME NEW i \in 1..Len(ends')
         PROVE  ends'[i] <= Len(message') /\ \E v \in 0..MaxWidth : FramedAt(i, v)'
    <2>1. i \in 1..m \/ i = m + 1
      BY <1>12
    <2>2. Len(message') <= Len(message')
      BY <1>11
    <2> QED
      BY <1>5, <1>12, <1>14, <1>16, <2>1, <2>2, Zenon
  <1>18. Len(ends') <= N /\ Len(lengths') = Len(ends')
    BY <1>3, <1>1, <1>2, <1>12, <1>13
  <1>19. Len(message') = End(Len(ends))'
    <2>1. m + 1 # 0
      OBVIOUS
    <2> QED
      BY <1>12, <2>1, Zenon DEF End
  <1> QED
    BY <1>10, <1>12, <1>13, <1>17, <1>18, <1>19, Zenon DEF Framing, N

LEMMA PaddingWritten ==
    ASSUME Framing, WritePadding
    PROVE  Framing'
  <1>1. /\ message \in Seq(Nat) /\ ends \in Seq(Nat) /\ lengths \in Seq(Nat)
        /\ Len(lengths) = Len(ends) /\ Len(ends) <= Len(Sections) /\ Len(ends) \in Nat
    BY DEF Framing
  <1>2. Len(ends) = Len(Sections) /\ message' = Append(message, 0) /\ ends' = ends /\ lengths' = lengths
    BY DEF WritePadding
  <1>3. /\ message' \in Seq(Nat) /\ Len(message') \in Nat /\ Len(message) <= Len(message')
        /\ \A p \in 1..Len(message) : message'[p] = message[p]
    BY <1>1, <1>2
  <1>4. \A i \in 1..Len(ends) :
           ends'[i] <= Len(message') /\ \E w \in 0..MaxWidth : FramedAt(i, w)'
    BY <1>2, <1>3, StaysFramed, Zenon
  <1>5. ~(Len(ends') < Len(Sections))
    BY <1>1, <1>2
  <1> QED
    BY <1>1, <1>2, <1>3, <1>4, <1>5, Zenon DEF Framing

(* SectionsHold: check_field_sections accepts exactly the messages whose   *)
(* field sections are within MAX_FIELD_SECTION_BYTES, cut where RFC 9292   *)
(* allows it or padded, for every number of control strings, every limit,  *)
(* every radix and every width of a varint.                                *)
THEOREM SectionsHold == WriterSpec => []SectionsBounded
  <1>1. WriterInit => Framing
    <2> SUFFICES ASSUME WriterInit PROVE Framing
      OBVIOUS
    <2>1. message = << >> /\ ends = << >> /\ lengths = << >>
      BY DEF WriterInit
    <2>2. Len(Sections) \in Nat
      BY SectionList, SectionsAssumption
    <2>3. /\ message \in Seq(Nat) /\ ends \in Seq(Nat) /\ lengths \in Seq(Nat)
          /\ Len(lengths) = Len(ends) /\ Len(ends) <= Len(Sections) /\ 1..Len(ends) = {}
          /\ Len(message) = 0 /\ Len(ends) = 0
      BY <2>1, <2>2
    <2> QED
      BY <2>3, Zenon DEF Framing, End
  <1>2. Framing /\ [WriterNext]_<<message, ends, lengths>> => Framing'
    <2> SUFFICES ASSUME Framing, [WriterNext]_<<message, ends, lengths>> PROVE Framing'
      OBVIOUS
    <2>1. CASE UNCHANGED <<message, ends, lengths>>
      <3>1. message' = message /\ ends' = ends /\ lengths' = lengths
        BY <2>1
      <3>2. Len(message') \in Nat /\ Len(message) <= Len(message')
        BY <3>1 DEF Framing
      <3>3. \A i \in 1..Len(ends) :
               ends'[i] <= Len(message') /\ \E w \in 0..MaxWidth : FramedAt(i, w)'
        BY <3>1, <3>2, StaysFramed, Zenon
      <3>4. End(Len(ends))' = End(Len(ends))
        BY <3>1, Zenon DEF End
      <3> QED
        BY <3>1, <3>3, <3>4, Zenon DEF Framing
    <2> QED
      BY <2>1, SectionWritten, PaddingWritten DEF WriterNext
  <1>3. Framing => SectionsBounded
    BY AcceptsExactly, Zenon DEF SectionsBounded
  <1> QED
    BY <1>1, <1>2, <1>3, PTL DEF WriterSpec

=============================================================================
