---------------------------- MODULE NumberProofs ----------------------------
(***************************************************************************)
(* Facts about the natural numbers for the proofs about texts, varints and *)
(* timestamps: induction, in terms of sets; sets of numbers have a least   *)
(* and, when bounded, a greatest element; a function may be defined by     *)
(* recursion; and division.                                                *)
(***************************************************************************)
EXTENDS Integers, WellFoundedInduction, TLAPS

(* A set of numbers that is not empty has a least element.                 *)
LEMMA WellOrdered ==
    ASSUME NEW T \in SUBSET Nat, T # {}
    PROVE  \E x \in T : \A y \in T : x <= y
  <1> DEFINE R == OpToRel(<, Nat)
  <1>1. IsWellFoundedOn(R, Nat)
    BY NatLessThanWellFounded, Zenon
  <1>2. \A x, y \in Nat : x < y => <<x, y>> \in R
    BY Zenon DEF OpToRel
  <1>3. \E x \in T : \A y \in T : ~(<<y, x>> \in R)
    BY <1>1, WFMin, Zenon
  <1> HIDE DEF R
  <1>4. PICK x \in T : \A y \in T : ~(<<y, x>> \in R)
    BY <1>3
  <1>5. ASSUME NEW y \in T PROVE x <= y
    <2>1. x \in Nat /\ y \in Nat
      OBVIOUS
    <2>2. ~(y < x)
      BY <1>2, <1>4, <2>1, Zenon
    <2> QED
      BY <2>1, <2>2
  <1> QED
    BY <1>5

(* A set that has 0, and with every number the next, has all of them.      *)
LEMMA Induct ==
    ASSUME NEW T \in SUBSET Nat, 0 \in T, \A n \in T : n + 1 \in T
    PROVE  T = Nat
  <1> SUFFICES ASSUME Nat \ T # {} PROVE FALSE
    BY Zenon
  <1>1. PICK x \in Nat \ T : \A y \in Nat \ T : x <= y
    BY WellOrdered, Zenon
  <1>2. x # 0 /\ x - 1 \in Nat
    BY <1>1
  <1>3. x - 1 \in T
    BY <1>1, <1>2
  <1>4. (x - 1) + 1 \in T
    BY <1>3
  <1> QED
    BY <1>1, <1>4

(* A bounded set of numbers that is not empty has a greatest element.      *)
LEMMA Greatest ==
    ASSUME NEW T \in SUBSET Nat, T # {}, NEW b \in Nat, \A x \in T : x <= b
    PROVE  \E x \in T : \A y \in T : y <= x
  <1> DEFINE D == {b - x : x \in T}
  <1>1. \A x \in T : b - x \in Nat
    OBVIOUS
  <1>2. PICK d \in D : \A e \in D : d <= e
    <2>1. D \in SUBSET Nat /\ D # {}
      BY <1>1, Zenon
    <2> QED
      BY <2>1, WellOrdered, Zenon
  <1>3. PICK x \in T : d = b - x
    BY <1>2
  <1>4. ASSUME NEW y \in T PROVE y <= x
    <2>1. b - y \in D
      OBVIOUS
    <2>2. b - x <= b - y
      BY <1>2, <1>3, <2>1
    <2> QED
      BY <2>2
  <1> QED
    BY <1>4

(* The first n values of the recursion that starts with a and goes on      *)
(* with g.                                                                 *)
Begins(f, n, a, g, V) ==
    /\ f \in [0..n -> V]
    /\ f[0] = a
    /\ \A k \in 0..n : k # n => f[k + 1] = g[k][f[k]]

(* Two beginnings agree where both are defined.                            *)
LEMMA BeginsOnce ==
    ASSUME NEW V, NEW a \in V, NEW g \in [Nat -> [V -> V]], NEW m \in Nat, NEW n \in Nat,
           NEW f, NEW h, Begins(f, m, a, g, V), Begins(h, n, a, g, V)
    PROVE  \A k \in Nat : k <= m /\ k <= n => f[k] = h[k]
  <1> DEFINE T == {k \in Nat : k <= m /\ k <= n => f[k] = h[k]}
  <1>1. 0 \in T
    BY DEF Begins
  <1>2. ASSUME NEW k \in T PROVE k + 1 \in T
    <2> SUFFICES ASSUME k + 1 <= m, k + 1 <= n PROVE f[k + 1] = h[k + 1]
      OBVIOUS
    <2>1. k \in 0..m /\ k # m /\ k \in 0..n /\ k # n
      OBVIOUS
    <2> QED
      BY <2>1 DEF Begins
  <1>3. T = Nat
    <2> HIDE DEF T
    <2>1. T \in SUBSET Nat
      BY DEF T
    <2> QED
      BY <1>1, <1>2, <2>1, Induct
  <1> QED
    BY <1>3

LEMMA BeginsNext ==
    ASSUME NEW V, NEW a \in V, NEW g \in [Nat -> [V -> V]], NEW n \in Nat, NEW f, Begins(f, n, a, g, V)
    PROVE  \E h : Begins(h, n + 1, a, g, V)
  <1> DEFINE h == [k \in 0..(n + 1) |-> IF k <= n THEN f[k] ELSE g[n][f[n]]]
  <1>1. f \in [0..n -> V] /\ f[0] = a
    BY DEF Begins
  <1>2. f[n] \in V /\ g[n][f[n]] \in V
    BY <1>1
  <1>3. ASSUME NEW k \in 0..(n + 1) PROVE h[k] \in V
    <2>1. k <= n => k \in 0..n
      OBVIOUS
    <2>2. k <= n => f[k] \in V
      BY <1>1, <2>1, Zenon
    <2> QED
      BY <1>2, <2>2
  <1>4. h \in [0..(n + 1) -> V]
    BY <1>3, Zenon
  <1>5. h[0] = a
    BY <1>1
  <1>6. ASSUME NEW k \in 0..(n + 1), k # n + 1 PROVE h[k + 1] = g[k][h[k]]
    <2>1. k \in 0..n /\ k + 1 \in 0..(n + 1) /\ h[k] = f[k]
      BY <1>6
    <2>2. CASE k = n
      BY <2>1, <2>2
    <2>3. CASE k # n
      <3>1. k + 1 <= n /\ h[k + 1] = f[k + 1]
        BY <2>1, <2>3
      <3> QED
        BY <2>1, <2>3, <3>1, Zenon DEF Begins
    <2> QED
      BY <2>2, <2>3
  <1> HIDE DEF h
  <1>7. Begins(h, n + 1, a, g, V)
    BY <1>4, <1>5, <1>6, Zenon DEF Begins
  <1> QED
    BY <1>7

LEMMA BeginsAll ==
    ASSUME NEW V, NEW a \in V, NEW g \in [Nat -> [V -> V]]
    PROVE  \A n \in Nat : \E f : Begins(f, n, a, g, V)
  <1> DEFINE T == {n \in Nat : \E f : Begins(f, n, a, g, V)}
  <1>1. 0 \in T
    <2>1. Begins([k \in 0..0 |-> a], 0, a, g, V)
      BY DEF Begins
    <2> QED
      BY <2>1
  <1>2. ASSUME NEW n \in T PROVE n + 1 \in T
    <2>1. n \in Nat /\ \E h : Begins(h, n + 1, a, g, V)
      BY BeginsNext, Zenon
    <2> QED
      BY <2>1
  <1>3. T = Nat
    <2> HIDE DEF T
    <2>1. T \in SUBSET Nat
      BY DEF T
    <2> QED
      BY <1>1, <1>2, <2>1, Induct
  <1> QED
    BY <1>3, Zenon

(* A function on the numbers may be defined by recursion.                  *)
IsRecursion(f, a, g, V) ==
    /\ f \in [Nat -> V]
    /\ f = [n \in Nat |-> IF n = 0 THEN a ELSE g[n - 1][f[n - 1]]]

LEMMA Recursion ==
    ASSUME NEW V, NEW a \in V, NEW g \in [Nat -> [V -> V]]
    PROVE  \E f : IsRecursion(f, a, g, V)
  <1> DEFINE Upto(n) == CHOOSE f : Begins(f, n, a, g, V)
             F == [n \in Nat |-> Upto(n)[n]]
  <1>1. ASSUME NEW n \in Nat PROVE Begins(Upto(n), n, a, g, V)
    BY BeginsAll
  <1> HIDE DEF Upto
  <1>2. ASSUME NEW n \in Nat PROVE F[n] \in V
    <2>1. n \in 0..n
      OBVIOUS
    <2> QED
      BY <1>1, <2>1 DEF Begins
  <1>3. F[0] = a
    BY <1>1 DEF Begins
  <1>4. ASSUME NEW n \in Nat, n # 0 PROVE F[n] = g[n - 1][F[n - 1]]
    <2>1. n - 1 \in Nat /\ n - 1 \in 0..n /\ n - 1 # n /\ (n - 1) + 1 = n
      BY <1>4
    <2>2. Upto(n)[n] = g[n - 1][Upto(n)[n - 1]]
      BY <1>1, <2>1 DEF Begins
    <2>3. Upto(n)[n - 1] = Upto(n - 1)[n - 1]
      BY <1>1, <2>1, BeginsOnce
    <2> QED
      BY <2>1, <2>2, <2>3
  <1>5. F = [n \in Nat |-> F[n]]
    OBVIOUS
  <1> HIDE DEF F
  <1>6. F \in [Nat -> V]
    BY <1>2, <1>5, Zenon
  <1>7. F = [n \in Nat |-> IF n = 0 THEN a ELSE g[n - 1][F[n - 1]]]
    <2>1. \A n \in Nat : F[n] = IF n = 0 THEN a ELSE g[n - 1][F[n - 1]]
      BY <1>3, <1>4, Zenon
    <2> QED
      BY <1>5, <2>1, Zenon
  <1> QED
    BY <1>6, <1>7, Zenon DEF IsRecursion

(* The powers of a number.                                                 *)
IsPowers(f, b) == f = [n \in Nat |-> IF n = 0 THEN 1 ELSE b * f[n - 1]]

LEMMA PowersExist ==
    ASSUME NEW b \in Nat
    PROVE  \E f : IsPowers(f, b)
  <1> DEFINE g == [k \in Nat |-> [x \in Nat |-> b * x]]
  <1>1. g \in [Nat -> [Nat -> Nat]] /\ 1 \in Nat
    OBVIOUS
  <1>2. \A k, x \in Nat : g[k][x] = b * x
    OBVIOUS
  <1> HIDE DEF g
  <1>3. PICK f : IsRecursion(f, 1, g, Nat)
    BY <1>1, Recursion, Zenon
  <1>4. f \in [Nat -> Nat] /\ f = [n \in Nat |-> IF n = 0 THEN 1 ELSE g[n - 1][f[n - 1]]]
    BY <1>3, Zenon DEF IsRecursion
  <1>5. ASSUME NEW n \in Nat
        PROVE  (IF n = 0 THEN 1 ELSE g[n - 1][f[n - 1]]) = IF n = 0 THEN 1 ELSE b * f[n - 1]
    <2>1. n # 0 => n - 1 \in Nat
      OBVIOUS
    <2>2. n # 0 => f[n - 1] \in Nat
      BY <1>4, <2>1, Zenon
    <2> QED
      BY <1>2, <2>1, <2>2, Zenon
  <1>6. IsPowers(f, b)
    BY <1>4, <1>5, Zenon DEF IsPowers
  <1> QED
    BY <1>6, Zenon

LEMMA Powers ==
    ASSUME NEW b \in Nat, NEW F, IsPowers(F, b)
    PROVE  /\ F[0] = 1
           /\ \A n \in Nat : F[n] \in Nat /\ F[n + 1] = b * F[n] /\ (b # 0 => F[n] # 0)
  <1>1. F = [n \in Nat |-> IF n = 0 THEN 1 ELSE b * F[n - 1]]
    BY DEF IsPowers
  <1>2. F[0] = 1 /\ \A n \in Nat : F[n + 1] = b * F[n]
    BY <1>1
  <1> DEFINE T == {n \in Nat : F[n] \in Nat /\ (b # 0 => F[n] # 0)}
  <1>3. 0 \in T
    BY <1>2
  <1>4. ASSUME NEW n \in T PROVE n + 1 \in T
    BY <1>2
  <1>5. T = Nat
    <2> HIDE DEF T
    <2>1. T \in SUBSET Nat
      BY DEF T
    <2> QED
      BY <1>3, <1>4, <2>1, Induct
  <1> QED
    BY <1>2, <1>5

-----------------------------------------------------------------------------
(* Division.                                                               *)

LEMMA DivMod ==
    ASSUME NEW a \in Nat, NEW b \in Nat \ {0}
    PROVE  a \div b \in Nat /\ a % b \in Nat /\ a % b < b /\ a = b * (a \div b) + (a % b)
  OBVIOUS

(* Quotient and remainder are unique.                                      *)
LEMMA QuotientBound ==
    ASSUME NEW b \in Nat, NEW p \in Nat, NEW q \in Nat, NEW r \in Nat, NEW s \in Nat,
           b * p + s = b * q + r, s < b
    PROVE  ~(p < q)
  <1> SUFFICES ASSUME p < q PROVE FALSE
    OBVIOUS
  <1>1. q - p - 1 \in Nat
    OBVIOUS
  <1>2. PICK d \in Nat : q = p + 1 + d
    BY <1>1
  <1>3. b * q = b * p + b + b * d
    BY <1>2
  <1>4. b * d \in Nat /\ b * p \in Nat
    OBVIOUS
  <1> QED
    BY <1>3, <1>4

LEMMA Quotient ==
    ASSUME NEW b \in Nat \ {0}, NEW q \in Nat, NEW r \in Nat, r < b
    PROVE  (b * q + r) \div b = q
  <1> DEFINE a == b * q + r
             p == a \div b
             s == a % b
  <1>1. a \in Nat
    OBVIOUS
  <1>2. p \in Nat /\ s \in Nat /\ s < b /\ b * q + r = b * p + s
    BY <1>1, DivMod
  <1> HIDE DEF p, s
  <1>3. ~(p < q) /\ ~(q < p)
    BY <1>2, QuotientBound
  <1>4. p = q
    BY <1>2, <1>3
  <1> QED
    BY <1>4 DEF p

LEMMA Remainder ==
    ASSUME NEW b \in Nat \ {0}, NEW q \in Nat, NEW r \in Nat, r < b
    PROVE  (b * q + r) % b = r
  <1> DEFINE a == b * q + r
  <1>1. a \in Nat /\ a = b * q + r
    OBVIOUS
  <1>2. a \div b = q
    BY Quotient
  <1> HIDE DEF a
  <1>3. a % b \in Nat /\ a = b * q + (a % b)
    BY <1>1, <1>2, DivMod
  <1>4. b * q \in Nat
    OBVIOUS
  <1>5. a % b = r
    BY <1>1, <1>3, <1>4
  <1> QED
    BY <1>5 DEF a

LEMMA QuotientBelow ==
    ASSUME NEW a \in Nat, NEW b \in Nat \ {0}, NEW c \in Nat, a < c * b
    PROVE  a \div b < c
  <1> DEFINE q == a \div b
             r == a % b
  <1>1. q \in Nat /\ r \in Nat /\ a = b * q + r
    BY DivMod
  <1> HIDE DEF q, r
  <1>2. ASSUME c <= q PROVE FALSE
    <2>1. q - c \in Nat
      BY <1>1, <1>2
    <2>2. PICK d \in Nat : q = c + d
      BY <1>1, <2>1
    <2>3. b * q = c * b + b * d /\ b * d \in Nat
      BY <2>2
    <2> QED
      BY <1>1, <2>3
  <1>3. q < c
    BY <1>1, <1>2
  <1> QED
    BY <1>3 DEF q

(* To divide by a product is to divide by its factors.                     *)
LEMMA DivDiv ==
    ASSUME NEW t \in Nat, NEW b \in Nat \ {0}, NEW w \in Nat \ {0}
    PROVE  t \div (b * w) = (t \div b) \div w
  <1> DEFINE q == t \div b
             r == t % b
             k == q \div w
             s == q % w
  <1>1. q \in Nat /\ r \in Nat /\ r < b /\ t = b * q + r
    BY DivMod
  <1> HIDE DEF q, r
  <1>2. k \in Nat /\ s \in Nat /\ s < w /\ q = w * k + s
    BY <1>1, DivMod
  <1> HIDE DEF k, s
  <1>3. t = (b * w) * k + (b * s + r)
    <2>1. b * q = b * (w * k) + b * s
      BY <1>2
    <2>2. b * (w * k) = (b * w) * k
      BY <1>2
    <2> QED
      BY <1>1, <1>2, <2>1, <2>2
  <1>4. b * s + r < b * w
    <2>1. w - s - 1 \in Nat
      BY <1>2
    <2>2. PICK d \in Nat : w = s + 1 + d
      BY <1>2, <2>1
    <2>3. b * w = b * s + b + b * d
      BY <1>2, <2>2
    <2>4. b * d \in Nat /\ b * s \in Nat
      BY <1>2
    <2> QED
      BY <1>1, <2>3, <2>4
  <1>5. b * w \in Nat \ {0} /\ b * s + r \in Nat
    BY <1>1, <1>2
  <1>6. t \div (b * w) = k
    BY <1>2, <1>3, <1>4, <1>5, Quotient
  <1> QED
    BY <1>6 DEF k, q

=============================================================================
