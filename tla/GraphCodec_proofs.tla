-------------------------- MODULE GraphCodec_proofs --------------------------
(***************************************************************************)
(* Proofs about GraphCodec for every number of digits, width of integers,  *)
(* set of names and set of files: the types, and what a round trip through *)
(* a file keeps.                                                           *)
(***************************************************************************)
EXTENDS GraphCodec, SequenceTheorems, WellFoundedInduction, TLAPS

-----------------------------------------------------------------------------
(* Induction *)

LEMMA LeastElement ==
  ASSUME NEW T \in SUBSET Nat, T # {}
  PROVE  \E m \in T : \A k \in T : m <= k
<1> DEFINE R == OpToRel(<, Nat)
<1>1. IsWellFoundedOn(R, Nat)
  BY NatLessThanWellFounded
<1>2. R = {p \in Nat \X Nat : p[1] < p[2]}
  BY DEF OpToRel
<1> HIDE DEF R
<1>3. PICK m \in T : \A k \in T : <<k, m>> \notin R
  BY <1>1, WFMin
<1>4. ASSUME NEW k \in T
      PROVE  m <= k
  <2>1. <<k, m>> \notin R /\ <<k, m>> \in Nat \X Nat
    BY <1>3
  <2> QED BY <1>2, <2>1
<1> QED BY <1>4

(* A set of numbers with 0 and with the next of each. *)
LEMMA Induction ==
  ASSUME NEW S, 0 \in S, \A k \in Nat : k \in S => k + 1 \in S
  PROVE  Nat \subseteq S
<1> SUFFICES ASSUME NEW z \in Nat, z \notin S
             PROVE  FALSE
  OBVIOUS
<1> DEFINE T == Nat \ S
<1>1. T \in SUBSET Nat /\ T # {}
  OBVIOUS
<1> HIDE DEF T
<1>2. PICK m \in T : \A k \in T : m <= k
  BY <1>1, LeastElement
<1>3. m \in Nat /\ m \notin S
  BY DEF T
<1>4. m # 0 /\ m - 1 \in Nat /\ ~(m <= m - 1) /\ (m - 1) + 1 = m
  BY <1>3
<1>5. m - 1 \in S
  BY <1>2, <1>4 DEF T
<1> QED BY <1>3, <1>4, <1>5

-----------------------------------------------------------------------------
(* Powers of ten *)

(* The powers up to n, as a function. *)
IsPow(g, n) ==
  /\ g \in [0..n -> Nat]
  /\ g[0] = 1
  /\ \A k \in 1..n : g[k] = 10 * g[k - 1]

LEMMA PowersExist ==
  ASSUME NEW n \in Nat
  PROVE  \E g : IsPow(g, n)
<1> DEFINE S == {k \in Nat : \E g : IsPow(g, k)}
<1>1. 0 \in S
  <2> DEFINE g == [k \in 0..0 |-> 1]
  <2>1. IsPow(g, 0)
    BY DEF IsPow
  <2> QED BY <2>1
<1>2. ASSUME NEW k \in Nat, k \in S
      PROVE  k + 1 \in S
  <2>1. PICK g : IsPow(g, k)
    BY <1>2
  <2> DEFINE h == [i \in 0..(k + 1) |-> IF i = k + 1 THEN 10 * g[k] ELSE g[i]]
  <2>2. g \in [0..k -> Nat] /\ g[0] = 1 /\ \A i \in 1..k : g[i] = 10 * g[i - 1]
    BY <2>1 DEF IsPow
  <2>3. h \in [0..(k + 1) -> Nat] /\ h[0] = 1
    BY <2>2
  <2>4. ASSUME NEW i \in 1..(k + 1)
        PROVE  h[i] = 10 * h[i - 1]
    BY <2>2
  <2>5. IsPow(h, k + 1)
    BY <2>3, <2>4 DEF IsPow
  <2> HIDE DEF h
  <2> QED BY <2>5
<1> HIDE DEF S
<1>3. n \in S
  BY <1>1, <1>2, Induction
<1> QED BY <1>3 DEF S

LEMMA PowersAgree ==
  ASSUME NEW n \in Nat, NEW m \in Nat, NEW g, IsPow(g, n), NEW h, IsPow(h, m),
         NEW z \in Nat, z <= n, z <= m
  PROVE  g[z] = h[z]
<1> DEFINE S == {k \in Nat : k <= n /\ k <= m => g[k] = h[k]}
<1>1. 0 \in S
  BY DEF IsPow
<1>2. ASSUME NEW k \in Nat, k \in S
      PROVE  k + 1 \in S
  <2> SUFFICES ASSUME k + 1 <= n, k + 1 <= m
               PROVE  g[k + 1] = h[k + 1]
    OBVIOUS
  <2>1. k + 1 \in 1..n /\ k + 1 \in 1..m /\ (k + 1) - 1 = k /\ k <= n /\ k <= m
    OBVIOUS
  <2>2. g[k + 1] = 10 * g[k] /\ h[k + 1] = 10 * h[k] /\ g[k] = h[k]
    BY <1>2, <2>1 DEF IsPow
  <2> QED BY <2>2
<1> HIDE DEF S
<1>3. z \in S
  BY <1>1, <1>2, Induction
<1> QED BY <1>3 DEF S

LEMMA PowDef ==
  /\ Pow10[0] = 1
  /\ \A k \in Nat : Pow10[k] \in Nat /\ Pow10[k + 1] = 10 * Pow10[k]
<1> DEFINE G(n) == CHOOSE g : IsPow(g, n)
           f == [n \in Nat |-> G(n)[n]]
           Body(p) == [k \in Nat |-> IF k = 0 THEN 1 ELSE 10 * p[k - 1]]
<1>1. \A n \in Nat : IsPow(G(n), n)
  BY PowersExist
<1> HIDE DEF G
<1>2. ASSUME NEW k \in Nat
      PROVE  f[k] = IF k = 0 THEN 1 ELSE 10 * f[k - 1]
  <2>1. CASE k = 0
    BY <1>1, <2>1 DEF IsPow
  <2>2. CASE k # 0
    <3>1. k - 1 \in Nat /\ k \in 1..k /\ k - 1 <= k /\ k - 1 <= k - 1
      BY <2>2
    <3>2. G(k)[k] = 10 * G(k)[k - 1]
      BY <1>1, <3>1 DEF IsPow
    <3>3. IsPow(G(k), k) /\ IsPow(G(k - 1), k - 1)
      BY <1>1, <3>1
    <3>4. G(k)[k - 1] = G(k - 1)[k - 1]
      BY <3>1, <3>3, PowersAgree
    <3> QED BY <2>2, <3>1, <3>2, <3>4
  <2> QED BY <2>1, <2>2
<1>3. f = Body(f)
  BY <1>2
<1>4. Pow10 = CHOOSE p : p = Body(p)
  BY DEF Pow10
<1>5. Pow10 = Body(Pow10)
  <2> HIDE DEF Body, f
  <2> QED BY <1>3, <1>4
<1>6. Pow10[0] = 1 /\ \A k \in Nat : Pow10[k + 1] = 10 * Pow10[k]
  <2>1. \A k \in Nat : Pow10[k] = IF k = 0 THEN 1 ELSE 10 * Pow10[k - 1]
    BY <1>5
  <2>2. \A k \in Nat : k + 1 \in Nat /\ k + 1 # 0 /\ (k + 1) - 1 = k
    OBVIOUS
  <2> QED BY <2>1, <2>2
<1> DEFINE S == {k \in Nat : Pow10[k] \in Nat}
<1>7. 0 \in S /\ \A k \in Nat : k \in S => k + 1 \in S
  BY <1>6
<1> HIDE DEF S
<1>8. Nat \subseteq S
  BY <1>7, Induction
<1> QED BY <1>6, <1>8 DEF S

LEMMA PowAbove ==
  ASSUME NEW n \in Nat
  PROVE  Pow10[n] \in Nat \ {0} /\ n < Pow10[n]
<1> DEFINE S == {k \in Nat : k < Pow10[k]}
<1>1. 0 \in S
  BY PowDef
<1>2. ASSUME NEW k \in Nat, k \in S
      PROVE  k + 1 \in S
  <2>1. Pow10[k + 1] = 10 * Pow10[k] /\ Pow10[k] \in Nat /\ k < Pow10[k]
    BY <1>2, PowDef
  <2> QED BY <2>1
<1> HIDE DEF S
<1>3. n \in S
  BY <1>1, <1>2, Induction
<1> QED BY <1>3, PowDef DEF S

LEMMA PowAdd ==
  ASSUME NEW a \in Nat, NEW b \in Nat
  PROVE  Pow10[a + b] = Pow10[a] * Pow10[b]
<1> DEFINE S == {k \in Nat : Pow10[a + k] = Pow10[a] * Pow10[k]}
           x == Pow10[a]
<1>0. x \in Nat
  BY PowDef
<1>1. 0 \in S
  <2>1. a + 0 = a /\ Pow10[0] = 1
    BY PowDef
  <2> QED BY <1>0, <2>1
<1>2. ASSUME NEW k \in Nat, k \in S
      PROVE  k + 1 \in S
  <2> DEFINE y == Pow10[k]
  <2>1. a + (k + 1) = (a + k) + 1 /\ a + k \in Nat
    OBVIOUS
  <2>2. Pow10[(a + k) + 1] = 10 * Pow10[a + k] /\ Pow10[k + 1] = 10 * y /\ y \in Nat
    BY <2>1, PowDef
  <2>3. Pow10[a + k] = x * y
    BY <1>2
  <2> HIDE DEF x, y
  <2>4. 10 * (x * y) = x * (10 * y)
    BY <1>0, <2>2
  <2> QED BY <2>1, <2>2, <2>3, <2>4 DEF x
<1> HIDE DEF S
<1>3. b \in S
  BY <1>1, <1>2, Induction
<1> QED BY <1>3 DEF S

LEMMA PowMonotone ==
  ASSUME NEW a \in Nat, NEW b \in Nat
  PROVE  a <= b <=> Pow10[a] <= Pow10[b]
<1>1. \A c, k \in Nat : Pow10[c] <= Pow10[c + k] /\ (k # 0 => Pow10[c] < Pow10[c + k])
  <2> TAKE c, k \in Nat
  <2> DEFINE x == Pow10[c]
             y == Pow10[k]
  <2>1. x \in Nat \ {0} /\ y \in Nat \ {0} /\ k < y /\ Pow10[c + k] = x * y
    BY PowAbove, PowAdd
  <2> HIDE DEF x, y
  <2>2. x * y >= x /\ (y >= 2 => x * y > x)
    <3>1. y - 1 \in Nat /\ x * (y - 1) \in Nat /\ x * (y - 1) = x * y - x /\ x * y \in Nat
      BY <2>1
    <3>2. y >= 2 => x * (y - 1) >= 1
      BY <2>1
    <3> QED BY <2>1, <3>1, <3>2
  <2> QED BY <2>1, <2>2 DEF x
<1>2. ASSUME a <= b
      PROVE  Pow10[a] <= Pow10[b]
  <2>1. b - a \in Nat /\ a + (b - a) = b
    BY <1>2
  <2>2. Pow10[a] <= Pow10[a + (b - a)]
    BY <1>1, <2>1
  <2> QED BY <2>1, <2>2
<1>3. ASSUME ~(a <= b)
      PROVE  ~(Pow10[a] <= Pow10[b])
  <2>1. a - b \in Nat /\ b + (a - b) = a /\ a - b # 0
    BY <1>3
  <2>2. Pow10[b] < Pow10[b + (a - b)]
    BY <1>1, <2>1
  <2> QED BY <2>1, <2>2, PowDef
<1> QED BY <1>2, <1>3

-----------------------------------------------------------------------------
(* Quotients *)

LEMMA ModDef ==
  ASSUME NEW w \in Nat \ {0}, NEW a \in Int
  PROVE  /\ a % w \in 0..(w - 1) /\ a \div w \in Int
         /\ a = w * (a \div w) + (a % w)
OBVIOUS

LEMMA ModUnique ==
  ASSUME NEW w \in Nat \ {0}, NEW q \in Int, NEW r \in 0..(w - 1)
  PROVE  (w * q + r) % w = r /\ (w * q + r) \div w = q
OBVIOUS

LEMMA Multiples ==
  ASSUME NEW w \in Nat \ {0}, NEW q \in Int
  PROVE  (w * q) % w = 0 /\ (w * q) \div w = q
<1>1. 0 \in 0..(w - 1) /\ w * q \in Int /\ w * q + 0 = w * q
  OBVIOUS
<1> QED BY <1>1, ModUnique

LEMMA ScaleInts ==
  ASSUME NEW w \in Nat \ {0}, NEW a \in Int, NEW b \in Int
  PROVE  (a < b <=> w * a < w * b) /\ (a <= b <=> w * a <= w * b)
<1>1. ASSUME NEW c \in Int, NEW d \in Int, c < d
      PROVE  w * c < w * d
  <2> DEFINE e == d - c
  <2>1. e \in Nat \ {0} /\ d = c + e
    BY <1>1
  <2> HIDE DEF e
  <2>2. w * e \in Nat /\ w * e >= 1 /\ w * (c + e) = w * c + w * e /\ w * c \in Int
    BY <2>1
  <2> QED BY <2>1, <2>2
<1>2. w * a \in Int /\ w * b \in Int
  OBVIOUS
<1>3. a < b \/ a = b \/ b < a
  OBVIOUS
<1> QED BY <1>1, <1>2, <1>3

-----------------------------------------------------------------------------
(* Rounding *)

LEMMA ConstantsTyped ==
  /\ Places \in Nat /\ Precision \in Nat \ {0} /\ MaxInt \in Nat
  /\ Scale \in Nat \ {0} /\ Pow10[Precision] \in Nat \ {0} /\ Pow10[Precision] <= MaxInt + 1
  /\ MinNormal \in Nat /\ MinNormal <= Scale /\ Exact \in Nat /\ Pow10[Precision] <= Exact
BY CodecAssumption, PowAbove DEF Scale

LEMMA DigitsDef ==
  ASSUME NEW n \in Nat
  PROVE  /\ DigitsOf(n) \in Nat /\ n < Pow10[DigitsOf(n)]
         /\ \A j \in Nat : j < DigitsOf(n) => Pow10[j] <= n
<1> DEFINE T == {k \in Nat : n < Pow10[k]}
<1>1. T \in SUBSET Nat /\ T # {} /\ n \in T
  BY PowAbove
<1> HIDE DEF T
<1>2. PICK k \in T : \A j \in T : k <= j
  BY <1>1, LeastElement
<1>3. k \in 0..n /\ n < Pow10[k]
  BY <1>1, <1>2 DEF T
<1>4. ASSUME NEW j \in 0..(k - 1)
      PROVE  Pow10[j] <= n
  <2>1. j \in Nat /\ ~(k <= j) /\ Pow10[j] \in Nat
    BY <1>3, PowDef
  <2> QED BY <1>2, <2>1 DEF T
<1>5. /\ DigitsOf(n) \in 0..n /\ Pow10[DigitsOf(n)] > n
      /\ \A j \in 0..(DigitsOf(n) - 1) : Pow10[j] <= n
  <2>1. Pow10[k] > n
    BY <1>3, PowDef
  <2> QED BY <1>3, <1>4, <2>1 DEF DigitsOf
<1>6. Pow10[DigitsOf(n)] \in Nat
  BY <1>5, PowDef
<1> QED BY <1>5, <1>6

LEMMA DigitsIs ==
  ASSUME NEW n \in Nat, NEW k \in Nat, Pow10[k] <= n, n < Pow10[k + 1]
  PROVE  DigitsOf(n) = k + 1
<1> DEFINE d == DigitsOf(n)
<1>1. d \in Nat /\ n < Pow10[d] /\ \A j \in Nat : j < d => Pow10[j] <= n
  BY DigitsDef
<1> HIDE DEF d
<1>2. Pow10[k] \in Nat /\ Pow10[k + 1] \in Nat /\ Pow10[d] \in Nat
  BY <1>1, PowDef
<1>3. ~(k + 1 < d)
  BY <1>1, <1>2
<1>4. ~(d <= k)
  BY <1>1, <1>2, PowMonotone
<1> QED BY <1>1, <1>3, <1>4 DEF d

LEMMA UnitType ==
  ASSUME NEW n \in Nat
  PROVE  RoundUnit(n) \in Nat \ {0}
BY DigitsDef, PowAbove, ConstantsTyped DEF RoundUnit

(* A number is rounded to one of the two multiples of the unit around it. *)
LEMMA RoundDef ==
  ASSUME NEW n \in Nat
  PROVE  \E q \in Nat, e \in 0..(RoundUnit(n) - 1), z \in {0, 1} :
           /\ n = RoundUnit(n) * q + e
           /\ RoundMagnitude(n) = RoundUnit(n) * (q + z)
           /\ z = 1 => 2 * e >= RoundUnit(n)
           /\ z = 0 => 2 * e <= RoundUnit(n)
<1> DEFINE u == RoundUnit(n)
           q == n \div u
           e == n % u
           up == 2 * e > u \/ (2 * e = u /\ q % 2 = 1)
<1>1. u \in Nat \ {0}
  BY UnitType
<1>2. RoundMagnitude(n) = u * (IF up THEN q + 1 ELSE q)
  BY DEF RoundMagnitude, Nearest
<1> HIDE DEF u
<1>3. e \in 0..(u - 1) /\ q \in Int /\ n = u * q + e
  BY <1>1, ModDef
<1> HIDE DEF e, q
<1>4. q \in Nat
  <2> SUFFICES ASSUME q < 0
               PROVE  FALSE
    BY <1>3
  <2>1. u * q <= u * (-1) /\ u * (-1) = -u /\ u * q \in Int
    BY <1>1, <1>3, ScaleInts
  <2> QED BY <1>1, <1>3, <2>1
<1>5. CASE up
  <2>1. RoundMagnitude(n) = u * (q + 1) /\ 2 * e >= u
    BY <1>1, <1>2, <1>3, <1>5
  <2> QED BY <1>3, <1>4, <2>1 DEF u
<1>6. CASE ~up
  <2>1. RoundMagnitude(n) = u * (q + 0) /\ 2 * e <= u
    BY <1>1, <1>2, <1>3, <1>4, <1>6
  <2> QED BY <1>3, <1>4, <2>1 DEF u
<1> QED BY <1>5, <1>6

LEMMA RoundIsNear ==
  ASSUME NEW n \in Nat
  PROVE  RoundMagnitude(n) \in Nat /\ 2 * Abs(RoundMagnitude(n) - n) <= RoundUnit(n)
<1> DEFINE u == RoundUnit(n)
<1>1. u \in Nat \ {0}
  BY UnitType
<1>2. PICK q \in Nat, e \in 0..(u - 1), z \in {0, 1} :
        /\ n = u * q + e /\ RoundMagnitude(n) = u * (q + z)
        /\ (z = 1 => 2 * e >= u) /\ (z = 0 => 2 * e <= u)
  BY RoundDef
<1> HIDE DEF u
<1>3. u * q \in Nat /\ u * (q + 1) = u * q + u /\ u * (q + 0) = u * q
  BY <1>1
<1>4. RoundMagnitude(n) \in Nat /\ 2 * Abs(RoundMagnitude(n) - n) <= u
  <2>1. CASE z = 0
    BY <1>1, <1>2, <1>3, <2>1 DEF Abs
  <2>2. CASE z = 1
    BY <1>1, <1>2, <1>3, <2>2 DEF Abs
  <2> QED BY <2>1, <2>2
<1> QED BY <1>4 DEF u

(* A multiple of its own unit is not changed. *)
LEMMA MultiplesStay ==
  ASSUME NEW n \in Nat, NEW m \in Int, n = RoundUnit(n) * m
  PROVE  RoundMagnitude(n) = n
<1> DEFINE u == RoundUnit(n)
<1>1. u \in Nat \ {0}
  BY UnitType
<1>2. RoundMagnitude(n) = u * (IF 2 * (n % u) > u \/ (2 * (n % u) = u /\ (n \div u) % 2 = 1)
                               THEN (n \div u) + 1 ELSE n \div u)
  BY DEF RoundMagnitude, Nearest
<1>3. n = u * m
  OBVIOUS
<1> HIDE DEF u
<1>4. n % u = 0 /\ n \div u = m
  BY <1>1, <1>3, Multiples
<1> QED BY <1>1, <1>2, <1>3, <1>4

(* What is rounded has Precision digits, so that rounding it again changes *)
(* nothing; it may have one digit more than before.                        *)
LEMMA RoundTwice ==
  ASSUME NEW n \in Nat
  PROVE  RoundMagnitude(RoundMagnitude(n)) = RoundMagnitude(n)
<1> DEFINE u == RoundUnit(n)
           d == DigitsOf(n)
           r == RoundMagnitude(n)
<1>1. u \in Nat \ {0} /\ d \in Nat /\ r \in Nat /\ Precision \in Nat \ {0}
  BY UnitType, DigitsDef, RoundIsNear, ConstantsTyped
<1>2. PICK q \in Nat, e \in 0..(u - 1), z \in {0, 1} :
        /\ n = u * q + e /\ r = u * (q + z)
  BY RoundDef
<1>3. CASE d <= Precision
  <2>1. u = 1
    BY <1>1, <1>3 DEF RoundUnit
  <2>2. n = RoundUnit(n) * n
    BY <2>1
  <2>3. r = n
    BY <2>2, MultiplesStay
  <2> QED BY <2>3
<1>4. CASE ~(d <= Precision)
  <2> DEFINE p == Precision
             j == d - p
  <2>1. p \in Nat /\ p - 1 \in Nat /\ j \in Nat /\ d = j + p /\ d - 1 = j + (p - 1) /\ d - 1 \in Nat
        /\ d - 1 < d /\ (p - 1) + 1 = p /\ (d - 1) + 1 = d
    BY <1>1, <1>4
  <2>2. u = Pow10[j] /\ n < Pow10[d] /\ Pow10[d - 1] <= n
    BY <1>1, <1>4, <2>1, DigitsDef DEF RoundUnit
  <2> DEFINE low == Pow10[p - 1]
             high == Pow10[p]
  <2>3. low \in Nat \ {0} /\ high \in Nat \ {0} /\ high = 10 * low
    BY <2>1, PowAbove, PowDef
  <2>4. Pow10[d] = u * high /\ Pow10[d - 1] = u * low
    BY <2>1, <2>2, PowAdd
  <2> HIDE DEF u, d, r, p, j, low, high
  <2>5. low <= q
    <3>1. n < u * (q + 1)
      <4>1. u * (q + 1) = u * q + u /\ u * q \in Nat
        BY <1>1
      <4> QED BY <1>1, <1>2, <4>1
    <3>2. u * low < u * (q + 1)
      BY <1>1, <2>2, <2>3, <2>4, <3>1
    <3>3. low < q + 1
      BY <1>1, <2>3, <3>2, ScaleInts
    <3> QED BY <2>3, <3>3
  <2>6. q < high
    <3>1. u * q < u * high
      <4>1. u * q \in Nat /\ u * high \in Nat
        BY <1>1, <2>3
      <4> QED BY <1>1, <1>2, <2>2, <2>4, <4>1
    <3> QED BY <1>1, <2>3, <3>1, ScaleInts
  <2>7. Pow10[d - 1] <= r
    BY <1>1, <1>2, <2>3, <2>4, <2>5, ScaleInts
  <2>8. CASE q + z < high
    <3>1. r < Pow10[d]
      BY <1>1, <1>2, <2>3, <2>4, <2>8, ScaleInts
    <3>2. DigitsOf(r) = d
      BY <1>1, <2>1, <2>7, <3>1, DigitsIs
    <3>3. RoundUnit(r) = u
      BY <3>2 DEF RoundUnit, u, d
    <3>4. r = RoundUnit(r) * (q + z) /\ q + z \in Int
      BY <1>2, <3>3
    <3>5. RoundMagnitude(r) = r
      BY <1>1, <3>4, MultiplesStay
    <3> QED BY <3>5 DEF r
  <2>9. CASE ~(q + z < high)
    <3>1. q + z = high
      BY <2>3, <2>6, <2>9
    <3>2. r = Pow10[d]
      BY <1>2, <2>4, <3>1
    <3>3. r < Pow10[d + 1]
      BY <1>1, <3>2, PowAbove, PowDef
    <3>4. DigitsOf(r) = d + 1
      BY <1>1, <3>2, <3>3, DigitsIs
    <3>5. RoundUnit(r) = Pow10[j + 1]
      <4>1. d + 1 > Precision /\ (d + 1) - Precision = j + 1
        BY <1>1, <2>1 DEF p
      <4> QED BY <3>4, <4>1 DEF RoundUnit
    <3>6. RoundUnit(r) = 10 * u
      BY <2>1, <2>2, <3>5, PowDef
    <3>7. r = RoundUnit(r) * low
      <4>1. u * (10 * low) = (10 * u) * low
        BY <1>1, <2>3
      <4> QED BY <2>3, <2>4, <3>2, <3>6, <4>1
    <3>8. RoundMagnitude(r) = r
      BY <1>1, <2>3, <3>7, MultiplesStay
    <3> QED BY <3>8 DEF r
  <2> QED BY <2>8, <2>9
<1> QED BY <1>3, <1>4

LEMMA RoundedType ==
  ASSUME NEW d \in Int
  PROVE  /\ Rounded(d) \in Int /\ Close(d, Rounded(d))
         /\ Rounded(Rounded(d)) = Rounded(d)
<1>1. CASE d >= 0
  <2>1. d \in Nat /\ Abs(d) = d /\ Rounded(d) = RoundMagnitude(d)
    BY <1>1 DEF Abs, Rounded
  <2> DEFINE r == RoundMagnitude(d)
  <2>2. r \in Nat /\ 2 * Abs(r - d) <= RoundUnit(d) /\ RoundMagnitude(r) = r
    BY <2>1, RoundIsNear, RoundTwice
  <2> HIDE DEF r
  <2>3. Rounded(r) = r
    BY <2>2 DEF Rounded
  <2> QED BY <2>1, <2>2, <2>3 DEF r, Close
<1>2. CASE d < 0
  <2> DEFINE n == 0 - d
  <2>1. n \in Nat /\ Abs(d) = n /\ d = 0 - n
    BY <1>2 DEF Abs
  <2> DEFINE r == RoundMagnitude(n)
  <2>2. r \in Nat /\ 2 * Abs(r - n) <= RoundUnit(n) /\ RoundMagnitude(r) = r
    BY <2>1, RoundIsNear, RoundTwice
  <2>3. Rounded(d) = 0 - r
    BY <1>2, <2>1 DEF Rounded
  <2> HIDE DEF r, n
  <2>4. Abs((0 - r) - d) = Abs(r - n)
    BY <2>1, <2>2 DEF Abs
  <2>5. Rounded(0 - r) = 0 - r
    <3>1. CASE r = 0
      BY <2>2, <3>1 DEF Rounded
    <3>2. CASE r # 0
      <4>1. 0 - r < 0 /\ Abs(0 - r) = r
        BY <2>2, <3>2 DEF Abs
      <4> QED BY <2>2, <4>1 DEF Rounded
    <3> QED BY <3>1, <3>2
  <2> QED BY <2>1, <2>2, <2>3, <2>4, <2>5 DEF Close
<1> QED BY <1>1, <1>2

-----------------------------------------------------------------------------
(* Integers as doubles *)

LEMMA SpacingDef ==
  ASSUME NEW n \in 0 .. MaxInt + 1
  PROVE  /\ Spacing(n) \in Nat \ {0}
         /\ n <= Exact => Spacing(n) = 1
<1> DEFINE T == {u \in Spacings : n <= Exact * u}
<1>1. n \in Nat /\ T \in SUBSET Nat /\ T # {}
  <2>1. n \in Nat /\ \E u \in Spacings : n <= Exact * u
    BY CodecAssumption, ConstantsTyped
  <2>2. Spacings \subseteq Nat
    BY CodecAssumption
  <2> QED BY <2>1, <2>2
<1> HIDE DEF T
<1>2. PICK m \in T : \A k \in T : m <= k
  BY <1>1, LeastElement
<1>3. m \in Spacings /\ n <= Exact * m /\ \A w \in Spacings : n <= Exact * w => m <= w
  BY <1>2 DEF T
<1>4. /\ Spacing(n) \in Spacings
      /\ \A w \in Spacings : n <= Exact * w => Spacing(n) <= w
  BY <1>3 DEF Spacing
<1>5. Spacing(n) \in Nat \ {0}
  BY <1>4, CodecAssumption
<1>6. ASSUME n <= Exact
      PROVE  Spacing(n) = 1
  <2>1. 1 \in Spacings /\ n <= Exact * 1
    BY <1>6, CodecAssumption
  <2>2. Spacing(n) <= 1
    BY <1>4, <2>1
  <2> QED BY <1>5, <2>2
<1> QED BY <1>5, <1>6

LEMMA NearestType ==
  ASSUME NEW n \in Nat, NEW u \in Nat \ {0}
  PROVE  Nearest(n, u) \in Int
<1>1. n \div u \in Int
  BY ModDef
<1> QED BY <1>1 DEF Nearest

LEMMA NearestOne ==
  ASSUME NEW n \in Nat
  PROVE  Nearest(n, 1) = n
<1>1. n % 1 = 0 /\ n \div 1 = n
  OBVIOUS
<1> QED BY <1>1 DEF Nearest

LEMMA DoubleOfDef ==
  ASSUME NEW v \in 0 - MaxInt - 1 .. MaxInt
  PROVE  /\ DoubleOf(v) \in Int
         /\ Abs(v) <= Exact => DoubleOf(v) = v
<1> DEFINE n == Abs(v)
<1>1. v \in Int /\ n \in Nat /\ n \in 0 .. MaxInt + 1 /\ v = IF v < 0 THEN 0 - n ELSE n
  BY ConstantsTyped DEF Abs
<1>2. DoubleOf(v) = IF v < 0 THEN 0 - Nearest(n, Spacing(n)) ELSE Nearest(n, Spacing(n))
  BY <1>1 DEF DoubleOf
<1> HIDE DEF n
<1>3. Spacing(n) \in Nat \ {0} /\ (n <= Exact => Spacing(n) = 1)
  BY <1>1, SpacingDef
<1>4. Nearest(n, Spacing(n)) \in Int /\ (n <= Exact => Nearest(n, Spacing(n)) = n)
  BY <1>1, <1>3, NearestType, NearestOne
<1> QED BY <1>1, <1>2, <1>4 DEF n

-----------------------------------------------------------------------------
(* Doubles as tokens *)

Safe(token) == ~NotJson(token) /\ ~OutOfRange(token)

(* A double shows a point or an exponent, or is one of the integers, small *)
(* enough to be converted back exactly.                                    *)
LEMMA DoubleTokenDef ==
  ASSUME NEW d \in Int
  PROVE  \/ DoubleToken(d) = NumberToken(Rounded(d))
         \/ \E v \in 0 - MaxInt - 1 .. MaxInt :
              DoubleToken(d) = IntToken(v) /\ Rounded(d) = Scale * v /\ DoubleOf(v) = v
<1> DEFINE r == Rounded(d)
           s == Scale
           p == Pow10[Precision]
<1>1. /\ r \in Int /\ s \in Nat \ {0} /\ p \in Nat \ {0} /\ p <= MaxInt + 1 /\ MaxInt \in Nat
      /\ p <= Exact /\ Exact \in Nat
  BY RoundedType, ConstantsTyped
<1>2. d # NonFinite
  BY MarksAssumption
<1>3. DoubleToken(d) = IF r % s = 0 /\ Abs(r) < s * p THEN IntToken(r \div s) ELSE NumberToken(r)
  BY <1>2 DEF DoubleToken
<1> HIDE DEF r, s, p
<1>4. CASE r % s = 0 /\ Abs(r) < s * p
  <2> DEFINE v == r \div s
  <2>1. v \in Int /\ r = s * v /\ DoubleToken(d) = IntToken(v)
    BY <1>1, <1>3, <1>4, ModDef
  <2> HIDE DEF v
  <2>2. r < s * p /\ s * (-p) < r
    <3>1. s * p \in Int /\ s * (-p) = -(s * p)
      BY <1>1
    <3> QED BY <1>1, <1>4, <3>1 DEF Abs
  <2>3. v < p /\ -p < v
    BY <1>1, <2>1, <2>2, ScaleInts
  <2>4. v \in 0 - MaxInt - 1 .. MaxInt /\ Abs(v) <= Exact
    BY <1>1, <2>1, <2>3 DEF Abs
  <2>5. DoubleOf(v) = v
    BY <2>4, DoubleOfDef
  <2> QED BY <2>1, <2>4, <2>5 DEF r, s
<1>5. CASE ~(r % s = 0 /\ Abs(r) < s * p)
  BY <1>3, <1>5 DEF r
<1> QED BY <1>4, <1>5

LEMMA DoubleTokenType ==
  ASSUME NEW d \in Doubles
  PROVE  /\ DoubleToken(d) \in Tokens
         /\ DoubleToken(d).kind \in {"int", "number"}
         /\ Safe(DoubleToken(d)) <=> ~Unreadable(d)
<1>1. CASE d = NonFinite
  BY <1>1 DEF DoubleToken, NumberToken, Tokens, Doubles, Safe, NotJson, Unreadable
<1>2. CASE d # NonFinite
  <2>1. d \in Int /\ Rounded(d) \in Int /\ MaxInt \in Nat /\ Rounded(d) # NonFinite
    BY <1>2, RoundedType, ConstantsTyped, MarksAssumption DEF Doubles
  <2>2. CASE DoubleToken(d) = NumberToken(Rounded(d))
    BY <1>2, <2>1, <2>2 DEF NumberToken, Tokens, Doubles, Safe, NotJson, OutOfRange, Unreadable
  <2>3. ASSUME NEW v \in 0 - MaxInt - 1 .. MaxInt, DoubleToken(d) = IntToken(v), Rounded(d) = Scale * v
        PROVE  /\ DoubleToken(d) \in Tokens
               /\ DoubleToken(d).kind \in {"int", "number"}
               /\ Safe(DoubleToken(d)) /\ ~Unreadable(d)
    <3>1. v \in Int /\ ~(v > MaxInt) /\ ~(v < 0 - MaxInt - 1)
      BY <2>1
    <3>2. DoubleToken(d) \in Tokens /\ DoubleToken(d).kind = "int" /\ Safe(DoubleToken(d))
      BY <2>3, <3>1 DEF IntToken, Tokens, Safe, NotJson, OutOfRange
    <3>3. ~IsSubnormal(Rounded(d))
      <4> DEFINE s == Scale
      <4>1. s \in Nat \ {0} /\ MinNormal \in Nat /\ MinNormal <= s
        BY ConstantsTyped
      <4> HIDE DEF s
      <4>2. v = 0 => s * v = 0
        BY <4>1
      <4>3. v >= 1 => s * 1 <= s * v
        BY <3>1, <4>1, ScaleInts
      <4>4. v <= -1 => s * v <= s * (-1)
        BY <3>1, <4>1, ScaleInts
      <4>5. s * 1 = s /\ s * (-1) = -s /\ s * v \in Int
        BY <3>1, <4>1
      <4>6. s * v = 0 \/ ~(Abs(s * v) < MinNormal)
        BY <3>1, <4>1, <4>2, <4>3, <4>4, <4>5 DEF Abs
      <4> QED BY <2>3, <4>6 DEF IsSubnormal, s
    <3> QED BY <1>2, <3>2, <3>3 DEF Unreadable
  <2> QED BY <2>1, <2>2, <2>3, DoubleTokenDef
<1> QED BY <1>1, <1>2

(* A double that was rounded is printed the same way again. *)
LEMMA DoubleTokenTwice ==
  ASSUME NEW d \in Int
  PROVE  DoubleToken(Rounded(d)) = DoubleToken(d)
<1>1. d # NonFinite /\ Rounded(d) # NonFinite /\ Rounded(Rounded(d)) = Rounded(d)
  BY RoundedType, MarksAssumption
<1> QED BY <1>1 DEF DoubleToken

-----------------------------------------------------------------------------
(* Attributes on their way through a file *)

IsDouble(type) == type \in {"double", "doubles"}
Refused(a) == IsDouble(a.type) /\ \E k \in DOMAIN a.items : Unreadable(a.items[k])
ReadBack(a) == AttributeOf(JsonOf(a))

LEMMA AttributeType ==
  ASSUME NEW a \in Attributes
  PROVE  /\ a = [type |-> a.type, items |-> a.items]
         /\ a.type \in ScalarTypes \union ListTypes
         /\ a.items \in Seq(Doubles \union Text)
         /\ DOMAIN a.items = 1..Len(a.items) /\ Len(a.items) \in Nat
         /\ \A k \in DOMAIN a.items : a.items[k] \in ItemsOf(a.type)
         /\ a.type \in ScalarTypes => Len(a.items) = 1
<1>1. a \in [type : ScalarTypes \union ListTypes, items : Seq(Doubles \union Text)]
      /\ (\A k \in 1..Len(a.items) : a.items[k] \in ItemsOf(a.type))
      /\ (a.type \in ScalarTypes => Len(a.items) = 1)
  BY DEF Attributes
<1> QED BY <1>1

LEMMA AttributeIntro ==
  ASSUME NEW type \in ScalarTypes \union ListTypes, NEW items, NEW n \in Nat,
         items = [k \in 1..n |-> items[k]], \A k \in 1..n : items[k] \in ItemsOf(type),
         type \in ScalarTypes => n = 1
  PROVE  [type |-> type, items |-> items] \in Attributes /\ items \in Seq(Doubles \union Text)
         /\ Len(items) = n
<1>1. ASSUME NEW k \in 1..n
      PROVE  items[k] \in Doubles \union Text
  <2>1. items[k] \in ItemsOf(type)
    OBVIOUS
  <2>2. 0 - MaxInt - 1 .. MaxInt \subseteq Int /\ {0, 1} \subseteq Int
    BY ConstantsTyped
  <2>3. ItemsOf(type) \subseteq Doubles \union Text
    BY <2>2 DEF ItemsOf, ScalarTypes, ListTypes, Doubles
  <2> QED BY <2>1, <2>3
<1>2. items \in Seq(Doubles \union Text) /\ Len(items) = n
  BY <1>1
<1> QED BY <1>2 DEF Attributes

(* The token of one item. *)
TokenOf(type, item) ==
  IF type \in {"double", "doubles"} THEN DoubleToken(item)
  ELSE [kind |-> TokenKind(type), v |-> item]

LEMMA TokenOfType ==
  ASSUME NEW type \in ScalarTypes \union ListTypes, NEW item \in ItemsOf(type)
  PROVE  /\ TokenOf(type, item) \in Tokens
         /\ Safe(TokenOf(type, item)) <=> ~(IsDouble(type) /\ Unreadable(item))
         /\ type \in {"double", "doubles"} => TokenOf(type, item).kind \in {"int", "number"}
         /\ type \notin {"double", "doubles"} =>
              TokenOf(type, item).v = item /\ TokenOf(type, item).kind = TokenKind(type)
<1>1. MaxInt \in Nat
  BY ConstantsTyped
<1>2. CASE type \in {"double", "doubles"}
  <2>1. item \in Doubles
    BY <1>2 DEF ItemsOf
  <2> QED BY <1>2, <2>1, DoubleTokenType DEF TokenOf, IsDouble
<1>3. CASE type \in {"int", "ints"}
  <2>1. item \in 0 - MaxInt - 1 .. MaxInt /\ item \in Int /\ TokenOf(type, item) = [kind |-> "int", v |-> item]
    BY <1>1, <1>3 DEF ItemsOf, TokenOf, TokenKind
  <2> QED BY <1>1, <1>3, <2>1 DEF Tokens, Safe, NotJson, OutOfRange, TokenKind, IsDouble
<1>4. CASE type = "bool"
  <2>1. item \in {0, 1} /\ item \in Int /\ TokenOf(type, item) = [kind |-> "bool", v |-> item]
    BY <1>4 DEF ItemsOf, TokenOf, TokenKind
  <2> QED BY <1>4, <2>1 DEF Tokens, Safe, NotJson, OutOfRange, TokenKind, IsDouble
<1>5. CASE type \in {"string", "strings"}
  <2>1. item \in Text /\ TokenOf(type, item) = [kind |-> "string", v |-> item]
    BY <1>5 DEF ItemsOf, TokenOf, TokenKind
  <2> QED BY <1>5, <2>1 DEF Tokens, Safe, NotJson, OutOfRange, TokenKind, IsDouble
<1> QED BY <1>2, <1>3, <1>4, <1>5 DEF ScalarTypes, ListTypes

LEMMA JsonOfDef ==
  ASSUME NEW a \in Attributes
  PROVE  /\ JsonOf(a) \in JsonValues
         /\ JsonOf(a).array = (a.type \in ListTypes)
         /\ JsonOf(a).tokens = [i \in DOMAIN a.items |-> TokenOf(a.type, a.items[i])]
         /\ DOMAIN JsonOf(a).tokens = DOMAIN a.items
         /\ Len(JsonOf(a).tokens) = Len(a.items)
<1> DEFINE tokens == [i \in DOMAIN a.items |-> TokenOf(a.type, a.items[i])]
<1>1. JsonOf(a) = [array |-> a.type \in ListTypes, tokens |-> tokens]
  BY DEF JsonOf, TokenOf
<1>2. DOMAIN a.items = 1..Len(a.items) /\ Len(a.items) \in Nat
  BY AttributeType
<1>3. ASSUME NEW i \in DOMAIN a.items
      PROVE  tokens[i] \in Tokens
  <2>1. a.type \in ScalarTypes \union ListTypes /\ a.items[i] \in ItemsOf(a.type)
    BY <1>3, AttributeType
  <2> QED BY <1>3, <2>1, TokenOfType
<1>4. tokens \in Seq(Tokens) /\ Len(tokens) = Len(a.items) /\ DOMAIN tokens = DOMAIN a.items
  <2> DEFINE n == Len(a.items)
  <2>1. n \in Nat /\ DOMAIN a.items = 1..n
    BY <1>2
  <2>2. tokens \in [1..n -> Tokens]
    BY <1>3, <2>1
  <2> HIDE DEF tokens, n
  <2>3. tokens \in Seq(Tokens) /\ Len(tokens) = n /\ DOMAIN tokens = 1..n
    BY <2>1, <2>2
  <2> QED BY <2>1, <2>3 DEF n
<1>5. a.type \notin ListTypes => Len(a.items) = 1
  BY AttributeType
<1> HIDE DEF tokens
<1>6. JsonOf(a) \in JsonValues
  <2> DEFINE array == a.type \in ListTypes
  <2>1. array \in BOOLEAN /\ (~array => Len(tokens) = 1)
    BY <1>4, <1>5
  <2>2. JsonOf(a) = [array |-> array, tokens |-> tokens]
    BY <1>1
  <2> HIDE DEF array
  <2>3. [array |-> array, tokens |-> tokens] \in JsonValues
    BY <1>4, <2>1 DEF JsonValues
  <2> QED BY <2>2, <2>3
<1> QED BY <1>1, <1>4, <1>6 DEF tokens

LEMMA JsonOfSupported ==
  ASSUME NEW a \in Attributes
  PROVE  Supported(JsonOf(a))
<1> DEFINE tokens == JsonOf(a).tokens
<1>1. /\ \A i \in DOMAIN tokens : tokens[i] = TokenOf(a.type, a.items[i]) /\ a.items[i] \in ItemsOf(a.type)
      /\ a.type \in ScalarTypes \union ListTypes /\ JsonOf(a).array = (a.type \in ListTypes)
  BY JsonOfDef, AttributeType
<1> HIDE DEF tokens
<1>2. CASE a.type \in {"double", "doubles"}
  <2>1. AllOf(tokens, {"int", "number"})
    BY <1>1, <1>2, TokenOfType DEF AllOf
  <2> QED BY <2>1 DEF Supported, AllOf, IsNumbers, tokens
<1>3. CASE a.type \notin {"double", "doubles"}
  <2>1. AllOf(tokens, {TokenKind(a.type)})
    BY <1>1, <1>3, TokenOfType DEF AllOf
  <2>2. CASE a.type \in {"ints", "strings"}
    BY <1>1, <2>1, <2>2 DEF Supported, AllOf, IsNumbers, TokenKind, ListTypes, tokens
  <2>3. CASE a.type \in {"int", "bool", "string"}
    BY <1>1, <2>1, <2>3 DEF Supported, AllOf, IsNumbers, TokenKind, ListTypes, tokens
  <2> QED BY <1>1, <1>3, <2>2, <2>3 DEF ScalarTypes, ListTypes
<1> QED BY <1>2, <1>3

AllSafe(json) == \A i \in DOMAIN json.tokens : Safe(json.tokens[i])

LEMMA JsonOfSafe ==
  ASSUME NEW a \in Attributes
  PROVE  AllSafe(JsonOf(a)) <=> ~Refused(a)
<1>1. \A i \in DOMAIN a.items :
        Safe(JsonOf(a).tokens[i]) <=> ~(IsDouble(a.type) /\ Unreadable(a.items[i]))
  <2> TAKE i \in DOMAIN a.items
  <2>1. JsonOf(a).tokens[i] = TokenOf(a.type, a.items[i])
    BY JsonOfDef
  <2>2. a.type \in ScalarTypes \union ListTypes /\ a.items[i] \in ItemsOf(a.type)
    BY AttributeType
  <2> QED BY <2>1, <2>2, TokenOfType
<1>2. DOMAIN JsonOf(a).tokens = DOMAIN a.items
  BY JsonOfDef
<1> QED BY <1>1, <1>2 DEF AllSafe, Refused

LEMMA TokenValue ==
  ASSUME NEW t \in Tokens, Safe(t), t.kind \in {"bool", "int", "number", "string"}
  PROVE  /\ t.kind = "bool" => t.v \in {0, 1}
         /\ t.kind = "int" => t.v \in 0 - MaxInt - 1 .. MaxInt /\ t.v \in Int
         /\ t.kind = "number" => t.v \in Doubles
         /\ t.kind = "string" => t.v \in Text
<1>1. MaxInt \in Nat
  BY ConstantsTyped
<1>2. CASE t.kind = "bool"
  BY <1>2 DEF Tokens
<1>3. CASE t.kind = "int"
  <2>1. t.v \in Int
    BY <1>3 DEF Tokens
  <2> QED BY <1>1, <1>3, <2>1 DEF Safe, OutOfRange
<1>4. CASE t.kind = "number"
  BY <1>4 DEF Tokens
<1>5. CASE t.kind = "string"
  BY <1>5 DEF Tokens
<1> QED BY <1>2, <1>3, <1>4, <1>5

LEMMA ScalarRead ==
  ASSUME NEW j \in JsonValues, ~j.array
  PROVE  AttributeOf(j) = [type |-> ScalarType(j.tokens[1].kind), items |-> ValuesOf(j.tokens)]
BY Zenon DEF AttributeOf

LEMMA ListRead ==
  ASSUME NEW j \in JsonValues, j.array, j.tokens # << >>
  PROVE  AttributeOf(j) =
           IF AllOf(j.tokens, {"string"}) THEN [type |-> "strings", items |-> ValuesOf(j.tokens)]
           ELSE IF AllOf(j.tokens, {"int"}) THEN [type |-> "ints", items |-> ValuesOf(j.tokens)]
           ELSE [type |-> "doubles", items |-> AsDoubles(j.tokens)]
<1> DEFINE tokens == j.tokens
           list == CASE AllOf(tokens, {"string"}) -> [type |-> "strings", items |-> ValuesOf(tokens)]
                     [] AllOf(tokens, {"int"})    -> [type |-> "ints", items |-> ValuesOf(tokens)]
                     [] OTHER                     -> [type |-> "doubles", items |-> AsDoubles(tokens)]
<1>1. AttributeOf(j) = list
  BY Zenon DEF AttributeOf
<1>2. ~(AllOf(tokens, {"string"}) /\ AllOf(tokens, {"int"}))
  <2>1. tokens \in Seq(Tokens)
    BY DEF JsonValues
  <2>2. 1 \in DOMAIN tokens
    BY <2>1
  <2> QED BY <2>2 DEF AllOf
<1> HIDE DEF tokens
<1>3. CASE AllOf(tokens, {"string"})
  BY <1>1, <1>2, <1>3, Zenon DEF tokens
<1>4. CASE ~AllOf(tokens, {"string"}) /\ AllOf(tokens, {"int"})
  BY <1>1, <1>4, Zenon DEF tokens
<1>5. CASE ~AllOf(tokens, {"string"}) /\ ~AllOf(tokens, {"int"})
  BY <1>1, <1>5, Zenon DEF tokens
<1> QED BY <1>3, <1>4, <1>5

(* What is read is well typed if the parser has not thrown for a token. *)
LEMMA ReadIsTyped ==
  ASSUME NEW j \in JsonValues, Supported(j), AllSafe(j)
  PROVE  AttributeOf(j) \in Attributes
<1> DEFINE tokens == j.tokens
           n == Len(tokens)
           values == ValuesOf(tokens)
<1>1. tokens \in Seq(Tokens) /\ (~j.array => n = 1) /\ j.array \in BOOLEAN
  BY DEF JsonValues
<1>2. n \in Nat /\ DOMAIN tokens = 1..n /\ \A i \in 1..n : tokens[i] \in Tokens
  BY <1>1
<1>3. \A i \in 1..n : Safe(tokens[i])
  BY <1>2 DEF AllSafe
<1>4. values = [i \in 1..n |-> tokens[i].v]
  BY <1>2 DEF ValuesOf
<1> HIDE DEF values, n
<1>5. values = [i \in 1..n |-> values[i]] /\ \A i \in 1..n : values[i] = tokens[i].v
  BY <1>4
(* An attribute of these items. *)
<1>6. ASSUME NEW type \in ScalarTypes \union ListTypes, NEW items,
             items = [k \in 1..n |-> items[k]],
             \A k \in 1..n : items[k] \in ItemsOf(type),
             type \in ScalarTypes => n = 1,
             AttributeOf(j) = [type |-> type, items |-> items]
      PROVE  AttributeOf(j) \in Attributes
  BY <1>2, <1>6, AttributeIntro
<1>7. CASE ~j.array
  <2> DEFINE type == ScalarType(tokens[1].kind)
  <2>1. n = 1 /\ AttributeOf(j) = [type |-> type, items |-> values]
    BY <1>1, <1>7, ScalarRead DEF values
  <2>2. tokens[1] \in Tokens /\ Safe(tokens[1])
    BY <1>2, <1>3, <2>1
  <2>3. tokens[1].kind \in {"bool", "int", "number", "string"}
    BY <1>2, <1>7, <2>1 DEF Supported, AllOf
  <2>4. type \in ScalarTypes /\ tokens[1].v \in ItemsOf(type)
    BY <2>2, <2>3, TokenValue DEF ScalarType, ScalarTypes, ItemsOf
  <2> HIDE DEF type
  <2>5. \A k \in 1..n : values[k] \in ItemsOf(type)
    BY <1>5, <2>1, <2>4
  <2> QED BY <1>5, <1>6, <2>1, <2>4, <2>5
<1>8. CASE j.array /\ tokens = << >>
  <2>1. AttributeOf(j) = [type |-> "ints", items |-> << >>]
    BY <1>8 DEF AttributeOf
  <2>2. n = 0 /\ << >> = [k \in 1..n |-> << >>[k]] /\ "ints" \in ListTypes /\ "ints" \notin ScalarTypes
    BY <1>8 DEF n, ListTypes, ScalarTypes
  <2> QED BY <1>6, <2>1, <2>2
<1>9. CASE j.array /\ tokens # << >>
  <2>1. AttributeOf(j) =
          IF AllOf(tokens, {"string"}) THEN [type |-> "strings", items |-> values]
          ELSE IF AllOf(tokens, {"int"}) THEN [type |-> "ints", items |-> values]
          ELSE [type |-> "doubles", items |-> AsDoubles(tokens)]
    BY <1>9, ListRead DEF values
  <2>2. {"ints", "doubles", "strings"} = ListTypes /\ \A type \in ListTypes : type \notin ScalarTypes
    BY DEF ListTypes, ScalarTypes
  <2>3. CASE AllOf(tokens, {"string"})
    <3>1. \A k \in 1..n : values[k] \in ItemsOf("strings")
      BY <1>2, <1>3, <1>5, <2>3, TokenValue DEF AllOf, ItemsOf
    <3> QED BY <1>5, <1>6, <2>1, <2>2, <2>3, <3>1
  <2>4. CASE ~AllOf(tokens, {"string"}) /\ AllOf(tokens, {"int"})
    <3>1. \A k \in 1..n : values[k] \in ItemsOf("ints")
      BY <1>2, <1>3, <1>5, <2>4, TokenValue DEF AllOf, ItemsOf
    <3> QED BY <1>5, <1>6, <2>1, <2>2, <2>4, <3>1
  <2>5. CASE ~AllOf(tokens, {"string"}) /\ ~AllOf(tokens, {"int"})
    <3> DEFINE items == AsDoubles(tokens)
    <3>1. \A k \in 1..n : tokens[k].kind \in {"int", "number"}
      BY <1>2, <1>9, <2>5 DEF Supported, IsNumbers, AllOf
    <3>2. items = [k \in 1..n |-> IF tokens[k].kind = "int" THEN Scale * DoubleOf(tokens[k].v)
                                  ELSE tokens[k].v]
      BY <1>2 DEF AsDoubles
    <3> HIDE DEF items
    <3>3. ASSUME NEW k \in 1..n
          PROVE  items[k] \in ItemsOf("doubles")
      <4>1. tokens[k] \in Tokens /\ Safe(tokens[k])
        BY <1>2, <1>3
      <4>2. CASE tokens[k].kind = "int"
        <5>1. tokens[k].v \in 0 - MaxInt - 1 .. MaxInt /\ Scale \in Int
              /\ items[k] = Scale * DoubleOf(tokens[k].v)
          BY <3>2, <4>1, <4>2, TokenValue, ConstantsTyped
        <5>2. DoubleOf(tokens[k].v) \in Int
          BY <5>1, DoubleOfDef
        <5>3. items[k] \in Int
          BY <5>1, <5>2
        <5> QED BY <5>3 DEF ItemsOf, Doubles
      <4>3. CASE tokens[k].kind = "number"
        <5>1. items[k] = tokens[k].v
          BY <3>2, <4>3
        <5> QED BY <4>1, <4>3, <5>1, TokenValue DEF ItemsOf
      <4> QED BY <3>1, <4>2, <4>3
    <3>4. items = [k \in 1..n |-> items[k]]
      BY <3>2
    <3>5. AttributeOf(j) = [type |-> "doubles", items |-> items]
      BY <2>1, <2>5 DEF items
    <3> QED BY <1>6, <2>2, <3>3, <3>4, <3>5
  <2> QED BY <2>3, <2>4, <2>5
<1> QED BY <1>1, <1>7, <1>8, <1>9

LEMMA ReadBackTyped ==
  ASSUME NEW a \in Attributes, ~Refused(a)
  PROVE  ReadBack(a) \in Attributes
BY JsonOfDef, JsonOfSupported, JsonOfSafe, ReadIsTyped DEF ReadBack

LEMMA EmptyBecomesInts ==
  ASSUME NEW a \in Attributes, a.type \in ListTypes, a.items = << >>
  PROVE  ReadBack(a) = [type |-> "ints", items |-> << >>]
<1>1. JsonOf(a) \in JsonValues /\ JsonOf(a).array /\ Len(JsonOf(a).tokens) = 0
  BY JsonOfDef
<1>2. JsonOf(a).tokens = << >>
  <2>1. JsonOf(a).tokens \in Seq(Tokens)
    BY <1>1 DEF JsonValues
  <2> QED BY <1>1, <2>1
<1> QED BY <1>1, <1>2, Zenon DEF AttributeOf, ReadBack

(* The items of a value that shows them as they are. *)
LEMMA SameItems ==
  ASSUME NEW a \in Attributes, NEW j, DOMAIN j.tokens = DOMAIN a.items,
         \A i \in DOMAIN a.items : j.tokens[i].v = a.items[i]
  PROVE  ValuesOf(j.tokens) = a.items
<1>1. a.items = [i \in DOMAIN a.items |-> a.items[i]]
  BY AttributeType
<1> QED BY <1>1 DEF ValuesOf

LEMMA OtherTypesStay ==
  ASSUME NEW a \in Attributes, a.type \notin {"double", "doubles"},
         a.type \in ListTypes => a.items # << >>
  PROVE  ReadBack(a) = a
<1> DEFINE j == JsonOf(a)
<1>1. /\ j \in JsonValues /\ j.array = (a.type \in ListTypes)
      /\ DOMAIN j.tokens = DOMAIN a.items /\ Len(j.tokens) = Len(a.items)
      /\ \A i \in DOMAIN a.items : j.tokens[i] = TokenOf(a.type, a.items[i])
  BY JsonOfDef
<1>2. /\ a = [type |-> a.type, items |-> a.items] /\ a.type \in ScalarTypes \union ListTypes
      /\ DOMAIN a.items = 1..Len(a.items) /\ Len(a.items) \in Nat
      /\ \A i \in DOMAIN a.items : a.items[i] \in ItemsOf(a.type)
      /\ a.type \in ScalarTypes => Len(a.items) = 1
      /\ a.items \in Seq(Doubles \union Text)
  BY AttributeType
<1>3. ASSUME NEW i \in DOMAIN a.items
      PROVE  j.tokens[i].v = a.items[i] /\ j.tokens[i].kind = TokenKind(a.type)
  <2>1. j.tokens[i] = TokenOf(a.type, a.items[i]) /\ a.items[i] \in ItemsOf(a.type)
    BY <1>1, <1>2
  <2> QED BY <1>2, <2>1, TokenOfType
<1>4. ValuesOf(j.tokens) = a.items
  BY <1>1, <1>3, SameItems
<1>5. ReadBack(a) = AttributeOf(j)
  BY DEF ReadBack
<1> HIDE DEF j
<1>6. CASE a.type \in ScalarTypes
  <2>1. ~j.array /\ 1 \in DOMAIN a.items /\ j.tokens[1].kind = TokenKind(a.type)
    <3>1. 1 \in DOMAIN a.items /\ a.type \notin ListTypes
      BY <1>2, <1>6 DEF ScalarTypes, ListTypes
    <3> QED BY <1>1, <1>3, <3>1
  <2>2. AttributeOf(j) = [type |-> ScalarType(j.tokens[1].kind), items |-> a.items]
    BY <1>1, <1>4, <2>1, ScalarRead
  <2>3. ScalarType(TokenKind(a.type)) = a.type
    BY <1>6 DEF ScalarType, TokenKind, ScalarTypes
  <2> QED BY <1>2, <1>5, <2>1, <2>2, <2>3
<1>7. CASE a.type \in ListTypes
  <2>1. j.array /\ Len(j.tokens) # 0 /\ j.tokens # << >>
    <3>1. Len(a.items) # 0
      BY <1>2, <1>7
    <3>2. Len(<< >>) = 0
      OBVIOUS
    <3> QED BY <1>1, <1>7, <3>1, <3>2
  <2>2. 1 \in DOMAIN j.tokens
    BY <1>1, <1>2, <2>1
  <2>3. CASE a.type = "ints"
    <3>1. AllOf(j.tokens, {"int"}) /\ ~AllOf(j.tokens, {"string"})
      BY <1>1, <1>3, <2>2, <2>3 DEF AllOf, TokenKind
    <3>2. AttributeOf(j) = [type |-> "ints", items |-> a.items]
      BY <1>1, <1>4, <2>1, <3>1, ListRead
    <3> QED BY <1>2, <1>5, <2>3, <3>2
  <2>4. CASE a.type = "strings"
    <3>1. AllOf(j.tokens, {"string"})
      BY <1>1, <1>3, <2>4 DEF AllOf, TokenKind
    <3>2. AttributeOf(j) = [type |-> "strings", items |-> a.items]
      BY <1>1, <1>4, <2>1, <3>1, ListRead
    <3> QED BY <1>2, <1>5, <2>4, <3>2
  <2> QED BY <1>7, <2>3, <2>4 DEF ListTypes
<1> QED BY <1>2, <1>6, <1>7

(* What is left of the doubles once they are written. *)
RoundedItems(a) == [i \in DOMAIN a.items |-> Rounded(a.items[i])]

Printed(d, token) ==
  \/ token = NumberToken(Rounded(d))
  \/ \E v \in 0 - MaxInt - 1 .. MaxInt :
       token = IntToken(v) /\ Rounded(d) = Scale * v /\ DoubleOf(v) = v

LEMMA PrintedKinds ==
  ASSUME NEW d, NEW token, Printed(d, token)
  PROVE  \/ token.kind = "number" /\ token.v = Rounded(d) /\ token = NumberToken(Rounded(d))
         \/ /\ token.kind = "int" /\ token.v \in Int /\ Scale * token.v = Rounded(d)
            /\ DoubleOf(token.v) = token.v
<1>1. MaxInt \in Nat
  BY ConstantsTyped
<1>2. CASE token = NumberToken(Rounded(d))
  BY <1>2 DEF NumberToken
<1>3. ASSUME NEW v \in 0 - MaxInt - 1 .. MaxInt, token = IntToken(v), Rounded(d) = Scale * v,
             DoubleOf(v) = v
      PROVE  /\ token.kind = "int" /\ token.v \in Int /\ Scale * token.v = Rounded(d)
             /\ DoubleOf(token.v) = token.v
  BY <1>1, <1>3 DEF IntToken
<1> QED BY <1>2, <1>3 DEF Printed

LEMMA DoublesPrinted ==
  ASSUME NEW a \in Attributes, a.type \in {"double", "doubles"}, ~Refused(a),
         NEW i \in DOMAIN a.items
  PROVE  /\ a.items[i] \in Int
         /\ JsonOf(a).tokens[i] = DoubleToken(a.items[i])
         /\ Printed(a.items[i], JsonOf(a).tokens[i])
<1>1. a.items[i] \in Doubles /\ a.items[i] # NonFinite
  BY AttributeType DEF ItemsOf, Refused, IsDouble, Unreadable
<1>2. a.items[i] \in Int
  BY <1>1 DEF Doubles
<1>3. JsonOf(a).tokens[i] = DoubleToken(a.items[i])
  BY JsonOfDef DEF TokenOf
<1> QED BY <1>2, <1>3, DoubleTokenDef DEF Printed

(* Doubles become integers, each the rounded value, or stay doubles, each  *)
(* rounded; then they are written the same way again.                      *)
LEMMA DoublesRead ==
  ASSUME NEW a \in Attributes, a.type \in {"double", "doubles"}, ~Refused(a),
         a.items # << >>
  PROVE  \/ /\ ReadBack(a) = [type |-> a.type, items |-> RoundedItems(a)]
            /\ JsonOf(ReadBack(a)) = JsonOf(a)
         \/ /\ ReadBack(a).type = IF a.type = "double" THEN "int" ELSE "ints"
            /\ ReadBack(a).items # << >> /\ DOMAIN ReadBack(a).items = DOMAIN a.items
            /\ \A i \in DOMAIN a.items :
                 ReadBack(a).items[i] \in Int /\ Scale * ReadBack(a).items[i] = Rounded(a.items[i])
<1> DEFINE j == JsonOf(a)
<1>1. /\ j \in JsonValues /\ j.array = (a.type \in ListTypes)
      /\ DOMAIN j.tokens = DOMAIN a.items /\ Len(j.tokens) = Len(a.items)
      /\ ReadBack(a) = AttributeOf(j)
  BY JsonOfDef DEF ReadBack
<1>2. /\ DOMAIN a.items = 1..Len(a.items) /\ Len(a.items) \in Nat
      /\ a.type \in ScalarTypes => Len(a.items) = 1
      /\ Len(a.items) # 0
  <2>1. a.items \in Seq(Doubles \union Text)
    BY AttributeType
  <2>2. Len(a.items) # 0
    BY <2>1
  <2> QED BY <2>2, AttributeType
<1>3. \A i \in DOMAIN a.items :
        /\ a.items[i] \in Int /\ j.tokens[i] = DoubleToken(a.items[i])
        /\ Printed(a.items[i], j.tokens[i])
  BY DoublesPrinted
<1>4. 1 \in DOMAIN a.items /\ j.tokens # << >>
  BY <1>1, <1>2
(* Staying doubles. *)
<1>5. ASSUME ReadBack(a) = [type |-> a.type, items |-> RoundedItems(a)]
      PROVE  JsonOf(ReadBack(a)) = JsonOf(a)
  <2> DEFINE b == ReadBack(a)
  <2>1. b.type = a.type /\ DOMAIN b.items = DOMAIN a.items
        /\ \A i \in DOMAIN a.items : b.items[i] = Rounded(a.items[i])
    BY <1>5 DEF RoundedItems
  <2> HIDE DEF b
  <2>2. \A i \in DOMAIN a.items : DoubleToken(b.items[i]) = DoubleToken(a.items[i])
    BY <1>3, <2>1, DoubleTokenTwice
  <2>3. /\ JsonOf(b) = [array |-> a.type \in ListTypes, tokens |-> [i \in DOMAIN a.items |-> DoubleToken(b.items[i])]]
        /\ JsonOf(a) = [array |-> a.type \in ListTypes, tokens |-> [i \in DOMAIN a.items |-> DoubleToken(a.items[i])]]
    BY <2>1 DEF JsonOf
  <2>4. [i \in DOMAIN a.items |-> DoubleToken(b.items[i])] = [i \in DOMAIN a.items |-> DoubleToken(a.items[i])]
    BY <2>2
  <2> QED BY <2>3, <2>4 DEF b
(* Becoming integers. *)
<1>6. ASSUME \A i \in DOMAIN a.items : j.tokens[i].kind = "int",
             ReadBack(a) = [type |-> IF a.type = "double" THEN "int" ELSE "ints", items |-> ValuesOf(j.tokens)]
      PROVE  /\ ReadBack(a).type = IF a.type = "double" THEN "int" ELSE "ints"
             /\ ReadBack(a).items # << >> /\ DOMAIN ReadBack(a).items = DOMAIN a.items
             /\ \A i \in DOMAIN a.items :
                  ReadBack(a).items[i] \in Int /\ Scale * ReadBack(a).items[i] = Rounded(a.items[i])
  <2> DEFINE b == ReadBack(a)
  <2>1. b.type = (IF a.type = "double" THEN "int" ELSE "ints") /\ DOMAIN b.items = DOMAIN a.items
        /\ \A i \in DOMAIN a.items : b.items[i] = j.tokens[i].v
    BY <1>1, <1>6 DEF ValuesOf
  <2>2. b.items # << >>
    BY <1>4, <2>1
  <2>3. \A i \in DOMAIN a.items : j.tokens[i].v \in Int /\ Scale * j.tokens[i].v = Rounded(a.items[i])
    <3> TAKE i \in DOMAIN a.items
    <3>1. Printed(a.items[i], j.tokens[i]) /\ j.tokens[i].kind = "int"
      BY <1>3, <1>6
    <3> QED BY <3>1, PrintedKinds
  <2> QED BY <2>1, <2>2, <2>3
<1>7. CASE a.type = "double"
  <2>1. ~j.array /\ DOMAIN a.items = 1..1
    BY <1>1, <1>2, <1>7 DEF ListTypes, ScalarTypes
  <2>2. ReadBack(a) = [type |-> ScalarType(j.tokens[1].kind), items |-> ValuesOf(j.tokens)]
    BY <1>1, <2>1, ScalarRead
  <2>3. CASE j.tokens[1].kind = "int"
    BY <1>6, <1>7, <2>1, <2>2, <2>3 DEF ScalarType
  <2>4. CASE j.tokens[1].kind # "int"
    <3>1. j.tokens[1] = NumberToken(Rounded(a.items[1]))
      <4>1. Printed(a.items[1], j.tokens[1])
        BY <1>3, <2>1
      <4> QED BY <2>4, <4>1, PrintedKinds
    <3>2. ValuesOf(j.tokens) = RoundedItems(a)
      BY <1>1, <2>1, <3>1 DEF ValuesOf, RoundedItems, NumberToken
    <3>3. ReadBack(a) = [type |-> a.type, items |-> RoundedItems(a)]
      BY <1>7, <2>2, <3>1, <3>2 DEF ScalarType, NumberToken
    <3> QED BY <1>5, <3>3
  <2> QED BY <2>3, <2>4
<1>8. CASE a.type = "doubles"
  <2>1. j.array
    BY <1>1, <1>8 DEF ListTypes
  <2>2. ~AllOf(j.tokens, {"string"})
    <3>1. Printed(a.items[1], j.tokens[1]) /\ 1 \in DOMAIN j.tokens
      BY <1>1, <1>3, <1>4
    <3>2. j.tokens[1].kind # "string"
      BY <3>1, PrintedKinds
    <3> QED BY <3>1, <3>2 DEF AllOf
  <2>3. ReadBack(a) = IF AllOf(j.tokens, {"int"}) THEN [type |-> "ints", items |-> ValuesOf(j.tokens)]
                      ELSE [type |-> "doubles", items |-> AsDoubles(j.tokens)]
    BY <1>1, <1>4, <2>1, <2>2, ListRead
  <2>4. CASE AllOf(j.tokens, {"int"})
    <3>1. \A i \in DOMAIN a.items : j.tokens[i].kind = "int"
      BY <1>1, <2>4 DEF AllOf
    <3>2. ReadBack(a) = [type |-> IF a.type = "double" THEN "int" ELSE "ints", items |-> ValuesOf(j.tokens)]
      BY <1>8, <2>3, <2>4
    <3> QED BY <1>6, <3>1, <3>2
  <2>5. CASE ~AllOf(j.tokens, {"int"})
    <3>1. ASSUME NEW i \in DOMAIN a.items
          PROVE  (IF j.tokens[i].kind = "int" THEN Scale * DoubleOf(j.tokens[i].v) ELSE j.tokens[i].v)
                   = Rounded(a.items[i])
      <4>1. Printed(a.items[i], j.tokens[i])
        BY <1>3
      <4> QED BY <4>1, PrintedKinds
    <3>2. AsDoubles(j.tokens) = RoundedItems(a)
      BY <1>1, <3>1 DEF AsDoubles, RoundedItems
    <3>3. ReadBack(a) = [type |-> a.type, items |-> RoundedItems(a)]
      BY <1>8, <2>3, <2>5, <3>2
    <3> QED BY <1>5, <3>3
  <2> QED BY <2>4, <2>5
<1> QED BY <1>7, <1>8

LEMMA ReadBackIsSame ==
  ASSUME NEW a \in Attributes, ~Refused(a)
  PROVE  SameAttribute(a, ReadBack(a))
<1>1. CASE a.type \in ListTypes /\ a.items = << >>
  BY <1>1, EmptyBecomesInts DEF SameAttribute
<1>2. CASE a.type \notin {"double", "doubles"} /\ ~(a.type \in ListTypes /\ a.items = << >>)
  BY <1>2, OtherTypesStay DEF SameAttribute
<1>3. CASE a.type \in {"double", "doubles"} /\ ~(a.type \in ListTypes /\ a.items = << >>)
  <2> DEFINE b == ReadBack(a)
  <2>1. a.items # << >>
    <3>1. a.type \notin ListTypes => Len(a.items) = 1
      BY AttributeType
    <3>2. Len(<< >>) = 0
      OBVIOUS
    <3> QED BY <1>3, <3>1, <3>2
  <2>2. b \in Attributes
    BY ReadBackTyped
  <2>3. \A i \in DOMAIN a.items :
          a.items[i] \in Int /\ Rounded(a.items[i]) \in Int /\ Close(a.items[i], Rounded(a.items[i]))
    BY <1>3, DoublesPrinted, RoundedType
  <2>4. \/ b = [type |-> a.type, items |-> RoundedItems(a)]
        \/ /\ b.type = IF a.type = "double" THEN "int" ELSE "ints"
           /\ DOMAIN b.items = DOMAIN a.items
           /\ \A i \in DOMAIN a.items : Scale * b.items[i] = Rounded(a.items[i])
    BY <1>3, <2>1, DoublesRead
  <2> HIDE DEF b
  <2>5. /\ DOMAIN b.items = DOMAIN a.items
        /\ <<a.type, b.type>> \in {"double"} \X {"double", "int"} \union {"doubles"} \X {"doubles", "ints"}
        /\ \A i \in DOMAIN a.items :
             (IF b.type \in {"int", "ints"} THEN Scale * b.items[i] ELSE b.items[i]) = Rounded(a.items[i])
    BY <1>3, <2>4 DEF RoundedItems
  <2>6. Len(b.items) = Len(a.items)
    <3>1. /\ DOMAIN a.items = 1..Len(a.items) /\ Len(a.items) \in Nat
          /\ DOMAIN b.items = 1..Len(b.items) /\ Len(b.items) \in Nat
      BY <2>2, AttributeType
    <3> QED BY <2>5, <3>1
  <2> QED BY <2>3, <2>5, <2>6 DEF SameAttribute, b
<1> QED BY <1>1, <1>2, <1>3

(* What was read once is read again. *)
LEMMA ReadBackAccepted ==
  ASSUME NEW a \in Attributes, ~Refused(a)
  PROVE  ~Refused(ReadBack(a))
<1> DEFINE b == ReadBack(a)
<1>1. CASE a.type \in ListTypes /\ a.items = << >>
  BY <1>1, EmptyBecomesInts DEF Refused, IsDouble
<1>2. CASE a.type \notin {"double", "doubles"} /\ ~(a.type \in ListTypes /\ a.items = << >>)
  BY <1>2, OtherTypesStay DEF Refused, IsDouble
<1>3. CASE a.type \in {"double", "doubles"} /\ ~(a.type \in ListTypes /\ a.items = << >>)
  <2>1. a.items # << >>
    <3>1. a.type \notin ListTypes => Len(a.items) = 1
      BY AttributeType
    <3>2. Len(<< >>) = 0
      OBVIOUS
    <3> QED BY <1>3, <3>1, <3>2
  <2>2. \/ b = [type |-> a.type, items |-> RoundedItems(a)]
        \/ b.type = IF a.type = "double" THEN "int" ELSE "ints"
    BY <1>3, <2>1, DoublesRead
  <2>3. \A i \in DOMAIN a.items : ~Unreadable(Rounded(a.items[i]))
    <3> TAKE i \in DOMAIN a.items
    <3>1. a.items[i] \in Int /\ ~Unreadable(a.items[i])
      BY <1>3, DoublesPrinted DEF Refused, IsDouble
    <3>2. Rounded(a.items[i]) \in Int /\ Rounded(Rounded(a.items[i])) = Rounded(a.items[i])
      BY <3>1, RoundedType
    <3> QED BY <3>1, <3>2, MarksAssumption DEF Unreadable
  <2> HIDE DEF b
  <2>4. CASE b = [type |-> a.type, items |-> RoundedItems(a)]
    BY <2>3, <2>4 DEF Refused, RoundedItems, b
  <2>5. CASE b.type = IF a.type = "double" THEN "int" ELSE "ints"
    BY <2>5 DEF Refused, IsDouble, b
  <2> QED BY <2>2, <2>4, <2>5
<1> QED BY <1>1, <1>2, <1>3

LEMMA ReadBackTwice ==
  ASSUME NEW a \in Attributes, ~Refused(a)
  PROVE  ReadBack(ReadBack(a)) = ReadBack(a)
<1> DEFINE b == ReadBack(a)
<1>1. b \in Attributes
  BY ReadBackTyped
<1>2. CASE a.type \in ListTypes /\ a.items = << >>
  <2>1. b = [type |-> "ints", items |-> << >>]
    BY <1>2, EmptyBecomesInts
  <2> HIDE DEF b
  <2>2. b.type \in ListTypes /\ b.items = << >>
    BY <2>1 DEF ListTypes
  <2>3. ReadBack(b) = b
    BY <1>1, <2>1, <2>2, EmptyBecomesInts
  <2> QED BY <2>3 DEF b
<1>3. CASE a.type \notin {"double", "doubles"} /\ ~(a.type \in ListTypes /\ a.items = << >>)
  BY <1>3, OtherTypesStay
<1>4. CASE a.type \in {"double", "doubles"} /\ ~(a.type \in ListTypes /\ a.items = << >>)
  <2>1. a.items # << >>
    <3>1. a.type \notin ListTypes => Len(a.items) = 1
      BY AttributeType
    <3>2. Len(<< >>) = 0
      OBVIOUS
    <3> QED BY <1>4, <3>1, <3>2
  <2>2. \/ JsonOf(b) = JsonOf(a)
        \/ b.type \in {"int", "ints"} /\ b.items # << >>
    BY <1>4, <2>1, DoublesRead
  <2>3. CASE JsonOf(b) = JsonOf(a)
    BY <2>3 DEF ReadBack
  <2>4. CASE b.type \in {"int", "ints"} /\ b.items # << >>
    BY <1>1, <2>4, OtherTypesStay
  <2> QED BY <2>2, <2>3, <2>4
<1> QED BY <1>2, <1>3, <1>4

-----------------------------------------------------------------------------
(* Nodes and graphs as documents *)

LEMMA NodeType ==
  ASSUME NEW n \in Nodes
  PROVE  /\ n = [name |-> n.name, op_type |-> n.op_type, inputs |-> n.inputs,
                 outputs |-> n.outputs, attributes |-> n.attributes]
         /\ n.name \in Strings /\ n.op_type \in Strings
         /\ n.inputs \in Seq(Strings) /\ n.outputs \in Seq(Strings)
         /\ n.attributes \in [AttrNames -> Attributes \union {None}]
BY DEF Nodes

LEMMA GraphType ==
  ASSUME NEW g \in Graphs
  PROVE  /\ g = [format |-> g.format, weights |-> g.weights, inputs |-> g.inputs,
                 outputs |-> g.outputs, nodes |-> g.nodes]
         /\ g.format = V1 /\ g.weights \in Text
         /\ g.inputs \in Seq(Strings) /\ g.outputs \in Seq(Strings) /\ g.nodes \in Seq(Nodes)
         /\ Len(g.nodes) \in Nat /\ DOMAIN g.nodes = 1..Len(g.nodes)
         /\ \A i \in DOMAIN g.nodes : g.nodes[i] \in Nodes
<1>1. g.nodes \in Seq(Nodes)
  BY DEF Graphs
<1> QED BY <1>1 DEF Graphs

LEMMA JsonNodeFields ==
  ASSUME NEW n \in Nodes
  PROVE  /\ JsonNode(n).name = n.name /\ JsonNode(n).op = n.op_type
         /\ JsonNode(n).op_type = Missing
         /\ JsonNode(n).inputs = n.inputs /\ JsonNode(n).outputs = n.outputs
         /\ JsonNode(n).attrs \in JsonAttrs
         /\ \A a \in AttrNames :
              JsonNode(n).attrs[a] = IF n.attributes[a] = None THEN Missing ELSE JsonOf(n.attributes[a])
         /\ JsonNode(n) \in JsonNodes
<1> DEFINE attrs == [a \in AttrNames |->
                       IF n.attributes[a] = None THEN Missing ELSE JsonOf(n.attributes[a])]
<1>1. JsonNode(n) = [name |-> n.name, op |-> n.op_type, op_type |-> Missing,
                     inputs |-> n.inputs, outputs |-> n.outputs, attrs |-> attrs]
  BY DEF JsonNode
<1>2. ASSUME NEW a \in AttrNames
      PROVE  (IF n.attributes[a] = None THEN Missing ELSE JsonOf(n.attributes[a]))
               \in JsonValues \union {Missing}
  <2>1. n.attributes[a] # None => n.attributes[a] \in Attributes
    BY NodeType
  <2> QED BY <2>1, JsonOfDef
<1>3. attrs \in JsonAttrs
  BY <1>2 DEF JsonAttrs
<1>4. \A a \in AttrNames :
        attrs[a] = IF n.attributes[a] = None THEN Missing ELSE JsonOf(n.attributes[a])
  OBVIOUS
<1> HIDE DEF attrs
<1>5. JsonNode(n) \in JsonNodes
  BY <1>1, <1>3, NodeType DEF JsonNodes, Field
<1> QED BY <1>1, <1>3, <1>4, <1>5

LEMMA JsonNodeAttrs ==
  ASSUME NEW n \in Nodes
  PROVE  /\ AttrsOf(JsonNode(n)) = JsonNode(n).attrs
         /\ JsonNode(n).attrs # Wrong /\ JsonNode(n) # Wrong
         /\ \A a \in AttrNames :
              n.attributes[a] # None =>
                /\ n.attributes[a] \in Attributes
                /\ JsonNode(n).attrs[a] = JsonOf(n.attributes[a])
                /\ JsonNode(n).attrs[a] # Missing
         /\ \A a \in AttrNames : n.attributes[a] = None => JsonNode(n).attrs[a] = Missing
<1>1. JsonNode(n).attrs \in JsonAttrs /\ JsonNode(n) \in JsonNodes
  BY JsonNodeFields
<1>2. JsonNode(n).attrs # Missing /\ JsonNode(n).attrs # Wrong /\ JsonNode(n) # Wrong
  BY <1>1, MarksAssumption
<1>3. AttrsOf(JsonNode(n)) = JsonNode(n).attrs
  BY <1>2 DEF AttrsOf, FieldOr
<1>4. ASSUME NEW a \in AttrNames, n.attributes[a] # None
      PROVE  /\ n.attributes[a] \in Attributes
             /\ JsonNode(n).attrs[a] = JsonOf(n.attributes[a])
             /\ JsonNode(n).attrs[a] # Missing
  <2>1. n.attributes[a] \in Attributes
    BY <1>4, NodeType
  <2>2. JsonNode(n).attrs[a] = JsonOf(n.attributes[a])
    BY <1>4, JsonNodeFields
  <2>3. JsonOf(n.attributes[a]) \in JsonValues
    BY <2>1, JsonOfDef
  <2> QED BY <2>1, <2>2, <2>3, MarksAssumption
<1>5. \A a \in AttrNames : n.attributes[a] = None => JsonNode(n).attrs[a] = Missing
  BY JsonNodeFields
<1> QED BY <1>2, <1>3, <1>4, <1>5

LEMMA Unmarked ==
  /\ \A s \in Strings : s # Missing /\ s # Wrong
  /\ \A s \in Text : s # Missing /\ s # Wrong
  /\ \A s \in Seq(Strings) : s # Missing /\ s # Wrong
  /\ V1 # Missing /\ V1 # Wrong
BY MarksAssumption DEF Text

LEMMA JsonNodeAccepted ==
  ASSUME NEW n \in Nodes
  PROVE  NodeAccepted(JsonNode(n))
<1> DEFINE m == JsonNode(n)
<1>1. m.name \in Strings /\ m.op \in Strings /\ m.inputs \in Seq(Strings) /\ m.outputs \in Seq(Strings)
  BY JsonNodeFields, NodeType
<1>2. /\ AttrsOf(m) = m.attrs /\ m.attrs # Wrong
      /\ \A a \in AttrNames : n.attributes[a] # None =>
           n.attributes[a] \in Attributes /\ m.attrs[a] = JsonOf(n.attributes[a])
      /\ \A a \in AttrNames : n.attributes[a] = None => m.attrs[a] = Missing
  BY JsonNodeAttrs
<1> HIDE DEF m
<1>3. Given(m.name) /\ Given(m.inputs) /\ Given(m.outputs) /\ Given(FieldOr(m.op, m.op_type))
  BY <1>1, Unmarked DEF Given, FieldOr
<1>4. ASSUME NEW a \in AttrNames, AttrsOf(m)[a] # Missing
      PROVE  Supported(AttrsOf(m)[a])
  BY <1>2, <1>4, JsonOfSupported
<1> QED BY <1>2, <1>3, <1>4 DEF NodeAccepted, m

LEMMA JsonFields ==
  ASSUME NEW g \in Graphs
  PROVE  /\ Json(g).format = V1 /\ Json(g).inputs = g.inputs /\ Json(g).outputs = g.outputs
         /\ Json(g).weights = IF g.weights = NoString THEN Missing ELSE g.weights
         /\ DOMAIN Json(g).nodes = DOMAIN g.nodes /\ Len(Json(g).nodes) = Len(g.nodes)
         /\ \A i \in DOMAIN g.nodes : Json(g).nodes[i] = JsonNode(g.nodes[i])
         /\ Json(g).nodes \in Seq(JsonNodes \union {Wrong})
         /\ Given(Json(g).nodes)
         /\ Json(g) \in JsonGraphs /\ Json(g) # Malformed
<1> DEFINE nodes == [i \in DOMAIN g.nodes |-> JsonNode(g.nodes[i])]
           weights == IF g.weights = NoString THEN Missing ELSE g.weights
           n == Len(g.nodes)
<1>1. Json(g) = [format |-> g.format, weights |-> weights, inputs |-> g.inputs,
                 outputs |-> g.outputs, nodes |-> nodes]
  BY DEF Json
<1>2. n \in Nat /\ DOMAIN g.nodes = 1..n /\ \A i \in 1..n : JsonNode(g.nodes[i]) \in JsonNodes
  BY GraphType, JsonNodeFields
<1>3. nodes = [i \in 1..n |-> JsonNode(g.nodes[i])]
  BY <1>2
<1> HIDE DEF nodes, n
<1>4. nodes \in [1..n -> JsonNodes \union {Wrong}]
  BY <1>2, <1>3
<1>5. nodes \in Seq(JsonNodes \union {Wrong}) /\ Len(nodes) = n /\ DOMAIN nodes = 1..n
  BY <1>2, <1>4
<1>6. Given(nodes)
  BY <1>5, MarksAssumption DEF Given
<1>7. weights \in Field(Text) /\ g.format = V1 /\ g.inputs \in Seq(Strings) /\ g.outputs \in Seq(Strings)
  BY GraphType DEF Field
<1> HIDE DEF weights
<1>8. Json(g) \in JsonGraphs
  BY <1>1, <1>5, <1>7 DEF JsonGraphs, Field
<1>9. Json(g) # Malformed
  BY <1>8, MarksAssumption
<1> QED BY <1>1, <1>2, <1>3, <1>5, <1>6, <1>7, <1>8, <1>9 DEF weights, n

LEMMA JsonAccepted ==
  ASSUME NEW g \in Graphs
  PROVE  Accepted(Json(g))
<1>1. /\ Json(g).format = V1 /\ Json(g).inputs = g.inputs /\ Json(g).outputs = g.outputs
      /\ Json(g).weights = (IF g.weights = NoString THEN Missing ELSE g.weights)
      /\ DOMAIN Json(g).nodes = DOMAIN g.nodes /\ Given(Json(g).nodes)
      /\ \A i \in DOMAIN g.nodes : Json(g).nodes[i] = JsonNode(g.nodes[i])
  BY JsonFields
<1>2. g.weights \in Text /\ g.inputs \in Seq(Strings) /\ g.outputs \in Seq(Strings)
      /\ \A i \in DOMAIN g.nodes : g.nodes[i] \in Nodes
  BY GraphType
<1>3. Wrong \notin {Json(g).weights, Json(g).inputs, Json(g).outputs}
  BY <1>1, <1>2, Unmarked, MarksAssumption
<1>4. FieldOr(Json(g).format, V1) = V1
  BY <1>1 DEF FieldOr
<1>5. ASSUME NEW i \in DOMAIN Json(g).nodes
      PROVE  Json(g).nodes[i] # Wrong /\ NodeAccepted(Json(g).nodes[i])
  <2>1. g.nodes[i] \in Nodes /\ Json(g).nodes[i] = JsonNode(g.nodes[i])
    BY <1>1, <1>2, <1>5
  <2> QED BY <2>1, JsonNodeAccepted, JsonNodeAttrs
<1> QED BY <1>1, <1>3, <1>4, <1>5 DEF Accepted

LEMMA TokensOfDef ==
  ASSUME NEW doc, Given(doc.nodes), NEW t
  PROVE  t \in TokensOf(doc) <=>
           \E i \in DOMAIN doc.nodes, a \in AttrNames :
             /\ doc.nodes[i] # Wrong /\ doc.nodes[i].attrs # Wrong
             /\ AttrsOf(doc.nodes[i])[a] # Missing
             /\ \E k \in DOMAIN AttrsOf(doc.nodes[i])[a].tokens :
                  t = AttrsOf(doc.nodes[i])[a].tokens[k]
<1> DEFINE nodes == {doc.nodes[i] : i \in DOMAIN doc.nodes} \ {Wrong}
           values == {AttrsOf(n)[a] : n \in {n \in nodes : n.attrs # Wrong}, a \in AttrNames} \ {Missing}
           Of(v) == {v.tokens[i] : i \in DOMAIN v.tokens}
<1>1. TokensOf(doc) = UNION {Of(v) : v \in values}
  BY DEF TokensOf
<1>2. \A n : n \in nodes <=> n # Wrong /\ \E i \in DOMAIN doc.nodes : n = doc.nodes[i]
  OBVIOUS
<1> HIDE DEF nodes
<1>3. \A v : v \in values <=>
        v # Missing /\ \E n \in nodes, a \in AttrNames : n.attrs # Wrong /\ v = AttrsOf(n)[a]
  OBVIOUS
<1> HIDE DEF values
<1>4. t \in TokensOf(doc) <=> \E v \in values : \E k \in DOMAIN v.tokens : t = v.tokens[k]
  BY <1>1
<1>5. ASSUME t \in TokensOf(doc)
      PROVE  \E i \in DOMAIN doc.nodes, a \in AttrNames :
               /\ doc.nodes[i] # Wrong /\ doc.nodes[i].attrs # Wrong
               /\ AttrsOf(doc.nodes[i])[a] # Missing
               /\ \E k \in DOMAIN AttrsOf(doc.nodes[i])[a].tokens :
                    t = AttrsOf(doc.nodes[i])[a].tokens[k]
  <2>1. PICK v \in values : \E k \in DOMAIN v.tokens : t = v.tokens[k]
    BY <1>4, <1>5
  <2>2. PICK n \in nodes, a \in AttrNames : n.attrs # Wrong /\ v = AttrsOf(n)[a] /\ v # Missing
    BY <1>3, <2>1
  <2>3. PICK i \in DOMAIN doc.nodes : n = doc.nodes[i] /\ n # Wrong
    BY <1>2, <2>2
  <2> QED BY <2>1, <2>2, <2>3
<1>6. ASSUME NEW i \in DOMAIN doc.nodes, NEW a \in AttrNames,
             doc.nodes[i] # Wrong, doc.nodes[i].attrs # Wrong,
             AttrsOf(doc.nodes[i])[a] # Missing,
             NEW k \in DOMAIN AttrsOf(doc.nodes[i])[a].tokens,
             t = AttrsOf(doc.nodes[i])[a].tokens[k]
      PROVE  t \in TokensOf(doc)
  <2>1. doc.nodes[i] \in nodes
    BY <1>2, <1>6
  <2>2. AttrsOf(doc.nodes[i])[a] \in values
    BY <1>3, <1>6, <2>1
  <2> QED BY <1>4, <1>6, <2>2
<1> QED BY <1>5, <1>6

LEMMA ThrowsNothing ==
  ASSUME NEW doc
  PROVE  Throws(doc) = {} <=> doc # Malformed /\ (\A t \in TokensOf(doc) : Safe(t)) /\ Accepted(doc)
<1>1. ParserThrows(doc) = {} <=> doc # Malformed /\ \A t \in TokensOf(doc) : Safe(t)
  <2>1. CASE doc = Malformed
    BY <2>1 DEF ParserThrows
  <2>2. CASE doc # Malformed
    <3>1. ParserThrows(doc) =
            {e \in {"invalid_argument", "out_of_range"} :
               \E t \in TokensOf(doc) : IF e = "out_of_range" THEN OutOfRange(t) ELSE NotJson(t)}
      BY <2>2 DEF ParserThrows
    <3>2. /\ "out_of_range" \in ParserThrows(doc) <=> \E t \in TokensOf(doc) : OutOfRange(t)
          /\ "invalid_argument" \in ParserThrows(doc) <=> \E t \in TokensOf(doc) : NotJson(t)
          /\ ParserThrows(doc) \subseteq {"invalid_argument", "out_of_range"}
      BY <3>1
    <3> QED BY <2>2, <3>2 DEF Safe
  <2> QED BY <2>1, <2>2
<1> QED BY <1>1 DEF Throws

LEMMA ThrowsErrors ==
  ASSUME NEW doc
  PROVE  Throws(doc) \subseteq {"invalid_argument", "out_of_range"}
BY DEF Throws, ParserThrows

(* What toJson() writes is refused for its doubles only. *)
LEMMA JsonThrows ==
  ASSUME NEW g \in Graphs
  PROVE  Throws(Json(g)) = {} <=> ~HasUnreadable(g)
<1> DEFINE doc == Json(g)
<1>1. doc # Malformed /\ Accepted(doc) /\ Given(doc.nodes)
  BY JsonFields, JsonAccepted
<1>2. /\ DOMAIN doc.nodes = DOMAIN g.nodes
      /\ \A i \in DOMAIN g.nodes : g.nodes[i] \in Nodes /\ doc.nodes[i] = JsonNode(g.nodes[i])
  BY JsonFields, GraphType
<1> HIDE DEF doc
<1>3. ASSUME HasUnreadable(g)
      PROVE  \E t \in TokensOf(doc) : ~Safe(t)
  <2>1. PICK i \in DOMAIN g.nodes, a \in AttrNames :
          g.nodes[i].attributes[a] # None /\ Refused(g.nodes[i].attributes[a])
    BY <1>3 DEF HasUnreadable, Refused, IsDouble
  <2>2. g.nodes[i] \in Nodes /\ doc.nodes[i] = JsonNode(g.nodes[i])
    BY <1>2
  <2> DEFINE b == g.nodes[i].attributes[a]
  <2>3. /\ b \in Attributes /\ AttrsOf(doc.nodes[i])[a] = JsonOf(b) /\ AttrsOf(doc.nodes[i])[a] # Missing
        /\ doc.nodes[i] # Wrong /\ doc.nodes[i].attrs # Wrong
    BY <2>1, <2>2, JsonNodeAttrs
  <2>4. ~AllSafe(JsonOf(b))
    BY <2>1, <2>3, JsonOfSafe
  <2> HIDE DEF b
  <2>5. PICK k \in DOMAIN JsonOf(b).tokens : ~Safe(JsonOf(b).tokens[k])
    BY <2>4 DEF AllSafe
  <2>6. JsonOf(b).tokens[k] \in TokensOf(doc)
    <3>1. i \in DOMAIN doc.nodes /\ k \in DOMAIN AttrsOf(doc.nodes[i])[a].tokens
          /\ JsonOf(b).tokens[k] = AttrsOf(doc.nodes[i])[a].tokens[k]
      BY <1>2, <2>3
    <3> QED BY <1>1, <2>3, <3>1, TokensOfDef
  <2> QED BY <2>5, <2>6
<1>4. ASSUME NEW t \in TokensOf(doc), ~Safe(t)
      PROVE  HasUnreadable(g)
  <2>1. PICK i \in DOMAIN doc.nodes, a \in AttrNames :
          /\ AttrsOf(doc.nodes[i])[a] # Missing
          /\ \E k \in DOMAIN AttrsOf(doc.nodes[i])[a].tokens :
               t = AttrsOf(doc.nodes[i])[a].tokens[k]
    BY <1>1, TokensOfDef
  <2>2. i \in DOMAIN g.nodes /\ g.nodes[i] \in Nodes /\ doc.nodes[i] = JsonNode(g.nodes[i])
    BY <1>2
  <2> DEFINE b == g.nodes[i].attributes[a]
  <2>3. b # None /\ b \in Attributes /\ AttrsOf(doc.nodes[i])[a] = JsonOf(b)
    BY <2>1, <2>2, JsonNodeAttrs
  <2>4. ~AllSafe(JsonOf(b))
    <3> HIDE DEF b
    <3> QED BY <1>4, <2>1, <2>3 DEF AllSafe
  <2>5. Refused(b)
    BY <2>3, <2>4, JsonOfSafe
  <2> QED BY <2>2, <2>3, <2>5 DEF HasUnreadable, Refused, IsDouble
<1>5. Throws(doc) = {} <=> ~HasUnreadable(g)
  BY <1>1, <1>3, <1>4, ThrowsNothing
<1> QED BY <1>5 DEF doc

(* The graph that is read is well formed, whatever document was accepted. *)
LEMMA NodeOfTyped ==
  ASSUME NEW m \in JsonNodes, NodeAccepted(m),
         \A a \in AttrNames : AttrsOf(m)[a] # Missing => AllSafe(AttrsOf(m)[a])
  PROVE  NodeOf(m) \in Nodes
<1> DEFINE attributes == [a \in AttrNames |->
                            IF AttrsOf(m)[a] = Missing THEN None ELSE AttributeOf(AttrsOf(m)[a])]
<1>1. NodeOf(m) = [name |-> m.name, op_type |-> FieldOr(m.op, m.op_type),
                   inputs |-> m.inputs, outputs |-> m.outputs, attributes |-> attributes]
  BY DEF NodeOf
<1>2. m.name \in Strings /\ m.inputs \in Seq(Strings) /\ m.outputs \in Seq(Strings)
  BY DEF NodeAccepted, Given, JsonNodes, Field
<1>3. FieldOr(m.op, m.op_type) \in Strings
  BY DEF NodeAccepted, Given, FieldOr, JsonNodes, Field
<1>4. AttrsOf(m) \in JsonAttrs
  <2>1. m.attrs \in JsonAttrs \union {Missing}
    BY DEF NodeAccepted, JsonNodes, Field
  <2>2. NoAttrs \in JsonAttrs
    BY DEF NoAttrs, JsonAttrs
  <2> QED BY <2>1, <2>2 DEF AttrsOf, FieldOr
<1>5. ASSUME NEW a \in AttrNames, AttrsOf(m)[a] # Missing
      PROVE  AttributeOf(AttrsOf(m)[a]) \in Attributes
  <2> DEFINE j == AttrsOf(m)[a]
  <2>1. j \in JsonValues
    BY <1>4, <1>5 DEF JsonAttrs
  <2>2. Supported(j) /\ AllSafe(j)
    BY <1>5 DEF NodeAccepted
  <2> HIDE DEF j
  <2>3. AttributeOf(j) \in Attributes
    BY <2>1, <2>2, ReadIsTyped
  <2> QED BY <2>3 DEF j
<1>6. \A a \in AttrNames : attributes[a] \in Attributes \union {None}
  BY <1>5
<1>7. attributes = [a \in AttrNames |-> attributes[a]]
  OBVIOUS
<1> HIDE DEF attributes
<1>8. attributes \in [AttrNames -> Attributes \union {None}]
  BY <1>6, <1>7
<1> QED BY <1>1, <1>2, <1>3, <1>8 DEF Nodes

LEMMA GraphOfTyped ==
  ASSUME NEW doc \in JsonGraphs, Accepted(doc), \A t \in TokensOf(doc) : Safe(t)
  PROVE  GraphOf(doc) \in Graphs
<1> DEFINE n == Len(doc.nodes)
           nodes == [i \in DOMAIN doc.nodes |-> NodeOf(doc.nodes[i])]
<1>1. doc.nodes \in Seq(JsonNodes \union {Wrong}) /\ Given(doc.nodes)
  BY DEF Accepted, Given, JsonGraphs, Field
<1>2. n \in Nat /\ DOMAIN doc.nodes = 1..n /\ \A i \in 1..n : doc.nodes[i] \in JsonNodes \union {Wrong}
  BY <1>1
<1>3. ASSUME NEW i \in 1..n
      PROVE  NodeOf(doc.nodes[i]) \in Nodes
  <2> DEFINE m == doc.nodes[i]
  <2>1. m # Wrong /\ NodeAccepted(m) /\ m \in JsonNodes
    BY <1>2 DEF Accepted
  <2>2. m.attrs # Wrong
    BY <2>1 DEF NodeAccepted
  <2>3. ASSUME NEW a \in AttrNames, AttrsOf(m)[a] # Missing
        PROVE  AllSafe(AttrsOf(m)[a])
    <3> SUFFICES ASSUME NEW k \in DOMAIN AttrsOf(m)[a].tokens
                 PROVE  Safe(AttrsOf(m)[a].tokens[k])
      BY DEF AllSafe
    <3>1. AttrsOf(m)[a].tokens[k] \in TokensOf(doc)
      <4> DEFINE t == AttrsOf(m)[a].tokens[k]
      <4>1. \E z \in DOMAIN AttrsOf(doc.nodes[i])[a].tokens : t = AttrsOf(doc.nodes[i])[a].tokens[z]
        OBVIOUS
      <4>2. i \in DOMAIN doc.nodes /\ doc.nodes[i] # Wrong /\ doc.nodes[i].attrs # Wrong
            /\ AttrsOf(doc.nodes[i])[a] # Missing
        BY <1>2, <2>1, <2>2, <2>3
      <4> HIDE DEF t, m
      <4>3. t \in TokensOf(doc)
        BY <1>1, <4>1, <4>2, TokensOfDef
      <4> QED BY <4>3 DEF t
    <3> QED BY <3>1
  <2> HIDE DEF m
  <2>4. NodeOf(m) \in Nodes
    BY <2>1, <2>3, NodeOfTyped
  <2> QED BY <2>4 DEF m
<1>4. GraphOf(doc) =
        [format |-> FieldOr(doc.format, V1), weights |-> FieldOr(doc.weights, NoString),
         inputs |-> FieldOr(doc.inputs, << >>), outputs |-> FieldOr(doc.outputs, << >>),
         nodes |-> nodes]
  BY DEF GraphOf
<1>5. nodes = [i \in 1..n |-> NodeOf(doc.nodes[i])]
  BY <1>2
<1> HIDE DEF nodes, n
<1>6. nodes \in [1..n -> Nodes]
  BY <1>3, <1>5
<1>7. nodes \in Seq(Nodes) /\ DOMAIN nodes = 1..n
  BY <1>2, <1>6
<1>8. /\ FieldOr(doc.format, V1) = V1
      /\ FieldOr(doc.weights, NoString) \in Text
      /\ FieldOr(doc.inputs, << >>) \in Seq(Strings)
      /\ FieldOr(doc.outputs, << >>) \in Seq(Strings)
  <2>1. doc.weights \in Field(Text) /\ doc.inputs \in Field(Seq(Strings)) /\ doc.outputs \in Field(Seq(Strings))
    BY DEF JsonGraphs
  <2>2. /\ doc.weights # Wrong /\ doc.inputs # Wrong /\ doc.outputs # Wrong
        /\ FieldOr(doc.format, V1) = V1
    BY DEF Accepted
  <2>3. << >> \in Seq(Strings) /\ NoString \in Text
    BY DEF Text
  <2> QED BY <2>1, <2>2, <2>3 DEF FieldOr, Field
<1> QED BY <1>4, <1>7, <1>8 DEF Graphs

(* A node after a trip through a file. *)
NodeRead(n) ==
  [name |-> n.name, op_type |-> n.op_type, inputs |-> n.inputs, outputs |-> n.outputs,
   attributes |-> [a \in AttrNames |->
     IF n.attributes[a] = None THEN None ELSE ReadBack(n.attributes[a])]]

LEMMA NodeTrip ==
  ASSUME NEW n \in Nodes
  PROVE  NodeOf(JsonNode(n)) = NodeRead(n)
<1> DEFINE m == JsonNode(n)
<1>1. m.name = n.name /\ m.inputs = n.inputs /\ m.outputs = n.outputs /\ m.op = n.op_type
  BY JsonNodeFields
<1>2. FieldOr(m.op, m.op_type) = n.op_type
  <2>1. n.op_type # Missing
    BY NodeType, Unmarked
  <2> QED BY <1>1, <2>1 DEF FieldOr
<1>3. ASSUME NEW a \in AttrNames
      PROVE  (IF AttrsOf(m)[a] = Missing THEN None ELSE AttributeOf(AttrsOf(m)[a]))
               = IF n.attributes[a] = None THEN None ELSE ReadBack(n.attributes[a])
  <2>1. CASE n.attributes[a] = None
    BY <2>1, JsonNodeAttrs
  <2>2. CASE n.attributes[a] # None
    BY <2>2, JsonNodeAttrs DEF ReadBack
  <2> QED BY <2>1, <2>2
<1> HIDE DEF m
<1> QED BY <1>1, <1>2, <1>3 DEF NodeOf, NodeRead, m

LEMMA GraphTrip ==
  ASSUME NEW g \in Graphs
  PROVE  GraphOf(Json(g)) =
           [format |-> g.format, weights |-> g.weights, inputs |-> g.inputs, outputs |-> g.outputs,
            nodes |-> [i \in DOMAIN g.nodes |-> NodeRead(g.nodes[i])]]
<1> DEFINE doc == Json(g)
<1>1. /\ doc.format = V1 /\ doc.inputs = g.inputs /\ doc.outputs = g.outputs
      /\ doc.weights = (IF g.weights = NoString THEN Missing ELSE g.weights)
      /\ DOMAIN doc.nodes = DOMAIN g.nodes
      /\ \A i \in DOMAIN g.nodes : doc.nodes[i] = JsonNode(g.nodes[i])
  BY JsonFields
<1>2. /\ g.format = V1 /\ g.weights \in Text /\ g.inputs \in Seq(Strings) /\ g.outputs \in Seq(Strings)
      /\ \A i \in DOMAIN g.nodes : g.nodes[i] \in Nodes
  BY GraphType
<1> HIDE DEF doc
<1>3. /\ FieldOr(doc.format, V1) = g.format /\ FieldOr(doc.weights, NoString) = g.weights
      /\ FieldOr(doc.inputs, << >>) = g.inputs /\ FieldOr(doc.outputs, << >>) = g.outputs
  BY <1>1, <1>2, Unmarked DEF FieldOr
<1>4. \A i \in DOMAIN g.nodes : NodeOf(doc.nodes[i]) = NodeRead(g.nodes[i])
  BY <1>1, <1>2, NodeTrip
<1>5. [i \in DOMAIN doc.nodes |-> NodeOf(doc.nodes[i])] = [i \in DOMAIN g.nodes |-> NodeRead(g.nodes[i])]
  BY <1>1, <1>4
<1> QED BY <1>3, <1>5 DEF GraphOf, doc

LEMMA AttributeSafe ==
  ASSUME NEW g \in Graphs, ~HasUnreadable(g), NEW i \in DOMAIN g.nodes, NEW a \in AttrNames,
         g.nodes[i].attributes[a] # None
  PROVE  g.nodes[i].attributes[a] \in Attributes /\ ~Refused(g.nodes[i].attributes[a])
<1>1. g.nodes[i] \in Nodes
  BY GraphType
<1>2. g.nodes[i].attributes[a] \in Attributes
  BY <1>1, NodeType
<1> QED BY <1>2 DEF HasUnreadable, Refused, IsDouble

(* The graph that is read back has the attributes that were read back. *)
LEMMA TripIsSame ==
  ASSUME NEW g \in Graphs, ~HasUnreadable(g), NEW h, h = GraphOf(Json(g))
  PROVE  /\ [h EXCEPT !.nodes = << >>] = [g EXCEPT !.nodes = << >>]
         /\ Len(h.nodes) = Len(g.nodes)
         /\ \A i \in DOMAIN h.nodes : SameNode(g.nodes[i], h.nodes[i])
<1> DEFINE nodes == [i \in DOMAIN g.nodes |-> NodeRead(g.nodes[i])]
<1>1. h = [format |-> g.format, weights |-> g.weights, inputs |-> g.inputs, outputs |-> g.outputs,
           nodes |-> nodes]
  BY GraphTrip
<1>2. g = [format |-> g.format, weights |-> g.weights, inputs |-> g.inputs,
           outputs |-> g.outputs, nodes |-> g.nodes]
      /\ Len(g.nodes) \in Nat /\ DOMAIN g.nodes = 1..Len(g.nodes)
  BY GraphType
<1>3. [h EXCEPT !.nodes = << >>] = [g EXCEPT !.nodes = << >>]
  <2>1. [h EXCEPT !.nodes = << >>] =
          [format |-> g.format, weights |-> g.weights, inputs |-> g.inputs, outputs |-> g.outputs,
           nodes |-> << >>]
    BY <1>1
  <2>2. [g EXCEPT !.nodes = << >>] =
          [format |-> g.format, weights |-> g.weights, inputs |-> g.inputs, outputs |-> g.outputs,
           nodes |-> << >>]
    BY <1>2
  <2> QED BY <2>1, <2>2
<1>4. h.nodes = nodes /\ DOMAIN nodes = DOMAIN g.nodes
  BY <1>1
<1>5. Len(h.nodes) = Len(g.nodes)
  BY <1>2, <1>4
<1>6. ASSUME NEW i \in DOMAIN g.nodes
      PROVE  SameNode(g.nodes[i], NodeRead(g.nodes[i]))
  <2> DEFINE n == g.nodes[i]
             m == NodeRead(n)
  <2>1. n = [name |-> n.name, op_type |-> n.op_type, inputs |-> n.inputs,
             outputs |-> n.outputs, attributes |-> n.attributes]
    BY GraphType, NodeType
  <2>2. m.attributes = [a \in AttrNames |->
                          IF n.attributes[a] = None THEN None ELSE ReadBack(n.attributes[a])]
    BY DEF NodeRead
  <2>3. [n EXCEPT !.attributes = NoAttrs] = [m EXCEPT !.attributes = NoAttrs]
    <3>1. [m EXCEPT !.attributes = NoAttrs] =
            [name |-> n.name, op_type |-> n.op_type, inputs |-> n.inputs,
             outputs |-> n.outputs, attributes |-> NoAttrs]
      <4> DEFINE attributes == [a \in AttrNames |->
                   IF n.attributes[a] = None THEN None ELSE ReadBack(n.attributes[a])]
      <4>1. m = [name |-> n.name, op_type |-> n.op_type, inputs |-> n.inputs,
                 outputs |-> n.outputs, attributes |-> attributes]
        BY DEF NodeRead
      <4> HIDE DEF attributes, m
      <4> QED BY <4>1
    <3> HIDE DEF n, m
    <3>2. [n EXCEPT !.attributes = NoAttrs] =
            [name |-> n.name, op_type |-> n.op_type, inputs |-> n.inputs,
             outputs |-> n.outputs, attributes |-> NoAttrs]
      BY <2>1
    <3> QED BY <3>1, <3>2
  <2>4. ASSUME NEW a \in AttrNames
        PROVE  /\ n.attributes[a] = None <=> m.attributes[a] = None
               /\ n.attributes[a] # None => SameAttribute(n.attributes[a], m.attributes[a])
    <3>1. CASE n.attributes[a] = None
      BY <2>2, <3>1
    <3>2. CASE n.attributes[a] # None
      <4> DEFINE b == n.attributes[a]
      <4>1. b \in Attributes /\ ~Refused(b)
        BY <3>2, AttributeSafe
      <4>2. m.attributes[a] = ReadBack(b)
        BY <2>2, <3>2
      <4> HIDE DEF b
      <4>3. ReadBack(b) \in Attributes /\ SameAttribute(b, ReadBack(b))
        BY <4>1, ReadBackTyped, ReadBackIsSame
      <4>4. ReadBack(b) # None
        BY <4>3, MarksAssumption
      <4> QED BY <3>2, <4>2, <4>3, <4>4 DEF b
    <3> QED BY <3>1, <3>2
  <2> QED BY <2>3, <2>4 DEF SameNode
<1>7. \A i \in DOMAIN h.nodes : SameNode(g.nodes[i], h.nodes[i])
  BY <1>4, <1>6
<1> QED BY <1>3, <1>5, <1>7

(* It has no double that is refused the next time. *)
LEMMA TripAccepted ==
  ASSUME NEW g \in Graphs, ~HasUnreadable(g), NEW h, h = GraphOf(Json(g))
  PROVE  ~HasUnreadable(h)
<1>1. h.nodes = [i \in DOMAIN g.nodes |-> NodeRead(g.nodes[i])]
  BY GraphTrip
<1>2. ASSUME NEW i \in DOMAIN h.nodes, NEW a \in AttrNames, h.nodes[i].attributes[a] # None
      PROVE  ~Refused(h.nodes[i].attributes[a])
  <2> DEFINE n == g.nodes[i]
             b == n.attributes[a]
  <2>1. i \in DOMAIN g.nodes /\ h.nodes[i] = NodeRead(n)
    BY <1>1
  <2>2. h.nodes[i].attributes[a] = IF b = None THEN None ELSE ReadBack(b)
    BY <2>1 DEF NodeRead
  <2>3. b # None
    BY <1>2, <2>2
  <2>4. b \in Attributes /\ ~Refused(b)
    BY <2>1, <2>3, AttributeSafe
  <2> HIDE DEF b
  <2> QED BY <2>2, <2>3, <2>4, ReadBackAccepted
<1> QED BY <1>2 DEF HasUnreadable, Refused, IsDouble

LEMMA TripTwice ==
  ASSUME NEW g \in Graphs, ~HasUnreadable(g), NEW h \in Graphs, h = GraphOf(Json(g))
  PROVE  GraphOf(Json(h)) = h
<1> DEFINE nodes == [i \in DOMAIN g.nodes |-> NodeRead(g.nodes[i])]
<1>1. h = [format |-> g.format, weights |-> g.weights, inputs |-> g.inputs, outputs |-> g.outputs,
           nodes |-> nodes]
  BY GraphTrip
<1>2. h.nodes = nodes /\ DOMAIN h.nodes = DOMAIN g.nodes
  BY <1>1
<1>3. ASSUME NEW i \in DOMAIN g.nodes
      PROVE  NodeRead(NodeRead(g.nodes[i])) = NodeRead(g.nodes[i])
  <2> DEFINE n == g.nodes[i]
             m == NodeRead(n)
  <2>1. \A a \in AttrNames :
          m.attributes[a] = IF n.attributes[a] = None THEN None ELSE ReadBack(n.attributes[a])
    BY DEF NodeRead
  <2>2. ASSUME NEW a \in AttrNames
        PROVE  (IF m.attributes[a] = None THEN None ELSE ReadBack(m.attributes[a])) = m.attributes[a]
    <3>1. CASE n.attributes[a] = None
      BY <2>1, <3>1
    <3>2. CASE n.attributes[a] # None
      <4> DEFINE b == n.attributes[a]
      <4>1. b \in Attributes /\ ~Refused(b)
        BY <3>2, AttributeSafe
      <4>2. m.attributes[a] = ReadBack(b)
        BY <2>1, <3>2
      <4> HIDE DEF b, m
      <4>3. ReadBack(ReadBack(b)) = ReadBack(b)
        BY <4>1, ReadBackTwice
      <4> QED BY <4>2, <4>3
    <3> QED BY <3>1, <3>2
  <2>3. [a \in AttrNames |-> IF m.attributes[a] = None THEN None ELSE ReadBack(m.attributes[a])]
          = [a \in AttrNames |-> IF n.attributes[a] = None THEN None ELSE ReadBack(n.attributes[a])]
    BY <2>1, <2>2
  <2>4. /\ m.name = n.name /\ m.op_type = n.op_type /\ m.inputs = n.inputs /\ m.outputs = n.outputs
    BY DEF NodeRead
  <2>5. NodeRead(m) =
          [name |-> m.name, op_type |-> m.op_type, inputs |-> m.inputs, outputs |-> m.outputs,
           attributes |-> [a \in AttrNames |->
             IF m.attributes[a] = None THEN None ELSE ReadBack(m.attributes[a])]]
    BY DEF NodeRead
  <2>6. m = [name |-> n.name, op_type |-> n.op_type, inputs |-> n.inputs, outputs |-> n.outputs,
             attributes |-> [a \in AttrNames |->
               IF n.attributes[a] = None THEN None ELSE ReadBack(n.attributes[a])]]
    BY DEF NodeRead
  <2> HIDE DEF m, n
  <2>7. NodeRead(m) = m
    BY <2>3, <2>4, <2>5, <2>6
  <2> QED BY <2>7 DEF m, n
<1>4. [i \in DOMAIN h.nodes |-> NodeRead(h.nodes[i])] = nodes
  BY <1>2, <1>3
<1>5. GraphOf(Json(h)) =
        [format |-> h.format, weights |-> h.weights, inputs |-> h.inputs, outputs |-> h.outputs,
         nodes |-> [i \in DOMAIN h.nodes |-> NodeRead(h.nodes[i])]]
  BY GraphTrip
<1>6. h.format = g.format /\ h.weights = g.weights /\ h.inputs = g.inputs /\ h.outputs = g.outputs
  BY <1>1
<1> HIDE DEF nodes
<1> QED BY <1>1, <1>4, <1>5, <1>6

-----------------------------------------------------------------------------
(* The invariant: what a file or a graph may hold depends on where it comes *)
(* from.  A graph that comes from toJson()'s file is accepted and read back *)
(* as it is.                                                                *)

Settled(g, from) == from = "reread" => ~HasUnreadable(g) /\ GraphOf(Json(g)) = g

FileInv ==
  /\ document # None => document \in JsonGraphs \union {Malformed}
  /\ written # None => document = Json(written.graph) /\ written.graph \in Graphs

CodecInv ==
  /\ TypeOK
  /\ FileInv
  /\ Settled(graph, origin)
  /\ written # None => Settled(written.graph, written.origin)

LEMMA NewGraphType == NewGraph \in Graphs
BY DEF NewGraph, Graphs, Text

LEMMA InitCodec == Init => CodecInv
BY NewGraphType DEF Init, CodecInv, TypeOK, FileInv, Settled

LEMMA StartCodec == CodecInv /\ Start => CodecInv'
<1> SUFFICES ASSUME CodecInv, Start
             PROVE  CodecInv'
  OBVIOUS
<1>1. document' \in JsonGraphs \union {Malformed}
  BY CodecAssumption DEF Start
<1> QED BY <1>1, NewGraphType DEF Start, CodecInv, TypeOK, FileInv, Settled

(* What ReadOk takes over. *)
LEMMA ReadGraph ==
  ASSUME CodecInv, ReadOk
  PROVE  /\ graph' \in Graphs
         /\ written # None =>
              /\ graph' = GraphOf(Json(written.graph)) /\ written.graph \in Graphs
              /\ ~HasUnreadable(written.graph)
<1>1. /\ document # Malformed /\ (\A t \in TokensOf(document) : Safe(t)) /\ Accepted(document)
      /\ graph' = GraphOf(document)
  BY ThrowsNothing DEF ReadOk
<1>2. document \in JsonGraphs
  BY <1>1 DEF CodecInv, FileInv, ReadOk
<1>3. graph' \in Graphs
  BY <1>1, <1>2, GraphOfTyped
<1>4. ASSUME written # None
      PROVE  /\ graph' = GraphOf(Json(written.graph)) /\ written.graph \in Graphs
             /\ ~HasUnreadable(written.graph)
  <2>1. document = Json(written.graph) /\ written.graph \in Graphs /\ Throws(document) = {}
    BY <1>4 DEF CodecInv, FileInv, ReadOk
  <2>2. ~HasUnreadable(written.graph)
    BY <2>1, JsonThrows
  <2> QED BY <1>1, <2>1, <2>2
<1> QED BY <1>3, <1>4

LEMMA ReadOkCodec == CodecInv /\ ReadOk => CodecInv'
<1> SUFFICES ASSUME CodecInv, ReadOk
             PROVE  CodecInv'
  OBVIOUS
<1>1. graph' \in Graphs
  BY ReadGraph
<1>2. TypeOK'
  BY <1>1 DEF ReadOk, TypeOK
<1>3. FileInv' /\ (written # None => Settled(written.graph, written.origin))'
  BY DEF ReadOk, CodecInv, FileInv
<1>4. Settled(graph, origin)'
  <2>1. CASE written = None
    BY <1>1, <2>1 DEF ReadOk, Settled
  <2>2. CASE written # None
    <3>1. ~HasUnreadable(graph') /\ GraphOf(Json(graph')) = graph'
      BY <1>1, <2>2, ReadGraph, TripTwice, TripAccepted
    <3> QED BY <1>1, <3>1 DEF Settled
  <2> QED BY <2>1, <2>2
<1> QED BY <1>2, <1>3, <1>4 DEF CodecInv

LEMMA ReadThrowsCodec == CodecInv /\ ReadThrows => CodecInv'
<1> SUFFICES ASSUME CodecInv, ReadThrows
             PROVE  CodecInv'
  OBVIOUS
<1>1. outcome' \in {"ok", "invalid_argument", "out_of_range"}
  BY ThrowsErrors DEF ReadThrows
<1> QED BY <1>1 DEF ReadThrows, CodecInv, TypeOK, FileInv, Settled

LEMMA SetAttributeCodec ==
  ASSUME NEW i \in DOMAIN graph.nodes, NEW name \in AttrNames, NEW value \in AttrValues,
         CodecInv, SetAttribute(i, name, value)
  PROVE  CodecInv'
<1>1. graph \in Graphs /\ value \in Attributes
  BY CodecAssumption DEF CodecInv, TypeOK
<1> DEFINE n == graph.nodes[i]
           m == [n EXCEPT !.attributes[name] = value]
           nodes == [graph.nodes EXCEPT ![i] = m]
<1>2. n \in Nodes /\ graph.nodes \in Seq(Nodes)
  BY <1>1, GraphType
<1>3. m \in Nodes
  <2> HIDE DEF n
  <2> QED BY <1>1, <1>2 DEF Nodes
<1>4. graph' = [graph EXCEPT !.nodes = nodes]
  BY DEF SetAttribute
<1> HIDE DEF n, m
<1>5. nodes \in Seq(Nodes)
  BY <1>2, <1>3
<1> HIDE DEF nodes
<1>6. graph' \in Graphs
  BY <1>1, <1>4, <1>5 DEF Graphs
<1>7. origin' = "edited" /\ UNCHANGED <<document, outcome, written>>
  BY DEF SetAttribute
<1> QED BY <1>6, <1>7 DEF CodecInv, TypeOK, FileInv, Settled

LEMMA WriteCodec == CodecInv /\ Write => CodecInv'
<1> SUFFICES ASSUME CodecInv, Write
             PROVE  CodecInv'
  OBVIOUS
<1>1. /\ document' = Json(graph) /\ written'.graph = graph /\ written'.origin = origin
      /\ graph' = graph /\ outcome' = outcome /\ origin' = origin
  BY DEF Write
<1>2. graph \in Graphs /\ Settled(graph, origin) /\ TypeOK
  BY DEF CodecInv, TypeOK
<1>3. Json(graph) \in JsonGraphs
  BY <1>2, JsonFields
<1>4. TypeOK' /\ Settled(graph, origin)'
  BY <1>1, <1>2 DEF TypeOK
<1>5. FileInv'
  BY <1>1, <1>2, <1>3 DEF FileInv
<1>6. (written # None => Settled(written.graph, written.origin))'
  BY <1>1, <1>2
<1> QED BY <1>4, <1>5, <1>6 DEF CodecInv

LEMMA CodecInductive == Spec => []CodecInv
<1>1. CodecInv /\ [Next]_vars => CodecInv'
  <2> SUFFICES ASSUME CodecInv, [Next]_vars
               PROVE  CodecInv'
    OBVIOUS
  <2>1. CASE UNCHANGED vars
    BY <2>1 DEF vars, CodecInv, TypeOK, FileInv, Settled
  <2>2. ASSUME NEW i \in DOMAIN graph.nodes, NEW name \in AttrNames, NEW value \in AttrValues,
               SetAttribute(i, name, value)
        PROVE  CodecInv'
    BY <2>2, SetAttributeCodec
  <2> QED BY <2>1, <2>2, StartCodec, ReadOkCodec, ReadThrowsCodec, WriteCodec DEF Next
<1> QED BY <1>1, InitCodec, PTL DEF Spec

(* The graph a program holds is well formed, whatever files were read and  *)
(* attributes set.                                                         *)
THEOREM GraphsTyped == Spec => []TypeOK
<1>1. CodecInv => TypeOK
  BY DEF CodecInv
<1> QED BY <1>1, CodecInductive, PTL

(* fromJson() accepts what toJson() has written unless the graph has a     *)
(* double that is inf or nan, or whose printed digits are subnormal; and   *)
(* always if the graph itself was read from a file of toJson().            *)
THEOREM WrittenFilesAreRead == Spec => WritesAreAccepted
<1>1. ASSUME CodecInv, ReadOk \/ ReadThrows, written # None
      PROVE  /\ outcome' = "ok" <=> ~HasUnreadable(written.graph)
             /\ written.origin = "reread" => outcome' = "ok"
  <2>1. /\ document = Json(written.graph) /\ written.graph \in Graphs
        /\ written.origin = "reread" => ~HasUnreadable(written.graph)
    BY <1>1 DEF CodecInv, FileInv, Settled
  <2>2. Throws(document) = {} <=> ~HasUnreadable(written.graph)
    BY <2>1, JsonThrows
  <2>3. CASE ReadOk
    BY <2>1, <2>2, <2>3 DEF ReadOk
  <2>4. CASE ReadThrows
    <3>1. outcome' \in Throws(document) /\ outcome' \in {"invalid_argument", "out_of_range"}
      BY <2>4, ThrowsErrors DEF ReadThrows
    <3> QED BY <2>1, <2>2, <3>1
  <2> QED BY <1>1, <2>3, <2>4
<1>2. CodecInv /\ [Next]_vars =>
        [(ReadOk \/ ReadThrows) /\ written # None =>
           /\ outcome' = "ok" <=> ~HasUnreadable(written.graph)
           /\ written.origin = "reread" => outcome' = "ok"]_vars
  BY <1>1
<1> QED BY <1>2, CodecInductive, PTL DEF Spec, WritesAreAccepted

(* A graph that is read back is the graph that was written, but for the    *)
(* digits of its doubles and the type of empty lists and of whole doubles. *)
THEOREM OnlyDoublesChange == Spec => OnlyDoublesDrift
<1>1. ASSUME CodecInv, ReadOk, written # None
      PROVE  /\ [graph' EXCEPT !.nodes = << >>] = [written.graph EXCEPT !.nodes = << >>]
             /\ Len(graph'.nodes) = Len(written.graph.nodes)
             /\ \A i \in DOMAIN graph'.nodes : SameNode(written.graph.nodes[i], graph'.nodes[i])
  <2>1. /\ graph' = GraphOf(Json(written.graph)) /\ written.graph \in Graphs
        /\ ~HasUnreadable(written.graph)
    BY <1>1, ReadGraph
  <2> QED BY <2>1, TripIsSame
<1>2. CodecInv /\ [Next]_vars =>
        [ReadOk /\ written # None =>
           /\ [graph' EXCEPT !.nodes = << >>] = [written.graph EXCEPT !.nodes = << >>]
           /\ Len(graph'.nodes) = Len(written.graph.nodes)
           /\ \A i \in DOMAIN graph'.nodes : SameNode(written.graph.nodes[i], graph'.nodes[i])]_vars
  BY <1>1
<1> QED BY <1>2, CodecInductive, PTL DEF Spec, OnlyDoublesDrift

(* A graph that has been through a file once goes through the next one     *)
(* unchanged: rounding is idempotent and types have settled.               *)
THEOREM RoundTripsSettle == Spec => SecondTripIsExact
<1>1. ASSUME CodecInv, ReadOk, written # None, written.origin = "reread"
      PROVE  graph' = written.graph
  <2>1. graph' = GraphOf(Json(written.graph))
    BY <1>1, ReadGraph
  <2>2. GraphOf(Json(written.graph)) = written.graph
    BY <1>1 DEF CodecInv, Settled
  <2> QED BY <2>1, <2>2
<1>2. CodecInv /\ [Next]_vars =>
        [ReadOk /\ written # None /\ written.origin = "reread" => graph' = written.graph]_vars
  BY <1>1
<1> QED BY <1>2, CodecInductive, PTL DEF Spec, SecondTripIsExact
=============================================================================
