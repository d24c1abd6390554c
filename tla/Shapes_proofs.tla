---------------------------- MODULE Shapes_proofs ----------------------------
(***************************************************************************)
(* Proofs about Shapes and the two specifications that use it: Tensors,    *)
(* for every width of the integers, every rank and every set of arguments, *)
(* and FxExport, for all modules, examples, batches and lengths of the     *)
(* trace.  What a fold computes is known by induction, for which a set of  *)
(* naturals stands for the predicate.                                      *)
(***************************************************************************)
EXTENDS Tensors, FxExport, SequenceTheorems, FiniteSetTheorems, WellFoundedInduction, TLAPS

-----------------------------------------------------------------------------
(* Induction *)

LEMMA LeastElement ==
  ASSUME NEW T \in SUBSET Nat, T # {}
  PROVE  \E m \in T : \A k \in T : m <= k
<1> DEFINE R == OpToRel(<, Nat)
<1>1. IsWellFoundedOn(R, Nat)
  BY NatLessThanWellFounded
<1>2. R = {p \in Nat \X Nat : p[1] < p[2]}
  BY DEF OpToRel
<1> HIDE DEF R
<1>3. PICK m \in T : \A k \in T : <<k, m>> \notin R
  BY <1>1, WFMin
<1>4. ASSUME NEW k \in T
      PROVE  m <= k
  <2>1. <<k, m>> \notin R /\ <<k, m>> \in Nat \X Nat
    BY <1>3
  <2> QED BY <1>2, <2>1
<1> QED BY <1>4

(* A set of numbers with 0 and with the next of each, up to n. *)
LEMMA Induction ==
  ASSUME NEW n \in Nat, NEW S, 0 \in S, \A k \in 0..(n - 1) : k \in S => k + 1 \in S
  PROVE  0..n \subseteq S
<1> SUFFICES ASSUME NEW z \in 0..n, z \notin S
             PROVE  FALSE
  OBVIOUS
<1> DEFINE T == (0..n) \ S
<1>1. T \in SUBSET Nat /\ T # {}
  OBVIOUS
<1> HIDE DEF T
<1>2. PICK m \in T : \A k \in T : m <= k
  BY <1>1, LeastElement
<1>3. m \in 0..n /\ m \notin S
  BY DEF T
<1>4. m # 0 /\ m - 1 \in 0..(n - 1) /\ ~(m <= m - 1) /\ (m - 1) + 1 = m
  BY <1>3
<1>5. m - 1 \in S
  BY <1>2, <1>4 DEF T
<1> QED BY <1>3, <1>4, <1>5

-----------------------------------------------------------------------------
(* Folds *)

LEMMA MaxOfRange ==
  ASSUME NEW n \in Nat, NEW s \in SUBSET (1..(n + 1)), n + 1 \in s
  PROVE  Max(s) = n + 1 /\ s \ {Max(s)} \in SUBSET (1..n)
<1>1. \A y \in s : n + 1 >= y
  OBVIOUS
<1>2. Max(s) \in s /\ \A y \in s : Max(s) >= y
  BY <1>1 DEF Max
<1>3. Max(s) \in 1..(n + 1) /\ Max(s) >= n + 1
  BY <1>2
<1>4. Max(s) = n + 1
  BY <1>3
<1>5. \A y \in s : y # n + 1 => y \in 1..n
  OBVIOUS
<1> QED BY <1>4, <1>5

LEMMA MaxInRange ==
  ASSUME NEW n \in Nat, NEW s \in SUBSET (1..n), s # {}
  PROVE  Max(s) \in 1..n
<1> DEFINE T == {k \in 0..n : n - k \in s}
<1>1. PICK z \in s : TRUE
  OBVIOUS
<1>2. n - z \in T /\ T \in SUBSET Nat /\ T # {}
  <2>1. z \in 1..n /\ n - (n - z) = z
    BY <1>1
  <2> QED BY <2>1
<1> HIDE DEF T
<1>3. PICK m \in T : \A k \in T : m <= k
  BY <1>2, LeastElement
<1>4. n - m \in s /\ \A y \in s : n - m >= y
  <2>1. ASSUME NEW y \in s
        PROVE  n - m >= y
    <3>1. y \in 1..n /\ n - y \in 0..n /\ n - (n - y) = y
      OBVIOUS
    <3>2. m <= n - y /\ m \in 0..n
      BY <1>3, <3>1 DEF T
    <3> QED BY <3>1, <3>2
  <2> QED BY <2>1 DEF T
<1>5. Max(s) \in s
  BY <1>4 DEF Max
<1> QED BY <1>5

(* The function MapThenFoldSet calls iter. *)
IsFold(it, n, base, step) ==
  \A s \in SUBSET (1..n) :
    it[s] = IF s = {} THEN base ELSE step[Max(s)][it[s \ {Max(s)}]]

LEMMA FoldExists ==
  ASSUME NEW V, NEW n \in Nat, NEW base \in V, NEW step \in [1..n -> [V -> V]]
  PROVE  \E it \in [SUBSET (1..n) -> V] : IsFold(it, n, base, step)
<1> DEFINE S == {k \in 0..n : \E it \in [SUBSET (1..k) -> V] : IsFold(it, k, base, step)}
<1>1. 0 \in S
  <2> DEFINE it == [s \in SUBSET (1..0) |-> base]
  <2>1. \A s \in SUBSET (1..0) : s = {}
    OBVIOUS
  <2>2. it \in [SUBSET (1..0) -> V] /\ IsFold(it, 0, base, step)
    BY <2>1 DEF IsFold
  <2> QED BY <2>2
<1>2. ASSUME NEW k \in 0..(n - 1), k \in S
      PROVE  k + 1 \in S
  <2>1. PICK it \in [SUBSET (1..k) -> V] : IsFold(it, k, base, step)
    BY <1>2
  <2> DEFINE new == [s \in SUBSET (1..(k + 1)) |->
                       IF k + 1 \in s THEN step[k + 1][it[s \ {k + 1}]] ELSE it[s]]
  <2>2. ASSUME NEW s \in SUBSET (1..(k + 1))
        PROVE  IF k + 1 \in s THEN s \ {k + 1} \in SUBSET (1..k) ELSE s \in SUBSET (1..k)
    OBVIOUS
  <2>3. step[k + 1] \in [V -> V]
    OBVIOUS
  <2>4. new \in [SUBSET (1..(k + 1)) -> V]
    BY <2>2, <2>3
  <2>5. ASSUME NEW s \in SUBSET (1..(k + 1))
        PROVE  new[s] = IF s = {} THEN base ELSE step[Max(s)][new[s \ {Max(s)}]]
    <3>1. CASE k + 1 \in s
      <4>1. Max(s) = k + 1 /\ s \ {k + 1} \in SUBSET (1..k) /\ k + 1 \notin s \ {k + 1}
        BY <3>1, MaxOfRange
      <4>2. new[s \ {k + 1}] = it[s \ {k + 1}]
        BY <4>1
      <4> QED BY <3>1, <4>1, <4>2
    <3>2. CASE k + 1 \notin s
      <4>1. s \in SUBSET (1..k) /\ new[s] = it[s]
        BY <2>2, <3>2
      <4>2. s \ {Max(s)} \in SUBSET (1..(k + 1)) /\ k + 1 \notin s \ {Max(s)}
        BY <3>2
      <4>3. new[s \ {Max(s)}] = it[s \ {Max(s)}]
        BY <4>2
      <4> HIDE DEF new
      <4> QED BY <2>1, <4>1, <4>3 DEF IsFold
    <3> QED BY <3>1, <3>2
  <2>6. IsFold(new, k + 1, base, step)
    BY <2>5 DEF IsFold
  <2> HIDE DEF new
  <2> QED BY <2>4, <2>6
<1> HIDE DEF S
<1>3. n \in S
  <2>1. 0..n \subseteq S
    BY <1>1, <1>2, Induction
  <2> QED BY <2>1
<1> QED BY <1>3 DEF S

(* Turn by turn, from a fold's value before the first to its last. *)
IsRun(f, n, base, step) ==
  f[0] = base /\ \A i \in 1..n : f[i] = step[i][f[i - 1]]

(* A fold, as far as its values are known to be in V. *)
IsFoldIn(V, it, n, base, step) ==
  /\ it[{}] = base
  /\ \A s \in SUBSET (1..n) : s # {} /\ it[s \ {Max(s)}] \in V =>
       it[s] = step[Max(s)][it[s \ {Max(s)}]]

(* Its values on the prefixes of 1..n. *)
Runs(V, it, n, base, step) ==
  \E f \in [0..n -> V] : IsRun(f, n, base, step) /\ f[n] = it[1..n]

LEMMA FoldRuns ==
  ASSUME NEW V, NEW n \in Nat, NEW base \in V, NEW step \in [1..n -> [V -> V]],
         NEW it, IsFoldIn(V, it, n, base, step)
  PROVE  Runs(V, it, n, base, step)
<1> DEFINE S == {k \in 0..n : it[1..k] \in V}
           f == [k \in 0..n |-> it[1..k]]
<1>1. 1..0 = {} /\ it[{}] = base
  BY DEF IsFoldIn
<1>2. 0 \in S
  BY <1>1
<1>3. ASSUME NEW k \in 0..(n - 1), k \in S
      PROVE  k + 1 \in S /\ it[1..(k + 1)] = step[k + 1][it[1..k]]
  <2>1. 1..(k + 1) \in SUBSET (1..n) /\ k + 1 \in 1..(k + 1)
    OBVIOUS
  <2>2. Max(1..(k + 1)) = k + 1
    <3>1. k \in Nat /\ 1..(k + 1) \in SUBSET (1..(k + 1))
      OBVIOUS
    <3> QED BY <2>1, <3>1, MaxOfRange
  <2>3. (1..(k + 1)) \ {k + 1} = 1..k
    OBVIOUS
  <2>4. it[1..k] \in V
    BY <1>3
  <2>5. it[1..(k + 1)] = step[k + 1][it[1..k]]
    BY <2>1, <2>2, <2>3, <2>4 DEF IsFoldIn
  <2>6. step[k + 1] \in [V -> V]
    OBVIOUS
  <2>7. it[1..(k + 1)] \in V
    BY <2>4, <2>5, <2>6
  <2> QED BY <2>5, <2>7
<1>4. 0..n \subseteq S
  <2> HIDE DEF S
  <2> QED BY <1>2, <1>3, Induction
<1>5. f \in [0..n -> V]
  BY <1>4
<1>6. ASSUME NEW i \in 1..n
      PROVE  f[i] = step[i][f[i - 1]]
  <2>1. i - 1 \in 0..(n - 1) /\ i - 1 \in S /\ (i - 1) + 1 = i
    BY <1>4
  <2>2. it[1..i] = step[i][it[1..(i - 1)]]
    BY <1>3, <2>1
  <2> QED BY <2>1, <2>2
<1>7. f[0] = base /\ f[n] = it[1..n]
  BY <1>1
<1>8. IsRun(f, n, base, step)
  BY <1>6, <1>7 DEF IsRun
<1> HIDE DEF f
<1> QED BY <1>5, <1>7, <1>8 DEF Runs

-----------------------------------------------------------------------------
(* Integers that wrap *)

LEMMA ModDef ==
  ASSUME NEW w \in Nat \ {0}, NEW a \in Int
  PROVE  /\ a % w \in 0..(w - 1) /\ a \div w \in Int
         /\ a = w * (a \div w) + (a % w)
OBVIOUS

LEMMA ModUnique ==
  ASSUME NEW w \in Nat \ {0}, NEW q \in Int, NEW r \in 0..(w - 1)
  PROVE  (w * q + r) % w = r /\ (w * q + r) \div w = q
OBVIOUS

LEMMA ModShift ==
  ASSUME NEW w \in Nat \ {0}, NEW a \in Int, NEW m \in Int
  PROVE  (a + w * m) % w = a % w
<1> DEFINE q == a \div w
           r == a % w
<1>1. q \in Int /\ r \in 0..(w - 1) /\ a = w * q + r
  BY ModDef
<1> HIDE DEF q, r
<1>2. a + w * m = w * (q + m) + r
  BY <1>1
<1>3. (w * (q + m) + r) % w = r
  BY <1>1, ModUnique
<1> QED BY <1>2, <1>3 DEF r

LEMMA WordType == Word \in Nat \ {0, 1} /\ Word = 2 * Half /\ Half \in Nat \ {0, 1}
BY ShapesAssumption DEF Word

LEMMA AsSizeType ==
  ASSUME NEW a \in Int
  PROVE  AsSize(a) \in 0..(Word - 1) /\ AsSize(a) \in Int
BY WordType, ModDef DEF AsSize

LEMMA AsIntType ==
  ASSUME NEW a \in Int
  PROVE  AsInt(a) \in Dims /\ AsInt(a) \in Int
<1>1. a + Half \in Int /\ (a + Half) % Word \in 0..(Word - 1)
  BY WordType, ModDef
<1> QED BY <1>1, WordType DEF AsInt, Dims

(* What wraps around differs by a multiple of Word. *)
LEMMA AsSizeShift ==
  ASSUME NEW a \in Int
  PROVE  /\ \E m \in Int : AsSize(a) = a + Word * m
         /\ \A m \in Int : AsSize(a + Word * m) = AsSize(a)
         /\ a \in 0..(Word - 1) => AsSize(a) = a
<1>1. Word \in Nat \ {0}
  BY WordType
<1>2. a = Word * (a \div Word) + (a % Word) /\ a \div Word \in Int /\ a % Word \in Int
  BY <1>1, ModDef
<1>3. a % Word = a + Word * (-(a \div Word))
  BY <1>1, <1>2
<1>4. \A m \in Int : (a + Word * m) % Word = a % Word
  BY <1>1, ModShift
<1>5. a \in 0..(Word - 1) => a % Word = a
  BY <1>1, ModUnique
<1> QED BY <1>2, <1>3, <1>4, <1>5 DEF AsSize

LEMMA AsIntShift ==
  ASSUME NEW a \in Int
  PROVE  /\ \E m \in Int : AsInt(a) = a + Word * m
         /\ \A m \in Int : AsInt(a + Word * m) = AsInt(a)
         /\ a \in Dims => AsInt(a) = a
<1>1. Word \in Nat \ {0} /\ Half \in Nat /\ Word = 2 * Half
  BY WordType
<1> DEFINE b == a + Half
<1>2. b \in Int /\ b = a + Half
  BY <1>1
<1> HIDE DEF b
<1>3. AsInt(a) = AsSize(b) - Half
  BY <1>2 DEF AsInt, AsSize
<1>4. PICK m \in Int : AsSize(b) = b + Word * m
  BY <1>2, AsSizeShift
<1>5. AsInt(a) = a + Word * m
  BY <1>1, <1>2, <1>3, <1>4
<1>6. ASSUME NEW k \in Int
      PROVE  AsInt(a + Word * k) = AsInt(a)
  <2>1. AsSize(b + Word * k) = AsSize(b)
    BY <1>2, AsSizeShift
  <2>2. (a + Word * k) + Half = b + Word * k
    BY <1>1, <1>2
  <2>3. AsInt(a + Word * k) = AsSize(b + Word * k) - Half
    BY <2>2 DEF AsInt, AsSize
  <2> QED BY <1>3, <2>1, <2>3
<1>7. ASSUME a \in Dims
      PROVE  AsInt(a) = a
  <2>1. b \in 0..(Word - 1)
    BY <1>1, <1>2, <1>7 DEF Dims
  <2>2. AsSize(b) = b
    BY <1>2, <2>1, AsSizeShift
  <2> QED BY <1>1, <1>2, <1>3, <2>2
<1> QED BY <1>5, <1>6, <1>7

LEMMA DimsAreIntegers ==
  ASSUME NEW shape \in Seq(Dims)
  PROVE  shape \in Seq(Int) /\ \A i \in 1..Len(shape) : shape[i] \in Dims /\ shape[i] \in Int
<1>1. Dims \subseteq Int
  BY WordType DEF Dims
<1>2. shape \in [1..Len(shape) -> Dims] /\ Len(shape) \in Nat
  BY LenProperties
<1>3. shape \in [1..Len(shape) -> Int]
  BY <1>1, <1>2
<1>4. shape \in Seq(Int)
  BY <1>2, <1>3
<1> QED BY <1>1, <1>2, <1>4

LEMMA TimesWraps ==
  ASSUME NEW a \in Int, NEW d \in Int
  PROVE  /\ AsSize(AsSize(a) * AsSize(d)) = AsSize(a * d)
         /\ AsInt(AsInt(a) * d) = AsInt(a * d)
<1>1. Word \in Int /\ a * d \in Int
  BY WordType
<1>2. AsSize(AsSize(a) * AsSize(d)) = AsSize(a * d)
  <2>1. PICK m \in Int : AsSize(a) = a + Word * m
    BY AsSizeShift
  <2>2. PICK k \in Int : AsSize(d) = d + Word * k
    BY AsSizeShift
  <2> DEFINE j == a * k + m * d + m * (Word * k)
  <2>3. j \in Int
    BY <1>1
  <2>4. (a + Word * m) * (d + Word * k) = a * d + Word * j
    BY <1>1
  <2> HIDE DEF j
  <2>5. AsSize(a * d + Word * j) = AsSize(a * d)
    BY <1>1, <2>3, AsSizeShift
  <2> QED BY <2>1, <2>2, <2>4, <2>5
<1>3. AsInt(AsInt(a) * d) = AsInt(a * d)
  <2>1. PICK m \in Int : AsInt(a) = a + Word * m
    BY AsIntShift
  <2> DEFINE j == m * d
  <2>2. j \in Int /\ (a + Word * m) * d = a * d + Word * j
    BY <1>1
  <2> HIDE DEF j
  <2>3. AsInt(a * d + Word * j) = AsInt(a * d)
    BY <1>1, <2>2, AsIntShift
  <2> QED BY <2>1, <2>2, <2>3
<1> QED BY <1>2, <1>3

LEMMA NumelStepType ==
  ASSUME NEW p \in Int, NEW d \in Int
  PROVE  NumelStep(p, d) \in Int
<1>1. AsSize(d) \in Int
  BY AsSizeType
<1> QED BY <1>1 DEF NumelStep, Overflow

-----------------------------------------------------------------------------
(* What the folds of Shapes compute, turn by turn *)

(* The turns of Count. *)
CountRun(f, shape) ==
  /\ f \in [0..Len(shape) -> Int]
  /\ f[0] = 1
  /\ \A i \in 1..Len(shape) : f[i] = f[i - 1] * shape[i]

LEMMA CountRuns ==
  ASSUME NEW shape \in Seq(Int)
  PROVE  \E f : CountRun(f, shape) /\ Count(shape) = f[Len(shape)]
<1> DEFINE V == Int
           n == Len(shape)
           step == [i \in 1..n |-> [p \in Int |-> p * shape[i]]]
           Body(it) == [s \in SUBSET (DOMAIN shape) |->
                          IF s = {} THEN 1 ELSE it[s \ {Max(s)}] * shape[Max(s)]]
           iter == CHOOSE it : it = Body(it)
<1>1. n \in Nat /\ DOMAIN shape = 1..n /\ \A i \in 1..n : shape[i] \in Int
  OBVIOUS
<1>2. step \in [1..n -> [V -> V]] /\ 1 \in V
  BY <1>1
<1>3. Count(shape) = iter[DOMAIN shape]
  BY DEF Count, FoldLeft, MapThenFoldSet
<1>4. PICK it \in [SUBSET (1..n) -> V] : IsFold(it, n, 1, step)
  <2> HIDE DEF step, n, V
  <2> QED BY <1>1, <1>2, FoldExists
<1>5. it = Body(it)
  <2>1. ASSUME NEW s \in SUBSET (1..n), s # {}
        PROVE  it[s] = it[s \ {Max(s)}] * shape[Max(s)]
    <3>1. Max(s) \in 1..n /\ s \ {Max(s)} \in SUBSET (1..n)
      BY <1>1, <2>1, MaxInRange
    <3>2. it[s] = step[Max(s)][it[s \ {Max(s)}]]
      BY <1>4, <2>1 DEF IsFold
    <3> QED BY <1>1, <3>1, <3>2
  <2>2. it[{}] = 1
    BY <1>4 DEF IsFold
  <2> QED BY <1>1, <1>4, <2>1, <2>2
<1>6. iter = Body(iter)
  <2> HIDE DEF Body
  <2> QED BY <1>5
<1>7. iter[{}] = 1
  BY <1>6
<1>8. IsFoldIn(V, iter, n, 1, step)
  <2> SUFFICES ASSUME NEW s \in SUBSET (1..n), s # {}, iter[s \ {Max(s)}] \in V
               PROVE  iter[s] = step[Max(s)][iter[s \ {Max(s)}]]
    BY <1>7 DEF IsFoldIn
  <2>1. iter[s] = iter[s \ {Max(s)}] * shape[Max(s)]
    BY <1>1, <1>6
  <2>2. Max(s) \in 1..n
    BY <1>1, MaxInRange
  <2> HIDE DEF iter
  <2> QED BY <2>1, <2>2
<1> HIDE DEF iter, step, n, V
<1>9. PICK f \in [0..n -> V] : IsRun(f, n, 1, step) /\ f[n] = iter[1..n]
  <2> HIDE DEF Body
  <2>1. n \in Nat /\ 1 \in V /\ step \in [1..n -> [V -> V]]
    BY <1>1, <1>2
  <2>2. Runs(V, iter, n, 1, step)
    BY <1>8, <2>1, FoldRuns
  <2> QED BY <2>2 DEF Runs
<1>10. CountRun(f, shape)
  <2>1. f[0] = 1
    BY <1>9 DEF IsRun
  <2>2. ASSUME NEW i \in 1..n
        PROVE  f[i] = f[i - 1] * shape[i]
    <3>1. i - 1 \in 0..n /\ f[i - 1] \in V /\ f[i] = step[i][f[i - 1]]
      BY <1>1, <1>9 DEF IsRun
    <3> QED BY <3>1 DEF step, V
  <2> QED BY <1>9, <2>1, <2>2 DEF CountRun, n, V
<1> QED BY <1>1, <1>3, <1>9, <1>10 DEF n

(* The turns of Product. *)
ProductRun(f, shape) ==
  /\ f \in [0..Len(shape) -> Int]
  /\ f[0] = 1
  /\ \A i \in 1..Len(shape) : f[i] = AsInt(f[i - 1] * shape[i])

LEMMA ProductRuns ==
  ASSUME NEW shape \in Seq(Int)
  PROVE  \E f : ProductRun(f, shape) /\ Product(shape) = f[Len(shape)]
<1> DEFINE V == Int
           n == Len(shape)
           step == [i \in 1..n |-> [p \in Int |-> AsInt(p * shape[i])]]
           Body(it) == [s \in SUBSET (DOMAIN shape) |->
                          IF s = {} THEN 1 ELSE AsInt(it[s \ {Max(s)}] * shape[Max(s)])]
           iter == CHOOSE it : it = Body(it)
<1>1. n \in Nat /\ DOMAIN shape = 1..n /\ \A i \in 1..n : shape[i] \in Int
  OBVIOUS
<1>2. step \in [1..n -> [V -> V]] /\ 1 \in V
  <2>1. \A i \in 1..n, p \in Int : p * shape[i] \in Int
    BY <1>1
  <2>2. \A i \in 1..n, p \in Int : AsInt(p * shape[i]) \in Int
    BY <2>1, AsIntType
  <2> HIDE DEF n
  <2> QED BY <2>2
<1>3. Product(shape) = iter[DOMAIN shape]
  BY DEF Product, FoldLeft, MapThenFoldSet
<1>4. PICK it \in [SUBSET (1..n) -> V] : IsFold(it, n, 1, step)
  <2> HIDE DEF step, n, V
  <2> QED BY <1>1, <1>2, FoldExists
<1>5. it = Body(it)
  <2>1. ASSUME NEW s \in SUBSET (1..n), s # {}
        PROVE  it[s] = AsInt(it[s \ {Max(s)}] * shape[Max(s)])
    <3>1. Max(s) \in 1..n /\ s \ {Max(s)} \in SUBSET (1..n)
      BY <1>1, <2>1, MaxInRange
    <3>2. it[s] = step[Max(s)][it[s \ {Max(s)}]]
      BY <1>4, <2>1 DEF IsFold
    <3> QED BY <1>1, <3>1, <3>2
  <2>2. it[{}] = 1
    BY <1>4 DEF IsFold
  <2> QED BY <1>1, <1>4, <2>1, <2>2
<1>6. iter = Body(iter)
  <2> HIDE DEF Body
  <2> QED BY <1>5
<1>7. iter[{}] = 1
  BY <1>6
<1>8. IsFoldIn(V, iter, n, 1, step)
  <2> SUFFICES ASSUME NEW s \in SUBSET (1..n), s # {}, iter[s \ {Max(s)}] \in V
               PROVE  iter[s] = step[Max(s)][iter[s \ {Max(s)}]]
    BY <1>7 DEF IsFoldIn
  <2>1. iter[s] = AsInt(iter[s \ {Max(s)}] * shape[Max(s)])
    BY <1>1, <1>6
  <2>2. Max(s) \in 1..n
    BY <1>1, MaxInRange
  <2> HIDE DEF iter
  <2> QED BY <2>1, <2>2
<1> HIDE DEF iter, step, n, V
<1>9. PICK f \in [0..n -> V] : IsRun(f, n, 1, step) /\ f[n] = iter[1..n]
  <2> HIDE DEF Body
  <2>1. n \in Nat /\ 1 \in V /\ step \in [1..n -> [V -> V]]
    BY <1>1, <1>2
  <2>2. Runs(V, iter, n, 1, step)
    BY <1>8, <2>1, FoldRuns
  <2> QED BY <2>2 DEF Runs
<1>10. ProductRun(f, shape)
  <2>1. f[0] = 1
    BY <1>9 DEF IsRun
  <2>2. ASSUME NEW i \in 1..n
        PROVE  f[i] = AsInt(f[i - 1] * shape[i])
    <3>1. i - 1 \in 0..n /\ f[i - 1] \in V /\ f[i] = step[i][f[i - 1]]
      BY <1>1, <1>9 DEF IsRun
    <3> QED BY <3>1 DEF step, V
  <2> QED BY <1>9, <2>1, <2>2 DEF ProductRun, n, V
<1> QED BY <1>1, <1>3, <1>9, <1>10 DEF n

(* The turns of Requested. *)
RequestedRun(f, shape) ==
  /\ f \in [0..Len(shape) -> Int]
  /\ f[0] = 1
  /\ \A i \in 1..Len(shape) : f[i] = AsSize(f[i - 1] * AsSize(shape[i]))

LEMMA RequestedRuns ==
  ASSUME NEW shape \in Seq(Int)
  PROVE  \E f : RequestedRun(f, shape) /\ Requested(shape) = f[Len(shape)]
<1> DEFINE V == Int
           n == Len(shape)
           step == [i \in 1..n |-> [p \in Int |-> AsSize(p * AsSize(shape[i]))]]
           Body(it) == [s \in SUBSET (DOMAIN shape) |->
                          IF s = {} THEN 1 ELSE AsSize(it[s \ {Max(s)}] * AsSize(shape[Max(s)]))]
           iter == CHOOSE it : it = Body(it)
<1>1. n \in Nat /\ DOMAIN shape = 1..n /\ \A i \in 1..n : shape[i] \in Int
  OBVIOUS
<1>2. step \in [1..n -> [V -> V]] /\ 1 \in V
  <2>1. ASSUME NEW p \in Int, NEW d \in Int
        PROVE  AsSize(p * AsSize(d)) \in Int
    <3>1. AsSize(d) \in Int /\ p * AsSize(d) \in Int
      BY AsSizeType
    <3> QED BY <3>1, AsSizeType
  <2>2. ASSUME NEW i \in 1..n
        PROVE  step[i] \in [V -> V]
    <3>1. shape[i] \in Int
      BY <1>1
    <3> QED BY <2>1, <3>1
  <2>3. step = [i \in 1..n |-> step[i]]
    OBVIOUS
  <2> HIDE DEF step
  <2> QED BY <2>2, <2>3
<1>3. Requested(shape) = iter[DOMAIN shape]
  BY DEF Requested, FoldLeft, MapThenFoldSet
<1>4. PICK it \in [SUBSET (1..n) -> V] : IsFold(it, n, 1, step)
  <2> HIDE DEF step, n, V
  <2> QED BY <1>1, <1>2, FoldExists
<1>5. it = Body(it)
  <2>1. ASSUME NEW s \in SUBSET (1..n), s # {}
        PROVE  it[s] = AsSize(it[s \ {Max(s)}] * AsSize(shape[Max(s)]))
    <3>1. Max(s) \in 1..n /\ s \ {Max(s)} \in SUBSET (1..n)
      BY <1>1, <2>1, MaxInRange
    <3>2. it[s] = step[Max(s)][it[s \ {Max(s)}]]
      BY <1>4, <2>1 DEF IsFold
    <3> QED BY <1>1, <3>1, <3>2
  <2>2. it[{}] = 1
    BY <1>4 DEF IsFold
  <2> QED BY <1>1, <1>4, <2>1, <2>2
<1>6. iter = Body(iter)
  <2> HIDE DEF Body
  <2> QED BY <1>5
<1>7. iter[{}] = 1
  BY <1>6
<1>8. IsFoldIn(V, iter, n, 1, step)
  <2> SUFFICES ASSUME NEW s \in SUBSET (1..n), s # {}, iter[s \ {Max(s)}] \in V
               PROVE  iter[s] = step[Max(s)][iter[s \ {Max(s)}]]
    BY <1>7 DEF IsFoldIn
  <2>1. iter[s] = AsSize(iter[s \ {Max(s)}] * AsSize(shape[Max(s)]))
    BY <1>1, <1>6
  <2>2. Max(s) \in 1..n
    BY <1>1, MaxInRange
  <2> HIDE DEF iter
  <2> QED BY <2>1, <2>2
<1> HIDE DEF iter, step, n, V
<1>9. PICK f \in [0..n -> V] : IsRun(f, n, 1, step) /\ f[n] = iter[1..n]
  <2> HIDE DEF Body
  <2>1. n \in Nat /\ 1 \in V /\ step \in [1..n -> [V -> V]]
    BY <1>1, <1>2
  <2>2. Runs(V, iter, n, 1, step)
    BY <1>8, <2>1, FoldRuns
  <2> QED BY <2>2 DEF Runs
<1>10. RequestedRun(f, shape)
  <2>1. f[0] = 1
    BY <1>9 DEF IsRun
  <2>2. ASSUME NEW i \in 1..n
        PROVE  f[i] = AsSize(f[i - 1] * AsSize(shape[i]))
    <3>1. i - 1 \in 0..n /\ f[i - 1] \in V /\ f[i] = step[i][f[i - 1]]
      BY <1>1, <1>9 DEF IsRun
    <3> QED BY <3>1 DEF step, V
  <2> QED BY <1>9, <2>1, <2>2 DEF RequestedRun, n, V
<1> QED BY <1>1, <1>3, <1>9, <1>10 DEF n

(* The turns of CheckedNumel. *)
NumelRun(f, shape) ==
  /\ f \in [0..Len(shape) -> Int]
  /\ f[0] = 1
  /\ \A i \in 1..Len(shape) : f[i] = NumelStep(f[i - 1], shape[i])

LEMMA NumelRuns ==
  ASSUME NEW shape \in Seq(Int)
  PROVE  \E f : NumelRun(f, shape) /\ CheckedNumel(shape) = f[Len(shape)]
<1> DEFINE V == Int
           n == Len(shape)
           step == [i \in 1..n |-> [p \in Int |-> NumelStep(p, shape[i])]]
           Body(it) == [s \in SUBSET (DOMAIN shape) |->
                          IF s = {} THEN 1 ELSE NumelStep(it[s \ {Max(s)}], shape[Max(s)])]
           iter == CHOOSE it : it = Body(it)
<1>1. n \in Nat /\ DOMAIN shape = 1..n /\ \A i \in 1..n : shape[i] \in Int
  OBVIOUS
<1>2. step \in [1..n -> [V -> V]] /\ 1 \in V
  <2>1. ASSUME NEW p \in Int, NEW d \in Int
        PROVE  NumelStep(p, d) \in Int
    BY NumelStepType
  <2>2. ASSUME NEW i \in 1..n
        PROVE  step[i] \in [V -> V]
    <3>1. shape[i] \in Int
      BY <1>1
    <3> QED BY <2>1, <3>1
  <2>3. step = [i \in 1..n |-> step[i]]
    OBVIOUS
  <2> HIDE DEF step
  <2> QED BY <2>2, <2>3
<1>3. CheckedNumel(shape) = iter[DOMAIN shape]
  BY DEF CheckedNumel, FoldLeft, MapThenFoldSet
<1>4. PICK it \in [SUBSET (1..n) -> V] : IsFold(it, n, 1, step)
  <2> HIDE DEF step, n, V
  <2> QED BY <1>1, <1>2, FoldExists
<1>5. it = Body(it)
  <2>1. ASSUME NEW s \in SUBSET (1..n), s # {}
        PROVE  it[s] = NumelStep(it[s \ {Max(s)}], shape[Max(s)])
    <3>1. Max(s) \in 1..n /\ s \ {Max(s)} \in SUBSET (1..n)
      BY <1>1, <2>1, MaxInRange
    <3>2. it[s] = step[Max(s)][it[s \ {Max(s)}]]
      BY <1>4, <2>1 DEF IsFold
    <3> QED BY <1>1, <3>1, <3>2
  <2>2. it[{}] = 1
    BY <1>4 DEF IsFold
  <2> QED BY <1>1, <1>4, <2>1, <2>2
<1>6. iter = Body(iter)
  <2> HIDE DEF Body
  <2> QED BY <1>5
<1>7. iter[{}] = 1
  BY <1>6
<1>8. IsFoldIn(V, iter, n, 1, step)
  <2> SUFFICES ASSUME NEW s \in SUBSET (1..n), s # {}, iter[s \ {Max(s)}] \in V
               PROVE  iter[s] = step[Max(s)][iter[s \ {Max(s)}]]
    BY <1>7 DEF IsFoldIn
  <2>1. iter[s] = NumelStep(iter[s \ {Max(s)}], shape[Max(s)])
    BY <1>1, <1>6
  <2>2. Max(s) \in 1..n
    BY <1>1, MaxInRange
  <2> HIDE DEF iter
  <2> QED BY <2>1, <2>2
<1> HIDE DEF iter, step, n, V
<1>9. PICK f \in [0..n -> V] : IsRun(f, n, 1, step) /\ f[n] = iter[1..n]
  <2> HIDE DEF Body
  <2>1. n \in Nat /\ 1 \in V /\ step \in [1..n -> [V -> V]]
    BY <1>1, <1>2
  <2>2. Runs(V, iter, n, 1, step)
    BY <1>8, <2>1, FoldRuns
  <2> QED BY <2>2 DEF Runs
<1>10. NumelRun(f, shape)
  <2>1. f[0] = 1
    BY <1>9 DEF IsRun
  <2>2. ASSUME NEW i \in 1..n
        PROVE  f[i] = NumelStep(f[i - 1], shape[i])
    <3>1. i - 1 \in 0..n /\ f[i - 1] \in V /\ f[i] = step[i][f[i - 1]]
      BY <1>1, <1>9 DEF IsRun
    <3> QED BY <3>1 DEF step, V
  <2> QED BY <1>9, <2>1, <2>2 DEF NumelRun, n, V
<1> QED BY <1>1, <1>3, <1>9, <1>10 DEF n

(* The turns of Known. *)
KnownRun(f, shape) ==
  /\ f \in [0..Len(shape) -> Int]
  /\ f[0] = 1
  /\ \A i \in 1..Len(shape) : f[i] = (IF shape[i] = -1 THEN f[i - 1] ELSE AsInt(f[i - 1] * shape[i]))

LEMMA KnownRuns ==
  ASSUME NEW shape \in Seq(Int)
  PROVE  \E f : KnownRun(f, shape) /\ Known(shape) = f[Len(shape)]
<1> DEFINE V == Int
           n == Len(shape)
           step == [i \in 1..n |-> [p \in Int |-> (IF shape[i] = -1 THEN p ELSE AsInt(p * shape[i]))]]
           Body(it) == [s \in SUBSET (DOMAIN shape) |->
                          IF s = {} THEN 1 ELSE (IF shape[Max(s)] = -1 THEN it[s \ {Max(s)}] ELSE AsInt(it[s \ {Max(s)}] * shape[Max(s)]))]
           iter == CHOOSE it : it = Body(it)
<1>1. n \in Nat /\ DOMAIN shape = 1..n /\ \A i \in 1..n : shape[i] \in Int
  OBVIOUS
<1>2. step \in [1..n -> [V -> V]] /\ 1 \in V
  <2>1. ASSUME NEW p \in Int, NEW d \in Int
        PROVE  (IF d = -1 THEN p ELSE AsInt(p * d)) \in Int
    BY AsIntType
  <2>2. \A i \in 1..n, p \in Int : (IF shape[i] = -1 THEN p ELSE AsInt(p * shape[i])) \in Int
    BY <1>1, <2>1
  <2> QED BY <2>2
<1>3. Known(shape) = iter[DOMAIN shape]
  BY DEF Known, FoldLeft, MapThenFoldSet
<1>4. PICK it \in [SUBSET (1..n) -> V] : IsFold(it, n, 1, step)
  <2> HIDE DEF step, n, V
  <2> QED BY <1>1, <1>2, FoldExists
<1>5. it = Body(it)
  <2>1. ASSUME NEW s \in SUBSET (1..n), s # {}
        PROVE  it[s] = (IF shape[Max(s)] = -1 THEN it[s \ {Max(s)}] ELSE AsInt(it[s \ {Max(s)}] * shape[Max(s)]))
    <3>1. Max(s) \in 1..n /\ s \ {Max(s)} \in SUBSET (1..n)
      BY <1>1, <2>1, MaxInRange
    <3>2. it[s] = step[Max(s)][it[s \ {Max(s)}]]
      BY <1>4, <2>1 DEF IsFold
    <3> QED BY <1>1, <3>1, <3>2
  <2>2. it[{}] = 1
    BY <1>4 DEF IsFold
  <2> QED BY <1>1, <1>4, <2>1, <2>2
<1>6. iter = Body(iter)
  <2> HIDE DEF Body
  <2> QED BY <1>5
<1>7. iter[{}] = 1
  BY <1>6
<1>8. IsFoldIn(V, iter, n, 1, step)
  <2> SUFFICES ASSUME NEW s \in SUBSET (1..n), s # {}, iter[s \ {Max(s)}] \in V
               PROVE  iter[s] = step[Max(s)][iter[s \ {Max(s)}]]
    BY <1>7 DEF IsFoldIn
  <2>1. iter[s] = (IF shape[Max(s)] = -1 THEN iter[s \ {Max(s)}] ELSE AsInt(iter[s \ {Max(s)}] * shape[Max(s)]))
    BY <1>1, <1>6
  <2>2. Max(s) \in 1..n
    BY <1>1, MaxInRange
  <2> HIDE DEF iter
  <2> QED BY <2>1, <2>2
<1> HIDE DEF iter, step, n, V
<1>9. PICK f \in [0..n -> V] : IsRun(f, n, 1, step) /\ f[n] = iter[1..n]
  <2> HIDE DEF Body
  <2>1. n \in Nat /\ 1 \in V /\ step \in [1..n -> [V -> V]]
    BY <1>1, <1>2
  <2>2. Runs(V, iter, n, 1, step)
    BY <1>8, <2>1, FoldRuns
  <2> QED BY <2>2 DEF Runs
<1>10. KnownRun(f, shape)
  <2>1. f[0] = 1
    BY <1>9 DEF IsRun
  <2>2. ASSUME NEW i \in 1..n
        PROVE  f[i] = (IF shape[i] = -1 THEN f[i - 1] ELSE AsInt(f[i - 1] * shape[i]))
    <3>1. i - 1 \in 0..n /\ f[i - 1] \in V /\ f[i] = step[i][f[i - 1]]
      BY <1>1, <1>9 DEF IsRun
    <3> QED BY <3>1 DEF step, V
  <2> QED BY <1>9, <2>1, <2>2 DEF KnownRun, n, V
<1> QED BY <1>1, <1>3, <1>9, <1>10 DEF n

-----------------------------------------------------------------------------
(* Counts that wrap, and the count on paper *)

LEMMA CountType ==
  ASSUME NEW shape \in Seq(Int)
  PROVE  Count(shape) \in Int
<1>1. PICK f : CountRun(f, shape) /\ Count(shape) = f[Len(shape)]
  BY CountRuns
<1>2. Len(shape) \in 0..Len(shape)
  BY LenProperties
<1> QED BY <1>1, <1>2 DEF CountRun

(* Without negative dimensions the count is not negative, and without 0 it *)
(* is positive.                                                            *)
LEMMA CountSign ==
  ASSUME NEW shape \in Seq(Int), \A i \in 1..Len(shape) : shape[i] >= 0
  PROVE  /\ Count(shape) \in Nat
         /\ (\A i \in 1..Len(shape) : shape[i] # 0) => Count(shape) >= 1
<1> DEFINE n == Len(shape)
<1>1. n \in Nat /\ \A i \in 1..n : shape[i] \in Int /\ shape[i] >= 0
  BY LenProperties
<1>2. PICK f : CountRun(f, shape) /\ Count(shape) = f[n]
  BY CountRuns
<1>3. f[0] = 1 /\ \A i \in 1..n : f[i] = f[i - 1] * shape[i]
  BY <1>2 DEF CountRun
<1> HIDE DEF n
<1> DEFINE S == {k \in 0..n : /\ f[k] \in Nat
                              /\ (\A i \in 1..n : shape[i] # 0) => f[k] >= 1}
<1>4. 0 \in S
  BY <1>1, <1>3
<1>5. ASSUME NEW k \in 0..(n - 1), k \in S
      PROVE  k + 1 \in S
  <2>1. k + 1 \in 1..n /\ (k + 1) - 1 = k
    BY <1>1
  <2>2. f[k + 1] = f[k] * shape[k + 1] /\ shape[k + 1] \in Nat /\ f[k] \in Nat
    BY <1>1, <1>3, <1>5, <2>1
  <2>3. \A a, b \in Nat : a * b \in Nat /\ (a >= 1 /\ b >= 1 => a * b >= 1)
    OBVIOUS
  <2>4. f[k + 1] \in Nat
    BY <2>2, <2>3
  <2>5. ASSUME \A i \in 1..n : shape[i] # 0
        PROVE  f[k + 1] >= 1
    <3>1. shape[k + 1] >= 1 /\ f[k] >= 1
      BY <1>5, <2>1, <2>2, <2>5
    <3> QED BY <2>2, <2>3, <3>1
  <2> QED BY <2>1, <2>4, <2>5
<1> HIDE DEF S
<1>6. n \in S
  <2>1. 0..n \subseteq S
    BY <1>1, <1>4, <1>5, Induction
  <2> QED BY <1>1, <2>1
<1> QED BY <1>2, <1>6 DEF S, n

(* The count withShape() asks for is the count on paper, wrapped. *)
LEMMA RequestedWraps ==
  ASSUME NEW shape \in Seq(Int)
  PROVE  Requested(shape) = AsSize(Count(shape))
<1> DEFINE n == Len(shape)
<1>1. n \in Nat /\ \A i \in 1..n : shape[i] \in Int
  BY LenProperties
<1>2. PICK f : CountRun(f, shape) /\ Count(shape) = f[n]
  BY CountRuns
<1>3. PICK g : RequestedRun(g, shape) /\ Requested(shape) = g[n]
  BY RequestedRuns
<1>4. f[0] = 1 /\ \A i \in 1..n : f[i] = f[i - 1] * shape[i]
  BY <1>2 DEF CountRun
<1>5. g[0] = 1 /\ \A i \in 1..n : g[i] = AsSize(g[i - 1] * AsSize(shape[i]))
  BY <1>3 DEF RequestedRun
<1>6. \A i \in 0..n : f[i] \in Int
  BY <1>2 DEF CountRun
<1> HIDE DEF n
<1> DEFINE S == {k \in 0..n : g[k] = AsSize(f[k])}
<1>7. 0 \in S
  <2>1. 1 \in Int /\ 1 \in 0..(Word - 1) /\ 0 \in 0..n
    BY <1>1, WordType
  <2>2. AsSize(1) = 1
    BY <2>1, AsSizeShift
  <2> QED BY <1>4, <1>5, <2>1, <2>2
<1>8. ASSUME NEW k \in 0..(n - 1), k \in S
      PROVE  k + 1 \in S
  <2> DEFINE a == f[k]
             d == shape[k + 1]
  <2>1. k + 1 \in 1..n /\ (k + 1) - 1 = k /\ k + 1 \in 0..n /\ k \in 0..n
    BY <1>1
  <2>2. a \in Int /\ d \in Int /\ f[k + 1] = a * d /\ g[k + 1] = AsSize(AsSize(a) * AsSize(d))
    BY <1>1, <1>4, <1>5, <1>6, <1>8, <2>1
  <2> HIDE DEF a, d
  <2>3. AsSize(AsSize(a) * AsSize(d)) = AsSize(a * d)
    BY <2>2, TimesWraps
  <2> QED BY <2>1, <2>2, <2>3
<1> HIDE DEF S
<1>9. n \in S
  <2>1. 0..n \subseteq S
    BY <1>1, <1>7, <1>8, Induction
  <2> QED BY <1>1, <2>1
<1> QED BY <1>2, <1>3, <1>9 DEF S, n

(* So is the product of signed sizes. *)
LEMMA ProductWraps ==
  ASSUME NEW shape \in Seq(Int)
  PROVE  Product(shape) = AsInt(Count(shape))
<1> DEFINE n == Len(shape)
<1>1. n \in Nat /\ \A i \in 1..n : shape[i] \in Int
  BY LenProperties
<1>2. PICK f : CountRun(f, shape) /\ Count(shape) = f[n]
  BY CountRuns
<1>3. PICK g : ProductRun(g, shape) /\ Product(shape) = g[n]
  BY ProductRuns
<1>4. f[0] = 1 /\ \A i \in 1..n : f[i] = f[i - 1] * shape[i]
  BY <1>2 DEF CountRun
<1>5. g[0] = 1 /\ \A i \in 1..n : g[i] = AsInt(g[i - 1] * shape[i])
  BY <1>3 DEF ProductRun
<1>6. \A i \in 0..n : f[i] \in Int
  BY <1>2 DEF CountRun
<1> HIDE DEF n
<1> DEFINE S == {k \in 0..n : g[k] = AsInt(f[k])}
<1>7. 0 \in S
  <2>1. 1 \in Dims
    BY WordType DEF Dims
  <2>2. AsInt(1) = 1
    BY <2>1, AsIntShift
  <2> QED BY <1>1, <1>4, <1>5, <2>2
<1>8. ASSUME NEW k \in 0..(n - 1), k \in S
      PROVE  k + 1 \in S
  <2> DEFINE a == f[k]
             d == shape[k + 1]
  <2>1. k + 1 \in 1..n /\ (k + 1) - 1 = k /\ k + 1 \in 0..n /\ k \in 0..n
    BY <1>1
  <2>2. a \in Int /\ d \in Int /\ f[k + 1] = a * d /\ g[k + 1] = AsInt(AsInt(a) * d)
    BY <1>1, <1>4, <1>5, <1>6, <1>8, <2>1
  <2> HIDE DEF a, d
  <2>3. AsInt(AsInt(a) * d) = AsInt(a * d)
    BY <2>2, TimesWraps
  <2> QED BY <2>1, <2>2, <2>3
<1> HIDE DEF S
<1>9. n \in S
  <2>1. 0..n \subseteq S
    BY <1>1, <1>7, <1>8, Induction
  <2> QED BY <1>1, <2>1
<1> QED BY <1>2, <1>3, <1>9 DEF S, n

(* The known sizes of a target, with 1 for each -1. *)
KnownSizes(target) == [i \in 1..Len(target) |-> IF target[i] = -1 THEN 1 ELSE target[i]]

LEMMA KnownWraps ==
  ASSUME NEW target \in Seq(Int)
  PROVE  /\ KnownSizes(target) \in Seq(Int) /\ Len(KnownSizes(target)) = Len(target)
         /\ Known(target) = AsInt(Count(KnownSizes(target)))
<1> DEFINE n == Len(target)
           shape == KnownSizes(target)
<1>1. n \in Nat /\ \A i \in 1..n : target[i] \in Int
  BY LenProperties
<1>2. /\ shape \in Seq(Int) /\ Len(shape) = n
      /\ \A i \in 1..n : shape[i] = IF target[i] = -1 THEN 1 ELSE target[i]
  BY <1>1 DEF KnownSizes
<1> HIDE DEF shape
<1>3. PICK f : CountRun(f, shape) /\ Count(shape) = f[n]
  BY <1>2, CountRuns
<1>4. PICK g : KnownRun(g, target) /\ Known(target) = g[n]
  BY KnownRuns
<1>5. f[0] = 1 /\ (\A i \in 1..n : f[i] = f[i - 1] * shape[i]) /\ \A i \in 0..n : f[i] \in Int
  BY <1>2, <1>3 DEF CountRun
<1>6. g[0] = 1 /\ \A i \in 1..n :
        g[i] = IF target[i] = -1 THEN g[i - 1] ELSE AsInt(g[i - 1] * target[i])
  BY <1>4 DEF KnownRun
<1> HIDE DEF n
<1> DEFINE S == {k \in 0..n : g[k] = AsInt(f[k])}
<1>7. 0 \in S
  <2>1. 1 \in Dims
    BY WordType DEF Dims
  <2>2. AsInt(1) = 1
    BY <2>1, AsIntShift
  <2> QED BY <1>1, <1>5, <1>6, <2>2
<1>8. ASSUME NEW k \in 0..(n - 1), k \in S
      PROVE  k + 1 \in S
  <2> DEFINE a == f[k]
             d == target[k + 1]
  <2>1. k + 1 \in 1..n /\ (k + 1) - 1 = k /\ k + 1 \in 0..n /\ k \in 0..n
    BY <1>1
  <2>2. /\ a \in Int /\ d \in Int
        /\ f[k + 1] = a * (IF d = -1 THEN 1 ELSE d)
        /\ g[k + 1] = IF d = -1 THEN AsInt(a) ELSE AsInt(AsInt(a) * d)
    BY <1>1, <1>2, <1>5, <1>6, <1>8, <2>1
  <2> HIDE DEF a, d
  <2>3. AsInt(AsInt(a) * d) = AsInt(a * d) /\ a * 1 = a
    BY <2>2, TimesWraps
  <2> QED BY <2>1, <2>2, <2>3
<1> HIDE DEF S
<1>9. n \in S
  <2>1. 0..n \subseteq S
    BY <1>1, <1>7, <1>8, Induction
  <2> QED BY <1>1, <2>1
<1> QED BY <1>2, <1>3, <1>4, <1>9 DEF S, n, shape

(* One turn of numel() from a count r gives the next count or overflows. *)
LEMMA NumelTurn ==
  ASSUME NEW r \in 0..(Word - 1), NEW d \in Int
  PROVE  /\ NumelStep(r, d) \in {Overflow, r * AsSize(d)}
         /\ NumelStep(r, d) # Overflow => r * AsSize(d) \in 0..(Word - 1)
<1>1. Word \in Nat \ {0}
  BY WordType
<1> DEFINE s == AsSize(d)
<1>2. s \in 0..(Word - 1) /\ (d = 0 => s = 0)
  BY <1>1, AsSizeType, AsSizeShift
<1> HIDE DEF s
<1>3. CASE r = 0
  <2>1. NumelStep(r, d) = 0
    BY <1>3 DEF NumelStep
  <2> QED BY <1>1, <1>2, <1>3, <2>1 DEF s
<1>4. CASE d = 0 /\ r # 0
  <2>1. NumelStep(r, d) = 0
    BY <1>1, <1>4 DEF NumelStep
  <2>2. r * s = 0
    BY <1>1, <1>2, <1>4
  <2> QED BY <1>1, <2>1, <2>2 DEF s
<1>5. CASE r # 0 /\ d # 0
  <2>1. NumelStep(r, d) = IF s > (Word - 1) \div r THEN Overflow ELSE r * s
    BY <1>1, <1>5 DEF NumelStep, s
  <2>2. r \in Nat \ {0} /\ Word - 1 \in Int
    BY <1>1, <1>5
  <2> DEFINE q == (Word - 1) \div r
             e == (Word - 1) % r
  <2>3. q \in Int /\ e \in 0..(r - 1) /\ Word - 1 = r * q + e
    BY <2>2, ModDef
  <2> HIDE DEF q, e
  <2>4. ASSUME ~(s > q)
        PROVE  r * s \in 0..(Word - 1)
    <3>1. q - s \in Nat /\ r * (q - s) \in Nat /\ r * (q - s) = r * q - r * s
      BY <1>2, <2>2, <2>3, <2>4
    <3>2. r * s \in Nat /\ r * q \in Int
      BY <1>2, <2>2, <2>3
    <3> QED BY <1>1, <2>3, <3>1, <3>2
  <2> QED BY <2>1, <2>4 DEF q, s
<1> QED BY <1>3, <1>4, <1>5

(* numel() gives the count that withShape() asks for, or throws. *)
LEMMA NumelWraps ==
  ASSUME NEW shape \in Seq(Int)
  PROVE  CheckedNumel(shape) \in {Overflow, Requested(shape)}
<1> DEFINE n == Len(shape)
<1>1. n \in Nat /\ \A i \in 1..n : shape[i] \in Int
  BY LenProperties
<1>2. PICK f : NumelRun(f, shape) /\ CheckedNumel(shape) = f[n]
  BY NumelRuns
<1>3. PICK g : RequestedRun(g, shape) /\ Requested(shape) = g[n]
  BY RequestedRuns
<1>4. f[0] = 1 /\ \A i \in 1..n : f[i] = NumelStep(f[i - 1], shape[i])
  BY <1>2 DEF NumelRun
<1>5. g[0] = 1 /\ \A i \in 1..n : g[i] = AsSize(g[i - 1] * AsSize(shape[i]))
  BY <1>3 DEF RequestedRun
<1> HIDE DEF n
<1> DEFINE S == {k \in 0..n : f[k] = Overflow \/ (f[k] = g[k] /\ g[k] \in 0..(Word - 1))}
<1>6. 0 \in S
  BY <1>1, <1>4, <1>5, WordType
<1>7. ASSUME NEW k \in 0..(n - 1), k \in S
      PROVE  k + 1 \in S
  <2> DEFINE d == shape[k + 1]
  <2>1. k + 1 \in 1..n /\ (k + 1) - 1 = k /\ k + 1 \in 0..n
    BY <1>1
  <2>2. d \in Int /\ f[k + 1] = NumelStep(f[k], d) /\ g[k + 1] = AsSize(g[k] * AsSize(d))
    BY <1>1, <1>4, <1>5, <2>1
  <2> HIDE DEF d
  <2>3. CASE f[k] = Overflow
    <3>1. NumelStep(Overflow, d) = Overflow
      BY DEF NumelStep, Overflow
    <3> QED BY <2>1, <2>2, <2>3, <3>1
  <2>4. CASE f[k] = g[k] /\ g[k] \in 0..(Word - 1) /\ f[k + 1] # Overflow
    <3>1. f[k + 1] = g[k] * AsSize(d) /\ g[k] * AsSize(d) \in 0..(Word - 1)
      BY <2>2, <2>4, NumelTurn
    <3>2. g[k] * AsSize(d) \in Int
      BY <3>1, WordType
    <3>3. AsSize(g[k] * AsSize(d)) = g[k] * AsSize(d)
      BY <3>1, <3>2, AsSizeShift
    <3> QED BY <2>1, <2>2, <3>1, <3>3
  <2> QED BY <1>7, <2>1, <2>3, <2>4
<1> HIDE DEF S
<1>8. n \in S
  <2>1. 0..n \subseteq S
    BY <1>1, <1>6, <1>7, Induction
  <2> QED BY <1>1, <2>1
<1> QED BY <1>2, <1>3, <1>8 DEF S, n

(* Of sizes that are int64_t and not negative it gives the count on paper. *)
LEMMA NumelIsExact ==
  ASSUME NEW shape \in Seq(Dims), \A i \in 1..Len(shape) : shape[i] >= 0,
         CheckedNumel(shape) # Overflow
  PROVE  CheckedNumel(shape) = Count(shape) /\ Count(shape) \in 0..(Word - 1)
<1> DEFINE n == Len(shape)
<1>1. /\ shape \in Seq(Int) /\ n \in Nat
      /\ \A i \in 1..n : shape[i] \in Int /\ shape[i] \in 0..(Word - 1)
  <2>1. Dims \subseteq Int /\ \A d \in Dims : d >= 0 => d \in 0..(Word - 1)
    BY WordType DEF Dims
  <2>2. shape \in Seq(Int)
    BY DimsAreIntegers
  <2>3. \A i \in 1..n : shape[i] \in Dims
    OBVIOUS
  <2> QED BY <2>1, <2>2, <2>3, LenProperties
<1>2. PICK f : NumelRun(f, shape) /\ CheckedNumel(shape) = f[n]
  BY <1>1, NumelRuns
<1>3. PICK g : CountRun(g, shape) /\ Count(shape) = g[n]
  BY <1>1, CountRuns
<1>4. f[0] = 1 /\ \A i \in 1..n : f[i] = NumelStep(f[i - 1], shape[i])
  BY <1>2 DEF NumelRun
<1>5. g[0] = 1 /\ \A i \in 1..n : g[i] = g[i - 1] * shape[i]
  BY <1>3 DEF CountRun
<1> HIDE DEF n
<1> DEFINE S == {k \in 0..n : f[k] = Overflow \/ (f[k] = g[k] /\ g[k] \in 0..(Word - 1))}
<1>6. 0 \in S
  BY <1>1, <1>4, <1>5, WordType
<1>7. ASSUME NEW k \in 0..(n - 1), k \in S
      PROVE  k + 1 \in S
  <2> DEFINE d == shape[k + 1]
  <2>1. k + 1 \in 1..n /\ (k + 1) - 1 = k /\ k + 1 \in 0..n
    BY <1>1
  <2>2. d \in Int /\ d \in 0..(Word - 1) /\ f[k + 1] = NumelStep(f[k], d) /\ g[k + 1] = g[k] * d
    BY <1>1, <1>4, <1>5, <2>1
  <2> HIDE DEF d
  <2>3. CASE f[k] = Overflow
    <3>1. NumelStep(Overflow, d) = Overflow
      BY DEF NumelStep, Overflow
    <3> QED BY <2>1, <2>2, <2>3, <3>1
  <2>4. CASE f[k] = g[k] /\ g[k] \in 0..(Word - 1) /\ f[k + 1] # Overflow
    <3>1. AsSize(d) = d
      BY <2>2, AsSizeShift
    <3>2. f[k + 1] = g[k] * d /\ g[k] * d \in 0..(Word - 1)
      BY <2>2, <2>4, <3>1, NumelTurn
    <3> QED BY <2>1, <2>2, <3>2
  <2> QED BY <1>7, <2>1, <2>3, <2>4
<1> HIDE DEF S
<1>8. n \in S
  <2>1. 0..n \subseteq S
    BY <1>1, <1>6, <1>7, Induction
  <2> QED BY <1>1, <2>1
<1> QED BY <1>2, <1>3, <1>8 DEF S, n

(* A dimension of 1 replaced by x multiplies the count by x. *)
LEMMA CountReplaced ==
  ASSUME NEW a \in Seq(Int), NEW b \in Seq(Int), Len(a) = Len(b),
         NEW j \in 1..Len(a), a[j] = 1,
         \A i \in 1..Len(a) : i # j => a[i] = b[i]
  PROVE  Count(b) = b[j] * Count(a)
<1> DEFINE n == Len(a)
           x == b[j]
<1>1. n \in Nat /\ n = Len(b) /\ x \in Int /\ j \in 1..n
      /\ \A i \in 1..n : a[i] \in Int /\ b[i] = IF i = j THEN x ELSE a[i]
  BY LenProperties
<1>2. PICK f : CountRun(f, a) /\ Count(a) = f[n]
  BY CountRuns
<1>3. PICK g : CountRun(g, b) /\ Count(b) = g[n]
  BY <1>1, CountRuns
<1>4. f[0] = 1 /\ (\A i \in 1..n : f[i] = f[i - 1] * a[i]) /\ \A i \in 0..n : f[i] \in Int
  BY <1>2 DEF CountRun
<1>5. g[0] = 1 /\ \A i \in 1..n : g[i] = g[i - 1] * b[i]
  BY <1>1, <1>3 DEF CountRun
<1>6. a[j] = 1
  OBVIOUS
<1> HIDE DEF n, x
<1> DEFINE S == {k \in 0..n : g[k] = IF k < j THEN f[k] ELSE x * f[k]}
<1>7. 0 \in S
  BY <1>1, <1>4, <1>5
<1>8. ASSUME NEW k \in 0..(n - 1), k \in S
      PROVE  k + 1 \in S
  <2> DEFINE p == f[k]
             d == a[k + 1]
  <2>1. k + 1 \in 1..n /\ (k + 1) - 1 = k /\ k + 1 \in 0..n /\ k \in 0..n
    BY <1>1
  <2>2. /\ p \in Int /\ d \in Int /\ f[k + 1] = p * d
        /\ (k < j => g[k] = p) /\ (~(k < j) => g[k] = x * p)
        /\ k + 1 = j => d = 1 /\ g[k + 1] = g[k] * x
        /\ k + 1 # j => g[k + 1] = g[k] * d
    BY <1>1, <1>4, <1>5, <1>6, <1>8, <2>1
  <2> HIDE DEF p, d
  <2>3. CASE k + 1 < j
    <3>1. k < j /\ k + 1 # j
      BY <1>1, <2>3
    <3>2. g[k + 1] = f[k + 1]
      BY <2>2, <3>1
    <3> QED BY <2>1, <2>3, <3>2
  <2>4. CASE k + 1 = j
    <3>1. g[k + 1] = p * x /\ f[k + 1] = p
      BY <1>1, <2>2, <2>4
    <3> QED BY <1>1, <2>1, <2>2, <2>4, <3>1
  <2>5. CASE k + 1 > j
    <3>0. ~(k < j) /\ k + 1 # j /\ ~(k + 1 < j)
      BY <1>1, <2>5
    <3>1. g[k + 1] = (x * p) * d /\ f[k + 1] = p * d
      BY <2>2, <3>0
    <3>2. (x * p) * d = x * (p * d)
      BY <1>1, <2>2
    <3> QED BY <2>1, <3>0, <3>1, <3>2
  <2> QED BY <1>1, <2>1, <2>3, <2>4, <2>5
<1> HIDE DEF S
<1>9. n \in S
  <2>1. 0..n \subseteq S
    BY <1>1, <1>7, <1>8, Induction
  <2> QED BY <1>1, <2>1
<1>10. g[n] = x * f[n]
  BY <1>1, <1>9 DEF S
<1> QED BY <1>2, <1>3, <1>10 DEF n, x

(* The count is the first dimension times the count of the others. *)
LEMMA CountTail ==
  ASSUME NEW s \in Seq(Int), NEW t \in Seq(Int), Len(s) = Len(t) + 1,
         \A i \in 1..Len(t) : t[i] = s[i + 1]
  PROVE  Count(s) = s[1] * Count(t)
<1> DEFINE n == Len(t)
           x == s[1]
<1>1. n \in Nat /\ Len(s) = n + 1 /\ x \in Int /\ \A i \in 1..n : t[i] \in Int /\ t[i] = s[i + 1]
  BY LenProperties
<1>2. PICK f : CountRun(f, t) /\ Count(t) = f[n]
  BY CountRuns
<1>3. PICK g : CountRun(g, s) /\ Count(s) = g[n + 1]
  BY <1>1, CountRuns
<1>4. f[0] = 1 /\ (\A i \in 1..n : f[i] = f[i - 1] * t[i]) /\ \A i \in 0..n : f[i] \in Int
  BY <1>2 DEF CountRun
<1>5. g[0] = 1 /\ \A i \in 1..(n + 1) : g[i] = g[i - 1] * s[i]
  BY <1>1, <1>3 DEF CountRun
<1> HIDE DEF n
<1> DEFINE S == {k \in 0..n : g[k + 1] = x * f[k]}
<1>6. 0 \in S
  <2>1. g[1] = g[0] * s[1]
    BY <1>1, <1>5
  <2> QED BY <1>1, <1>4, <1>5, <2>1
<1>7. ASSUME NEW k \in 0..(n - 1), k \in S
      PROVE  k + 1 \in S
  <2> DEFINE p == f[k]
             d == t[k + 1]
             m == k + 1
  <2>1. m \in 1..n /\ m - 1 = k /\ k \in 0..n /\ m + 1 \in 1..(n + 1) /\ (m + 1) - 1 = m
    BY <1>1
  <2>2. p \in Int /\ d \in Int /\ d = s[m + 1] /\ f[m] = p * d /\ g[m + 1] = g[m] * d /\ g[m] = x * p
    <3> HIDE DEF x
    <3>1. f[m] = f[m - 1] * t[m] /\ g[m + 1] = g[(m + 1) - 1] * s[m + 1]
      BY <1>4, <1>5, <2>1
    <3> QED BY <1>1, <1>4, <1>7, <2>1, <3>1
  <2>3. x \in Int
    BY <1>1
  <2> HIDE DEF p, d, m, x, S
  <2>4. (x * p) * d = x * (p * d)
    <3>1. \A a, b, c \in Int : (a * b) * c = a * (b * c)
      OBVIOUS
    <3> QED BY <2>2, <2>3, <3>1
  <2>5. g[m + 1] = x * f[m]
    BY <2>2, <2>4
  <2>6. m \in 0..n
    BY <1>1, <2>1
  <2>7. m \in S
    BY <2>5, <2>6 DEF S
  <2> QED BY <2>7 DEF m
<1> HIDE DEF S
<1>8. n \in S
  <2>1. 0..n \subseteq S
    BY <1>1, <1>6, <1>7, Induction
  <2> QED BY <1>1, <2>1
<1> QED BY <1>1, <1>2, <1>3, <1>8 DEF S, n

-----------------------------------------------------------------------------
(* The variable and its views *)

Tensors == [backing : {"none", "torch", "external"}, shape : Seq(Dims)]

LEMMA NormalType ==
  ASSUME NEW argument \in Seq(Dims)
  PROVE  Normal(argument) \in Seq(Dims) /\ Normal(argument) # <<>>
<1>1. 1 \in Dims
  BY WordType DEF Dims
<1>2. <<1>> \in Seq(Dims) /\ <<1>> # <<>>
  BY <1>1
<1> QED BY <1>2 DEF Normal

(* A view is the tensor with another shape, of a count that was compared.  *)
LEMMA ViewProperties ==
  ASSUME NEW t \in Tensors, NEW argument \in Seq(Dims), NEW r \in WithShape(t, argument)
  PROVE  /\ r = [t EXCEPT !.shape = Normal(argument)]
         /\ r \in Tensors /\ r.backing = t.backing /\ r.shape = Normal(argument)
         /\ ~HasNegative(r.shape)
         /\ t.backing = "torch" => Count(r.shape) = Count(t.shape)
         /\ Numel(r) \in {Numel(t), Overflow}
<1> DEFINE shape == Normal(argument)
<1>1. ~WithShapeRefuses(t, shape) /\ ~AtenRefuses(t, shape) /\ r = [t EXCEPT !.shape = shape]
  BY DEF WithShape, Throws
<1>2. shape \in Seq(Dims)
  BY NormalType
<1>3. r \in Tensors /\ r.backing = t.backing /\ r.shape = shape
  BY <1>1, <1>2 DEF Tensors
<1>4. ~HasNegative(shape) /\ Numel(t) = Requested(shape)
  BY <1>1 DEF WithShapeRefuses
<1>5. t.backing = "torch" => Count(shape) = Count(t.shape)
  BY <1>1 DEF AtenRefuses
<1>6. CheckedNumel(shape) \in {Overflow, Requested(shape)}
  BY <1>2, DimsAreIntegers, NumelWraps
<1>7. Numel(r) \in {Numel(t), Overflow}
  BY <1>3, <1>4, <1>5, <1>6 DEF Numel
<1> QED BY <1>1, <1>3, <1>4, <1>5, <1>7

(* What numel / known gives where it is defined. *)
LEMMA QuotientType ==
  ASSUME NEW n \in Dims, NEW k \in Dims, k # 0, ~(k = -1 /\ n = -Half)
  PROVE  Quotient(n, k) \in Dims
<1>1. Half \in Nat /\ Half >= 2 /\ n \in Int /\ k \in Int /\ -Half <= n /\ n < Half
  BY WordType DEF Dims
<1>2. \A a \in Int, b \in Nat \ {0} : a \div b \in Int
  BY ModDef
<1>3. ASSUME NEW a \in Int, NEW b \in Nat \ {0}, -Half <= a, a < Half \/ (a = Half /\ b >= 2)
      PROVE  a \div b \in Dims
  <2> DEFINE q == a \div b
             e == a % b
  <2>1. q \in Int /\ e \in 0..(b - 1) /\ a = b * q + e
    BY <1>3, ModDef
  <2> HIDE DEF q, e
  <2>2. q >= -Half
    <3> SUFFICES ASSUME q < -Half
                 PROVE  FALSE
      BY <1>1, <2>1
    <3> DEFINE m == -Half - q
    <3>1. m \in Nat /\ m >= 1 /\ q = -Half - m /\ b * m \in Nat /\ b * m >= b /\ b * Half >= Half
      BY <1>1, <2>1
    <3>2. b * q = -(b * Half) - b * m /\ b * Half \in Nat
      BY <1>1, <3>1
    <3> HIDE DEF m
    <3>3. b * q <= -Half - b
      BY <1>1, <3>1, <3>2
    <3>4. b * q \in Int
      BY <2>1
    <3> QED BY <1>1, <1>3, <2>1, <3>3, <3>4
  <2>3. q < Half
    <3> SUFFICES ASSUME q >= Half
                 PROVE  FALSE
      BY <1>1, <2>1
    <3> DEFINE m == q - Half
    <3>1. m \in Nat /\ q = Half + m /\ b * m \in Nat
      BY <1>1, <2>1
    <3>2. b * q = b * Half + b * m
      BY <1>1, <3>1
    <3>3. b * Half >= Half /\ b * Half \in Nat /\ (b >= 2 => b * Half >= 2 * Half)
      BY <1>1
    <3> HIDE DEF m
    <3> QED BY <1>1, <1>3, <2>1, <3>1, <3>2, <3>3
  <2> QED BY <1>1, <2>1, <2>2, <2>3 DEF Dims, q
<1>4. CASE k > 0
  BY <1>1, <1>3, <1>4 DEF Quotient
<1>5. CASE k < 0
  <2>1. -n \in Int /\ -k \in Nat \ {0} /\ -Half <= -n
    BY <1>1, <1>5
  <2>2. -n < Half \/ (-n = Half /\ -k >= 2)
    BY <1>1, <1>5
  <2>3. (-n) \div (-k) \in Dims
    BY <1>3, <2>1, <2>2
  <2> QED BY <1>1, <1>5, <2>3 DEF Quotient
<1> QED BY <1>1, <1>4, <1>5

(* The shape reshapeShape() returns is one of int64_t. *)
LEMMA ReshapeShapeType ==
  ASSUME NEW input \in Seq(Dims), NEW target \in Seq(Dims), ~DivisionTraps(input, target),
         NEW shape \in ReshapeShape(input, target)
  PROVE  shape \in Seq(Dims) /\ shape = Resolved(input, target) /\ ~ReshapeRefuses(input, target)
<1>1. shape = Resolved(input, target) /\ ~ReshapeRefuses(input, target)
  BY DEF ReshapeShape, Throws
<1>2. \A i \in 1..Len(target) : target[i] \in Dims
  OBVIOUS
<1>3. DOMAIN target = 1..Len(target) /\ Len(target) \in Nat
  BY LenProperties
<1>4. ASSUME NEW i \in 1..Len(target), target[i] = -1
      PROVE  Quotient(Product(input), Known(target)) \in Dims
  <2>1. Inferred(target) # {}
    BY <1>3, <1>4 DEF Inferred
  <2>2. Known(target) # 0 /\ ~(Known(target) = -1 /\ Product(input) = -Half)
    BY <1>1, <2>1 DEF DivisionTraps, ReshapeRefuses
  <2>3. Product(input) \in Dims
    BY DimsAreIntegers, ProductWraps, CountType, AsIntType
  <2>4. Known(target) \in Dims
    BY DimsAreIntegers, KnownWraps, CountType, AsIntType
  <2> QED BY <2>2, <2>3, <2>4, QuotientType
<1>5. shape \in [1..Len(target) -> Dims]
  BY <1>1, <1>2, <1>3, <1>4 DEF Resolved
<1>6. shape \in Seq(Dims)
  BY <1>3, <1>5
<1> QED BY <1>1, <1>6

-----------------------------------------------------------------------------
(* The types *)

(* What every tensor that a call returns is. *)
Sound(t) ==
  /\ t \in Tensors
  /\ t.backing = "torch" => ~HasNegative(t.shape) /\ Count(t.shape) \in 0 .. Half - 1

(* A call that returns sound tensors keeps the types. *)
LEMMA ReturnsTyped ==
  ASSUME TypeOK, NEW name, NEW from, NEW argument, NEW results,
         Returns(name, from, argument, results),
         \A t \in results : Sound(t) /\ (t.shape = <<>> => name = "move" /\ t = MovedFrom(t))
  PROVE  TypeOK'
<1>1. last'.results = results /\ last'.name = name
  BY DEF Returns
<1>2. CASE results = Throws /\ UNCHANGED tensor
  BY <1>1, <1>2 DEF TypeOK
<1>3. CASE tensor' \in results
  <2>1. Sound(tensor') /\ (tensor'.shape = <<>> => name = "move" /\ tensor' = MovedFrom(tensor'))
    BY <1>3
  <2> QED BY <1>1, <2>1 DEF TypeOK, Sound, Tensors
<1> QED BY <1>2, <1>3 DEF Returns

LEMMA ViewsAreSound ==
  ASSUME NEW t, Sound(t), NEW argument \in Seq(Dims), NEW r \in WithShape(t, argument)
  PROVE  Sound(r) /\ r.shape # <<>>
<1>1. t \in Tensors
  BY DEF Sound
<1>2. /\ r \in Tensors /\ r.backing = t.backing /\ r.shape = Normal(argument)
      /\ ~HasNegative(r.shape)
      /\ t.backing = "torch" => Count(r.shape) = Count(t.shape)
  BY <1>1, ViewProperties
<1> QED BY <1>2, NormalType DEF Sound

(* What reshape returns are views to shapes of int64_t. *)
LEMMA ReshapedViews ==
  ASSUME NEW t \in Tensors, NEW argument \in Seq(Dims), ~DivisionTraps(t.shape, argument),
         NEW r \in Reshaped(t, argument)
  PROVE  \E shape \in ReshapeShape(t.shape, argument) : shape \in Seq(Dims) /\ r \in WithShape(t, shape)
<1>1. t.shape \in Seq(Dims)
  BY DEF Tensors
<1>2. PICK shape \in ReshapeShape(t.shape, argument) : r \in WithShape(t, shape)
  BY DEF Reshaped
<1>3. shape \in Seq(Dims)
  BY <1>1, ReshapeShapeType
<1> QED BY <1>2, <1>3

(* The variable always holds a tensor; one of ATen has a count of int64_t  *)
(* and no negative size; only a variable that was never assigned or was    *)
(* moved from has no dimensions (Tensor::Tensor, withShape, externalCuda). *)
THEOREM TensorsTyped == Spec => []TypeOK
<1>1. ASSUME Init
      PROVE  TypeOK
  <2>1. tensor = [backing |-> "none", shape |-> <<>>]
    BY <1>1 DEF Init, Default, Tensor
  <2>2. tensor \in Tensors /\ tensor.backing = "none"
    BY <2>1 DEF Tensors
  <2>3. tensor = MovedFrom(tensor)
    BY <2>1 DEF MovedFrom, Tensor
  <2>4. last.results = Throws
    BY <1>1 DEF Init
  <2> QED BY <2>2, <2>3, <2>4 DEF TypeOK, Tensors
<1>2. ASSUME TypeOK, [Next]_vars
      PROVE  TypeOK'
  <2>0. Sound(tensor) /\ tensor \in Tensors
    BY <1>2 DEF TypeOK, Sound, Tensors
  <2>1. ASSUME NEW argument \in Arguments
        PROVE  argument \in Seq(Dims) /\ Normal(argument) \in Seq(Dims) /\ Normal(argument) # <<>>
    BY TensorsAssumption, NormalType
  <2>2. ASSUME NEW argument \in Arguments, Allocate(argument)
        PROVE  TypeOK'
    <3> DEFINE shape == Normal(argument)
    <3>1. CASE Returns("allocate", Default, argument, Throws)
      BY <1>2, <3>1, ReturnsTyped DEF Throws
    <3>2. CASE ~HasNegative(shape) /\ Count(shape) < Half
               /\ Returns("allocate", Default, argument, {Tensor("torch", shape)})
      <4>1. Count(shape) \in Nat
        <5>1. shape \in Seq(Int)
          BY <2>1, DimsAreIntegers
        <5>2. \A i \in 1..Len(shape) : shape[i] \in Int /\ i \in DOMAIN shape
          BY <5>1, LenProperties
        <5>3. \A i \in 1..Len(shape) : shape[i] >= 0
          BY <3>2, <5>2 DEF HasNegative
        <5> QED BY <5>1, <5>3, CountSign
      <4>2. Count(shape) \in 0 .. Half - 1
        BY <3>2, <4>1, WordType
      <4>3. Tensor("torch", shape) \in Tensors /\ Tensor("torch", shape).shape = shape
        BY <2>1 DEF Tensor, Tensors
      <4>4. Sound(Tensor("torch", shape)) /\ Tensor("torch", shape).shape # <<>>
        BY <2>1, <3>2, <4>2, <4>3 DEF Sound
      <4> HIDE DEF shape
      <4>5. \A t \in {Tensor("torch", shape)} :
              Sound(t) /\ (t.shape = <<>> => "allocate" = "move" /\ t = MovedFrom(t))
        BY <4>4
      <4> QED BY <1>2, <3>2, <4>5, ReturnsTyped
    <3> QED BY <2>2, <3>1, <3>2 DEF Allocate
  <2>3. ASSUME NEW argument \in Arguments, NEW isNull \in BOOLEAN, External(argument, isNull)
        PROVE  TypeOK'
    <3> DEFINE results == IF isNull THEN Throws ELSE {Tensor("external", Normal(argument))}
    <3>1. Tensor("external", Normal(argument)) \in Tensors
      BY <2>1 DEF Tensor, Tensors
    <3>2. \A t \in results :
            Sound(t) /\ (t.shape = <<>> => "externalCuda" = "move" /\ t = MovedFrom(t))
      BY <2>1, <3>1 DEF Sound, Tensor, Throws
    <3>3. Returns("externalCuda", Default, argument, results)
      BY <2>3 DEF External
    <3> HIDE DEF results
    <3> QED BY <1>2, <3>2, <3>3, ReturnsTyped
  <2>4. ASSUME NEW argument \in Arguments, TakeView(argument)
        PROVE  TypeOK'
    <3>1. \A t \in WithShape(tensor, argument) :
            Sound(t) /\ (t.shape = <<>> => "withShape" = "move" /\ t = MovedFrom(t))
      BY <2>0, <2>1, ViewsAreSound
    <3> QED BY <1>2, <2>4, <3>1, ReturnsTyped DEF TakeView
  <2>5. ASSUME NEW argument \in Arguments, Reshape(argument)
        PROVE  TypeOK'
    <3>1. ~DivisionTraps(tensor.shape, argument)
          /\ Returns("reshape", tensor, argument, Reshaped(tensor, argument))
      BY <2>5 DEF Reshape
    <3>2. \A t \in Reshaped(tensor, argument) :
            Sound(t) /\ (t.shape = <<>> => "reshape" = "move" /\ t = MovedFrom(t))
      BY <2>0, <2>1, <3>1, ReshapedViews, ViewsAreSound
    <3> QED BY <1>2, <3>1, <3>2, ReturnsTyped
  <2>6. CASE Move
    <3> DEFINE m == MovedFrom(tensor)
    <3>1. m.shape = <<>> /\ m \in Tensors /\ m.backing # "torch"
      BY DEF MovedFrom, Tensor, Tensors
    <3>2. m = MovedFrom(m)
      BY DEF MovedFrom, Tensor
    <3> HIDE DEF m
    <3>3. \A t \in {m} : Sound(t) /\ (t.shape = <<>> => "move" = "move" /\ t = MovedFrom(t))
      BY <3>1, <3>2 DEF Sound
    <3>4. Returns("move", tensor, <<>>, {m})
      BY <2>6 DEF Move, m
    <3> QED BY <1>2, <3>3, <3>4, ReturnsTyped
  <2>7. CASE UNCHANGED vars
    BY <1>2, <2>7 DEF TypeOK, vars
  <2> QED BY <1>2, <2>2, <2>3, <2>4, <2>5, <2>6, <2>7 DEF Next
<1> QED BY <1>1, <1>2, PTL DEF Spec

(* withShape() and the reshape operator never give a tensor that reports   *)
(* another element count than the one it is a view of: where the unchecked *)
(* count wrapped to the old one, numel() of the view throws.               *)
THEOREM ViewsKeepTheCount == Spec => []ViewKeepsCount
<1>1. Init => ViewKeepsCount
  BY DEF Init, ViewKeepsCount
<1>2. ASSUME TypeOK, ViewKeepsCount, [Next]_vars
      PROVE  ViewKeepsCount'
  <2>0. tensor \in Tensors
    BY <1>2 DEF TypeOK, Tensors
  <2>1. \A argument \in Arguments : argument \in Seq(Dims)
    BY TensorsAssumption
  <2>2. ASSUME NEW argument \in Arguments, Allocate(argument)
        PROVE  ViewKeepsCount'
    BY <2>2 DEF Allocate, Returns, ViewKeepsCount
  <2>3. ASSUME NEW argument \in Arguments, NEW isNull \in BOOLEAN, External(argument, isNull)
        PROVE  ViewKeepsCount'
    BY <2>3 DEF External, Returns, ViewKeepsCount
  <2>4. ASSUME NEW argument \in Arguments, TakeView(argument)
        PROVE  ViewKeepsCount'
    <3>1. last'.from = tensor /\ last'.results = WithShape(tensor, argument)
      BY <2>4 DEF TakeView, Returns
    <3>2. \A t \in WithShape(tensor, argument) : Numel(t) \in {Numel(tensor), Overflow}
      BY <2>0, <2>1, ViewProperties
    <3> QED BY <3>1, <3>2 DEF ViewKeepsCount
  <2>5. ASSUME NEW argument \in Arguments, Reshape(argument)
        PROVE  ViewKeepsCount'
    <3>1. /\ ~DivisionTraps(tensor.shape, argument)
          /\ last'.from = tensor /\ last'.results = Reshaped(tensor, argument)
      BY <2>5 DEF Reshape, Returns
    <3>2. ASSUME NEW t \in Reshaped(tensor, argument)
          PROVE  Numel(t) \in {Numel(tensor), Overflow}
      <4>1. PICK shape : shape \in Seq(Dims) /\ t \in WithShape(tensor, shape)
        BY <2>0, <2>1, <3>1, ReshapedViews
      <4> QED BY <2>0, <4>1, ViewProperties
    <3> QED BY <3>1, <3>2 DEF ViewKeepsCount
  <2>6. CASE Move
    BY <2>6 DEF Move, Returns, ViewKeepsCount
  <2>7. CASE UNCHANGED vars
    BY <1>2, <2>7 DEF ViewKeepsCount, vars
  <2> QED BY <1>2, <2>2, <2>3, <2>4, <2>5, <2>6, <2>7 DEF Next
<1> QED BY <1>1, <1>2, TensorsTyped, PTL DEF Spec

-----------------------------------------------------------------------------
(* Offsets *)

(* The turns of ContiguousOffset. *)
OffsetRun(f, shape, index) ==
  /\ f \in [0..Len(shape) -> Int]
  /\ f[0] = 0
  /\ \A i \in 1..Len(shape) : f[i] = AsSize(f[i - 1] + index[i] * Stride(shape, i))

(* The sizes behind a dimension, whose product is its stride. *)
Behind(shape, i) == SubSeq(shape, i + 1, Len(shape))

LEMMA BehindProperties ==
  ASSUME NEW shape \in Seq(Int), NEW i \in 0..Len(shape)
  PROVE  /\ Behind(shape, i) \in Seq(Int) /\ Len(Behind(shape, i)) = Len(shape) - i
         /\ \A k \in 1..(Len(shape) - i) : Behind(shape, i)[k] = shape[k + i]
<1>1. Len(shape) \in Nat /\ shape \in [1..Len(shape) -> Int]
  BY LenProperties
<1>2. \A k \in (i + 1) .. Len(shape) : shape[k] \in Int
  BY <1>1
<1> DEFINE b == SubSeq(shape, i + 1, Len(shape))
<1>3. /\ b \in Seq(Int)
      /\ Len(b) = IF i + 1 <= Len(shape) THEN Len(shape) - (i + 1) + 1 ELSE 0
      /\ \A k \in 1 .. Len(shape) - (i + 1) + 1 : b[k] = shape[(i + 1) + k - 1]
  <2> DEFINE m == i + 1
             l == Len(shape)
  <2>1. m \in Int /\ l \in Int /\ \A k \in m .. l : shape[k] \in Int
    BY <1>1, <1>2
  <2> HIDE DEF m, l
  <2>2. /\ SubSeq(shape, m, l) \in Seq(Int)
        /\ Len(SubSeq(shape, m, l)) = IF m <= l THEN l - m + 1 ELSE 0
        /\ \A k \in 1 .. l - m + 1 : SubSeq(shape, m, l)[k] = shape[m + k - 1]
    BY <2>1, SubSeqProperties
  <2> QED BY <2>2 DEF m, l
<1>4. Len(shape) - (i + 1) + 1 = Len(shape) - i /\ (i + 1 <= Len(shape) \/ Len(shape) - i = 0)
  <2>1. \A l \in Nat : \A k \in 0..l : l - (k + 1) + 1 = l - k /\ (k + 1 <= l \/ l - k = 0)
    OBVIOUS
  <2> QED BY <1>1, <2>1
<1> HIDE DEF b
<1>5. b \in Seq(Int) /\ Len(b) = Len(shape) - i
  BY <1>3, <1>4
<1>6. ASSUME NEW k \in 1..(Len(shape) - i)
      PROVE  b[k] = shape[k + i]
  <2>1. (i + 1) + k - 1 = k + i
    BY <1>1
  <2> QED BY <1>3, <1>4, <2>1
<1> QED BY <1>5, <1>6 DEF Behind, b

LEMMA StrideType ==
  ASSUME NEW shape \in Seq(Int), NEW i \in 1..Len(shape)
  PROVE  Stride(shape, i) = AsSize(Count(Behind(shape, i))) /\ Stride(shape, i) \in Int
<1>1. i \in 0..Len(shape)
  BY LenProperties
<1>2. Behind(shape, i) \in Seq(Int)
  BY <1>1, BehindProperties
<1>3. Stride(shape, i) = Requested(Behind(shape, i))
  BY DEF Stride, Behind
<1> QED BY <1>2, <1>3, RequestedWraps, CountType, AsSizeType

LEMMA OffsetRuns ==
  ASSUME NEW shape \in Seq(Int), NEW index \in [DOMAIN shape -> Int]
  PROVE  \E f : OffsetRun(f, shape, index) /\ ContiguousOffset(shape, index) = f[Len(shape)]
<1> DEFINE V == Int
           n == Len(shape)
           ids == [i \in DOMAIN shape |-> i]
           step == [i \in 1..n |-> [p \in Int |-> AsSize(p + index[i] * Stride(shape, i))]]
           Body(it) == [s \in SUBSET (DOMAIN ids) |->
                          IF s = {} THEN 0
                          ELSE AsSize(it[s \ {Max(s)}] + index[ids[Max(s)]] * Stride(shape, ids[Max(s)]))]
           iter == CHOOSE it : it = Body(it)
<1>1. /\ n \in Nat /\ DOMAIN shape = 1..n /\ DOMAIN ids = 1..n
      /\ \A i \in 1..n : ids[i] = i /\ index[i] \in Int
  OBVIOUS
<1>2. step \in [1..n -> [V -> V]] /\ 0 \in V
  <2>1. ASSUME NEW p \in Int, NEW i \in 1..n
        PROVE  AsSize(p + index[i] * Stride(shape, i)) \in Int
    <3>1. index[i] \in Int /\ Stride(shape, i) \in Int
      BY <1>1, StrideType
    <3>2. p + index[i] * Stride(shape, i) \in Int
      BY <3>1
    <3> QED BY <3>2, AsSizeType
  <2>2. ASSUME NEW i \in 1..n
        PROVE  step[i] \in [V -> V]
    BY <2>1
  <2>3. step = [i \in 1..n |-> step[i]]
    OBVIOUS
  <2> HIDE DEF step
  <2> QED BY <2>2, <2>3
<1>3. ContiguousOffset(shape, index) = iter[DOMAIN ids]
  BY DEF ContiguousOffset, FoldLeftDomain, FoldLeft, MapThenFoldSet
<1> HIDE DEF ids
<1>4. PICK it \in [SUBSET (1..n) -> V] : IsFold(it, n, 0, step)
  <2> HIDE DEF step, n, V
  <2> QED BY <1>1, <1>2, FoldExists
<1>5. it = Body(it)
  <2>1. ASSUME NEW s \in SUBSET (1..n), s # {}
        PROVE  it[s] = AsSize(it[s \ {Max(s)}] + index[ids[Max(s)]] * Stride(shape, ids[Max(s)]))
    <3>1. Max(s) \in 1..n /\ s \ {Max(s)} \in SUBSET (1..n)
      BY <1>1, <2>1, MaxInRange
    <3>2. it[s] = step[Max(s)][it[s \ {Max(s)}]] /\ it[s \ {Max(s)}] \in Int
      BY <1>4, <2>1, <3>1 DEF IsFold
    <3>3. ids[Max(s)] = Max(s)
      BY <1>1, <3>1
    <3> QED BY <3>1, <3>2, <3>3
  <2>2. it[{}] = 0
    BY <1>4 DEF IsFold
  <2> QED BY <1>1, <1>4, <2>1, <2>2
<1>6. iter = Body(iter)
  <2> HIDE DEF Body
  <2> QED BY <1>5
<1>7. iter[{}] = 0
  BY <1>6
<1>8. IsFoldIn(V, iter, n, 0, step)
  <2> SUFFICES ASSUME NEW s \in SUBSET (1..n), s # {}, iter[s \ {Max(s)}] \in V
               PROVE  iter[s] = step[Max(s)][iter[s \ {Max(s)}]]
    BY <1>7 DEF IsFoldIn
  <2>1. iter[s] = AsSize(iter[s \ {Max(s)}] + index[ids[Max(s)]] * Stride(shape, ids[Max(s)]))
    BY <1>1, <1>6
  <2>2. Max(s) \in 1..n /\ ids[Max(s)] = Max(s)
    BY <1>1, MaxInRange
  <2> HIDE DEF iter
  <2> QED BY <2>1, <2>2
<1> HIDE DEF iter, step, n, V
<1>9. PICK f \in [0..n -> V] : IsRun(f, n, 0, step) /\ f[n] = iter[1..n]
  <2> HIDE DEF Body
  <2>1. n \in Nat /\ 0 \in V /\ step \in [1..n -> [V -> V]]
    BY <1>1, <1>2
  <2>2. Runs(V, iter, n, 0, step)
    BY <1>8, <2>1, FoldRuns
  <2> QED BY <2>2 DEF Runs
<1>10. OffsetRun(f, shape, index)
  <2>1. f[0] = 0
    BY <1>9 DEF IsRun
  <2>2. ASSUME NEW i \in 1..n
        PROVE  f[i] = AsSize(f[i - 1] + index[i] * Stride(shape, i))
    <3>1. i - 1 \in 0..n /\ f[i - 1] \in V /\ f[i] = step[i][f[i - 1]]
      BY <1>1, <1>9 DEF IsRun
    <3> QED BY <3>1 DEF step, V
  <2> QED BY <1>9, <2>1, <2>2 DEF OffsetRun, n, V
<1> QED BY <1>1, <1>3, <1>9, <1>10 DEF n

(* In a shape whose sizes are positive and whose count a size_t holds, each *)
(* dimension has the stride it should have.                                 *)
Addressable(shape) ==
  /\ shape \in Seq(Int)
  /\ \A i \in 1..Len(shape) : shape[i] >= 1
  /\ Count(shape) < Word

IsStrides(c, shape) ==
  /\ c \in [0..Len(shape) -> Nat \ {0}]
  /\ c[0] = Count(shape) /\ c[Len(shape)] = 1
  /\ \A i \in 1..Len(shape) : c[i - 1] = shape[i] * c[i] /\ Stride(shape, i) = c[i]

LEMMA Strides ==
  ASSUME NEW shape, Addressable(shape)
  PROVE  \E c : IsStrides(c, shape)
<1> DEFINE n == Len(shape)
           c == [i \in 0..n |-> Count(Behind(shape, i))]
<1>0. shape \in Seq(Int) /\ Count(shape) < Word
  BY DEF Addressable
<1>1. n \in Nat /\ \A i \in 1..n : shape[i] \in Int /\ shape[i] >= 1
  BY <1>0, LenProperties DEF Addressable
<1>2. ASSUME NEW i \in 0..n
      PROVE  c[i] \in Nat \ {0} /\ Behind(shape, i) \in Seq(Int) /\ c[i] = Count(Behind(shape, i))
  <2> DEFINE b == Behind(shape, i)
  <2>1. b \in Seq(Int) /\ Len(b) = n - i /\ \A k \in 1..(n - i) : b[k] = shape[k + i]
    BY <1>0, BehindProperties
  <2>2. ASSUME NEW k \in 1..Len(b)
        PROVE  b[k] >= 1 /\ b[k] \in Int
    <3>1. k \in 1..(n - i) /\ k + i \in 1..n
      BY <1>1, <2>1
    <3> QED BY <1>1, <2>1, <3>1
  <2> HIDE DEF b
  <2>3. \A k \in 1..Len(b) : b[k] >= 0 /\ b[k] # 0
    BY <2>2
  <2>4. Count(b) \in Nat /\ Count(b) >= 1
    BY <2>1, <2>3, CountSign
  <2> QED BY <2>1, <2>4 DEF b
<1>3. ASSUME NEW i \in 1..n
      PROVE  c[i - 1] = shape[i] * c[i]
  <2>1. i - 1 \in 0..n /\ i \in 0..n /\ n - (i - 1) = (n - i) + 1
    BY <1>1
  <2> DEFINE s == Behind(shape, i - 1)
             t == Behind(shape, i)
  <2>2. s \in Seq(Int) /\ Len(s) = (n - i) + 1 /\ \A k \in 1..((n - i) + 1) : s[k] = shape[k + (i - 1)]
    BY <1>0, <2>1, BehindProperties
  <2>3. t \in Seq(Int) /\ Len(t) = n - i /\ \A k \in 1..(n - i) : t[k] = shape[k + i]
    BY <1>0, <2>1, BehindProperties
  <2>4. c[i - 1] = Count(s) /\ c[i] = Count(t)
    BY <2>1
  <2> HIDE DEF s, t, c
  <2>5. \A k \in 1..Len(t) : t[k] = s[k + 1]
    <3> TAKE k \in 1..Len(t)
    <3>1. k \in 1..(n - i) /\ k + 1 \in 1..((n - i) + 1) /\ (k + 1) + (i - 1) = k + i
      BY <1>1, <2>3
    <3> QED BY <2>2, <2>3, <3>1
  <2>6. s[1] = shape[i]
    <3>1. 1 \in 1..((n - i) + 1) /\ 1 + (i - 1) = i
      BY <1>1
    <3> QED BY <2>2, <3>1
  <2>7. Count(s) = s[1] * Count(t)
    BY <2>2, <2>3, <2>5, CountTail
  <2> QED BY <2>4, <2>6, <2>7
<1>4. c[0] = Count(shape)
  <2>1. Behind(shape, 0) = shape
    <3>1. SubSeq(shape, 1, Len(shape)) = shape
      BY <1>0, SubSeqFull
    <3> QED BY <3>1 DEF Behind
  <2>2. 0 \in 0..n
    BY <1>1
  <2> QED BY <2>1, <2>2
<1>5. c[n] = 1
  <2>1. Behind(shape, n) \in Seq(Int) /\ Len(Behind(shape, n)) = 0
    BY <1>0, <1>1, BehindProperties
  <2>2. PICK f : CountRun(f, Behind(shape, n)) /\ Count(Behind(shape, n)) = f[0]
    BY <2>1, CountRuns
  <2>3. f[0] = 1
    BY <2>2 DEF CountRun
  <2> QED BY <1>1, <2>2, <2>3
<1>6. c \in [0..n -> Nat \ {0}]
  BY <1>2
<1> HIDE DEF c
<1>7. \A i \in 0..n : c[i] < Word
  <2> DEFINE S == {i \in 0..n : c[i] < Word}
  <2>1. 0 \in S
    BY <1>0, <1>1, <1>4
  <2>2. ASSUME NEW k \in 0..(n - 1), k \in S
        PROVE  k + 1 \in S
    <3>1. k + 1 \in 1..n /\ (k + 1) - 1 = k /\ k \in 0..n /\ k + 1 \in 0..n
      BY <1>1
    <3>2. c[k] = shape[k + 1] * c[k + 1] /\ shape[k + 1] \in Int /\ shape[k + 1] >= 1
      BY <1>1, <1>3, <3>1
    <3>3. c[k + 1] \in Nat /\ c[k] \in Nat
      BY <1>6, <3>1
    <3>4. \A a, b \in Nat : a >= 1 => a * b >= b
      OBVIOUS
    <3>5. c[k] >= c[k + 1]
      BY <3>2, <3>3, <3>4
    <3> QED BY <2>2, <3>1, <3>3, <3>5, WordType
  <2> HIDE DEF S
  <2>3. 0..n \subseteq S
    BY <1>1, <2>1, <2>2, Induction
  <2> QED BY <2>3 DEF S
<1>8. ASSUME NEW i \in 1..n
      PROVE  Stride(shape, i) = c[i]
  <2>1. i \in 0..n
    BY <1>1
  <2>2. Stride(shape, i) = AsSize(c[i])
    BY <1>0, <1>2, <2>1, StrideType
  <2>3. c[i] \in 0..(Word - 1) /\ c[i] \in Int
    BY <1>6, <1>7, <2>1, WordType
  <2> QED BY <2>2, <2>3, AsSizeShift
<1> QED BY <1>3, <1>4, <1>5, <1>6, <1>8 DEF IsStrides, n

(* The partial offsets of an accepted index: none wraps, and each is a     *)
(* multiple of the stride reached.                                         *)
Within(index, shape) ==
  index \in [DOMAIN shape -> Int] /\ \A i \in 1..Len(shape) : index[i] >= 0 /\ index[i] < shape[i]

PartialOffsets(h, c, shape, index) ==
  /\ h \in [0..Len(shape) -> Int]
  /\ h[0] = 0
  /\ \A i \in 1..Len(shape) : h[i] = h[i - 1] + index[i] * c[i]
  /\ \A i \in 0..Len(shape) :
       /\ h[i] >= 0 /\ h[i] + c[i] <= c[0]
       /\ \E m \in Int : h[i] = c[i] * m

LEMMA Offsets ==
  ASSUME NEW shape, Addressable(shape), NEW c, IsStrides(c, shape),
         NEW index, Within(index, shape)
  PROVE  \E h : PartialOffsets(h, c, shape, index) /\ ContiguousOffset(shape, index) = h[Len(shape)]
<1> DEFINE n == Len(shape)
<1>0. shape \in Seq(Int) /\ index \in [DOMAIN shape -> Int]
  BY DEF Addressable, Within
<1>1. /\ n \in Nat
      /\ \A i \in 1..n : shape[i] \in Int /\ index[i] \in Int /\ index[i] >= 0 /\ index[i] < shape[i]
  BY <1>0, LenProperties DEF Within
<1>2. PICK h : OffsetRun(h, shape, index) /\ ContiguousOffset(shape, index) = h[n]
  BY <1>0, OffsetRuns
<1>3. /\ h \in [0..n -> Int] /\ h[0] = 0
      /\ \A i \in 1..n : h[i] = AsSize(h[i - 1] + index[i] * Stride(shape, i))
  BY <1>2 DEF OffsetRun
<1>4. /\ \A i \in 0..n : c[i] \in Nat /\ c[i] >= 1
      /\ c[0] < Word
      /\ \A i \in 1..n : c[i - 1] = shape[i] * c[i] /\ Stride(shape, i) = c[i]
  <2>1. /\ c \in [0..n -> Nat \ {0}] /\ c[0] = Count(shape)
        /\ \A i \in 1..n : c[i - 1] = shape[i] * c[i] /\ Stride(shape, i) = c[i]
    BY DEF IsStrides
  <2>2. Count(shape) < Word
    BY DEF Addressable
  <2> HIDE DEF n
  <2>3. \A i \in 0..n : c[i] \in Nat /\ c[i] >= 1
    BY <2>1
  <2> QED BY <2>1, <2>2, <2>3
<1> HIDE DEF n
<1> DEFINE Good(i) == /\ h[i] >= 0 /\ h[i] + c[i] <= c[0]
                      /\ \E m \in Int : h[i] = c[i] * m
<1>5. Good(0)
  <2>1. h[0] = c[0] * 0 /\ 0 \in Int
    BY <1>1, <1>3, <1>4
  <2>2. 0 + c[0] <= c[0]
    BY <1>1, <1>4
  <2> QED BY <1>3, <2>1, <2>2
<1>6. ASSUME NEW k \in 0..(n - 1), Good(k)
      PROVE  Good(k + 1) /\ h[k + 1] = h[k] + index[k + 1] * c[k + 1]
  <2> DEFINE i == k + 1
             a == index[i]
             d == shape[i]
             s == c[i]
             p == h[k]
  <2>1. i \in 1..n /\ i - 1 = k /\ k \in 0..n /\ i \in 0..n
    BY <1>1
  <2>2. a \in Int /\ a >= 0 /\ a < d /\ d \in Int /\ s \in Nat /\ s >= 1 /\ p \in Int /\ p >= 0
    BY <1>1, <1>3, <1>4, <1>6, <2>1
  <2>3. c[k] = d * s /\ p + c[k] <= c[0] /\ c[0] < Word /\ c[0] \in Int
    BY <1>1, <1>4, <1>6, <2>1
  <2>4. h[i] = AsSize(p + a * s)
    BY <1>3, <1>4, <2>1
  <2>5. PICK m \in Int : p = c[k] * m
    BY <1>6
  <2> HIDE DEF i, a, d, s, p
  <2>6. a * s \in Nat /\ a * s + s <= d * s
    <3>1. d - a \in Nat /\ d - a >= 1 /\ a \in Nat
      BY <2>2
    <3>2. \A x, y \in Nat : x * y \in Nat /\ (x >= 1 => x * y >= y)
      OBVIOUS
    <3>3. (d - a) * s >= s /\ a * s \in Nat
      BY <2>2, <3>1, <3>2
    <3>4. (d - a) * s = d * s - a * s /\ d * s \in Int
      BY <2>2
    <3> QED BY <2>2, <3>3, <3>4
  <2>7. p + a * s \in 0..(Word - 1) /\ p + a * s \in Int /\ (p + a * s) + s <= c[0]
    <3>1. d * s \in Int
      BY <2>2
    <3> QED BY <2>2, <2>3, <2>6, <3>1, WordType
  <2>8. h[i] = p + a * s
    BY <2>4, <2>7, AsSizeShift
  <2>9. h[i] = s * (d * m + a) /\ d * m + a \in Int
    <3>1. p = (d * s) * m
      BY <2>3, <2>5
    <3>2. (d * s) * m = s * (d * m) /\ d * m \in Int
      BY <2>2
    <3>3. s * (d * m) + a * s = s * (d * m + a)
      BY <2>2, <3>2
    <3> QED BY <2>2, <2>8, <3>1, <3>2, <3>3
  <2>10. h[i] >= 0 /\ h[i] + s <= c[0]
    BY <2>7, <2>8
  <2> QED BY <2>8, <2>9, <2>10 DEF i, a, s, p
<1> DEFINE S == {i \in 0..n : Good(i)}
<1>7. 0..n \subseteq S
  <2>1. 0 \in S
    BY <1>1, <1>5
  <2>2. ASSUME NEW k \in 0..(n - 1), k \in S
        PROVE  k + 1 \in S
    <3>1. k + 1 \in 0..n /\ Good(k)
      BY <1>1, <2>2
    <3>2. Good(k + 1)
      BY <1>6, <3>1
    <3> HIDE DEF Good
    <3> QED BY <3>1, <3>2
  <2> HIDE DEF S
  <2> QED BY <1>1, <2>1, <2>2, Induction
<1>8. ASSUME NEW i \in 1..n
      PROVE  h[i] = h[i - 1] + index[i] * c[i]
  <2>1. i - 1 \in 0..(n - 1) /\ i - 1 \in 0..n /\ (i - 1) + 1 = i
    BY <1>1
  <2>2. Good(i - 1)
    BY <1>7, <2>1
  <2> HIDE DEF Good
  <2> QED BY <1>6, <2>1, <2>2
<1>9. PartialOffsets(h, c, shape, index)
  BY <1>3, <1>7, <1>8 DEF PartialOffsets, n
<1> QED BY <1>2, <1>9 DEF n

LEMMA SameDigits ==
  ASSUME NEW s \in Nat \ {0}, NEW d \in Nat \ {0},
         NEW m \in Int, NEW k \in Int, NEW a \in 0..(d - 1), NEW b \in 0..(d - 1),
         (d * s) * m + a * s = (d * s) * k + b * s
  PROVE  a = b /\ (d * s) * m = (d * s) * k
<1> DEFINE x == d * m + a
           y == d * k + b
<1>1. x \in Int /\ y \in Int /\ x % d = a /\ y % d = b
  BY ModUnique
<1>2. s * x = (d * s) * m + a * s /\ s * y = (d * s) * k + b * s
  <2>1. \A e, f, g, u \in Int : g * (u * e + f) = (u * g) * e + f * g
    OBVIOUS
  <2> QED BY <2>1
<1>3. x = y
  <2> HIDE DEF x, y
  <2>1. (s * x + 0) \div s = x /\ (s * y + 0) \div s = y
    BY <1>1, ModUnique
  <2> QED BY <1>2, <2>1
<1>4. a = b
  BY <1>1, <1>3
<1>5. (d * s) * m \in Int /\ (d * s) * k \in Int /\ a * s \in Int
  OBVIOUS
<1> QED BY <1>4, <1>5

(* Accepted indices that give one offset are the same. *)
LEMMA OffsetsDiffer ==
  ASSUME NEW shape, Addressable(shape),
         NEW i, Within(i, shape), NEW j, Within(j, shape),
         ContiguousOffset(shape, i) = ContiguousOffset(shape, j)
  PROVE  i = j
<1> DEFINE n == Len(shape)
<1>0. /\ shape \in Seq(Int) /\ DOMAIN shape = 1..n /\ n \in Nat
      /\ i \in [1..n -> Int] /\ j \in [1..n -> Int]
  BY LenProperties DEF Addressable, Within
<1>1. PICK c : IsStrides(c, shape)
  BY Strides
<1>2. PICK h : PartialOffsets(h, c, shape, i) /\ ContiguousOffset(shape, i) = h[n]
  BY <1>1, Offsets
<1>3. PICK g : PartialOffsets(g, c, shape, j) /\ ContiguousOffset(shape, j) = g[n]
  BY <1>1, Offsets
<1>4. /\ \A k \in 0..n : c[k] \in Nat \ {0}
      /\ \A k \in 1..n : c[k - 1] = shape[k] * c[k]
  BY <1>0, <1>1 DEF IsStrides
<1>5. \A k \in 1..n : shape[k] \in Nat \ {0} /\ i[k] \in 0..(shape[k] - 1) /\ j[k] \in 0..(shape[k] - 1)
  BY <1>0 DEF Within, Addressable
<1>6. /\ \A k \in 1..n : h[k] = h[k - 1] + i[k] * c[k]
      /\ \A k \in 0..n : \E m \in Int : h[k] = c[k] * m
  BY <1>2 DEF PartialOffsets
<1>7. /\ \A k \in 1..n : g[k] = g[k - 1] + j[k] * c[k]
      /\ \A k \in 0..n : \E m \in Int : g[k] = c[k] * m
  BY <1>3 DEF PartialOffsets
<1>8. h[n] = g[n]
  BY <1>2, <1>3
<1> HIDE DEF n
<1> DEFINE S == {k \in 0..n : h[n - k] = g[n - k] /\ \A l \in (n - k + 1)..n : i[l] = j[l]}
<1>9. 0 \in S
  <2>1. n - 0 = n /\ (n - 0 + 1)..n = {}
    BY <1>0
  <2> QED BY <1>0, <1>8, <2>1
<1>10. ASSUME NEW z \in 0..(n - 1), z \in S
       PROVE  z + 1 \in S
  <2> DEFINE k == n - z
             d == shape[k]
             s == c[k]
             a == i[k]
             b == j[k]
  <2>1. /\ k \in 1..n /\ k \in 0..n /\ k - 1 \in 0..n /\ z + 1 \in 0..n
        /\ n - (z + 1) = k - 1 /\ n - (z + 1) + 1 = k
    BY <1>0
  <2>2. h[k] = g[k] /\ \A l \in (k + 1)..n : i[l] = j[l]
    BY <1>10
  <2>3. s \in Nat \ {0} /\ c[k - 1] = d * s /\ d \in Nat \ {0} /\ a \in 0..(d - 1) /\ b \in 0..(d - 1)
    BY <1>4, <1>5, <2>1
  <2>4. PICK m \in Int : h[k - 1] = c[k - 1] * m
    BY <1>6, <2>1
  <2>5. PICK w \in Int : g[k - 1] = c[k - 1] * w
    BY <1>7, <2>1
  <2>6. h[k] = h[k - 1] + a * s /\ g[k] = g[k - 1] + b * s
    BY <1>6, <1>7, <2>1
  <2> HIDE DEF k, d, s, a, b
  <2>7. (d * s) * m + a * s = (d * s) * w + b * s
    BY <2>2, <2>3, <2>4, <2>5, <2>6
  <2>8. a = b /\ (d * s) * m = (d * s) * w
    BY <2>3, <2>7, SameDigits
  <2>9. h[k - 1] = g[k - 1]
    BY <2>3, <2>4, <2>5, <2>8
  <2>10. \A l \in k..n : i[l] = j[l]
    <3>1. \A l \in k..n : l = k \/ l \in (k + 1)..n
      BY <1>0, <2>1
    <3>2. i[k] = j[k]
      BY <2>8 DEF a, b
    <3> QED BY <2>2, <3>1, <3>2
  <2> QED BY <2>1, <2>9, <2>10
<1> HIDE DEF S
<1>11. n \in S
  <2>1. 0..n \subseteq S
    BY <1>0, <1>9, <1>10, Induction
  <2> QED BY <1>0, <2>1
<1>12. \A l \in 1..n : i[l] = j[l]
  <2>1. \A l \in (n - n + 1)..n : i[l] = j[l]
    BY <1>11 DEF S
  <2>2. n - n + 1 = 1
    BY <1>0
  <2> QED BY <2>1, <2>2
<1> QED BY <1>0, <1>12

(* contiguousOffset() gives different indices of a tensor different        *)
(* offsets, all inside the tensor.                                         *)
THEOREM OffsetsSeparate == Spec => []OffsetsAreDistinct
<1>1. ASSUME TypeOK
      PROVE  OffsetsAreDistinct
  <2> DEFINE shape == tensor.shape
             accepted == {index \in [DOMAIN shape -> -1 .. Half - 1] : ~IndexRefused(shape, index)}
  <2> SUFFICES ASSUME Numel(tensor) # Overflow
               PROVE  /\ \A index \in accepted : ContiguousOffset(shape, index) < Numel(tensor)
                      /\ \A i, j \in accepted :
                           ContiguousOffset(shape, i) = ContiguousOffset(shape, j) => i = j
    BY DEF OffsetsAreDistinct
  <2>1. shape \in Seq(Dims) /\ shape \in Seq(Int)
    BY <1>1, DimsAreIntegers DEF TypeOK
  <2>2. DOMAIN shape = 1..Len(shape) /\ Len(shape) \in Nat /\ \A i \in 1..Len(shape) : shape[i] \in Int
    BY <2>1, LenProperties
  <2> HIDE DEF shape
  <2>3. ASSUME NEW index \in accepted
        PROVE  Within(index, shape) /\ \A i \in 1..Len(shape) : shape[i] >= 1
    <3>1. index \in [DOMAIN shape -> -1 .. Half - 1] /\ ~IndexRefused(shape, index)
      OBVIOUS
    <3>2. \A i \in 1..Len(shape) : ~(index[i] < 0) /\ ~(index[i] >= shape[i]) /\ index[i] \in Int
      BY <2>2, <3>1, WordType DEF IndexRefused
    <3>3. index \in [DOMAIN shape -> Int]
      BY <3>1, WordType
    <3> QED BY <2>2, <3>2, <3>3 DEF Within
  <2>4. ASSUME \A i \in 1..Len(shape) : shape[i] >= 1
        PROVE  Addressable(shape) /\ Count(shape) = Numel(tensor)
    <3>1. CASE tensor.backing = "torch"
      BY <1>1, <2>1, <2>4, <3>1, WordType DEF TypeOK, Numel, Addressable, shape
    <3>2. CASE tensor.backing # "torch"
      <4>1. Numel(tensor) = CheckedNumel(shape)
        BY <3>2 DEF Numel, shape
      <4>2. \A i \in 1..Len(shape) : shape[i] >= 0
        BY <2>2, <2>4
      <4>3. CheckedNumel(shape) = Count(shape) /\ Count(shape) \in 0..(Word - 1)
        BY <2>1, <4>1, <4>2, NumelIsExact
      <4> QED BY <2>1, <2>4, <4>1, <4>3, WordType DEF Addressable
    <3> QED BY <3>1, <3>2
  <2> HIDE DEF accepted
  <2>5. ASSUME NEW index \in accepted
        PROVE  ContiguousOffset(shape, index) < Numel(tensor)
    <3>1. Within(index, shape) /\ Addressable(shape) /\ Count(shape) = Numel(tensor)
      BY <2>3, <2>4
    <3>2. PICK c : IsStrides(c, shape)
      BY <3>1, Strides
    <3>3. PICK h : PartialOffsets(h, c, shape, index) /\ ContiguousOffset(shape, index) = h[Len(shape)]
      BY <3>1, <3>2, Offsets
    <3>4. Len(shape) \in 0..Len(shape)
      BY <2>2
    <3>5. h[Len(shape)] + c[Len(shape)] <= c[0] /\ h[Len(shape)] \in Int
      BY <3>3, <3>4 DEF PartialOffsets
    <3>6. c[Len(shape)] = 1 /\ c[0] = Count(shape) /\ c[0] \in Int
      BY <2>2, <3>2 DEF IsStrides
    <3> QED BY <3>1, <3>3, <3>5, <3>6
  <2>6. ASSUME NEW i \in accepted, NEW j \in accepted,
               ContiguousOffset(shape, i) = ContiguousOffset(shape, j)
        PROVE  i = j
    BY <2>3, <2>4, <2>6, OffsetsDiffer
  <2> QED BY <2>5, <2>6
<1> QED BY <1>1, TensorsTyped, PTL DEF Spec

-----------------------------------------------------------------------------
(* The reshape operator *)

Several(target) == \E i, j \in Inferred(target) : i # j

LEMMA SeveralInferred ==
  ASSUME NEW target \in Seq(Dims)
  PROVE  Cardinality(Inferred(target)) > 1 <=> Several(target)
<1> DEFINE I == Inferred(target)
<1>1. IsFiniteSet(1..Len(target)) /\ I \in SUBSET (1..Len(target))
  <2>1. Len(target) \in Int /\ 1 \in Int /\ DOMAIN target = 1..Len(target)
    BY LenProperties
  <2>2. IsFiniteSet(1..Len(target))
    BY <2>1, FS_Interval
  <2> QED BY <2>1, <2>2 DEF Inferred
<1>2. IsFiniteSet(I)
  BY <1>1, FS_Subset
<1>3. Cardinality(I) \in Nat
  BY <1>2, FS_CardinalityType
<1> HIDE DEF I
<1>4. CASE I = {}
  <2>1. Cardinality(I) = 0
    BY <1>4, FS_EmptySet
  <2> QED BY <1>4, <2>1 DEF Several, I
<1>5. CASE \E x : I = {x}
  <2>1. Cardinality(I) = 1
    BY <1>2, <1>5, FS_Singleton
  <2>2. \A i, j \in I : i = j
    BY <1>5
  <2> QED BY <2>1, <2>2 DEF Several, I
<1>6. CASE I # {} /\ ~\E x : I = {x}
  <2>1. Cardinality(I) # 0
    BY <1>2, <1>6, FS_EmptySet
  <2>2. Cardinality(I) # 1
    BY <1>2, <1>6, FS_Singleton
  <2>3. PICK i \in I : TRUE
    BY <1>6
  <2>4. \E j \in I : i # j
    <3> SUFFICES ASSUME \A j \in I : i = j
                 PROVE  FALSE
      OBVIOUS
    <3>1. I = {i}
      BY <2>3
    <3> QED BY <1>6, <3>1
  <2> QED BY <1>3, <2>1, <2>2, <2>4 DEF Several, I
<1> QED BY <1>4, <1>5, <1>6

(* What ReshapeIsExact assumes of the two shapes, where the target is not  *)
(* malformed: K is the count of its sizes, N the count of the input.       *)
Legal(input, target, N, K) ==
  /\ input \in Seq(Dims) /\ target \in Seq(Dims) /\ target # <<>>
  /\ \A i \in 1..Len(target) : target[i] > 0 \/ target[i] = -1
  /\ ~Several(target)
  /\ N = Count(input) /\ N \in 0 .. Half - 1
  /\ K = Count(KnownSizes(target)) /\ K \in 1 .. Half - 1

(* A shape of nonnegative sizes that keeps the given sizes of the target.  *)
Fills(shape, target) ==
  /\ shape \in [DOMAIN target -> Int]
  /\ \A i \in DOMAIN target : shape[i] >= 0 /\ (target[i] # -1 => target[i] = shape[i])

LEMMA FillsCount ==
  ASSUME NEW target \in Seq(Dims), NEW shape, Fills(shape, target)
  PROVE  /\ shape \in Seq(Int) /\ Len(shape) = Len(target)
         /\ Inferred(target) = {} => Count(shape) = Count(KnownSizes(target))
         /\ \A j \in Inferred(target) :
              ~Several(target) => Count(shape) = shape[j] * Count(KnownSizes(target))
<1> DEFINE n == Len(target)
           known == KnownSizes(target)
<1>1. n \in Nat /\ DOMAIN target = 1..n /\ \A i \in 1..n : target[i] \in Int
  BY DimsAreIntegers, LenProperties
<1>2. shape \in [1..n -> Int] /\ \A i \in 1..n : target[i] # -1 => target[i] = shape[i]
  BY <1>1 DEF Fills
<1>3. shape \in Seq(Int) /\ Len(shape) = n /\ DOMAIN shape = 1..n
  BY <1>1, <1>2
<1>4. known \in Seq(Int) /\ Len(known) = n
  BY DimsAreIntegers, KnownWraps
<1>5. \A i \in 1..n : known[i] = IF target[i] = -1 THEN 1 ELSE target[i]
  BY DEF KnownSizes
<1>6. known \in [1..n -> Int]
  BY <1>4, LenProperties
<1> HIDE DEF n, known
<1>7. ASSUME Inferred(target) = {}
      PROVE  Count(shape) = Count(known)
  <2>1. \A i \in 1..n : target[i] # -1
    BY <1>1, <1>7 DEF Inferred
  <2>2. \A i \in 1..n : shape[i] = known[i]
    BY <1>2, <1>5, <2>1
  <2>3. shape = known
    <3> HIDE DEF n, known
    <3>1. shape = [i \in 1..n |-> shape[i]] /\ known = [i \in 1..n |-> known[i]]
      BY <1>2, <1>6
    <3>2. [i \in 1..n |-> shape[i]] = [i \in 1..n |-> known[i]]
      BY <2>2
    <3> QED BY <3>1, <3>2
  <2> QED BY <2>3
<1>8. ASSUME NEW j \in Inferred(target), ~Several(target)
      PROVE  Count(shape) = shape[j] * Count(known)
  <2>1. j \in 1..n /\ target[j] = -1 /\ known[j] = 1
    BY <1>1, <1>5 DEF Inferred
  <2>2. \A i \in 1..n : i # j => target[i] # -1
    BY <1>1, <1>8, <2>1 DEF Several, Inferred
  <2>3. \A i \in 1..n : i # j => shape[i] = known[i]
    BY <1>2, <1>5, <2>2
  <2>4. shape[j] \in Int
    BY <1>2, <2>1
  <2>5. shape = [known EXCEPT ![j] = shape[j]]
    BY <1>2, <1>6, <2>1, <2>3
  <2> QED BY <1>3, <1>4, <2>1, <2>3, <2>4, <2>5, CountReplaced
<1> QED BY <1>3, <1>7, <1>8 DEF known, n

(* The shape reshapeShape() builds from a legal target. *)
LEMMA ResolvedFills ==
  ASSUME NEW input, NEW target, NEW N, NEW K, Legal(input, target, N, K)
  PROVE  /\ Product(input) = N /\ Known(target) = K
         /\ ReshapeRefuses(input, target) <=> Inferred(target) # {} /\ N % K # 0
         /\ Fills(Resolved(input, target), target)
         /\ \A i \in Inferred(target) : Resolved(input, target)[i] = N \div K
<1>1. /\ input \in Seq(Int) /\ target \in Seq(Int) /\ DOMAIN target = 1..Len(target)
      /\ \A i \in 1..Len(target) : target[i] \in Int
  BY DimsAreIntegers, LenProperties DEF Legal
<1>2. N \in Dims /\ K \in Dims /\ N \in Nat /\ K \in Nat \ {0} /\ N \in Int
  BY WordType DEF Legal, Dims
<1>3. Product(input) = N
  BY <1>1, <1>2, ProductWraps, AsIntShift DEF Legal
<1>4. Known(target) = K
  <2>1. Known(target) = AsInt(Count(KnownSizes(target)))
    BY <1>1, KnownWraps
  <2> QED BY <1>2, <2>1, AsIntShift DEF Legal
<1>5. ~Malformed(target)
  <2>1. ~\E i \in DOMAIN target : target[i] <= 0 /\ target[i] # -1
    BY <1>1 DEF Legal
  <2> QED BY <2>1 DEF Malformed, Legal, Several
<1>6. Divides(K, N) <=> N % K = 0
  BY <1>2 DEF Divides
<1>7. ReshapeRefuses(input, target) <=> Inferred(target) # {} /\ N % K # 0
  BY <1>3, <1>4, <1>5, <1>6 DEF ReshapeRefuses
<1>8. Quotient(N, K) = N \div K
  BY <1>2 DEF Quotient
<1>9. N \div K \in Nat
  <2> DEFINE q == N \div K
             e == N % K
  <2>1. q \in Int /\ e \in 0..(K - 1) /\ N = K * q + e
    BY <1>2, ModDef
  <2> HIDE DEF q, e
  <2>2. q >= 0
    <3> SUFFICES ASSUME q < 0
                 PROVE  FALSE
      BY <2>1
    <3>1. -q >= 1 /\ -q \in Nat
      BY <2>1
    <3>2. \A x, y \in Nat : y >= 1 => x * y >= x
      OBVIOUS
    <3>3. K * (-q) >= K
      BY <1>2, <3>1, <3>2
    <3>4. K * (-q) = -(K * q) /\ K * q \in Int
      BY <1>2, <2>1
    <3> QED BY <1>2, <2>1, <3>3, <3>4
  <2> QED BY <2>1, <2>2 DEF q
<1>10. \A i \in DOMAIN target :
         Resolved(input, target)[i] = IF target[i] = -1 THEN N \div K ELSE target[i]
  BY <1>3, <1>4, <1>8 DEF Resolved
<1>11. Resolved(input, target) \in [DOMAIN target -> Int]
  <2>1. \A i \in DOMAIN target : (IF target[i] = -1 THEN N \div K ELSE target[i]) \in Int
    BY <1>1, <1>9
  <2> QED BY <1>3, <1>4, <1>8, <2>1 DEF Resolved
<1>12. Fills(Resolved(input, target), target)
  <2>1. \A i \in DOMAIN target : Resolved(input, target)[i] >= 0
    BY <1>1, <1>9, <1>10 DEF Legal
  <2> QED BY <1>10, <1>11, <2>1 DEF Fills
<1> QED BY <1>3, <1>4, <1>7, <1>10, <1>12 DEF Inferred

(* Of a legal target reshapeShape() gives what the rule says. *)
LEMMA ReshapeResolves ==
  ASSUME NEW input, NEW target, NEW N, NEW K, Legal(input, target, N, K)
  PROVE  ReshapeShape(input, target) = Resolutions(input, target)
<1> DEFINE R == Resolved(input, target)
           known == KnownSizes(target)
<1>1. /\ Product(input) = N
      /\ ReshapeRefuses(input, target) <=> Inferred(target) # {} /\ N % K # 0
      /\ Fills(R, target) /\ \A i \in Inferred(target) : R[i] = N \div K
  BY ResolvedFills
<1>2. /\ target \in Seq(Dims) /\ DOMAIN target = 1..Len(target) /\ ~Several(target)
      /\ Count(input) = N /\ N \in Nat /\ N < Half /\ Half \in Nat
      /\ Count(known) = K /\ K \in Nat \ {0} /\ K < Half
      /\ \A i \in DOMAIN target : target[i] > 0 \/ target[i] = -1
  BY WordType, LenProperties DEF Legal
<1> HIDE DEF R, known
<1>3. \A shape : Fills(shape, target) =>
        /\ shape \in Seq(Int) /\ Len(shape) = Len(target)
        /\ Inferred(target) = {} => Count(shape) = K
        /\ \A j \in Inferred(target) : Count(shape) = shape[j] * K
  BY <1>2, FillsCount DEF known
<1>4. \A shape : shape \in Resolutions(input, target) => Fills(shape, target) /\ Count(shape) = N
  BY <1>2 DEF Resolutions, Fills
<1>5. \A i \in Inferred(target) : i \in DOMAIN target /\ target[i] = -1 /\ R[i] \in Int
  BY <1>1 DEF Inferred, Fills
(* What fills the target with the right count is what was resolved. *)
<1>6. ASSUME NEW shape, Fills(shape, target), Count(shape) = N
      PROVE  shape = R /\ ~ReshapeRefuses(input, target)
  <2>1. \A i \in DOMAIN target : i \notin Inferred(target) => shape[i] = R[i]
    BY <1>1, <1>6 DEF Fills, Inferred
  <2>2. ASSUME NEW j \in Inferred(target)
        PROVE  shape[j] = N \div K /\ N % K = 0
    <3>1. N = shape[j] * K /\ shape[j] \in Int
      BY <1>3, <1>5, <1>6 DEF Fills
    <3> DEFINE q == shape[j]
    <3>2. q \in Int /\ K \in Nat \ {0} /\ N = q * K
      BY <1>2, <3>1
    <3> HIDE DEF q
    <3>3. N = K * q + 0 /\ 0 \in 0..(K - 1)
      BY <3>2
    <3>4. (K * q + 0) % K = 0 /\ (K * q + 0) \div K = q
      BY <3>2, <3>3, ModUnique
    <3> QED BY <3>3, <3>4 DEF q
  <2>3. \A i \in DOMAIN target : shape[i] = R[i]
    BY <1>1, <2>1, <2>2
  <2>4. shape = R
    BY <1>1, <1>6, <2>3 DEF Fills
  <2> QED BY <1>1, <2>2, <2>4
(* What is resolved and not refused satisfies the rule. *)
<1>7. ASSUME R \in ReshapeShape(input, target)
      PROVE  R \in Resolutions(input, target)
  <2>1. ~ReshapeRefuses(input, target) /\ Product(R) = N
    BY <1>1, <1>7 DEF ReshapeShape, Throws, R
  <2>2. Count(R) = N
    <3>1. CASE Inferred(target) = {}
      <4>1. Count(R) = K /\ R \in Seq(Int)
        BY <1>1, <1>3, <3>1
      <4>2. Product(R) = K
        <5>1. K \in Dims /\ K \in Int
          BY <1>2 DEF Dims
        <5> QED BY <4>1, <5>1, ProductWraps, AsIntShift
      <4> QED BY <2>1, <4>1, <4>2
    <3>2. CASE Inferred(target) # {}
      <4>1. PICK j \in Inferred(target) : TRUE
        BY <3>2
      <4>2. Count(R) = (N \div K) * K /\ N % K = 0
        BY <1>1, <1>3, <2>1, <4>1
      <4>3. N \in Int /\ K \in Nat \ {0} /\ K \in Int
        BY <1>2
      <4>4. N = K * (N \div K) + (N % K) /\ N \div K \in Int
        BY <4>3, ModDef
      <4> DEFINE q == N \div K
      <4>5. N = K * q + 0 /\ q \in Int /\ Count(R) = q * K
        BY <4>2, <4>4
      <4> HIDE DEF q
      <4> QED BY <4>3, <4>5
    <3> QED BY <3>1, <3>2
  <2>3. ASSUME NEW i \in DOMAIN target
        PROVE  R[i] \in 0 .. Half - 1
    <3>0. R[i] \in Int /\ R[i] >= 0
      BY <1>1 DEF Fills
    <3>1. CASE i \notin Inferred(target)
      <4>1. R[i] = target[i] /\ target[i] \in Dims
        BY <1>1, <1>2, <3>1, DimsAreIntegers DEF Fills, Inferred
      <4> QED BY <1>2, <3>0, <4>1 DEF Dims
    <3>2. CASE i \in Inferred(target)
      <4>1. N = R[i] * K
        BY <1>1, <1>3, <2>2, <3>2
      <4>2. \A x, y \in Nat : y >= 1 => x * y >= x
        OBVIOUS
      <4>3. R[i] * K >= R[i]
        BY <1>2, <3>0, <4>2
      <4> QED BY <1>2, <3>0, <4>1, <4>3
    <3> QED BY <3>1, <3>2
  <2>4. R \in [DOMAIN target -> 0 .. Half - 1]
    BY <1>1, <2>3 DEF Fills
  <2>5. \A i \in DOMAIN target : target[i] # -1 => target[i] = R[i] /\ target[i] > 0
    BY <1>1, <1>2 DEF Fills
  <2> QED BY <1>2, <2>2, <2>4, <2>5 DEF Resolutions
<1>8. ASSUME NEW shape \in Resolutions(input, target)
      PROVE  shape \in ReshapeShape(input, target)
  <2>1. Fills(shape, target) /\ Count(shape) = N
    BY <1>4
  <2>2. shape = R /\ ~ReshapeRefuses(input, target) /\ shape \in Seq(Int)
    BY <1>3, <1>6, <2>1
  <2>3. Product(R) = N
    <3>1. N \in Dims /\ N \in Int
      BY <1>2 DEF Dims
    <3> QED BY <2>1, <2>2, <3>1, ProductWraps, AsIntShift
  <2> QED BY <1>1, <2>2, <2>3 DEF ReshapeShape, R
<1>9. \A shape \in ReshapeShape(input, target) : shape = R
  BY DEF ReshapeShape, Throws, R
<1> QED BY <1>7, <1>8, <1>9

(* A tensor takes any shape of its count. *)
LEMMA ViewOfCount ==
  ASSUME NEW t, t.backing = "torch" => Count(t.shape) = Numel(t), Numel(t) \in 0 .. Half - 1,
         NEW shape \in Seq(Int), shape # <<>>, \A i \in 1..Len(shape) : shape[i] >= 0,
         Count(shape) = Numel(t)
  PROVE  WithShape(t, shape) = {[t EXCEPT !.shape = shape]}
<1>1. Normal(shape) = shape
  BY DEF Normal
<1>2. ~HasNegative(shape)
  BY LenProperties DEF HasNegative
<1>3. Numel(t) # Overflow
  BY WordType DEF Overflow
<1>4. Requested(shape) = Numel(t)
  <2>1. Numel(t) \in 0..(Word - 1) /\ Numel(t) \in Int
    BY WordType
  <2> QED BY <2>1, RequestedWraps, AsSizeShift
<1>5. ~WithShapeRefuses(t, shape)
  BY <1>2, <1>3, <1>4 DEF WithShapeRefuses
<1>6. ~AtenRefuses(t, shape)
  BY DEF AtenRefuses
<1> QED BY <1>1, <1>5, <1>6 DEF WithShape

(* The condition of ReshapeIsExact, of a tensor and a target. *)
Exact(t, target) ==
  /\ t \in Tensors /\ t.shape # <<>> /\ Fits(t.shape) /\ Numel(t) # Overflow
  /\ target \in Seq(Dims) /\ target # <<>> /\ Fits(GivenSizes(target))

LEMMA ExactNumel ==
  ASSUME NEW t, NEW target, Exact(t, target)
  PROVE  Numel(t) = Count(t.shape) /\ Count(t.shape) \in 0 .. Half - 1
<1> DEFINE shape == t.shape
<1>1. shape \in Seq(Dims) /\ shape \in Seq(Int) /\ ~HasNegative(shape) /\ Count(shape) < Half
  BY DimsAreIntegers DEF Exact, Tensors, Fits
<1> HIDE DEF shape
<1>2. \A i \in 1..Len(shape) : shape[i] >= 0
  <2>1. \A i \in 1..Len(shape) : shape[i] \in Int /\ i \in DOMAIN shape
    BY <1>1, LenProperties
  <2> QED BY <1>1, <2>1 DEF HasNegative
<1>3. Count(shape) \in 0 .. Half - 1
  <2>1. Count(shape) \in Nat
    BY <1>1, <1>2, CountSign
  <2> QED BY <1>1, <2>1, WordType
<1>4. CASE t.backing = "torch"
  BY <1>3, <1>4 DEF Numel, shape
<1>5. CASE t.backing # "torch"
  <2>1. Numel(t) = CheckedNumel(shape) /\ Numel(t) # Overflow
    BY <1>5 DEF Numel, shape, Exact
  <2>2. CheckedNumel(shape) = Count(shape)
    BY <1>1, <1>2, <2>1, NumelIsExact
  <2> QED BY <1>3, <2>1, <2>2 DEF shape
<1> QED BY <1>4, <1>5

LEMMA ExactIsLegal ==
  ASSUME NEW t, NEW target, Exact(t, target), ~Malformed(target)
  PROVE  Legal(t.shape, target, Count(t.shape), Count(KnownSizes(target)))
<1> DEFINE known == KnownSizes(target)
<1>1. /\ t.shape \in Seq(Dims) /\ target \in Seq(Dims) /\ target # <<>>
      /\ Count(t.shape) \in 0 .. Half - 1
  BY ExactNumel DEF Exact, Tensors
<1>2. DOMAIN target = 1..Len(target) /\ \A i \in 1..Len(target) : target[i] \in Int
  BY <1>1, DimsAreIntegers, LenProperties
<1>3. \A i \in 1..Len(target) : target[i] > 0 \/ target[i] = -1
  <2>1. \A i \in 1..Len(target) : ~(target[i] <= 0 /\ target[i] # -1)
    BY <1>2 DEF Malformed
  <2> QED BY <1>2, <2>1
<1>4. ~Several(target)
  BY DEF Malformed, Several
<1>5. GivenSizes(target) = known
  <2>1. \A i \in 1..Len(target) : (target[i] > 0) <=> (target[i] # -1)
    BY <1>2, <1>3
  <2> QED BY <1>2, <2>1 DEF GivenSizes, KnownSizes
<1>6. known \in Seq(Int) /\ Len(known) = Len(target)
  BY <1>1, DimsAreIntegers, KnownWraps
<1>7. \A i \in 1..Len(target) : known[i] >= 0 /\ known[i] # 0
  BY <1>2, <1>3 DEF KnownSizes
<1> HIDE DEF known
<1>8. Count(known) \in Nat /\ Count(known) >= 1
  BY <1>6, <1>7, CountSign
<1>9. Count(known) < Half
  BY <1>5 DEF Exact, Fits
<1>10. Count(known) \in 1 .. Half - 1
  BY <1>8, <1>9, WordType
<1> QED BY <1>1, <1>3, <1>4, <1>10 DEF Legal, known

LEMMA ReshapedShapes ==
  ASSUME NEW t, NEW target, Exact(t, target)
  PROVE  {r.shape : r \in Reshaped(t, target)} =
           IF Cardinality(Inferred(target)) > 1 THEN {} ELSE Resolutions(t.shape, target)
<1>1. target \in Seq(Dims) /\ t \in Tensors
  BY DEF Exact
<1>2. Cardinality(Inferred(target)) > 1 <=> Several(target)
  BY <1>1, SeveralInferred
<1>3. CASE Malformed(target)
  <2>1. ReshapeShape(t.shape, target) = {}
    BY <1>3 DEF ReshapeShape, ReshapeRefuses, Throws
  <2>2. Reshaped(t, target) = {}
    BY <2>1 DEF Reshaped
  <2>3. Several(target) \/ Resolutions(t.shape, target) = {}
    <3>1. CASE \E i \in DOMAIN target : target[i] <= 0 /\ target[i] # -1
      <4>1. PICK i \in DOMAIN target : target[i] <= 0 /\ target[i] # -1
        BY <3>1
      <4>2. target[i] \in Int
        BY <1>1, DimsAreIntegers, LenProperties
      <4>3. ~(target[i] > 0)
        BY <4>1, <4>2
      <4> QED BY <4>1, <4>3 DEF Resolutions
    <3>2. CASE Several(target)
      BY <3>2
    <3> QED BY <1>3, <3>1, <3>2 DEF Malformed, Several
  <2> QED BY <1>2, <2>2, <2>3
<1>4. CASE ~Malformed(target)
  <2> DEFINE N == Count(t.shape)
             K == Count(KnownSizes(target))
  <2>1. Legal(t.shape, target, N, K)
    BY <1>4, ExactIsLegal
  <2>2. ReshapeShape(t.shape, target) = Resolutions(t.shape, target)
    BY <2>1, ReshapeResolves
  <2>3. Numel(t) = N /\ N \in 0 .. Half - 1
    BY ExactNumel
  <2>4. ~Several(target)
    BY <2>1 DEF Legal
  <2> HIDE DEF K
  <2>5. ASSUME NEW shape \in Resolutions(t.shape, target)
        PROVE  WithShape(t, shape) = {[t EXCEPT !.shape = shape]}
    <3>1. shape \in [DOMAIN target -> 0 .. Half - 1] /\ Count(shape) = N
      BY DEF Resolutions
    <3>2. DOMAIN target = 1..Len(target) /\ Len(target) \in Nat /\ Len(target) # 0
      BY <1>1, LenProperties, EmptySeq DEF Exact
    <3>3. \A k \in 0 .. Half - 1 : k \in Int /\ k >= 0
      BY WordType
    <3>4. shape \in [1..Len(target) -> Int]
      BY <3>1, <3>2, <3>3
    <3>5. shape \in Seq(Int) /\ Len(shape) = Len(target)
      BY <3>2, <3>4
    <3>6. \A i \in 1..Len(shape) : shape[i] >= 0
      BY <3>1, <3>2, <3>3, <3>5
    <3>7. shape # <<>>
      BY <3>2, <3>5
    <3>8. Count(shape) = Numel(t) /\ Numel(t) \in 0 .. Half - 1
      BY <2>3, <3>1
    <3>9. t.backing = "torch" => Count(t.shape) = Numel(t)
      BY <2>3
    <3> HIDE DEF N
    <3> QED BY <3>5, <3>6, <3>7, <3>8, <3>9, ViewOfCount
  <2>6. Reshaped(t, target) = {[t EXCEPT !.shape = shape] : shape \in Resolutions(t.shape, target)}
    BY <2>2, <2>5 DEF Reshaped
  <2>7. \A shape : [t EXCEPT !.shape = shape].shape = shape
    BY <1>1 DEF Tensors
  <2>8. {r.shape : r \in Reshaped(t, target)} = Resolutions(t.shape, target)
    <3>1. ASSUME NEW r \in Reshaped(t, target)
          PROVE  r.shape \in Resolutions(t.shape, target)
      <4>1. PICK shape \in Resolutions(t.shape, target) : r = [t EXCEPT !.shape = shape]
        BY <2>6
      <4> QED BY <2>7, <4>1
    <3>2. ASSUME NEW shape \in Resolutions(t.shape, target)
          PROVE  \E r \in Reshaped(t, target) : r.shape = shape
      <4>1. [t EXCEPT !.shape = shape] \in Reshaped(t, target)
        BY <2>6
      <4> QED BY <2>7, <4>1
    <3> QED BY <3>1, <3>2
  <2> QED BY <1>2, <2>4, <2>8
<1> QED BY <1>3, <1>4

(* Where the sizes fit their integers, the reshape operator gives exactly  *)
(* the shape the rule in the comment of reshapeShape() describes, and      *)
(* throws when there is none or two sizes would have to be inferred.       *)
THEOREM ReshapesExactly == Spec => []ReshapeIsExact
<1>1. Init => ReshapeIsExact
  BY DEF Init, ReshapeIsExact
<1>2. ASSUME TypeOK, ReshapeIsExact, [Next]_vars
      PROVE  ReshapeIsExact'
  <2>0. tensor \in Tensors
    BY <1>2 DEF TypeOK, Tensors
  <2>1. \A argument \in Arguments : argument \in Seq(Dims)
    BY TensorsAssumption
  <2>2. ASSUME NEW argument \in Arguments, Allocate(argument)
        PROVE  ReshapeIsExact'
    BY <2>2 DEF Allocate, Returns, ReshapeIsExact
  <2>3. ASSUME NEW argument \in Arguments, NEW isNull \in BOOLEAN, External(argument, isNull)
        PROVE  ReshapeIsExact'
    BY <2>3 DEF External, Returns, ReshapeIsExact
  <2>4. ASSUME NEW argument \in Arguments, TakeView(argument)
        PROVE  ReshapeIsExact'
    BY <2>4 DEF TakeView, Returns, ReshapeIsExact
  <2>5. ASSUME NEW argument \in Arguments, Reshape(argument)
        PROVE  ReshapeIsExact'
    <3>1. /\ last'.from = tensor /\ last'.argument = argument
          /\ last'.results = Reshaped(tensor, argument)
      BY <2>5 DEF Reshape, Returns
    <3>2. Exact(tensor, argument) =>
            {t.shape : t \in Reshaped(tensor, argument)} =
              IF Cardinality(Inferred(argument)) > 1 THEN {} ELSE Resolutions(tensor.shape, argument)
      BY ReshapedShapes
    <3> QED BY <2>0, <2>1, <3>1, <3>2 DEF ReshapeIsExact, Exact
  <2>6. CASE Move
    BY <2>6 DEF Move, Returns, ReshapeIsExact
  <2>7. CASE UNCHANGED vars
    BY <1>2, <2>7 DEF ReshapeIsExact, vars
  <2> QED BY <1>2, <2>2, <2>3, <2>4, <2>5, <2>6, <2>7 DEF Next
<1> QED BY <1>1, <1>2, TensorsTyped, PTL DEF Spec

-----------------------------------------------------------------------------
(* The trace and its graph *)

IsSeq(s) == \E S : s \in Seq(S)

(* A tensor of an actual run beside that of the example: the batch may      *)
(* differ, unless it is all there is.                                      *)
Alike(shape, example) ==
  /\ shape \in Seq(Sizes) /\ Len(shape) = Len(example)
  /\ \A k \in 2 .. Len(example) : shape[k] = example[k]
  /\ Len(example) = 1 => shape[1] = example[1]

IsValue(v) == v = Value(v.shape, v.term) /\ v.shape \in Seq(Sizes) /\ InMemory(v.shape)

Parameter(name) == Value(RootParams[name], Leaf(<<name, "parameter">>))

(* What the entries of fx are: the input, *)
IsInput(i) ==
  \E name \in InputNames, example \in Examples, shape \in Seq(Sizes) :
    /\ fx[i].base = name /\ fx[i].env = <<name>>
    /\ fx[i].example = Value(example, Leaf(<<name>>))
    /\ fx[i].actual = {Value(shape, Leaf(<<name>>))}
    /\ Alike(shape, example) /\ InMemory(shape)

(* a parameter of the model itself, *)
IsParam(i) ==
  \E name \in DOMAIN RootParams :
    /\ fx[i].env = <<name>> /\ <<name>> \in DOMAIN weights
    /\ fx[i].example = Parameter(name) /\ fx[i].actual = {Parameter(name)}

(* or a call on entry j, which has a node.                                 *)
CallsModule(m, j, i) ==
  /\ ~Unsupported(m) /\ Dropped(m) \subseteq lost
  /\ fx[i].example \in TorchModule(m, fx[j].example)
  /\ fx[i].actual = UNION {TorchModule(m, x) : x \in fx[j].actual}

CallsView(name, target, j, i) ==
  /\ name = "view" => target # <<>>
  /\ fx[i].example \in Views(name, target, fx[j].example)
  /\ fx[i].actual = UNION {Views(name, target, x) : x \in fx[j].actual}

(* The entries before i that FX names after the same thing.                 *)
Earlier(s, i) == {k \in 1 .. i - 1 : s[k].base = s[i].base}

(* The name FX gives entry i of a trace. *)
NameIn(s, i) ==
  IF Earlier(s, i) = {} THEN <<s[i].base>>
  ELSE <<s[i].base, "_", Cardinality(Earlier(s, i))>>

NameAt(i) == NameIn(fx, i)

Calls(n, j, i) ==
  \/ \E m \in Modules :
       /\ CallsModule(m, j, i)
       /\ nodes[n] = Node(OpOf[m.type], <<fx[j].env>> \o ParamNames(m), fx[i].env,
                          Attrs(m, fx[i].example))
       /\ \A k \in DOMAIN ParamNames(m) : ParamNames(m)[k] \in DOMAIN weights
  \/ \E name \in {"flatten", "view"}, target \in ViewTargets \cup {<<>>} :
       /\ CallsView(name, target, j, i)
       /\ nodes[n] = Node("reshape", <<fx[j].env>>, fx[i].env, <<fx[i].example.shape>>)

(* Node n is the call of entry i on entry j. *)
Lowers(n, j, i) == fx[i].env = NameAt(i) /\ Calls(n, j, i)

(* Entry i has a value before node n runs. *)
Settled(n, i) ==
  \/ i = 1
  \/ IsParam(i)
  \/ \E k \in 1 .. n - 1, j \in DOMAIN fx : Lowers(k, j, i)

Unchanging(i) == fx[i].actual = {fx[i].example}

IsParameterLeaf(term) ==
  term.args = <<>> /\ \E name \in DOMAIN RootParams : term = Leaf(<<name, "parameter">>)

(* How far the generator, the export and the run have got.                  *)
Phases ==
  /\ plugin \in {"none", "built", "needs scratch"}
  /\ phase \in {"trace", "raised", "run", "threw", "done"}
  /\ lost \subseteq {"dilation", "groups", "inplace", "width"}
  /\ IF phase \in {"trace", "raised"} THEN next = 0 ELSE next \in 1 .. Len(nodes) + 1
  /\ phase \in {"run", "threw", "done"} => fx # <<>>
  /\ fx = <<>> => nodes = <<>>

(* The trace: its first entry is the input, each other one a parameter or a *)
(* call that has a node; on the example itself every value is the           *)
(* example's.                                                               *)
Entries ==
  /\ fx # <<>> => IsInput(1)
  /\ \A i \in DOMAIN fx :
       /\ IsValue(fx[i].example)
       /\ IsParameterLeaf(fx[i].example.term) => Unchanging(i)
       /\ Unchanging(1) => Unchanging(i)
       /\ Settled(Len(nodes) + 1, i)

(* The graph: each node is a call whose argument has a value before it.     *)
Lowered ==
  /\ \A n \in DOMAIN nodes : \E i, j \in DOMAIN fx : Lowers(n, j, i) /\ Settled(n, j)
  /\ \A a, b \in DOMAIN nodes : nodes[a].output = nodes[b].output => a = b

(* What is saved under a parameter's name is the parameter.                 *)
Weights ==
  /\ \A m \in Modules, which \in {"weight", "bias", "mean", "var"} :
       <<m.path, which>> \in DOMAIN weights => weights[<<m.path, which>>] = Param(m, which)
  /\ \A name \in DOMAIN RootParams :
       <<name>> \in DOMAIN weights => weights[<<name>>] = Parameter(name)
  /\ \A i \in DOMAIN outputs : outputs[i] \in DOMAIN fx

(* The engine holds what the model computes, as far as it has got. *)
Agrees(i) ==
  /\ fx[i].env \in DOMAIN tensors
  /\ LET v == tensors[fx[i].env]
     IN  IsValue(v) /\ fx[i].actual = {v} /\ Alike(v.shape, fx[i].example.shape)

(* The run: every value that has been computed is the model's, every weight *)
(* is there, and a node at which the engine throws computes nothing, though *)
(* all it holds in ints fits.                                               *)
Running ==
  /\ \A i \in DOMAIN fx : Settled(next, i) => Agrees(i)
  /\ \A m \in Modules, which \in {"weight", "bias", "mean", "var"} :
       <<m.path, which>> \in DOMAIN weights =>
         /\ <<m.path, which>> \in DOMAIN tensors
         /\ tensors[<<m.path, which>>] = Param(m, which)
  /\ phase = "done" => next = Len(nodes) + 1
  /\ phase = "threw" => next \in DOMAIN nodes
  /\ phase = "threw" /\ HasInputs(next) =>
       /\ ~Wide(nodes[next].op, Inputs(next), nodes[next].attrs)
       /\ Compute(nodes[next].op, Inputs(next), nodes[next].attrs) = {}

(* The run needs an export that lost nothing and whose names do not clash.  *)
FxInv ==
  /\ IsSeq(fx) /\ IsSeq(nodes)
  /\ Phases /\ Entries /\ Lowered /\ Weights
  /\ phase \in {"run", "threw", "done"} /\ lost = {} /\ ~Clash => Running

-----------------------------------------------------------------------------
(* Shapes without zeros *)

LEMMA SizesCount ==
  ASSUME NEW shape \in Seq(Sizes)
  PROVE  /\ shape \in Seq(Int) /\ Count(shape) \in Sizes
         /\ Len(shape) \in Nat /\ DOMAIN shape = 1 .. Len(shape)
         /\ shape \in [1 .. Len(shape) -> Sizes]
<1>1. /\ Len(shape) \in Nat /\ DOMAIN shape = 1 .. Len(shape)
      /\ shape \in [1 .. Len(shape) -> Sizes]
  BY LenProperties
<1>2. shape \in Seq(Int)
  BY <1>1 DEF Sizes
<1>3. \A i \in 1 .. Len(shape) : shape[i] >= 0 /\ shape[i] # 0
  BY <1>1 DEF Sizes
<1>4. Count(shape) \in Nat /\ Count(shape) >= 1
  BY <1>2, <1>3, CountSign
<1> QED BY <1>1, <1>2, <1>4 DEF Sizes

LEMMA ZeroCount ==
  ASSUME NEW shape \in Seq(Int), NEW j \in 1 .. Len(shape), shape[j] = 0
  PROVE  Count(shape) = 0
<1> DEFINE ones == [shape EXCEPT ![j] = 1]
<1>1. Len(shape) \in Nat /\ DOMAIN shape = 1 .. Len(shape) /\ shape \in [1 .. Len(shape) -> Int]
  BY LenProperties
<1>2. ones \in [1 .. Len(shape) -> Int] /\ ones[j] = 1
      /\ \A i \in 1 .. Len(shape) : i # j => ones[i] = shape[i]
  BY <1>1
<1> HIDE DEF ones
<1>3. ones \in Seq(Int) /\ Len(ones) = Len(shape)
  BY <1>1, <1>2
<1>4. Count(shape) = shape[j] * Count(ones)
  BY <1>2, <1>3, CountReplaced
<1>5. Count(ones) \in Int
  BY <1>3, CountType
<1> QED BY <1>4, <1>5

(* Shapes that are alike and of the same count are the same. *)
LEMMA AlikeSame ==
  ASSUME NEW shape, NEW example \in Seq(Sizes), Alike(shape, example),
         Count(shape) = Count(example)
  PROVE  shape = example
<1>1. /\ shape \in Seq(Sizes) /\ Len(shape) = Len(example)
      /\ shape \in Seq(Int) /\ example \in Seq(Int)
      /\ Len(example) \in Nat
      /\ shape \in [1 .. Len(example) -> Sizes] /\ example \in [1 .. Len(example) -> Sizes]
  BY SizesCount DEF Alike
<1>2. ASSUME Len(example) > 1
      PROVE  shape[1] = example[1]
  <2> DEFINE tail == Tail(example)
  <2>1. tail \in Seq(Sizes) /\ Len(tail) = Len(example) - 1
        /\ \A i \in 1 .. Len(tail) : tail[i] = example[i + 1]
    BY <1>1, <1>2, HeadTailProperties
  <2> HIDE DEF tail
  <2>2. \A i \in 1 .. Len(tail) : tail[i] = shape[i + 1]
    BY <1>1, <2>1 DEF Alike
  <2>3. tail \in Seq(Int) /\ Count(tail) \in Sizes
    BY <2>1, SizesCount
  <2>4. Len(example) = Len(tail) + 1 /\ Len(shape) = Len(tail) + 1
    BY <1>1, <2>1
  <2>5. Count(example) = example[1] * Count(tail)
    BY <1>1, <2>1, <2>3, <2>4, CountTail
  <2>6. Count(shape) = shape[1] * Count(tail)
    BY <1>1, <2>2, <2>3, <2>4, CountTail
  <2>7. \A a, b \in Nat, c \in Sizes : a * c = b * c => a = b
    BY DEF Sizes
  <2>8. shape[1] \in Nat /\ example[1] \in Nat
    BY <1>1, <1>2 DEF Sizes
  <2> QED BY <2>3, <2>5, <2>6, <2>7, <2>8
<1>3. \A i \in 1 .. Len(example) : shape[i] = example[i]
  BY <1>1, <1>2 DEF Alike
<1> QED BY <1>1, <1>3, SeqEqual

LEMMA AlikeItself == \A shape \in Seq(Sizes) : Alike(shape, shape)
BY DEF Alike

(* A shape of one dimension. *)
LEMMA CountOne ==
  ASSUME NEW c \in Sizes
  PROVE  <<c>> \in Seq(Sizes) /\ <<c>> \in Seq(Int) /\ Count(<<c>>) = c
<1> DEFINE none == <<>>
<1>1. none \in Seq(Int) /\ Len(none) = 0 /\ <<c>> \in Seq(Sizes) /\ <<c>> \in Seq(Int)
      /\ Len(<<c>>) = 1 /\ <<c>>[1] = c
  BY DEF Sizes
<1>2. Count(none) = 1
  <2>1. PICK f : CountRun(f, none) /\ Count(none) = f[Len(none)]
    BY <1>1, CountRuns
  <2> QED BY <1>1, <2>1 DEF CountRun, IsRun
<1> DEFINE one == <<c>>
<1>3. Count(one) = c * Count(none)
  <2> HIDE DEF none, one
  <2>1. /\ one \in Seq(Int) /\ Len(one) = Len(none) + 1 /\ one[1] = c
        /\ \A i \in 1 .. Len(none) : none[i] = one[i + 1]
    BY <1>1 DEF one
  <2>2. Count(one) = one[1] * Count(none)
    BY <1>1, <2>1, CountTail
  <2> QED BY <2>1, <2>2
<1> QED BY <1>1, <1>2, <1>3 DEF Sizes

LEMMA CollapseKeeps ==
  ASSUME NEW shape \in Seq(Sizes), NEW start \in {0, 1}, start <= Len(shape)
  PROVE  /\ Collapse(shape, start) \in Seq(Sizes) /\ Collapse(shape, start) # <<>>
         /\ Count(Collapse(shape, start)) = Count(shape)
<1> DEFINE rest == SubSeq(shape, start + 1, Len(shape))
           front == SubSeq(shape, 1, start)
<1>1. Len(shape) \in Nat /\ shape \in Seq(Int) /\ shape \in [1 .. Len(shape) -> Sizes]
  BY SizesCount
<1>2. rest \in Seq(Sizes) /\ Len(rest) = Len(shape) - start
      /\ \A i \in 1 .. Len(rest) : rest[i] = shape[start + i]
  <2>1. \A i \in (start + 1) .. Len(shape) : shape[i] \in Sizes
    BY <1>1
  <2>2. /\ rest \in Seq(Sizes)
        /\ Len(rest) = IF start + 1 <= Len(shape) THEN Len(shape) - (start + 1) + 1 ELSE 0
        /\ \A i \in 1 .. Len(shape) - (start + 1) + 1 : rest[i] = shape[(start + 1) + i - 1]
    BY <1>1, <2>1, SubSeqProperties
  <2> HIDE DEF rest
  <2>3. Len(rest) = Len(shape) - start
    <3> DEFINE n == Len(shape)
    <3>1. n \in Nat /\ start \in Nat /\ start <= n
      BY <1>1
    <3>2. Len(rest) = IF start + 1 <= n THEN n - (start + 1) + 1 ELSE 0
      BY <2>2
    <3> HIDE DEF n
    <3> QED BY <3>1, <3>2 DEF n
  <2>4. ASSUME NEW i \in 1 .. Len(rest)
        PROVE  rest[i] = shape[start + i]
    <3>1. i \in 1 .. Len(shape) - (start + 1) + 1 /\ (start + 1) + i - 1 = start + i
      BY <1>1, <2>3
    <3> QED BY <2>2, <3>1
  <2> QED BY <2>2, <2>3, <2>4
<1>3. rest \in Seq(Int) /\ Count(rest) \in Sizes
  BY <1>2, SizesCount
<1>4. front \in Seq(Sizes) /\ Len(front) = start /\ (start = 1 => front[1] = shape[1])
  BY <1>1, SubSeqProperties
<1> HIDE DEF rest, front
<1>5. \A c \in Sizes : <<c>> \in Seq(Sizes) /\ <<c>> \in Seq(Int) /\ Count(<<c>>) = c
  BY CountOne
<1>6. CASE start = 0
  <2>1. front = <<>> /\ Len(rest) = Len(shape)
    BY <1>1, <1>2, <1>4, <1>6, EmptySeq
  <2>2. rest = shape
    BY <1>1, <1>2, <1>6, <2>1
  <2>3. Collapse(shape, start) = front \o <<Count(rest)>>
    BY DEF Collapse, front, rest
  <2>4. <<Count(rest)>> \in Seq(Sizes)
    BY <1>3, <1>5
  <2>5. Collapse(shape, start) = <<Count(rest)>>
    BY <2>1, <2>3, <2>4, ConcatEmptySeq
  <2>6. \A c : <<c>> # <<>>
    OBVIOUS
  <2> QED BY <1>3, <1>5, <2>2, <2>5, <2>6
<1>7. CASE start = 1
  <2>1. front = <<shape[1]>>
    BY <1>1, <1>4, <1>7
  <2>2. Collapse(shape, start) = <<shape[1], Count(rest)>>
    <3>1. Collapse(shape, start) = front \o <<Count(rest)>>
      BY DEF Collapse, front, rest
    <3>2. \A a, b \in Sizes : <<a>> \o <<b>> = <<a, b>>
      <4> TAKE a, b \in Sizes
      <4>1. <<a>> \in Seq(Sizes) /\ <<b>> \in Seq(Sizes) /\ <<a, b>> \in Seq(Sizes)
            /\ Len(<<a>>) = 1 /\ Len(<<b>>) = 1 /\ Len(<<a, b>>) = 2
            /\ <<a>>[1] = a /\ <<b>>[1] = b /\ <<a, b>>[1] = a /\ <<a, b>>[2] = b
        OBVIOUS
      <4> DEFINE x == <<a>>
                 y == <<b>>
                 xy == <<a, b>>
      <4> HIDE DEF x, y, xy
      <4>2. x \o y \in Seq(Sizes) /\ Len(x \o y) = 2 /\ (x \o y)[1] = a /\ (x \o y)[2] = b
        <5>1. x \in Seq(Sizes) /\ y \in Seq(Sizes) /\ Len(x) = 1 /\ Len(y) = 1
              /\ x[1] = a /\ y[1] = b
          BY <4>1 DEF x, y
        <5>2. /\ x \o y \in Seq(Sizes) /\ Len(x \o y) = Len(x) + Len(y)
              /\ \A i \in 1 .. Len(x) + Len(y) :
                   (x \o y)[i] = IF i <= Len(x) THEN x[i] ELSE y[i - Len(x)]
          BY <5>1, ConcatProperties
        <5> QED BY <5>1, <5>2
      <4>3. xy \in Seq(Sizes) /\ Len(xy) = 2 /\ xy[1] = a /\ xy[2] = b
        BY <4>1 DEF xy
      <4>4. \A i \in 1 .. Len(x \o y) : (x \o y)[i] = xy[i]
        BY <4>2, <4>3
      <4>5. x \o y = xy
        BY <4>2, <4>3, <4>4, SeqEqual
      <4> QED BY <4>5 DEF x, y, xy
    <3> QED BY <1>1, <1>3, <1>7, <2>1, <3>1, <3>2
  <2>3. Count(shape) = shape[1] * Count(rest)
    <3>1. Len(shape) = Len(rest) + 1 /\ \A i \in 1 .. Len(rest) : rest[i] = shape[i + 1]
      BY <1>1, <1>2, <1>7
    <3> QED BY <1>1, <1>3, <3>1, CountTail
  <2> DEFINE d == shape[1]
             c == Count(rest)
             pair == <<d, c>>
  <2>4. d \in Sizes /\ c \in Sizes
    BY <1>1, <1>3, <1>7
  <2> HIDE DEF d, c
  <2>5. pair \in Seq(Sizes) /\ pair \in Seq(Int) /\ Len(pair) = 2 /\ pair[1] = d /\ pair[2] = c
    BY <2>4 DEF Sizes
  <2>6. Count(pair) = d * Count(<<c>>)
    <3> DEFINE last1 == <<c>>
    <3>1. last1 \in Seq(Int) /\ Len(last1) = 1 /\ last1[1] = c
      BY <2>4, <1>5
    <3> HIDE DEF last1, pair
    <3>2. Len(pair) = Len(last1) + 1 /\ \A i \in 1 .. Len(last1) : last1[i] = pair[i + 1]
      BY <2>5, <3>1
    <3>3. Count(pair) = pair[1] * Count(last1)
      BY <2>5, <3>1, <3>2, CountTail
    <3> QED BY <2>5, <3>3 DEF last1
  <2>7. \A a, b : <<a, b>> # <<>>
    OBVIOUS
  <2> QED BY <1>5, <2>2, <2>3, <2>4, <2>5, <2>6, <2>7 DEF d, c
<1> QED BY <1>6, <1>7

LEMMA QuotientOfNat ==
  ASSUME NEW a \in Nat, NEW b \in Sizes
  PROVE  a \div b \in Nat
<1> DEFINE q == a \div b
           r == a % b
<1>1. b \in Nat \ {0} /\ q \in Int /\ r \in 0 .. (b - 1) /\ a = b * q + r
  BY ModDef DEF Sizes
<1> HIDE DEF q, r
<1>2. q >= 0
  <2> SUFFICES ASSUME q < 0
               PROVE  FALSE
    BY <1>1
  <2>1. -q >= 1 /\ -q \in Nat
    BY <1>1
  <2>2. \A x, y \in Nat : y >= 1 => x * y >= x
    OBVIOUS
  <2>3. b * (-q) >= b
    BY <1>1, <2>1, <2>2
  <2>4. b * (-q) = -(b * q) /\ b * q \in Int
    BY <1>1
  <2> QED BY <1>1, <2>3, <2>4
<1> QED BY <1>1, <1>2 DEF q

-----------------------------------------------------------------------------
(* What the calls of a trace make of the example *)

LEMMA ValueFields ==
  ASSUME NEW shape, NEW term
  PROVE  /\ Value(shape, term).shape = shape /\ Value(shape, term).term = term
         /\ shape \in Seq(Sizes) /\ InMemory(shape) => IsValue(Value(shape, term))
BY DEF Value, IsValue

(* A view keeps the elements, and there is one. *)
LEMMA ViewStep ==
  ASSUME NEW name \in {"flatten", "view"}, NEW target \in ViewTargets \cup {<<>>},
         name = "view" => target # <<>>,
         NEW e, IsValue(e), NEW y \in Views(name, target, e)
  PROVE  /\ Views(name, target, e) = {y} /\ y.shape # <<>>
         /\ IsValue(y) /\ y.term = e.term /\ Count(y.shape) = Count(e.shape)
<1> DEFINE shape == e.shape
<1>1. shape \in Seq(Sizes) /\ InMemory(shape) /\ Count(shape) \in Sizes /\ Len(shape) \in Nat
  BY SizesCount DEF IsValue
<1>2. CASE name = "flatten"
  <2>1. Views(name, target, e) = {Value(Collapse(shape, 0), e.term)}
    BY <1>2 DEF Views
  <2>2. Collapse(shape, 0) \in Seq(Sizes) /\ Count(Collapse(shape, 0)) = Count(shape)
        /\ Collapse(shape, 0) # <<>>
    BY <1>1, CollapseKeeps
  <2> QED BY <1>1, <2>1, <2>2, ValueFields DEF InMemory
<1>3. CASE name = "view"
  <2> DEFINE ones == [i \in DOMAIN target |-> IF target[i] = -1 THEN 1 ELSE target[i]]
             known == Count(ones)
             view  == [i \in DOMAIN target |->
                         IF target[i] = -1 THEN Count(shape) \div known ELSE target[i]]
  <2>1. target \in Seq(Sizes \cup {-1})
    BY FxAssumption, EmptySeq
  <2>2. Len(target) \in Nat /\ DOMAIN target = 1 .. Len(target)
        /\ \A i \in 1 .. Len(target) : target[i] \in Sizes \cup {-1}
    BY <2>1, LenProperties
  <2>3. known \in Sizes
    <3>1. ones \in [1 .. Len(target) -> Sizes]
      BY <2>2 DEF Sizes
    <3>2. ones \in Seq(Sizes)
      BY <2>2, <3>1
    <3> QED BY <3>2, SizesCount
  <2>4. Views(name, target, e) \subseteq {Value(view, e.term)} /\ Count(view) = Count(shape)
    BY <1>3 DEF Views, TorchView
  <2> HIDE DEF known
  <2>5. Count(shape) \div known \in Nat
    BY <1>1, <2>3, QuotientOfNat DEF Sizes
  <2>6. \A i \in 1 .. Len(target) : view[i] \in Nat
    BY <2>2, <2>5 DEF Sizes
  <2>7. view \in [1 .. Len(target) -> Nat]
    BY <2>2, <2>5 DEF Sizes
  <2> HIDE DEF view
  <2>8. view \in Seq(Int) /\ Len(view) = Len(target) /\ view \in Seq(Nat)
    BY <2>2, <2>7
  <2>9. \A i \in 1 .. Len(target) : view[i] # 0
    BY <1>1, <2>4, <2>8, ZeroCount DEF Sizes
  <2>10. view \in Seq(Sizes)
    <3>1. view \in [1 .. Len(target) -> Sizes]
      BY <2>7, <2>9 DEF Sizes
    <3> QED BY <2>2, <3>1
  <2>11. view # <<>>
    <3>1. Len(target) # 0
      BY <1>3, <2>1, EmptySeq
    <3>2. Len(view) # 0
      BY <2>8, <3>1
    <3> QED BY <3>2, EmptySeq
  <2> QED BY <1>1, <2>4, <2>10, <2>11, ValueFields DEF InMemory
<1> QED BY <1>2, <1>3

LEMMA OpNames ==
  /\ DOMAIN OpOf = {"Linear", "BatchNorm2d", "Conv2d", "ReLU", "MaxPool2d", "Flatten"}
  /\ OpOf["Linear"] = "linear" /\ OpOf["BatchNorm2d"] = "batch_norm2d"
  /\ OpOf["Conv2d"] = "conv2d" /\ OpOf["ReLU"] = "relu"
  /\ OpOf["MaxPool2d"] = "max_pool2d" /\ OpOf["Flatten"] = "reshape"
BY DEF OpOf

WindowFields(m) ==
  /\ m.kernel \in Sizes \X Sizes /\ m.stride \in Sizes \X Sizes
  /\ m.padding \in Nat \X Nat /\ m.dilation \in Sizes

(* Which fields a module that is lowered has. *)
LEMMA ModuleFields ==
  ASSUME NEW m \in Modules, ~Unsupported(m)
  PROVE  /\ m.type \in {"Linear", "BatchNorm2d", "Conv2d", "ReLU", "MaxPool2d", "Flatten"}
         /\ m.type = "Linear" => m.in \in Sizes /\ m.out \in Sizes /\ m.bias \in BOOLEAN
         /\ m.type = "BatchNorm2d" => m.channels \in Sizes /\ m.affine \in BOOLEAN
         /\ m.type = "Conv2d" =>
              /\ m.in \in Sizes /\ m.out \in Sizes /\ m.groups \in Sizes /\ m.bias \in BOOLEAN
              /\ WindowFields(m)
         /\ m.type = "MaxPool2d" => WindowFields(m)
<1>1. m \in TorchModules /\ m.type \in DOMAIN OpOf
  BY FxAssumption DEF Unsupported
<1>2. m.type \in {"Linear", "BatchNorm2d", "Conv2d", "ReLU", "MaxPool2d", "Flatten"}
  BY <1>1, OpNames
<1>3. m \notin [type : STRING \ DOMAIN OpOf, path : Paths]
  BY <1>1
<1>4. m.type = "Linear" => m.in \in Sizes /\ m.out \in Sizes /\ m.bias \in BOOLEAN
  BY <1>1, <1>3 DEF TorchModules
<1>5. m.type = "BatchNorm2d" => m.channels \in Sizes /\ m.affine \in BOOLEAN
  BY <1>1, <1>3 DEF TorchModules
<1>6. m.type = "Conv2d" =>
        /\ m.in \in Sizes /\ m.out \in Sizes /\ m.groups \in Sizes /\ m.bias \in BOOLEAN
        /\ WindowFields(m)
  BY <1>1, <1>3 DEF TorchModules, WindowFields
<1>7. m.type = "MaxPool2d" => WindowFields(m)
  BY <1>1, <1>3 DEF TorchModules, WindowFields
<1> QED BY <1>2, <1>4, <1>5, <1>6, <1>7

(* A window has one number of positions, and without dilation the kernels   *)
(* come to the same.                                                        *)
LEMMA WindowStep ==
  ASSUME NEW size \in Sizes, NEW k \in Sizes, NEW stride \in Sizes, NEW padding \in Nat,
         NEW dilation \in Sizes, NEW h \in Windows(size, k, stride, padding, dilation)
  PROVE  /\ Windows(size, k, stride, padding, dilation) = {h} /\ h \in Sizes
         /\ dilation = 1 => h = Extent(size, k, stride, padding)
<1> DEFINE room == size + 2 * padding - dilation * (k - 1) - 1
<1>1. room \in Int
  <2>1. dilation \in Int /\ k - 1 \in Int /\ size + 2 * padding \in Int
    BY DEF Sizes
  <2>2. dilation * (k - 1) \in Int
    BY <2>1
  <2> QED BY <2>1, <2>2
<1>2. ~(room < 0) /\ h = (room \div stride) + 1
      /\ Windows(size, k, stride, padding, dilation) = {h}
  BY DEF Windows
<1>3. dilation = 1 => room = size + 2 * padding - k
  BY DEF Sizes
<1> HIDE DEF room
<1>4. room \in Nat
  BY <1>1, <1>2
<1>5. room \div stride \in Nat
  BY <1>4, QuotientOfNat
<1>6. dilation = 1 => h = Extent(size, k, stride, padding)
  BY <1>2, <1>3, <1>4 DEF Extent, Truncated
<1> QED BY <1>2, <1>5, <1>6 DEF Sizes

LEMMA TorchWindowStep ==
  ASSUME NEW m, WindowFields(m), NEW shape \in Seq(Sizes), Len(shape) \in {3, 4},
         NEW channels \in Sizes, NEW s \in TorchWindow(m, channels, shape)
  PROVE  LET r == Len(shape)
         IN  /\ TorchWindow(m, channels, shape) = {s} /\ s \in Seq(Sizes) /\ Len(s) = r
             /\ \A i \in 1 .. r : i < r - 2 => s[i] = shape[i]
             /\ s[r - 2] = channels
             /\ s[r - 1] \in
                  Windows(shape[r - 1], m.kernel[1], m.stride[1], m.padding[1], m.dilation)
             /\ s[r] \in
                  Windows(shape[r], m.kernel[2], m.stride[2], m.padding[2], m.dilation)
<1> DEFINE r == Len(shape)
           Rows == Windows(shape[r - 1], m.kernel[1], m.stride[1], m.padding[1], m.dilation)
           Columns == Windows(shape[r], m.kernel[2], m.stride[2], m.padding[2], m.dilation)
           Made(h, w) == [shape EXCEPT ![r - 2] = channels, ![r - 1] = h, ![r] = w]
<1>1. r \in {3, 4} /\ shape \in [1 .. r -> Sizes] /\ DOMAIN shape = 1 .. r
  BY LenProperties
<1>2. TorchWindow(m, channels, shape) = {Made(h, w) : h \in Rows, w \in Columns}
  BY DEF TorchWindow
<1>3. PICK h \in Rows, w \in Columns : s = Made(h, w)
  BY <1>2
<1>4. /\ shape[r - 1] \in Sizes /\ shape[r] \in Sizes
      /\ m.kernel[1] \in Sizes /\ m.kernel[2] \in Sizes
      /\ m.stride[1] \in Sizes /\ m.stride[2] \in Sizes
      /\ m.padding[1] \in Nat /\ m.padding[2] \in Nat /\ m.dilation \in Sizes
  BY <1>1 DEF WindowFields
<1>5. Rows = {h} /\ Columns = {w} /\ h \in Sizes /\ w \in Sizes
  <2>1. \A size, k, stride, dilation \in Sizes, padding \in Nat :
          \A x \in Windows(size, k, stride, padding, dilation) :
            Windows(size, k, stride, padding, dilation) = {x} /\ x \in Sizes
    <3> HIDE DEF r, Rows, Columns, Made
    <3> TAKE size, k, stride, dilation \in Sizes, padding \in Nat
    <3> TAKE x \in Windows(size, k, stride, padding, dilation)
    <3> QED BY WindowStep
  <2> HIDE DEF r
  <2>2. Rows = {h} /\ h \in Sizes
    BY <1>3, <1>4, <2>1
  <2>3. Columns = {w} /\ w \in Sizes
    BY <1>3, <1>4, <2>1
  <2> QED BY <2>2, <2>3
<1> HIDE DEF Rows, Columns
<1>6. TorchWindow(m, channels, shape) = {s}
  BY <1>2, <1>3, <1>5
<1>7. /\ s \in [1 .. r -> Sizes] /\ s[r - 2] = channels /\ s[r - 1] = h /\ s[r] = w
      /\ \A i \in 1 .. r : i < r - 2 => s[i] = shape[i]
  <2> HIDE DEF r
  <2> QED BY <1>1, <1>3, <1>5
<1>8. s \in Seq(Sizes) /\ Len(s) = r
  <2>1. r \in Nat
    BY <1>1
  <2> HIDE DEF r
  <2> QED BY <1>7, <2>1
<1> QED BY <1>3, <1>6, <1>7, <1>8 DEF Rows, Columns, r

(* What a module makes of a shape. *)
LEMMA ShapeStep ==
  ASSUME NEW m \in Modules, ~Unsupported(m), NEW shape \in Seq(Sizes),
         NEW s \in TorchShape(m, shape)
  PROVE  TorchShape(m, shape) = {s} /\ s \in Seq(Sizes)
<1>1. Len(shape) \in Nat /\ shape \in [1 .. Len(shape) -> Sizes]
  BY LenProperties
<1>2. CASE m.type = "Linear"
  <2>1. /\ Len(shape) >= 1 /\ s = [shape EXCEPT ![Len(shape)] = m.out]
        /\ TorchShape(m, shape) = {s}
    BY <1>2 DEF TorchShape
  <2>2. m.out \in Sizes /\ Len(shape) \in 1 .. Len(shape)
    BY <1>1, <1>2, <2>1, ModuleFields
  <2> QED BY <2>1, <2>2, ExceptSeq
<1>3. CASE m.type = "BatchNorm2d"
  BY <1>3 DEF TorchShape
<1>4. CASE m.type = "Conv2d"
  <2>1. WindowFields(m) /\ m.out \in Sizes
    BY <1>4, ModuleFields
  <2>2. /\ Len(shape) \in {3, 4} /\ s \in TorchWindow(m, m.out, shape)
        /\ TorchShape(m, shape) = TorchWindow(m, m.out, shape)
    BY <1>4 DEF TorchShape
  <2> QED BY <2>1, <2>2, TorchWindowStep
<1>5. CASE m.type = "MaxPool2d"
  <2>1. WindowFields(m)
    BY <1>5, ModuleFields
  <2>2. /\ Len(shape) \in {3, 4} /\ s \in TorchWindow(m, shape[Len(shape) - 2], shape)
        /\ TorchShape(m, shape) = TorchWindow(m, shape[Len(shape) - 2], shape)
    BY <1>5 DEF TorchShape
  <2>3. shape[Len(shape) - 2] \in Sizes
    BY <1>1, <2>2
  <2> QED BY <2>1, <2>2, <2>3, TorchWindowStep
<1>6. CASE m.type = "Flatten"
  <2>1. /\ Len(shape) >= 2 /\ s = Collapse(shape, 1) /\ TorchShape(m, shape) = {s}
    BY <1>6 DEF TorchShape
  <2> QED BY <1>1, <2>1, CollapseKeeps
<1>7. CASE m.type = "ReLU"
  BY <1>7 DEF TorchShape
<1> QED BY <1>2, <1>3, <1>4, <1>5, <1>6, <1>7, ModuleFields

(* The first input of a node and the others. *)
LEMMA FirstThen ==
  ASSUME NEW x, NEW S, NEW s \in Seq(S)
  PROVE  LET xs == <<x>> \o s
         IN  /\ xs \in Seq(S \cup {x}) /\ Len(xs) = Len(s) + 1 /\ DOMAIN xs = 1 .. Len(s) + 1
             /\ xs[1] = x /\ xs # <<>> /\ \A k \in 1 .. Len(s) : xs[k + 1] = s[k]
<1> DEFINE one == <<x>>
           T == S \cup {x}
<1>1. one \in Seq(T) /\ Len(one) = 1 /\ one[1] = x /\ s \in Seq(T) /\ Len(s) \in Nat
  <2>1. s \in Seq(T)
    BY SeqMonotonic
  <2> QED BY <2>1, LenProperties
<1> HIDE DEF one, T
<1>2. /\ one \o s \in Seq(T) /\ Len(one \o s) = Len(one) + Len(s)
      /\ \A i \in 1 .. Len(one) + Len(s) :
           (one \o s)[i] = IF i <= Len(one) THEN one[i] ELSE s[i - Len(one)]
  BY <1>1, ConcatProperties
<1>3. Len(one \o s) = Len(s) + 1 /\ DOMAIN (one \o s) = 1 .. Len(s) + 1
  BY <1>1, <1>2, LenProperties
<1>4. (one \o s)[1] = x /\ \A k \in 1 .. Len(s) : (one \o s)[k + 1] = s[k]
  BY <1>1, <1>2
<1>5. one \o s # <<>>
  BY <1>1, <1>3
<1> QED BY <1>2, <1>3, <1>4, <1>5 DEF one, T

Kinds == {"weight", "bias", "mean", "var"}

(* The parameters a node lists are those of its module, in the same order. *)
LEMMA ParamsListed ==
  ASSUME NEW m \in Modules, ~Unsupported(m)
  PROVE  /\ Added(m) \in Seq(Kinds) /\ DOMAIN Added(m) = 1 .. Len(Added(m))
         /\ TorchParams(m) \in Seq({Param(m, which) : which \in Kinds})
         /\ Len(TorchParams(m)) = Len(Added(m))
         /\ \A k \in 1 .. Len(Added(m)) : TorchParams(m)[k] = Param(m, Added(m)[k])
         /\ m.type \in {"Linear", "Conv2d"} =>
              /\ Len(Added(m)) = IF m.bias THEN 2 ELSE 1
              /\ TorchParams(m)[1] = Param(m, "weight")
         /\ m.type = "BatchNorm2d" => Len(Added(m)) = 4
<1> DEFINE S == {Param(m, which) : which \in Kinds}
<1>0. Param(m, "weight") \in S /\ Param(m, "bias") \in S /\ Param(m, "mean") \in S
      /\ Param(m, "var") \in S
  BY DEF Kinds
<1>1. CASE m.type \in {"Linear", "Conv2d"}
  <2>0. m.bias \in BOOLEAN
    BY <1>1, ModuleFields
  <2>1. CASE m.bias
    <3>1. Added(m) = <<"weight">> \o <<"bias">>
          /\ TorchParams(m) = <<Param(m, "weight")>> \o <<Param(m, "bias")>>
      BY <1>1, <2>1 DEF Added, TorchParams
    <3>2. <<"bias">> \in Seq(Kinds) /\ Len(<<"bias">>) = 1 /\ <<"bias">>[1] = "bias"
          /\ <<Param(m, "bias")>> \in Seq(S) /\ Len(<<Param(m, "bias")>>) = 1
          /\ <<Param(m, "bias")>>[1] = Param(m, "bias")
      BY <1>0 DEF Kinds
    <3>3. "weight" \in Kinds /\ Kinds \cup {"weight"} = Kinds
          /\ S \cup {Param(m, "weight")} = S
      BY <1>0 DEF Kinds
    <3> HIDE DEF S
    <3>4. Added(m) \in Seq(Kinds) /\ Len(Added(m)) = 2 /\ DOMAIN Added(m) = 1 .. 2
          /\ Added(m)[1] = "weight" /\ Added(m)[2] = "bias"
      <4> DEFINE b == <<"bias">>
      <4>1. b \in Seq(Kinds) /\ Len(b) = 1 /\ b[1] = "bias" /\ Added(m) = <<"weight">> \o b
        BY <3>1, <3>2
      <4> HIDE DEF b
      <4>2. /\ Added(m) \in Seq(Kinds \cup {"weight"}) /\ Len(Added(m)) = Len(b) + 1
            /\ DOMAIN Added(m) = 1 .. Len(b) + 1 /\ Added(m)[1] = "weight"
            /\ \A k \in 1 .. Len(b) : Added(m)[k + 1] = b[k]
        BY <4>1, FirstThen
      <4>3. Added(m)[1 + 1] = b[1]
        BY <4>1, <4>2
      <4> QED BY <3>3, <4>1, <4>2, <4>3
    <3>5. TorchParams(m) \in Seq(S) /\ Len(TorchParams(m)) = 2
          /\ TorchParams(m)[1] = Param(m, "weight") /\ TorchParams(m)[2] = Param(m, "bias")
      <4> DEFINE b == <<Param(m, "bias")>>
                 w == Param(m, "weight")
      <4>1. b \in Seq(S) /\ Len(b) = 1 /\ b[1] = Param(m, "bias") /\ TorchParams(m) = <<w>> \o b
        BY <3>1, <3>2
      <4> HIDE DEF b, w
      <4>2. /\ TorchParams(m) \in Seq(S \cup {w}) /\ Len(TorchParams(m)) = Len(b) + 1
            /\ TorchParams(m)[1] = w
            /\ \A k \in 1 .. Len(b) : TorchParams(m)[k + 1] = b[k]
        BY <4>1, FirstThen
      <4>3. TorchParams(m)[1 + 1] = b[1]
        BY <4>1, <4>2
      <4> QED BY <3>3, <4>1, <4>2, <4>3 DEF w
    <3>6. \A k \in 1 .. 2 : TorchParams(m)[k] = Param(m, Added(m)[k])
      BY <3>4, <3>5
    <3> QED BY <1>1, <2>1, <3>4, <3>5, <3>6 DEF S
  <2>2. CASE ~m.bias
    <3>1. Added(m) = <<"weight">> \o <<>> /\ TorchParams(m) = <<Param(m, "weight")>> \o <<>>
      BY <1>1, <2>2 DEF Added, TorchParams
    <3>2. <<"weight">> \in Seq(Kinds) /\ <<Param(m, "weight")>> \in Seq(S)
      BY <1>0 DEF Kinds
    <3>3. Added(m) = <<"weight">> /\ TorchParams(m) = <<Param(m, "weight")>>
      BY <3>1, <3>2, ConcatEmptySeq
    <3> QED BY <1>1, <2>2, <3>2, <3>3
  <2> QED BY <2>0, <2>1, <2>2
<1>2. CASE m.type = "BatchNorm2d"
  <2>1. Added(m) = <<"weight", "bias", "mean", "var">>
        /\ TorchParams(m) = <<Param(m, "weight"), Param(m, "bias"), Param(m, "mean"), Param(m, "var")>>
    BY <1>2 DEF Added, TorchParams
  <2>2. Added(m) \in Seq(Kinds) /\ Len(Added(m)) = 4 /\ DOMAIN Added(m) = 1 .. 4
    BY <2>1 DEF Kinds
  <2>3. TorchParams(m) \in Seq(S) /\ Len(TorchParams(m)) = 4
    BY <1>0, <2>1
  <2>4. \A k \in 1 .. 4 : TorchParams(m)[k] = Param(m, Added(m)[k])
    <3> HIDE DEF S
    <3>1. \A k \in 1 .. 4 : k = 1 \/ k = 2 \/ k = 3 \/ k = 4
      OBVIOUS
    <3> QED BY <2>1, <3>1
  <2> QED BY <1>2, <2>2, <2>3, <2>4
<1>3. CASE m.type \in {"ReLU", "MaxPool2d", "Flatten"}
  <2>1. Added(m) = <<>> /\ TorchParams(m) = <<>>
    BY <1>3 DEF Added, TorchParams
  <2> QED BY <1>3, <2>1
<1> QED BY <1>1, <1>2, <1>3, ModuleFields

LEMMA ModuleStep ==
  ASSUME NEW m \in Modules, ~Unsupported(m), NEW e, IsValue(e), NEW y \in TorchModule(m, e)
  PROVE  /\ TorchModule(m, e) = {y} /\ IsValue(y)
         /\ TorchShape(m, e.shape) = {y.shape} /\ y.term = TorchTerm(m, e)
         /\ IsParameterLeaf(y.term) => IsParameterLeaf(e.term)
<1>1. PICK s \in TorchShape(m, e.shape) : y = Value(s, TorchTerm(m, e)) /\ InMemory(s)
  BY DEF TorchModule
<1>2. TorchShape(m, e.shape) = {s} /\ s \in Seq(Sizes)
  BY ShapeStep DEF IsValue
<1>3. IsValue(y) /\ y.shape = s /\ y.term = TorchTerm(m, e)
  BY <1>1, <1>2, ValueFields
<1>4. TorchModule(m, e) = {y}
  BY <1>1, <1>2 DEF TorchModule
<1>5. ASSUME IsParameterLeaf(y.term)
      PROVE  IsParameterLeaf(e.term)
  <2>1. CASE m.type = "Flatten"
    BY <1>3, <1>5, <2>1 DEF TorchTerm
  <2>2. CASE m.type # "Flatten"
    <3> DEFINE params == TorchParams(m)
    <3>1. y.term.args = <<e>> \o params
      BY <1>3, <2>2, ModuleFields, OpNames DEF TorchTerm, Term
    <3>2. params \in Seq({Param(m, which) : which \in Kinds})
      BY ParamsListed
    <3> HIDE DEF params
    <3>3. <<e>> \o params # <<>>
      BY <3>2, FirstThen
    <3> QED BY <1>5, <3>1, <3>3 DEF IsParameterLeaf
  <2> QED BY <2>1, <2>2
<1> QED BY <1>2, <1>3, <1>4, <1>5


-----------------------------------------------------------------------------
(* A module and the operator it is lowered to *)

Args(m, x) == <<x>> \o TorchParams(m)

(* PyTorch and an operator make one shape, and one like the example's. *)
Agree(torch, shapes, example) == \E t : torch = {t} /\ shapes = {t} /\ Alike(t, example)

LEMMA ListSeq ==
  ASSUME NEW n \in Nat, NEW S, NEW u \in [1 .. n -> S]
  PROVE  u \in Seq(S) /\ Len(u) = n
OBVIOUS

LEMMA ArgsListed ==
  ASSUME NEW m \in Modules, ~Unsupported(m), NEW x
  PROVE  /\ Args(m, x)[1] = x
         /\ Len(Args(m, x)) = Len(Added(m)) + 1 /\ Len(Added(m)) \in Nat
         /\ \A k \in 1 .. Len(Added(m)) : Args(m, x)[k + 1] = Param(m, Added(m)[k])
         /\ m.type \in {"Linear", "Conv2d"} => Args(m, x)[2] = Param(m, "weight")
<1> DEFINE S == {Param(m, which) : which \in Kinds}
           params == TorchParams(m)
<1>1. params \in Seq(S) /\ Len(params) = Len(Added(m)) /\ Added(m) \in Seq(Kinds)
      /\ \A k \in 1 .. Len(Added(m)) : params[k] = Param(m, Added(m)[k])
  BY ParamsListed
<1> HIDE DEF S
<1>2. Len(Added(m)) \in Nat
  BY <1>1, LenProperties
<1>3. Args(m, x) = <<x>> \o params
  BY DEF Args
<1> HIDE DEF params
<1>4. /\ Len(Args(m, x)) = Len(params) + 1 /\ Args(m, x)[1] = x
      /\ \A k \in 1 .. Len(params) : Args(m, x)[k + 1] = params[k]
  BY <1>1, <1>3, FirstThen
<1>5. ASSUME m.type \in {"Linear", "Conv2d"}
      PROVE  Args(m, x)[2] = Param(m, "weight")
  <2>0. Len(Added(m)) = (IF m.bias THEN 2 ELSE 1) /\ params[1] = Param(m, "weight")
    BY <1>5, ParamsListed DEF params
  <2>1. params[1] = Param(m, "weight") /\ 1 \in 1 .. Len(params)
    <3>1. Len(Added(m)) = 1 \/ Len(Added(m)) = 2
      BY <2>0
    <3> QED BY <1>1, <2>0, <3>1
  <2>2. Args(m, x)[1 + 1] = params[1]
    BY <1>4, <2>1
  <2> QED BY <2>1, <2>2
<1> QED BY <1>1, <1>2, <1>4, <1>5

(* The shape of an operator's output when nothing is cut off.               *)
ExactOut(op, xs, attrs) ==
  LET shape == xs[1].shape
  IN  CASE op = "linear" -> {[shape EXCEPT ![Len(shape)] = xs[2].shape[1]]}
        [] op = "batch_norm2d" ->
             IF Len(shape) = 4 /\ Len(xs) = 5 /\ \A k \in 2 .. 5 : Count(xs[k].shape) = shape[2]
             THEN {shape} ELSE {}
        [] op = "conv2d" ->
             WindowShape(shape, xs[2].shape[1], SubSeq(xs[2].shape, 3, 4), attrs[1], attrs[2])
        [] op = "max_pool2d" -> WindowShape(shape, shape[2], attrs[1], attrs[2], attrs[3])
        [] op = "relu" -> {shape}
        [] op = "reshape" -> ReshapeShape(shape, attrs[1])

LEMMA AlikeShapes ==
  ASSUME NEW shape, NEW example \in Seq(Sizes), Alike(shape, example)
  PROVE  LET r == Len(example)
         IN  /\ r \in Nat /\ Len(shape) = r
             /\ shape \in Seq(Sizes) /\ shape \in [1 .. r -> Sizes] /\ example \in [1 .. r -> Sizes]
             /\ r >= 1 => shape[r] = example[r]
<1>1. shape \in Seq(Sizes) /\ Len(shape) = Len(example) /\ Len(example) \in Nat
      /\ shape \in [1 .. Len(example) -> Sizes] /\ example \in [1 .. Len(example) -> Sizes]
  BY SizesCount DEF Alike
<1>2. ASSUME Len(example) >= 1
      PROVE  shape[Len(example)] = example[Len(example)]
  <2> DEFINE r == Len(example)
  <2>1. r \in Nat /\ r >= 1 /\ (r = 1 \/ r \in 2 .. r)
    BY <1>1, <1>2
  <2>2. r = 1 => shape[r] = example[r]
    BY DEF Alike
  <2>3. \A k \in 2 .. r : shape[k] = example[k]
    BY DEF Alike
  <2> QED BY <2>1, <2>2, <2>3
<1> QED BY <1>1, <1>2

LEMMA LinearAgrees ==
  ASSUME NEW m \in Modules, m.type = "Linear", ~Unsupported(m),
         NEW example \in Seq(Sizes), NEW s \in TorchShape(m, example),
         NEW x, Alike(x.shape, example), NEW attrs
  PROVE  Agree(TorchShape(m, x.shape), ExactOut("linear", Args(m, x), attrs), s)
<1> DEFINE r == Len(example)
           t == [x.shape EXCEPT ![r] = m.out]
<1>1. /\ r \in Nat /\ Len(x.shape) = r /\ x.shape \in [1 .. r -> Sizes]
      /\ example \in [1 .. r -> Sizes] /\ (r >= 1 => x.shape[r] = example[r])
      /\ \A k \in 2 .. r : x.shape[k] = example[k]
  <2>1. \A k \in 2 .. r : x.shape[k] = example[k]
    BY DEF Alike
  <2> QED BY <2>1, AlikeShapes
<1>2. r >= 1 /\ example[r] = m.in /\ s = [example EXCEPT ![r] = m.out] /\ m.out \in Sizes
  <2>1. m.out \in Sizes
    BY ModuleFields
  <2> QED BY <2>1 DEF TorchShape
<1>3. TorchShape(m, x.shape) = {t}
  BY <1>1, <1>2 DEF TorchShape
<1>4. Param(m, "weight").shape = <<m.out, m.in>>
  BY DEF Param, ParamShape, Value
<1>5. ExactOut("linear", Args(m, x), attrs) = {t}
  <2>1. Args(m, x)[1] = x /\ Args(m, x)[2].shape[1] = m.out
    BY <1>4, ArgsListed
  <2> QED BY <1>1, <2>1 DEF ExactOut
<1>6. Alike(t, s)
  <2> HIDE DEF r
  <2>1. t \in [1 .. r -> Sizes] /\ s \in [1 .. r -> Sizes] /\ t[r] = s[r]
        /\ \A k \in 1 .. r : k # r => t[k] = x.shape[k] /\ s[k] = example[k]
    BY <1>1, <1>2
  <2> HIDE DEF t
  <2>2. t \in Seq(Sizes) /\ Len(t) = r /\ Len(s) = r
    BY <1>1, <2>1
  <2>3. \A k \in 2 .. r : t[k] = s[k]
    BY <1>1, <2>1
  <2>4. r = 1 => t[1] = s[1]
    BY <2>1
  <2> QED BY <2>2, <2>3, <2>4 DEF Alike
<1> HIDE DEF t
<1> QED BY <1>3, <1>5, <1>6 DEF Agree

LEMMA NormAgrees ==
  ASSUME NEW m \in Modules, m.type = "BatchNorm2d", ~Unsupported(m),
         NEW example \in Seq(Sizes), NEW s \in TorchShape(m, example),
         NEW x, Alike(x.shape, example), NEW attrs
  PROVE  Agree(TorchShape(m, x.shape), ExactOut("batch_norm2d", Args(m, x), attrs), s)
<1>1. Len(example) = 4 /\ example[2] = m.channels /\ s = example /\ m.channels \in Sizes
  <2>1. m.channels \in Sizes
    BY ModuleFields
  <2> QED BY <2>1 DEF TorchShape
<1>2. Len(x.shape) = 4 /\ x.shape[2] = m.channels
  BY <1>1 DEF Alike
<1>3. TorchShape(m, x.shape) = {x.shape}
  BY <1>2 DEF TorchShape
<1>4. \A which : Count(Param(m, which).shape) = m.channels
  <2> TAKE which
  <2>1. Param(m, which).shape = <<m.channels>>
    BY DEF Param, ParamShape, Value
  <2> QED BY <1>1, <2>1, CountOne
<1>5. Len(Args(m, x)) = 5 /\ Args(m, x)[1] = x
      /\ \A k \in 2 .. 5 : Count(Args(m, x)[k].shape) = x.shape[2]
  <2>1. /\ Args(m, x)[1] = x /\ Len(Args(m, x)) = Len(Added(m)) + 1 /\ Len(Added(m)) \in Nat
        /\ \A k \in 1 .. Len(Added(m)) : Args(m, x)[k + 1] = Param(m, Added(m)[k])
    BY ArgsListed
  <2>2. Len(Added(m)) = 4
    BY ParamsListed
  <2>3. ASSUME NEW k \in 2 .. 5
        PROVE  Count(Args(m, x)[k].shape) = x.shape[2]
    <3>1. k - 1 \in 1 .. 4 /\ (k - 1) + 1 = k
      OBVIOUS
    <3>2. Args(m, x)[k] = Param(m, Added(m)[k - 1])
      BY <2>1, <2>2, <3>1
    <3> QED BY <1>2, <1>4, <3>2
  <2> QED BY <2>1, <2>2, <2>3
<1>6. ExactOut("batch_norm2d", Args(m, x), attrs) = {x.shape}
  BY <1>1, <1>2, <1>5 DEF ExactOut
<1> QED BY <1>1, <1>3, <1>6 DEF Agree


LEMMA DimensionStep ==
  ASSUME NEW m, WindowFields(m), m.dilation = 1, NEW d \in {1, 2}, NEW size \in Sizes,
         NEW h \in Windows(size, m.kernel[d], m.stride[d], m.padding[d], m.dilation)
  PROVE  /\ Windows(size, m.kernel[d], m.stride[d], m.padding[d], m.dilation) = {h}
         /\ h \in Sizes /\ h = Extent(size, m.kernel[d], m.stride[d], m.padding[d])
<1> DEFINE extent == m.kernel[d]
           stride == m.stride[d]
           padding == m.padding[d]
           dilation == m.dilation
<1>1. /\ extent \in Sizes /\ stride \in Sizes /\ padding \in Nat /\ dilation \in Sizes
      /\ dilation = 1 /\ h \in Windows(size, extent, stride, padding, dilation)
  BY DEF WindowFields
<1> HIDE DEF extent, stride, padding, dilation
<1>2. /\ Windows(size, extent, stride, padding, dilation) = {h} /\ h \in Sizes
      /\ h = Extent(size, extent, stride, padding)
  BY <1>1, WindowStep
<1> QED BY <1>2 DEF extent, stride, padding, dilation

(* The kernel and the attributes of a window are those of the module. *)
LEMMA WindowAgrees ==
  ASSUME NEW m, WindowFields(m), m.dilation = 1,
         NEW example \in Seq(Sizes), Len(example) = 4, NEW channels \in Sizes,
         NEW s \in TorchWindow(m, channels, example),
         NEW x, Alike(x.shape, example), NEW k, k[1] = m.kernel[1], k[2] = m.kernel[2]
  PROVE  Agree(TorchWindow(m, channels, x.shape),
               WindowShape(x.shape, channels, k, m.stride, m.padding), s)
<1> DEFINE shape == x.shape
           Rows == Windows(example[3], m.kernel[1], m.stride[1], m.padding[1], m.dilation)
           Columns == Windows(example[4], m.kernel[2], m.stride[2], m.padding[2], m.dilation)
<1>1. /\ shape \in Seq(Sizes) /\ Len(shape) = 4 /\ shape \in [1 .. 4 -> Sizes]
      /\ shape[3] = example[3] /\ shape[4] = example[4] /\ example \in [1 .. 4 -> Sizes]
  <2>1. shape[3] = example[3] /\ shape[4] = example[4]
    BY DEF Alike
  <2> QED BY <2>1, AlikeShapes
<1>2. s \in Seq(Sizes) /\ Len(s) = 4 /\ s[2] = channels /\ s[3] \in Rows /\ s[4] \in Columns
  <2> DEFINE r == Len(example)
  <2>1. r = 4
    OBVIOUS
  <2>2. /\ s \in Seq(Sizes) /\ Len(s) = r /\ s[r - 2] = channels
        /\ s[r - 1] \in Windows(example[r - 1], m.kernel[1], m.stride[1], m.padding[1], m.dilation)
        /\ s[r] \in Windows(example[r], m.kernel[2], m.stride[2], m.padding[2], m.dilation)
    BY TorchWindowStep
  <2> HIDE DEF r, Rows, Columns
  <2>3. r - 2 = 2 /\ r - 1 = 3
    BY <2>1
  <2>4. s \in Seq(Sizes) /\ Len(s) = 4 /\ s[2] = channels
    BY <2>1, <2>2, <2>3
  <2>5. s[3] \in Windows(example[3], m.kernel[1], m.stride[1], m.padding[1], m.dilation)
    BY <2>2, <2>3
  <2>6. s[4] \in Windows(example[4], m.kernel[2], m.stride[2], m.padding[2], m.dilation)
    BY <2>1, <2>2
  <2> QED BY <2>4, <2>5, <2>6 DEF Rows, Columns
<1>3. /\ Rows = {s[3]} /\ s[3] \in Sizes
      /\ s[3] = Extent(example[3], m.kernel[1], m.stride[1], m.padding[1])
      /\ Columns = {s[4]} /\ s[4] \in Sizes
      /\ s[4] = Extent(example[4], m.kernel[2], m.stride[2], m.padding[2])
  <2>1. example[3] \in Sizes /\ example[4] \in Sizes
    BY <1>1
  <2>2. /\ Rows = {s[3]} /\ s[3] \in Sizes
        /\ s[3] = Extent(example[3], m.kernel[1], m.stride[1], m.padding[1])
    <3> DEFINE size == example[3]
               h == s[3]
    <3>1. h \in Windows(size, m.kernel[1], m.stride[1], m.padding[1], m.dilation) /\ size \in Sizes
      BY <1>2, <2>1
    <3> HIDE DEF size, h
    <3>2. /\ Windows(size, m.kernel[1], m.stride[1], m.padding[1], m.dilation) = {h}
          /\ h \in Sizes /\ h = Extent(size, m.kernel[1], m.stride[1], m.padding[1])
      BY <3>1, DimensionStep
    <3> QED BY <3>2 DEF size, h
  <2>3. /\ Columns = {s[4]} /\ s[4] \in Sizes
        /\ s[4] = Extent(example[4], m.kernel[2], m.stride[2], m.padding[2])
    <3> DEFINE size == example[4]
               h == s[4]
    <3>1. h \in Windows(size, m.kernel[2], m.stride[2], m.padding[2], m.dilation) /\ size \in Sizes
      BY <1>2, <2>1
    <3> HIDE DEF size, h
    <3>2. /\ Windows(size, m.kernel[2], m.stride[2], m.padding[2], m.dilation) = {h}
          /\ h \in Sizes /\ h = Extent(size, m.kernel[2], m.stride[2], m.padding[2])
      BY <3>1, DimensionStep
    <3> QED BY <3>2 DEF size, h
  <2> QED BY <2>2, <2>3
<1> DEFINE t == <<shape[1], channels, s[3], s[4]>>
<1>4. t \in Seq(Sizes) /\ Len(t) = 4 /\ t[2] = channels /\ t[3] = s[3] /\ t[4] = s[4]
      /\ t[1] = shape[1]
  <2>1. shape[1] \in Sizes /\ s[3] \in Sizes /\ s[4] \in Sizes
    BY <1>1, <1>3
  <2> QED BY <2>1
<1>5. WindowShape(x.shape, channels, k, m.stride, m.padding) = {t}
  <2>1. t = <<x.shape[1], channels, Extent(x.shape[3], k[1], m.stride[1], m.padding[1]),
              Extent(x.shape[4], k[2], m.stride[2], m.padding[2])>>
    BY <1>1, <1>3
  <2>2. ~(Len(x.shape) < 4)
    BY <1>1
  <2> HIDE DEF t
  <2> QED BY <2>1, <2>2 DEF WindowShape
<1>6. TorchWindow(m, channels, shape) = {t}
  <2> DEFINE r == Len(shape)
             Made(h, w) == [shape EXCEPT ![r - 2] = channels, ![r - 1] = h, ![r] = w]
             Over == Windows(shape[r - 1], m.kernel[1], m.stride[1], m.padding[1], m.dilation)
             Across == Windows(shape[r], m.kernel[2], m.stride[2], m.padding[2], m.dilation)
  <2>1. TorchWindow(m, channels, shape) = {Made(h, w) : h \in Over, w \in Across}
    BY DEF TorchWindow
  <2>2. r = 4 /\ r - 2 = 2 /\ r - 1 = 3
    BY <1>1
  <2> HIDE DEF r
  <2>3. Over = Rows /\ Across = Columns
    BY <1>1, <2>2
  <2> DEFINE u == Made(s[3], s[4])
  <2>4. u \in [1 .. 4 -> Sizes] /\ u[1] = shape[1] /\ u[2] = channels /\ u[3] = s[3] /\ u[4] = s[4]
    BY <1>1, <1>3, <2>2
  <2> HIDE DEF Over, Across, Rows, Columns
  <2>5. TorchWindow(m, channels, shape) = {u}
    BY <1>3, <2>1, <2>3
  <2> HIDE DEF u, t
  <2>6. u \in Seq(Sizes) /\ Len(u) = 4
    <3>1. \A n \in Nat : \A v \in [1 .. n -> Sizes] : v \in Seq(Sizes) /\ Len(v) = n
      OBVIOUS
    <3> QED BY <2>4, <3>1
  <2>7. \A i \in 1 .. 4 : i = 1 \/ i = 2 \/ i = 3 \/ i = 4
    OBVIOUS
  <2>8. \A i \in 1 .. Len(u) : u[i] = t[i]
    BY <1>4, <2>4, <2>6, <2>7
  <2>9. u = t
    BY <1>4, <2>6, <2>8, SeqEqual
  <2> QED BY <2>5, <2>9
<1>7. Alike(t, s)
  <2> HIDE DEF t
  <2>1. \A i \in 2 .. 4 : i = 2 \/ i = 3 \/ i = 4
    OBVIOUS
  <2>2. \A i \in 2 .. 4 : t[i] = s[i]
    BY <1>2, <1>4, <2>1
  <2> QED BY <1>2, <1>4, <2>2 DEF Alike
<1> HIDE DEF t
<1> QED BY <1>5, <1>6, <1>7 DEF Agree

LEMMA ConvAgrees ==
  ASSUME NEW m \in Modules, m.type = "Conv2d", ~Unsupported(m), Dropped(m) = {},
         NEW example \in Seq(Sizes), Len(example) # 3, NEW s \in TorchShape(m, example),
         NEW x, Alike(x.shape, example), NEW y
  PROVE  Agree(TorchShape(m, x.shape), ExactOut("conv2d", Args(m, x), Attrs(m, y)), s)
<1> DEFINE params == Param(m, "weight").shape
           kernel == SubSeq(params, 3, 4)
<1>1. WindowFields(m) /\ m.out \in Sizes /\ m.in \in Sizes /\ m.groups \in Sizes
  BY ModuleFields
<1>2. m.dilation = 1
  BY DEF Dropped
<1>3. Len(example) = 4 /\ example[2] = m.in /\ s \in TorchWindow(m, m.out, example)
  <2> DEFINE r == Len(example)
  <2>1. r \in {3, 4} /\ example[r - 2] = m.in /\ s \in TorchWindow(m, m.out, example)
    BY DEF TorchShape
  <2>2. r = 4
    BY <2>1
  <2> HIDE DEF r
  <2>3. r - 2 = 2
    BY <2>2
  <2> QED BY <2>1, <2>2, <2>3 DEF r
<1>4. Len(x.shape) = 4 /\ x.shape[2] = m.in
  BY <1>3 DEF Alike
<1>5. TorchShape(m, x.shape) = TorchWindow(m, m.out, x.shape)
  BY <1>4 DEF TorchShape
<1>6. params[1] = m.out /\ kernel[1] = m.kernel[1] /\ kernel[2] = m.kernel[2]
  <2> DEFINE per == m.in \div m.groups
  <2>1. params = <<m.out, per, m.kernel[1], m.kernel[2]>>
    BY DEF Param, ParamShape, Value
  <2>2. per \in Nat
    BY <1>1, QuotientOfNat DEF Sizes
  <2>3. params \in Seq(Nat) /\ Len(params) = 4 /\ params[1] = m.out
        /\ params[3] = m.kernel[1] /\ params[4] = m.kernel[2]
    <3>1. m.out \in Nat /\ m.kernel[1] \in Nat /\ m.kernel[2] \in Nat
      BY <1>1 DEF WindowFields, Sizes
    <3> DEFINE c == m.out
               k1 == m.kernel[1]
               k2 == m.kernel[2]
    <3>2. params = <<c, per, k1, k2>> /\ c \in Nat /\ per \in Nat /\ k1 \in Nat /\ k2 \in Nat
      BY <2>1, <2>2, <3>1
    <3> HIDE DEF params, c, per, k1, k2
    <3>3. params \in Seq(Nat) /\ Len(params) = 4 /\ params[1] = c /\ params[3] = k1 /\ params[4] = k2
      BY <3>2
    <3> QED BY <3>3 DEF c, k1, k2
  <2> HIDE DEF params
  <2> DEFINE n == Len(params)
  <2>4. \A i \in 3 .. 4 : params[i] \in Nat
    <3>1. params \in [1 .. 4 -> Nat]
      BY <2>3, LenProperties
    <3> QED BY <3>1
  <2>5. /\ Len(kernel) = 2 /\ \A i \in 1 .. 2 : kernel[i] = params[3 + i - 1]
    BY <2>4, SubSeqProperties
  <2> QED BY <2>3, <2>5
<1>7. ExactOut("conv2d", Args(m, x), Attrs(m, y)) = WindowShape(x.shape, m.out, kernel, m.stride, m.padding)
  <2>1. Args(m, x)[1] = x /\ Args(m, x)[2].shape = params
    BY ArgsListed
  <2>2. Attrs(m, y)[1] = m.stride /\ Attrs(m, y)[2] = m.padding
    BY DEF Attrs
  <2> HIDE DEF params
  <2> QED BY <1>6, <2>1, <2>2 DEF ExactOut
<1> HIDE DEF kernel
<1>8. Agree(TorchWindow(m, m.out, x.shape),
            WindowShape(x.shape, m.out, kernel, m.stride, m.padding), s)
  BY <1>1, <1>2, <1>3, <1>6, WindowAgrees
<1> QED BY <1>5, <1>7, <1>8

LEMMA PoolAgrees ==
  ASSUME NEW m \in Modules, m.type = "MaxPool2d", ~Unsupported(m), Dropped(m) = {},
         NEW example \in Seq(Sizes), Len(example) # 3, NEW s \in TorchShape(m, example),
         NEW x, Alike(x.shape, example), NEW y
  PROVE  Agree(TorchShape(m, x.shape), ExactOut("max_pool2d", Args(m, x), Attrs(m, y)), s)
<1> DEFINE channels == example[2]
<1>1. WindowFields(m)
  BY ModuleFields
<1>2. m.dilation = 1
  BY DEF Dropped
<1>3. Len(example) = 4 /\ s \in TorchWindow(m, channels, example)
  <2> DEFINE r == Len(example)
  <2>1. r \in {3, 4} /\ s \in TorchWindow(m, example[r - 2], example)
    BY DEF TorchShape
  <2>2. r = 4
    BY <2>1
  <2> HIDE DEF r
  <2>3. r - 2 = 2
    BY <2>2
  <2> QED BY <2>1, <2>2, <2>3 DEF r
<1>4. Len(x.shape) = 4 /\ x.shape[2] = channels /\ channels \in Sizes
  <2>1. Len(x.shape) = 4 /\ x.shape[2] = channels
    BY <1>3 DEF Alike
  <2>2. example \in [1 .. 4 -> Sizes]
    BY <1>3, LenProperties
  <2> QED BY <2>1, <2>2
<1>5. TorchShape(m, x.shape) = TorchWindow(m, channels, x.shape)
  BY <1>4 DEF TorchShape
<1>6. ExactOut("max_pool2d", Args(m, x), Attrs(m, y)) = WindowShape(x.shape, channels, m.kernel, m.stride, m.padding)
  <2>1. Args(m, x)[1] = x
    BY ArgsListed
  <2>2. Attrs(m, y)[1] = m.kernel /\ Attrs(m, y)[2] = m.stride /\ Attrs(m, y)[3] = m.padding
    BY DEF Attrs
  <2> QED BY <1>4, <2>1, <2>2 DEF ExactOut
<1> HIDE DEF channels
<1>7. Agree(TorchWindow(m, channels, x.shape),
            WindowShape(x.shape, channels, m.kernel, m.stride, m.padding), s)
  BY <1>1, <1>2, <1>3, <1>4, WindowAgrees
<1> QED BY <1>5, <1>6, <1>7


-----------------------------------------------------------------------------
(* A reshape to sizes that are all known *)

LEMMA ExactProduct ==
  ASSUME NEW shape \in Seq(Sizes), InMemory(shape)
  PROVE  Product(shape) = Count(shape)
<1>1. shape \in Seq(Int) /\ Count(shape) \in Sizes
  BY SizesCount
<1>2. Count(shape) \in Int /\ Count(shape) \in Dims
  BY <1>1, WordType DEF Sizes, Dims, InMemory
<1>3. Product(shape) = AsInt(Count(shape))
  BY <1>1, ProductWraps
<1> QED BY <1>2, <1>3, AsIntShift

LEMMA ReshapeOfSizes ==
  ASSUME NEW input \in Seq(Sizes), InMemory(input), NEW target \in Seq(Sizes), InMemory(target)
  PROVE  ReshapeShape(input, target) = IF Count(target) = Count(input) THEN {target} ELSE {}
<1>1. target \in [1 .. Len(target) -> Sizes] /\ DOMAIN target = 1 .. Len(target)
  BY SizesCount
<1>2. \A i \in DOMAIN target : target[i] > 0 /\ target[i] # -1
  BY <1>1 DEF Sizes
<1>3. Inferred(target) = {}
  BY <1>2 DEF Inferred
<1>4. ~ReshapeRefuses(input, target)
  <2>1. \A i \in DOMAIN target : ~(target[i] <= 0)
    BY <1>1 DEF Sizes
  <2> QED BY <1>3, <2>1 DEF ReshapeRefuses, Malformed
<1>5. Resolved(input, target) = target
  <2>1. Resolved(input, target) = [i \in DOMAIN target |-> target[i]]
    BY <1>2 DEF Resolved
  <2> QED BY <1>1, <2>1
<1>6. Product(target) = Count(target) /\ Product(input) = Count(input)
  BY ExactProduct
<1> QED BY <1>4, <1>5, <1>6 DEF ReshapeShape, Throws

(* The shape of the example comes out for an input of that shape only. *)
LEMMA ReshapeAgrees ==
  ASSUME NEW input \in Seq(Sizes), InMemory(input), NEW example \in Seq(Sizes),
         InMemory(example), Alike(input, example),
         NEW y \in Seq(Sizes), Count(y) = Count(example)
  PROVE  /\ \A shape \in ReshapeShape(input, y) : shape = y /\ input = example
         /\ input = example => y \in ReshapeShape(input, y)
<1>1. InMemory(y)
  BY DEF InMemory
<1>2. ReshapeShape(input, y) = IF Count(y) = Count(input) THEN {y} ELSE {}
  BY <1>1, ReshapeOfSizes
<1>3. Count(input) = Count(example) => input = example
  BY AlikeSame
<1> QED BY <1>2, <1>3

-----------------------------------------------------------------------------
(* A run of a module beside PyTorch's *)

(* What an operator computes of a value is what the module makes of it. *)
ComputeModule(m, x, y) == Compute(OpOf[m.type], Args(m, x), Attrs(m, y))

LEMMA ModuleShapes ==
  ASSUME NEW m \in Modules, ~Unsupported(m), Dropped(m) = {}, m.type # "Flatten",
         NEW example \in Seq(Sizes), NEW s \in TorchShape(m, example),
         NEW x, Alike(x.shape, example), NEW y,
         m.type \in {"Conv2d", "MaxPool2d"} => Len(example) # 3
  PROVE  Agree(TorchShape(m, x.shape), ExactOut(OpOf[m.type], Args(m, x), Attrs(m, y)), s)
<1>1. CASE m.type = "Linear"
  BY <1>1, LinearAgrees, OpNames
<1>2. CASE m.type = "BatchNorm2d"
  BY <1>2, NormAgrees, OpNames
<1>3. CASE m.type = "Conv2d"
  BY <1>3, ConvAgrees, OpNames
<1>4. CASE m.type = "MaxPool2d"
  BY <1>4, PoolAgrees, OpNames
<1>5. CASE m.type = "ReLU"
  <2>1. TorchShape(m, x.shape) = {x.shape} /\ s = example
    BY <1>5 DEF TorchShape
  <2>2. Args(m, x)[1] = x
    BY ArgsListed
  <2>3. ExactOut(OpOf[m.type], Args(m, x), Attrs(m, y)) = {x.shape}
    BY <1>5, <2>2, OpNames DEF ExactOut
  <2> QED BY <2>1, <2>3 DEF Agree
<1> QED BY <1>1, <1>2, <1>3, <1>4, <1>5, ModuleFields

LEMMA NoWindowOfThree ==
  ASSUME NEW m \in Modules, ~Unsupported(m), m.type \in {"Conv2d", "MaxPool2d"},
         NEW x, Len(x.shape) = 3, NEW attrs
  PROVE  ExactOut(OpOf[m.type], Args(m, x), attrs) = {}
<1>1. Args(m, x)[1] = x /\ Len(x.shape) < 4
  BY ArgsListed
<1>2. OpOf[m.type] \in {"conv2d", "max_pool2d"}
  BY OpNames
<1> QED BY <1>1, <1>2 DEF ExactOut, WindowShape

IsFcn(s) == s = [k \in DOMAIN s |-> s[k]]

LEMMA NarrowIsExact ==
  ASSUME NEW s, IsFcn(s), \A k \in DOMAIN s : AsInt32(s[k]) = s[k]
  PROVE  Narrow(s) = s
<1>1. Narrow(s) = [k \in DOMAIN s |-> s[k]]
  BY DEF Narrow
<1> QED BY <1>1 DEF IsFcn

LEMMA WindowIsFcn ==
  ASSUME NEW shape, NEW channels, NEW k, NEW stride, NEW padding,
         NEW s \in WindowShape(shape, channels, k, stride, padding)
  PROVE  IsFcn(s)
<1>1. \A a, b, c, d : IsFcn(<<a, b, c, d>>)
  BY DEF IsFcn
<1> QED BY <1>1 DEF WindowShape

(* What the operator holds in ints of its inputs and attributes, it holds.  *)
LEMMA InputsFit ==
  ASSUME NEW op, NEW xs, NEW attrs, op # "reshape", ~Wide(op, xs, attrs)
  PROVE  /\ \A k \in DOMAIN xs : \A i \in DOMAIN xs[k].shape :
              AsInt32(xs[k].shape[i]) = xs[k].shape[i]
         /\ \A k \in DOMAIN attrs : \A i \in DOMAIN attrs[k] : AsInt32(attrs[k][i]) = attrs[k][i]
         /\ op \in {"conv2d", "max_pool2d"} =>
              \A s \in Windowed(op, xs, attrs) : \A i \in DOMAIN s : AsInt32(s[i]) = s[i]
<1>1. \A n \in InInts(op, xs, attrs) : AsInt32(n) = n
  BY DEF Wide
<1> DEFINE inputs == {xs[k].shape : k \in DOMAIN xs}
           made == IF op \in {"conv2d", "max_pool2d"} THEN Windowed(op, xs, attrs)
                   ELSE OutShape(op, xs, attrs)
           shapes == inputs \cup made
<1>2. InInts(op, xs, attrs) = (UNION {Members(attrs[k]) : k \in DOMAIN attrs})
        \cup (UNION {Members(shape) \cup {Count(shape)} : shape \in shapes})
  BY DEF InInts
<1> HIDE DEF shapes
<1>3. \A shape \in shapes : Members(shape) \subseteq InInts(op, xs, attrs)
  BY <1>2
<1>4. \A k \in DOMAIN attrs : Members(attrs[k]) \subseteq InInts(op, xs, attrs)
  BY <1>2
<1>5. \A s : \A i \in DOMAIN s : s[i] \in Members(s)
  BY DEF Members
<1>6. ASSUME NEW k \in DOMAIN xs, NEW i \in DOMAIN xs[k].shape
      PROVE  AsInt32(xs[k].shape[i]) = xs[k].shape[i]
  <2>1. xs[k].shape \in shapes
    BY DEF shapes
  <2> QED BY <1>1, <1>3, <1>5, <2>1
<1>7. ASSUME NEW k \in DOMAIN attrs, NEW i \in DOMAIN attrs[k]
      PROVE  AsInt32(attrs[k][i]) = attrs[k][i]
  BY <1>1, <1>4, <1>5
<1>8. ASSUME op \in {"conv2d", "max_pool2d"}, NEW s \in Windowed(op, xs, attrs), NEW i \in DOMAIN s
      PROVE  AsInt32(s[i]) = s[i]
  <2>1. s \in shapes
    BY <1>8 DEF shapes
  <2> QED BY <1>1, <1>3, <1>5, <2>1
<1> QED BY <1>6, <1>7, <1>8

LEMMA ParamIsFcn ==
  ASSUME NEW m, NEW which
  PROVE  IsFcn(Param(m, which).shape) /\ DOMAIN Param(m, which).shape # {}
         /\ 1 \in DOMAIN Param(m, which).shape
<1>1. \A a, b, c, d : IsFcn(<<a, b, c, d>>) /\ IsFcn(<<a, b>>) /\ IsFcn(<<a>>)
  BY DEF IsFcn
<1>2. \A a, b, c, d : 1 \in DOMAIN <<a, b, c, d>> /\ 1 \in DOMAIN <<a, b>> /\ 1 \in DOMAIN <<a>>
  OBVIOUS
<1>3. Param(m, which).shape = ParamShape(m, which)
  BY DEF Param, Value
<1> QED BY <1>1, <1>2, <1>3 DEF ParamShape

LEMMA ArgsDomain ==
  ASSUME NEW m \in Modules, ~Unsupported(m), NEW x
  PROVE  DOMAIN Args(m, x) = 1 .. Len(Added(m)) + 1 /\ Len(Added(m)) \in Nat
<1> DEFINE params == TorchParams(m)
           S == {Param(m, which) : which \in Kinds}
           xs == Args(m, x)
<1>1. params \in Seq(S) /\ Len(params) = Len(Added(m)) /\ xs = <<x>> \o params
  BY ParamsListed DEF Args
<1> HIDE DEF params, S, xs
<1>2. DOMAIN xs = 1 .. Len(params) + 1 /\ Len(params) \in Nat
  BY <1>1, FirstThen
<1> QED BY <1>1, <1>2 DEF xs

(* A view onto a shape that is there has dimensions. *)
LEMMA ReshapeOut ==
  ASSUME NEW xs, NEW target, target # <<>>
  PROVE  OutShape("reshape", xs, <<target>>) = ReshapeShape(xs[1].shape, target)
<1> DEFINE shapes == ReshapeShape(xs[1].shape, target)
<1>1. \A s \in shapes : s = Resolved(xs[1].shape, target)
  BY DEF ReshapeShape, Throws
<1>2. DOMAIN Resolved(xs[1].shape, target) = DOMAIN target
  BY DEF Resolved
<1>3. \A s \in shapes : Normal(s) = s
  BY <1>1, <1>2 DEF Normal
<1> HIDE DEF shapes
<1>4. OutShape("reshape", xs, <<target>>) = {Normal(s) : s \in shapes}
  BY DEF OutShape, shapes
<1>5. {Normal(s) : s \in shapes} = shapes
  BY <1>3
<1> QED BY <1>4, <1>5 DEF shapes

(* A launch that fits makes the shape it should. *)
LEMMA ModuleFits ==
  ASSUME NEW m \in Modules, ~Unsupported(m), NEW x, x.shape \in Seq(Sizes),
         NEW y, m.type = "Flatten" => y.shape # <<>>,
         ~Wide(OpOf[m.type], Args(m, x), Attrs(m, y))
  PROVE  OutShape(OpOf[m.type], Args(m, x), Attrs(m, y))
           = ExactOut(OpOf[m.type], Args(m, x), Attrs(m, y))
<1> DEFINE op == OpOf[m.type]
           xs == Args(m, x)
           attrs == Attrs(m, y)
           shape == x.shape
<1> SUFFICES OutShape(op, xs, attrs) = ExactOut(op, xs, attrs)
  OBVIOUS
<1>1. DOMAIN xs = 1 .. Len(Added(m)) + 1 /\ Len(Added(m)) \in Nat
  BY ArgsDomain
<1>2. xs[1] = x /\ 1 \in DOMAIN xs
  BY <1>1, ArgsListed
<1>3. IsFcn(shape) /\ Len(shape) \in Nat /\ DOMAIN shape = 1 .. Len(shape)
  BY LenProperties DEF IsFcn
<1>4. ASSUME op # "reshape"
      PROVE  /\ \A k \in DOMAIN xs : \A i \in DOMAIN xs[k].shape :
                   AsInt32(xs[k].shape[i]) = xs[k].shape[i]
             /\ \A k \in DOMAIN attrs : \A i \in DOMAIN attrs[k] : AsInt32(attrs[k][i]) = attrs[k][i]
             /\ op \in {"conv2d", "max_pool2d"} =>
                  \A s \in Windowed(op, xs, attrs) : \A i \in DOMAIN s : AsInt32(s[i]) = s[i]
  BY <1>4, InputsFit
<1>5. op # "reshape" => Narrow(xs[1].shape) = shape
  <2> HIDE DEF op, xs, attrs
  <2>1. op # "reshape" => \A i \in DOMAIN shape : AsInt32(shape[i]) = shape[i]
    BY <1>2, <1>4
  <2> QED BY <1>2, <1>3, <2>1, NarrowIsExact
<1>6. m.type \in {"Linear", "Conv2d"} => xs[2] = Param(m, "weight") /\ 2 \in DOMAIN xs
  <2>1. m.type \in {"Linear", "Conv2d"} => Len(Added(m)) = 1 \/ Len(Added(m)) = 2
    <3>1. m.type \in {"Linear", "Conv2d"} => Len(Added(m)) = (IF m.bias THEN 2 ELSE 1)
      BY ParamsListed
    <3> QED BY <3>1
  <2>2. m.type \in {"Linear", "Conv2d"} => xs[2] = Param(m, "weight")
    BY ArgsListed
  <2> DEFINE n == Len(Added(m))
  <2>3. DOMAIN xs = 1 .. n + 1 /\ (m.type \in {"Linear", "Conv2d"} => n = 1 \/ n = 2)
    BY <1>1, <2>1
  <2> HIDE DEF xs, n
  <2>4. m.type \in {"Linear", "Conv2d"} => 2 \in DOMAIN xs
    BY <2>3
  <2> QED BY <2>2, <2>4
<1> DEFINE weight == xs[2].shape
<1>7. m.type \in {"Linear", "Conv2d"} =>
        Narrow(weight) = weight /\ AsInt32(weight[1]) = weight[1]
  <2> SUFFICES ASSUME m.type \in {"Linear", "Conv2d"}
               PROVE  Narrow(weight) = weight /\ AsInt32(weight[1]) = weight[1]
    OBVIOUS
  <2>1. op # "reshape"
    BY OpNames
  <2> HIDE DEF op, attrs, xs
  <2>2. IsFcn(weight) /\ 1 \in DOMAIN weight
    BY <1>6, ParamIsFcn
  <2>3. \A i \in DOMAIN weight : AsInt32(weight[i]) = weight[i]
    BY <1>4, <1>6, <2>1
  <2> QED BY <2>2, <2>3, NarrowIsExact
<1>8. ASSUME op \in {"conv2d", "max_pool2d"}, Windowed(op, xs, attrs) = ExactOut(op, xs, attrs),
             \A s \in Windowed(op, xs, attrs) : IsFcn(s)
      PROVE  OutShape(op, xs, attrs) = ExactOut(op, xs, attrs)
  <2> HIDE DEF op, xs, attrs
  <2>1. \A s \in Windowed(op, xs, attrs) : Narrow(s) = s
    BY <1>4, <1>8, NarrowIsExact
  <2>2. OutShape(op, xs, attrs) = {Narrow(s) : s \in Windowed(op, xs, attrs)}
    BY <1>8 DEF OutShape
  <2> QED BY <1>8, <2>1, <2>2
<1>9. CASE m.type = "Linear"
  <2>1. op = "linear"
    BY <1>9, OpNames
  <2> HIDE DEF op, xs, attrs
  <2> QED BY <1>2, <1>7, <1>9, <2>1 DEF OutShape, ExactOut
<1>10. CASE m.type = "BatchNorm2d"
  <2>1. op = "batch_norm2d"
    BY <1>10, OpNames
  <2> HIDE DEF op, xs, attrs
  <2>2. Len(shape) = 4 => AsInt32(shape[2]) = shape[2]
    BY <1>2, <1>3, <1>4, <2>1
  <2> QED BY <1>2, <2>1, <2>2 DEF OutShape, ExactOut
<1>11. CASE m.type = "Conv2d"
  <2>1. op = "conv2d"
    BY <1>11, OpNames
  <2> HIDE DEF op, xs, attrs
  <2>2. Windowed(op, xs, attrs)
          = WindowShape(shape, weight[1], SubSeq(weight, 3, 4), attrs[1], attrs[2])
    BY <1>5, <1>7, <1>11, <2>1 DEF Windowed
  <2>3. ExactOut(op, xs, attrs)
          = WindowShape(shape, weight[1], SubSeq(weight, 3, 4), attrs[1], attrs[2])
    BY <1>2, <2>1 DEF ExactOut
  <2>4. \A s \in Windowed(op, xs, attrs) : IsFcn(s)
    BY <2>2, WindowIsFcn
  <2> QED BY <1>8, <2>1, <2>2, <2>3, <2>4
<1>12. CASE m.type = "MaxPool2d"
  <2>1. op = "max_pool2d" /\ attrs = <<m.kernel, m.stride, m.padding>> /\ WindowFields(m)
    BY <1>12, OpNames, ModuleFields DEF Attrs
  <2> HIDE DEF op, xs, attrs
  <2>2. Narrow(attrs[1]) = attrs[1]
    <3>1. 1 \in DOMAIN attrs /\ attrs[1] = m.kernel
      BY <2>1
    <3>2. IsFcn(attrs[1])
      BY <2>1, <3>1 DEF WindowFields, IsFcn
    <3>3. \A i \in DOMAIN attrs[1] : AsInt32(attrs[1][i]) = attrs[1][i]
      BY <1>4, <2>1, <3>1
    <3> QED BY <3>2, <3>3, NarrowIsExact
  <2>3. Windowed(op, xs, attrs) = WindowShape(shape, shape[2], attrs[1], attrs[2], attrs[3])
    BY <1>5, <2>1, <2>2 DEF Windowed
  <2>4. ExactOut(op, xs, attrs) = WindowShape(shape, shape[2], attrs[1], attrs[2], attrs[3])
    BY <1>2, <2>1 DEF ExactOut
  <2>5. \A s \in Windowed(op, xs, attrs) : IsFcn(s)
    BY <2>3, WindowIsFcn
  <2> QED BY <1>8, <2>1, <2>3, <2>4, <2>5
<1>13. CASE m.type = "ReLU"
  <2>1. op = "relu"
    BY <1>13, OpNames
  <2> HIDE DEF op, xs, attrs
  <2> QED BY <2>1 DEF OutShape, ExactOut
<1>14. CASE m.type = "Flatten"
  <2>1. op = "reshape" /\ attrs = <<y.shape>>
    BY <1>14, OpNames DEF Attrs
  <2> HIDE DEF op, xs, attrs
  <2> QED BY <1>14, <2>1, ReshapeOut DEF ExactOut
<1> QED BY <1>9, <1>10, <1>11, <1>12, <1>13, <1>14, ModuleFields

(* A launch that fits computes what it should. *)
LEMMA ComputeFields ==
  ASSUME NEW op, NEW xs, NEW attrs, ~Wide(op, xs, attrs)
  PROVE  /\ \A w \in Compute(op, xs, attrs) :
              \E shape \in OutShape(op, xs, attrs) :
                /\ InMemory(shape)
                /\ w = Value(shape, IF op = "reshape" THEN xs[1].term ELSE Term(op, xs, attrs, {}))
         /\ \A shape \in OutShape(op, xs, attrs) :
              HasKernel(op, xs, attrs) /\ shape \in Seq(Sizes) /\ InMemory(shape) =>
                Compute(op, xs, attrs) # {}
<1>1. \A shape \in Seq(Sizes) : ~HasNegative(shape)
  <2> TAKE shape \in Seq(Sizes)
  <2>1. \A i \in DOMAIN shape : shape[i] \in Sizes
    BY LenProperties
  <2> QED BY <2>1 DEF HasNegative, Sizes
<1> DEFINE term(dropped) == IF op = "reshape" THEN xs[1].term ELSE Term(op, xs, attrs, dropped)
           made == {shape \in OutShape(op, xs, attrs) :
                     HasKernel(op, xs, attrs) /\ ~HasNegative(shape) /\ InMemory(shape)}
           losses == {{}}
<1>2. Compute(op, xs, attrs) = {Value(shape, term(dropped)) : shape \in made, dropped \in losses}
  <2>1. {{}} \cup (IF Wide(op, xs, attrs) THEN {{"width"}} ELSE {}) = losses
    OBVIOUS
  <2> QED BY <2>1 DEF Compute
<1> HIDE DEF term
<1>3. \A w \in Compute(op, xs, attrs) : \E shape \in made : w = Value(shape, term({}))
  BY <1>2
<1>4. \A shape \in made : Value(shape, term({})) \in Compute(op, xs, attrs)
  BY <1>2
<1> QED BY <1>1, <1>3, <1>4 DEF term

LEMMA ReshapeNeverWide == \A xs, attrs : ~Wide("reshape", xs, attrs)
BY DEF Wide

LEMMA ModuleAgrees ==
  ASSUME NEW m \in Modules, ~Unsupported(m), Dropped(m) = {},
         NEW x, IsValue(x), NEW e, IsValue(e), Alike(x.shape, e.shape),
         NEW y \in TorchModule(m, e), NEW w \in ComputeModule(m, x, y),
         ~Wide(OpOf[m.type], Args(m, x), Attrs(m, y))
  PROVE  TorchModule(m, x) = {w} /\ IsValue(w) /\ Alike(w.shape, y.shape)
<1> DEFINE xs == Args(m, x)
           op == OpOf[m.type]
           attrs == Attrs(m, y)
<1>1. IsValue(y) /\ TorchShape(m, e.shape) = {y.shape}
  BY ModuleStep
<1>2. e.shape \in Seq(Sizes) /\ x.shape \in Seq(Sizes) /\ InMemory(x.shape) /\ InMemory(e.shape)
  BY DEF IsValue
<1>3. xs[1] = x
  BY ArgsListed
<1>4. CASE m.type # "Flatten"
  <2>1. op # "reshape" /\ m.type \in DOMAIN OpOf \ {"Flatten"}
    BY <1>4, OpNames, ModuleFields
  <2>2. PICK shape \in ExactOut(op, xs, attrs) :
          InMemory(shape) /\ w = Value(shape, Term(op, xs, attrs, {}))
    <3>1. OutShape(op, xs, attrs) = ExactOut(op, xs, attrs)
      BY <1>2, <1>4, ModuleFits
    <3> QED BY <2>1, <3>1, ComputeFields DEF ComputeModule
  <2>3. m.type \in {"Conv2d", "MaxPool2d"} => Len(e.shape) # 3
    BY <2>2, NoWindowOfThree DEF Alike
  <2>4. Agree(TorchShape(m, x.shape), ExactOut(op, xs, attrs), y.shape)
    BY <1>1, <1>2, <1>4, <2>3, ModuleShapes
  <2>5. TorchShape(m, x.shape) = {shape} /\ Alike(shape, y.shape)
    BY <2>2, <2>4 DEF Agree
  <2>6. TorchTerm(m, x) = Term(op, xs, attrs, {})
    <3>1. attrs = CASE m.type = "Conv2d" -> <<m.stride, m.padding>>
                    [] m.type = "MaxPool2d" -> <<m.kernel, m.stride, m.padding>>
                    [] OTHER -> <<>>
      BY <1>4 DEF Attrs
    <3> HIDE DEF attrs
    <3> QED BY <2>1, <3>1 DEF TorchTerm, Args
  <2>7. TorchModule(m, x) = {w}
    BY <2>2, <2>5, <2>6 DEF TorchModule
  <2>8. shape \in Seq(Sizes)
    BY <2>5 DEF Alike
  <2> QED BY <2>2, <2>5, <2>7, <2>8, ValueFields
<1>5. CASE m.type = "Flatten"
  <2>1. op = "reshape" /\ attrs = <<y.shape>>
    BY <1>5, OpNames DEF Attrs
  <2>2. /\ Len(e.shape) >= 2 /\ y.shape = Collapse(e.shape, 1)
    <3>1. y.shape \in IF Len(e.shape) >= 2 THEN {Collapse(e.shape, 1)} ELSE {}
      BY <1>1, <1>5 DEF TorchShape
    <3> QED BY <3>1
  <2>3. y.shape \in Seq(Sizes) /\ Count(y.shape) = Count(e.shape) /\ y.shape # <<>>
    BY <1>2, <2>2, CollapseKeeps
  <2>4. OutShape(op, xs, attrs) = ReshapeShape(x.shape, y.shape)
    <3> HIDE DEF op, xs, attrs
    <3> QED BY <1>3, <2>1, <2>3, ReshapeOut
  <2>5. PICK shape \in OutShape(op, xs, attrs) : InMemory(shape) /\ w = Value(shape, x.term)
    BY <1>3, <2>1, ComputeFields DEF ComputeModule
  <2>6. shape = y.shape /\ x.shape = e.shape
    BY <1>2, <2>3, <2>4, <2>5, ReshapeAgrees
  <2>7. TorchModule(m, x) = {w}
    <3>1. TorchTerm(m, x) = x.term
      BY <1>5 DEF TorchTerm
    <3>2. TorchShape(m, x.shape) = {shape}
      BY <1>1, <2>6
    <3> QED BY <2>5, <3>1, <3>2 DEF TorchModule
  <2> QED BY <2>3, <2>5, <2>6, <2>7, ValueFields, AlikeItself
<1> QED BY <1>4, <1>5

(* On the example itself an operator with a kernel computes. *)
LEMMA ModuleRuns ==
  ASSUME NEW m \in Modules, ~Unsupported(m), Dropped(m) = {},
         NEW e, IsValue(e), NEW y \in TorchModule(m, e),
         HasKernel(OpOf[m.type], Args(m, e), Attrs(m, y)),
         ~Wide(OpOf[m.type], Args(m, e), Attrs(m, y)),
         m.type \in {"Conv2d", "MaxPool2d"} => Len(e.shape) # 3
  PROVE  ComputeModule(m, e, y) # {}
<1> DEFINE xs == Args(m, e)
           op == OpOf[m.type]
           attrs == Attrs(m, y)
<1>1. IsValue(y) /\ TorchShape(m, e.shape) = {y.shape}
  BY ModuleStep
<1>2. /\ e.shape \in Seq(Sizes) /\ Alike(e.shape, e.shape) /\ InMemory(e.shape)
      /\ y.shape \in Seq(Sizes) /\ InMemory(y.shape)
  BY <1>1, AlikeItself DEF IsValue
<1>3. y.shape \in OutShape(op, xs, attrs)
  <2>1. CASE m.type # "Flatten"
    <3>1. Agree(TorchShape(m, e.shape), ExactOut(op, xs, attrs), y.shape)
      BY <1>1, <1>2, <2>1, ModuleShapes
    <3>2. OutShape(op, xs, attrs) = ExactOut(op, xs, attrs)
      BY <1>2, <2>1, ModuleFits
    <3> QED BY <1>1, <3>1, <3>2 DEF Agree
  <2>2. CASE m.type = "Flatten"
    <3>1. op = "reshape" /\ attrs = <<y.shape>> /\ xs[1] = e
      BY <2>2, OpNames, ArgsListed DEF Attrs
    <3>2. /\ Len(e.shape) >= 2 /\ y.shape = Collapse(e.shape, 1)
      <4>1. y.shape \in IF Len(e.shape) >= 2 THEN {Collapse(e.shape, 1)} ELSE {}
        BY <1>1, <2>2 DEF TorchShape
      <4> QED BY <4>1
    <3>3. y.shape \in Seq(Sizes) /\ Count(y.shape) = Count(e.shape) /\ y.shape # <<>>
      BY <1>2, <3>2, CollapseKeeps
    <3>4. OutShape(op, xs, attrs) = ReshapeShape(e.shape, y.shape)
      <4> HIDE DEF op, xs, attrs
      <4> QED BY <3>1, <3>3, ReshapeOut
    <3> QED BY <1>2, <3>3, <3>4, ReshapeAgrees
  <2> QED BY <2>1, <2>2
<1> QED BY <1>2, <1>3, ComputeFields DEF ComputeModule

(* A view gives y of e, and the node it was lowered to gives w of xs[1].    *)
ViewRun(name, target, e, y, xs, w) ==
  /\ name \in {"flatten", "view"} /\ target \in ViewTargets \cup {<<>>}
  /\ name = "view" => target # <<>>
  /\ IsValue(xs[1]) /\ IsValue(e) /\ Alike(xs[1].shape, e.shape)
  /\ y \in Views(name, target, e)
  /\ w \in Compute("reshape", xs, <<y.shape>>)

(* Then w is the view of xs[1]. *)
LEMMA ViewAgrees ==
  ASSUME NEW name, NEW target, NEW e, NEW y, NEW xs, NEW w, ViewRun(name, target, e, y, xs, w)
  PROVE  Views(name, target, xs[1]) = {w} /\ IsValue(w) /\ Alike(w.shape, y.shape)
<1> DEFINE x == xs[1]
<1>1. /\ name \in {"flatten", "view"} /\ target \in ViewTargets \cup {<<>>}
      /\ name = "view" => target # <<>>
      /\ IsValue(x) /\ IsValue(e) /\ Alike(x.shape, e.shape)
      /\ y \in Views(name, target, e)
  BY DEF ViewRun
<1>2. w \in Compute("reshape", xs, <<y.shape>>) /\ xs[1] = x
  BY DEF ViewRun
<1> HIDE DEF x
<1>3. /\ e.shape \in Seq(Sizes) /\ x.shape \in Seq(Sizes)
      /\ InMemory(x.shape) /\ InMemory(e.shape)
  BY <1>1 DEF IsValue
<1>4. Views(name, target, e) = {y} /\ IsValue(y) /\ Count(y.shape) = Count(e.shape)
      /\ y.shape \in Seq(Sizes) /\ y.shape # <<>>
  <2>1. Views(name, target, e) = {y} /\ IsValue(y) /\ Count(y.shape) = Count(e.shape)
        /\ y.shape # <<>>
    BY <1>1, ViewStep
  <2> QED BY <2>1 DEF IsValue
<1>5. PICK shape \in ReshapeShape(x.shape, y.shape) : InMemory(shape) /\ w = Value(shape, x.term)
  <2>1. OutShape("reshape", xs, <<y.shape>>) = ReshapeShape(x.shape, y.shape)
    BY <1>2, <1>4, ReshapeOut
  <2> QED BY <1>2, <2>1, ReshapeNeverWide, ComputeFields
<1>6. shape = y.shape /\ x.shape = e.shape
  BY <1>3, <1>4, <1>5, <1>1, ReshapeAgrees
<1>7. \E s : Views(name, target, x) = {Value(s, x.term)} /\ s = y.shape
  <2> DEFINE V == IF name = "flatten" THEN {Collapse(x.shape, 0)} ELSE TorchView(x.shape, target)
  <2>1. Views(name, target, x) = {Value(s, x.term) : s \in V}
        /\ Views(name, target, e) = {Value(s, e.term) : s \in V}
    BY <1>6 DEF Views
  <2> HIDE DEF V
  <2>2. \A s \in V : Value(s, e.term).shape = s
    BY ValueFields
  <2>3. \A s \in V : s = y.shape
    <3>1. \A s \in V : Value(s, e.term) \in {y}
      BY <1>4, <2>1
    <3> QED BY <2>2, <3>1
  <2>4. y.shape \in V
    <3>1. PICK s \in V : TRUE
      BY <1>4, <2>1
    <3> QED BY <2>3, <3>1
  <2>5. V = {y.shape}
    BY <2>3, <2>4
  <2> QED BY <2>1, <2>5
<1>8. Views(name, target, x) = {w} /\ IsValue(w) /\ Alike(w.shape, y.shape)
  BY <1>4, <1>5, <1>6, <1>7, ValueFields, AlikeItself
<1> QED BY <1>8 DEF x

LEMMA ViewRuns ==
  ASSUME NEW name \in {"flatten", "view"}, NEW target \in ViewTargets \cup {<<>>},
         name = "view" => target # <<>>,
         NEW e, IsValue(e), NEW y \in Views(name, target, e), NEW xs, xs[1] = e
  PROVE  Compute("reshape", xs, <<y.shape>>) # {}
<1>1. /\ IsValue(y) /\ Count(y.shape) = Count(e.shape) /\ y.shape \in Seq(Sizes)
      /\ InMemory(y.shape) /\ y.shape # <<>>
  <2>1. IsValue(y) /\ Count(y.shape) = Count(e.shape) /\ y.shape # <<>>
    BY ViewStep
  <2> QED BY <2>1 DEF IsValue
<1>2. e.shape \in Seq(Sizes) /\ InMemory(e.shape) /\ Alike(e.shape, e.shape)
  BY AlikeItself DEF IsValue
<1>3. y.shape \in OutShape("reshape", xs, <<y.shape>>)
  <2>1. y.shape \in ReshapeShape(e.shape, y.shape)
    BY <1>1, <1>2, ReshapeAgrees
  <2> QED BY <1>1, <2>1, ReshapeOut
<1>4. HasKernel("reshape", xs, <<y.shape>>)
  BY DEF HasKernel, Kernel
<1> QED BY <1>1, <1>3, <1>4, ReshapeNeverWide, ComputeFields


-----------------------------------------------------------------------------
(* The names of the graph *)

LEMMA Sequence ==
  ASSUME NEW s, IsSeq(s)
  PROVE  Len(s) \in Nat /\ DOMAIN s = 1 .. Len(s) /\ (s = <<>> <=> Len(s) = 0)
<1>1. PICK S : s \in Seq(S)
  BY DEF IsSeq
<1> QED BY <1>1, LenProperties, EmptySeq

LEMMA AppendKeeps ==
  ASSUME NEW s, IsSeq(s), NEW e
  PROVE  /\ IsSeq(Append(s, e)) /\ Len(s) \in Nat /\ Len(Append(s, e)) = Len(s) + 1
         /\ DOMAIN s = 1 .. Len(s) /\ DOMAIN Append(s, e) = 1 .. Len(s) + 1
         /\ Append(s, e)[Len(s) + 1] = e
         /\ \A i \in 1 .. Len(s) : Append(s, e)[i] = s[i]
<1>1. PICK S : s \in Seq(S)
  BY DEF IsSeq
<1> DEFINE T == S \cup {e}
<1>2. s \in Seq(T) /\ e \in T
  BY <1>1, SeqMonotonic
<1> HIDE DEF T
<1>3. /\ Append(s, e) \in Seq(T) /\ Len(Append(s, e)) = Len(s) + 1
      /\ \A i \in 1 .. Len(s) : Append(s, e)[i] = s[i]
      /\ Append(s, e)[Len(s) + 1] = e
  BY <1>2, AppendProperties
<1>4. Len(s) \in Nat /\ DOMAIN s = 1 .. Len(s) /\ DOMAIN Append(s, e) = 1 .. Len(Append(s, e))
  BY <1>2, <1>3, LenProperties
<1> QED BY <1>3, <1>4 DEF IsSeq

LEMMA TuplesDiffer ==
  ASSUME NEW a, NEW b, NEW c, NEW d
  PROVE  /\ <<a>> # <<b, c>> /\ <<a>> # <<b, c, d>> /\ <<a, b>> # <<a, c, d>>
         /\ <<a, b>> # <<c, "_", d>>
         /\ <<a>> = <<b>> => a = b
         /\ <<a, b>> = <<c, d>> => a = c /\ b = d
         /\ <<a, "_", b>> = <<c, "_", d>> => a = c /\ b = d
OBVIOUS

LEMMA EarlierNames ==
  ASSUME NEW s, IsSeq(s), NEW i \in DOMAIN s
  PROVE  /\ IsFiniteSet(Earlier(s, i)) /\ Cardinality(Earlier(s, i)) \in Nat
         /\ \A j \in DOMAIN s : i < j /\ s[i].base = s[j].base =>
              /\ Earlier(s, j) # {} /\ (Earlier(s, i) # {} => Cardinality(Earlier(s, i)) # Cardinality(Earlier(s, j)))
<1>1. Len(s) \in Nat /\ DOMAIN s = 1 .. Len(s)
  BY Sequence
<1>2. \A j \in DOMAIN s : IsFiniteSet(Earlier(s, j)) /\ Earlier(s, j) \in SUBSET Nat
  <2> TAKE j \in DOMAIN s
  <2>1. j - 1 \in Int /\ j \in Nat
    BY <1>1
  <2>2. IsFiniteSet(1 .. j - 1)
    BY <2>1, FS_Interval
  <2>3. Earlier(s, j) \in SUBSET (1 .. j - 1)
    BY DEF Earlier
  <2> QED BY <2>1, <2>2, <2>3, FS_Subset
<1>3. Cardinality(Earlier(s, i)) \in Nat
  BY <1>2, FS_CardinalityType
<1>4. ASSUME NEW j \in DOMAIN s, i < j, s[i].base = s[j].base
      PROVE  Earlier(s, j) # {} /\ Cardinality(Earlier(s, i)) # Cardinality(Earlier(s, j))
  <2>1. i \in Earlier(s, j)
    BY <1>1, <1>4 DEF Earlier
  <2>2. i \notin Earlier(s, i)
    BY <1>1 DEF Earlier
  <2>3. Earlier(s, i) \in SUBSET Earlier(s, j)
    BY <1>1, <1>4 DEF Earlier
  <2>4. Earlier(s, i) # Earlier(s, j)
    BY <2>1, <2>2
  <2> QED BY <1>2, <2>1, <2>3, <2>4, FS_Subset
<1> QED BY <1>2, <1>3, <1>4

(* FX gives no name twice. *)
LEMMA NamesAreUnique ==
  ASSUME NEW s, IsSeq(s), NEW i \in DOMAIN s, NEW j \in DOMAIN s, NameIn(s, i) = NameIn(s, j)
  PROVE  i = j
<1>1. Len(s) \in Nat /\ DOMAIN s = 1 .. Len(s)
  BY Sequence
<1>2. /\ s[i].base = s[j].base /\ (Earlier(s, i) = {} <=> Earlier(s, j) = {})
      /\ Earlier(s, i) # {} => Cardinality(Earlier(s, i)) = Cardinality(Earlier(s, j))
  <2>1. CASE Earlier(s, i) = {} /\ Earlier(s, j) = {}
    BY <2>1, TuplesDiffer DEF NameIn
  <2>2. CASE Earlier(s, i) # {} /\ Earlier(s, j) # {}
    BY <2>2, TuplesDiffer DEF NameIn
  <2>3. CASE Earlier(s, i) = {} /\ Earlier(s, j) # {}
    BY <2>3, TuplesDiffer DEF NameIn
  <2>4. CASE Earlier(s, i) # {} /\ Earlier(s, j) = {}
    BY <2>4, TuplesDiffer DEF NameIn
  <2> QED BY <2>1, <2>2, <2>3, <2>4
<1>3. ~(i < j)
  BY <1>2, EarlierNames
<1>4. ~(j < i)
  BY <1>2, EarlierNames
<1> QED BY <1>1, <1>3, <1>4

LEMMA NameShapes ==
  ASSUME NEW i
  PROVE  /\ \A a, b : NameAt(i) # <<a, b>>
         /\ fx # <<>> /\ IsInput(1) => fx[1].env = NameAt(1)
<1>1. \A a, b : NameAt(i) # <<a, b>>
  BY TuplesDiffer DEF NameAt, NameIn
<1>2. Earlier(fx, 1) = {}
  BY DEF Earlier
<1> QED BY <1>1, <1>2 DEF NameAt, NameIn, IsInput


-----------------------------------------------------------------------------
(* What has been traced stays so *)

Grows ==
  /\ IsSeq(fx) /\ IsSeq(nodes)
  /\ DOMAIN fx \subseteq DOMAIN fx' /\ \A i \in DOMAIN fx : fx'[i] = fx[i]
  /\ DOMAIN nodes \subseteq DOMAIN nodes' /\ \A n \in DOMAIN nodes : nodes'[n] = nodes[n]
  /\ lost \subseteq lost' /\ DOMAIN weights \subseteq DOMAIN weights'

LEMMA EntriesKept ==
  ASSUME Grows, NEW i \in DOMAIN fx
  PROVE  /\ NameAt(i)' = NameAt(i)
         /\ IsInput(i) => IsInput(i)'
         /\ IsParam(i) => IsParam(i)'
         /\ Unchanging(i)' <=> Unchanging(i)
<1>1. i \in DOMAIN fx' /\ fx'[i] = fx[i] /\ DOMAIN weights \subseteq DOMAIN weights'
  BY DEF Grows
<1>2. NameAt(i)' = NameAt(i)
  <2>1. DOMAIN fx = 1 .. Len(fx) /\ Len(fx) \in Nat
    BY Sequence DEF Grows
  <2>2. \A k \in 1 .. i - 1 : k \in DOMAIN fx
    BY <2>1
  <2>3. \A k \in 1 .. i - 1 : fx'[k] = fx[k]
    BY <2>2 DEF Grows
  <2>4. Earlier(fx', i) = Earlier(fx, i)
    BY <1>1, <2>3 DEF Earlier
  <2> QED BY <1>1, <2>4 DEF NameAt, NameIn
<1>3. IsInput(i) => IsInput(i)'
  BY <1>1 DEF IsInput
<1>4. IsParam(i) => IsParam(i)'
  BY <1>1 DEF IsParam, Parameter
<1>5. Unchanging(i)' <=> Unchanging(i)
  BY <1>1 DEF Unchanging
<1> QED BY <1>2, <1>3, <1>4, <1>5

LEMMA CallsKept ==
  ASSUME Grows, NEW n \in DOMAIN nodes, NEW i \in DOMAIN fx, NEW j \in DOMAIN fx, Lowers(n, j, i)
  PROVE  Lowers(n, j, i)'
<1>1. /\ fx'[i] = fx[i] /\ fx'[j] = fx[j] /\ nodes'[n] = nodes[n]
      /\ lost \subseteq lost' /\ DOMAIN weights \subseteq DOMAIN weights'
  BY DEF Grows
<1>2. \A m \in Modules : CallsModule(m, j, i) => CallsModule(m, j, i)'
  BY <1>1 DEF CallsModule
<1>3. \A name, target : CallsView(name, target, j, i) => CallsView(name, target, j, i)'
  BY <1>1 DEF CallsView
<1>4. Calls(n, j, i)
  BY DEF Lowers
<1>5. CASE \E m \in Modules :
             /\ CallsModule(m, j, i)
             /\ nodes[n] = Node(OpOf[m.type], <<fx[j].env>> \o ParamNames(m), fx[i].env,
                                Attrs(m, fx[i].example))
             /\ \A k \in DOMAIN ParamNames(m) : ParamNames(m)[k] \in DOMAIN weights
  <2>1. PICK m \in Modules :
             /\ CallsModule(m, j, i)
             /\ nodes[n] = Node(OpOf[m.type], <<fx[j].env>> \o ParamNames(m), fx[i].env,
                                Attrs(m, fx[i].example))
             /\ \A k \in DOMAIN ParamNames(m) : ParamNames(m)[k] \in DOMAIN weights
    BY <1>5
  <2>2. nodes'[n] = Node(OpOf[m.type], <<fx'[j].env>> \o ParamNames(m), fx'[i].env,
                         Attrs(m, fx'[i].example))
    BY <1>1, <2>1
  <2>3. \A k \in DOMAIN ParamNames(m) : ParamNames(m)[k] \in DOMAIN weights'
    BY <1>1, <2>1
  <2>4. CallsModule(m, j, i)'
    BY <1>2, <2>1
  <2>5. Calls(n, j, i)'
    BY <2>2, <2>3, <2>4 DEF Calls
  <2>6. fx'[i].env = NameAt(i)'
    BY <1>1, EntriesKept DEF Lowers
  <2> QED BY <2>5, <2>6 DEF Lowers
<1>6. CASE \E name \in {"flatten", "view"}, target \in ViewTargets \cup {<<>>} :
             /\ CallsView(name, target, j, i)
             /\ nodes[n] = Node("reshape", <<fx[j].env>>, fx[i].env, <<fx[i].example.shape>>)
  <2>1. PICK name \in {"flatten", "view"}, target \in ViewTargets \cup {<<>>} :
             /\ CallsView(name, target, j, i)
             /\ nodes[n] = Node("reshape", <<fx[j].env>>, fx[i].env, <<fx[i].example.shape>>)
    BY <1>6
  <2>2. nodes'[n] = Node("reshape", <<fx'[j].env>>, fx'[i].env, <<fx'[i].example.shape>>)
    BY <1>1, <2>1
  <2>3. CallsView(name, target, j, i)'
    BY <1>3, <2>1
  <2>4. Calls(n, j, i)'
    BY <2>2, <2>3 DEF Calls
  <2>5. fx'[i].env = NameAt(i)'
    BY <1>1, EntriesKept DEF Lowers
  <2> QED BY <2>4, <2>5 DEF Lowers
<1> QED BY <1>4, <1>5, <1>6 DEF Calls

LEMMA SettledKept ==
  ASSUME Grows, NEW n \in 1 .. Len(nodes) + 1, NEW i \in DOMAIN fx, Settled(n, i)
  PROVE  Settled(n, i)'
<1>1. Len(nodes) \in Nat /\ DOMAIN nodes = 1 .. Len(nodes) /\ DOMAIN fx \subseteq DOMAIN fx'
  BY Sequence DEF Grows
<1>2. CASE i = 1
  BY <1>2 DEF Settled
<1>3. CASE IsParam(i)
  BY <1>3, EntriesKept DEF Settled
<1>4. CASE \E k \in 1 .. n - 1, j \in DOMAIN fx : Lowers(k, j, i)
  <2>1. PICK k \in 1 .. n - 1, j \in DOMAIN fx : Lowers(k, j, i)
    BY <1>4
  <2>2. k \in DOMAIN nodes
    BY <1>1
  <2>3. Lowers(k, j, i)'
    BY <2>1, <2>2, CallsKept
  <2>4. j \in DOMAIN fx'
    BY <1>1
  <2> QED BY <2>3, <2>4 DEF Settled
<1> QED BY <1>2, <1>3, <1>4 DEF Settled

LEMMA SettledGrows ==
  ASSUME NEW n \in Nat, NEW k \in Nat, k <= n, NEW i, Settled(k, i)
  PROVE  Settled(n, i)
<1>1. 1 .. k - 1 \subseteq 1 .. n - 1
  OBVIOUS
<1> QED BY <1>1 DEF Settled


-----------------------------------------------------------------------------
(* The kernels of the plugin *)

(* Each group of specializations is what some templates name. *)
LEMMA SpecsOfTemplates ==
  /\ NormSpecs = BatchNormKernels
  /\ HiddenSpecs = EmbeddingKernels \cup RmsNormKernels
  /\ LinearSpecs = LinearKernels \cup MatmulKernels
  /\ ElementwiseSpecs = {<<"add">>} \cup {<<"mul">>} \cup {<<"relu">>} \cup {<<"silu">>}
  /\ SoftmaxSpecs = SoftmaxKernels
  /\ TransposeSpecs = {<<"transpose2d">>}
<1>1. NormSpecs = BatchNormKernels /\ TransposeSpecs = {<<"transpose2d">>}
  BY DEF NormSpecs, BatchNormKernels, TransposeSpecs
<1>2. HiddenSpecs = EmbeddingKernels \cup RmsNormKernels
  BY DEF HiddenSpecs, EmbeddingKernels, RmsNormKernels
<1>3. LinearSpecs = LinearKernels \cup MatmulKernels
  BY DEF LinearSpecs, LinearKernels, MatmulKernels
<1>4. ElementwiseSpecs = {<<"add">>} \cup {<<"mul">>} \cup {<<"relu">>} \cup {<<"silu">>}
  BY DEF ElementwiseSpecs
<1>5. SoftmaxSpecs = SoftmaxKernels
  BY DEF SoftmaxSpecs, SoftmaxKernels
<1> QED BY <1>1, <1>2, <1>3, <1>4, <1>5

LEMMA ShapedSpecsOfTemplates ==
  /\ ConvSpecs = ConvKernels
  /\ PoolSpecs = PoolKernels
  /\ AttentionSpecs = AttentionKernels
  /\ RotarySpecs = RotaryKernels
<1>1. ConvSpecs = ConvKernels
  <2>1. {<<1, 2, 2>>, <<1, 3, 3>>, <<3, 3, 3>>, <<8, 3, 3>>, <<16, 3, 3>>}
          = {<<1, 2, 2>>} \cup {<<c, 3, 3>> : c \in {1, 3, 8, 16}}
    OBVIOUS
  <2> QED BY <2>1 DEF ConvSpecs, ConvKernels
<1>2. PoolSpecs = PoolKernels
  BY DEF PoolSpecs, PoolKernels
<1>3. AttentionSpecs = AttentionKernels
  <2>1. AttentionShapes
          = {<<1, k, 2>> : k \in {1, 2}} \cup {<<1, k, 128>> : k \in {1, 128, 512, 2048}}
              \cup {<<s, s, s>> : s \in {2, 128}}
    BY DEF AttentionShapes
  <2> QED BY <2>1 DEF AttentionSpecs, AttentionKernels
<1>4. RotarySpecs = RotaryKernels
  <2>1. 2 \div 2 = 1 /\ 128 \div 2 = 64
    OBVIOUS
  <2>2. RotarySpecs = {<<"rotary", 2, 1, 1>>, <<"rotary", 2, 2, 1>>, <<"rotary", 128, 1, 64>>,
                       <<"rotary", 128, 128, 64>>}
    BY DEF RotarySpecs
  <2>3. RotaryKernels = {<<"rotary", 2, 1, 1>>, <<"rotary", 2, 2, 1>>, <<"rotary", 128, 1, 64>>,
                         <<"rotary", 128, 128, 64>>}
    BY <2>1 DEF RotaryKernels
  <2> QED BY <2>2, <2>3
<1> QED BY <1>1, <1>2, <1>3, <1>4

TemplateNames ==
  {"batch_norm2d", "embedding", "rms_norm", "linear", "matmul", "add", "mul", "relu", "silu",
   "max_pool2d", "softmax", "reshape", "transpose", "conv2d", "attention", "rotary"}

LEMMA TemplatesUnion ==
  /\ DOMAIN TemplateKernels = TemplateNames
  /\ UNION {TemplateKernels[op] : op \in DOMAIN TemplateKernels} = DefaultSpecs
<1>1. DOMAIN TemplateKernels = TemplateNames
  BY DEF TemplateKernels, TemplateNames
<1>2. /\ TemplateKernels["batch_norm2d"] = BatchNormKernels
      /\ TemplateKernels["embedding"] = EmbeddingKernels
      /\ TemplateKernels["rms_norm"] = RmsNormKernels
      /\ TemplateKernels["linear"] = LinearKernels
      /\ TemplateKernels["matmul"] = MatmulKernels
      /\ TemplateKernels["add"] = {<<"add">>}
      /\ TemplateKernels["mul"] = {<<"mul">>}
      /\ TemplateKernels["relu"] = {<<"relu">>}
      /\ TemplateKernels["silu"] = {<<"silu">>}
      /\ TemplateKernels["max_pool2d"] = PoolKernels
      /\ TemplateKernels["softmax"] = SoftmaxKernels
      /\ TemplateKernels["reshape"] = {}
      /\ TemplateKernels["transpose"] = {<<"transpose2d">>}
      /\ TemplateKernels["conv2d"] = ConvKernels
      /\ TemplateKernels["attention"] = AttentionKernels
      /\ TemplateKernels["rotary"] = RotaryKernels
  BY DEF TemplateKernels
<1>3. UNION {TemplateKernels[op] : op \in TemplateNames}
        = BatchNormKernels \cup EmbeddingKernels \cup RmsNormKernels \cup LinearKernels
            \cup MatmulKernels \cup {<<"add">>} \cup {<<"mul">>} \cup {<<"relu">>}
            \cup {<<"silu">>} \cup PoolKernels \cup SoftmaxKernels \cup {<<"transpose2d">>}
            \cup ConvKernels \cup AttentionKernels \cup RotaryKernels
  BY <1>2 DEF TemplateNames
<1>4. @ = DefaultSpecs
  BY SpecsOfTemplates, ShapedSpecsOfTemplates DEF DefaultSpecs
<1> QED BY <1>1, <1>3, <1>4

-----------------------------------------------------------------------------
(* Steps that leave the graph as it is *)

Graph == <<fx, nodes, weights, outputs, lost>>

LEMMA SameEntries ==
  ASSUME UNCHANGED Graph, NEW i
  PROVE  /\ NameAt(i)' = NameAt(i) /\ (IsInput(i)' <=> IsInput(i)) /\ (IsParam(i)' <=> IsParam(i))
         /\ (Unchanging(i)' <=> Unchanging(i)) /\ (Clash' <=> Clash)
<1>1. fx' = fx /\ weights' = weights
  BY DEF Graph
<1>2. NameAt(i)' = NameAt(i)
  BY <1>1 DEF NameAt
<1>3. IsInput(i)' <=> IsInput(i)
  BY <1>1 DEF IsInput
<1>4. IsParam(i)' <=> IsParam(i)
  BY <1>1 DEF IsParam, Parameter
<1>5. Unchanging(i)' <=> Unchanging(i)
  BY <1>1 DEF Unchanging
<1>6. Clash' <=> Clash
  BY <1>1 DEF Clash
<1> QED BY <1>2, <1>3, <1>4, <1>5, <1>6

LEMMA SameCalls ==
  ASSUME UNCHANGED Graph, NEW n, NEW i
  PROVE  /\ \A j : Lowers(n, j, i)' <=> Lowers(n, j, i)
         /\ Settled(n, i)' <=> Settled(n, i)
<1>1. fx' = fx /\ nodes' = nodes /\ lost' = lost /\ weights' = weights
  BY DEF Graph
<1>2. \A j, m : CallsModule(m, j, i)' <=> CallsModule(m, j, i)
  BY <1>1 DEF CallsModule
<1>3. \A j, name, target : CallsView(name, target, j, i)' <=> CallsView(name, target, j, i)
  BY <1>1 DEF CallsView
<1>4. \A k, j : Calls(k, j, i)' <=> Calls(k, j, i)
  BY <1>1, <1>2, <1>3 DEF Calls
<1>5. \A k, j : Lowers(k, j, i)' <=> Lowers(k, j, i)
  BY <1>1, <1>4, SameEntries DEF Lowers
<1>6. Settled(n, i)' <=> Settled(n, i)
  BY <1>1, <1>5, SameEntries DEF Settled
<1> QED BY <1>5, <1>6

(* A launch may lose a width, the rest of the graph is as it was.           *)
LEMMA SameGraph ==
  ASSUME FxInv, UNCHANGED <<fx, nodes, weights, outputs>>, lost \subseteq lost'
  PROVE  IsSeq(fx)' /\ IsSeq(nodes)' /\ Entries' /\ Lowered' /\ Weights'
<1>0. Grows
  BY DEF FxInv, Grows
<1>1. /\ fx' = fx /\ nodes' = nodes /\ weights' = weights /\ outputs' = outputs
      /\ DOMAIN nodes = 1 .. Len(nodes) /\ Len(nodes) \in Nat
  BY Sequence DEF FxInv
<1>2. IsSeq(fx)' /\ IsSeq(nodes)'
  BY <1>1 DEF FxInv, IsSeq
<1>3. Entries'
  <2>1. fx' # <<>> => IsInput(1)'
    BY <1>1 DEF FxInv, Entries, IsInput
  <2>2. ASSUME NEW i \in DOMAIN fx'
        PROVE  /\ IsValue(fx'[i].example)
               /\ IsParameterLeaf(fx'[i].example.term) => Unchanging(i)'
               /\ Unchanging(1)' => Unchanging(i)'
               /\ Settled(Len(nodes) + 1, i)'
    <3>1. /\ IsValue(fx[i].example)
          /\ IsParameterLeaf(fx[i].example.term) => Unchanging(i)
          /\ Unchanging(1) => Unchanging(i)
          /\ Settled(Len(nodes) + 1, i)
      BY <1>1, <2>2 DEF FxInv, Entries
    <3>2. (Unchanging(i)' <=> Unchanging(i)) /\ (Unchanging(1)' <=> Unchanging(1))
      BY <1>1 DEF Unchanging
    <3>3. Settled(Len(nodes) + 1, i)'
      <4> DEFINE n == Len(nodes) + 1
      <4>1. n \in 1 .. Len(nodes) + 1 /\ i \in DOMAIN fx /\ Settled(n, i) /\ n' = n
        BY <1>1, <2>2, <3>1
      <4> HIDE DEF n
      <4>2. Settled(n, i)'
        BY <1>0, <4>1, SettledKept
      <4> QED BY <1>1, <4>2 DEF n
    <3> QED BY <1>1, <3>1, <3>2, <3>3
  <2> QED BY <2>1, <2>2 DEF Entries
<1>4. Lowered'
  <2>1. ASSUME NEW n \in DOMAIN nodes'
        PROVE  \E i, j \in DOMAIN fx' : Lowers(n, j, i)' /\ Settled(n, j)'
    <3>1. PICK i, j \in DOMAIN fx : Lowers(n, j, i) /\ Settled(n, j)
      BY <1>1, <2>1 DEF FxInv, Lowered
    <3>2. n \in DOMAIN nodes /\ n \in 1 .. Len(nodes) + 1
      BY <1>1, <2>1
    <3>3. Lowers(n, j, i)' /\ Settled(n, j)'
      BY <1>0, <3>1, <3>2, CallsKept, SettledKept
    <3> QED BY <1>1, <3>3
  <2>2. \A a, b \in DOMAIN nodes' : nodes'[a].output = nodes'[b].output => a = b
    BY <1>1 DEF FxInv, Lowered
  <2> QED BY <2>1, <2>2 DEF Lowered
<1>5. Weights'
  BY <1>1 DEF FxInv, Weights, Parameter
<1> QED BY <1>2, <1>3, <1>4, <1>5

LEMMA SameRunning ==
  ASSUME UNCHANGED Graph, UNCHANGED <<phase, tensors, next>>, Running
  PROVE  Running'
<1>1. /\ fx' = fx /\ nodes' = nodes /\ weights' = weights /\ phase' = phase
      /\ tensors' = tensors /\ next' = next
  BY DEF Graph
<1>2. \A i \in DOMAIN fx' : Settled(next, i)' => Agrees(i)'
  <2> TAKE i \in DOMAIN fx'
  <2>1. Settled(next, i)' <=> Settled(next, i)
    BY <1>1, SameCalls, SameEntries DEF Settled, Graph
  <2>2. Agrees(i)' <=> Agrees(i)
    BY <1>1 DEF Agrees
  <2> QED BY <1>1, <2>1, <2>2 DEF Running
<1>3. HasInputs(next)' <=> HasInputs(next)
  BY <1>1 DEF HasInputs
<1>4. Inputs(next)' = Inputs(next)
  BY <1>1 DEF Inputs
<1> QED BY <1>1, <1>2, <1>3, <1>4 DEF Running

LEMMA FxInitInv == FxInit => FxInv
<1> SUFFICES ASSUME FxInit
             PROVE  FxInv
  OBVIOUS
<1>1. IsSeq(fx) /\ IsSeq(nodes) /\ fx = <<>> /\ nodes = <<>>
  <2>1. <<>> \in Seq({})
    OBVIOUS
  <2> QED BY <2>1 DEF FxInit, IsSeq
<1>2. DOMAIN fx = {} /\ DOMAIN nodes = {}
  BY <1>1
<1>3. DOMAIN weights = {} /\ DOMAIN outputs = {}
  BY DEF FxInit
<1>4. Phases
  BY <1>1 DEF FxInit, Phases
<1>5. Entries
  BY <1>1, <1>2 DEF Entries
<1>6. Lowered
  BY <1>2 DEF Lowered
<1>7. Weights
  BY <1>3 DEF Weights
<1> QED BY <1>1, <1>4, <1>5, <1>6, <1>7 DEF FxInit, FxInv

LEMMA RaisesInv == FxInv /\ phase = "trace" /\ Raises => FxInv'
<1> SUFFICES ASSUME FxInv, phase = "trace", Raises
             PROVE  FxInv'
  OBVIOUS
<1>1. UNCHANGED Graph
  BY DEF Raises, Graph
<1>2. Phases'
  BY DEF Raises, FxInv, Phases
<1> QED BY <1>1, <1>2, SameGraph DEF FxInv, Raises

LEMMA BuildInv == FxInv /\ BuildPlugin => FxInv'
<1> SUFFICES ASSUME FxInv, BuildPlugin
             PROVE  FxInv'
  OBVIOUS
<1>1. UNCHANGED Graph /\ UNCHANGED <<phase, tensors, next>>
  BY DEF BuildPlugin, Graph
<1>2. Phases'
  <2>1. Unresolved = {}
    <3> DEFINE named == UNION {TemplateKernels[op] : op \in DOMAIN TemplateKernels}
    <3>1. Unresolved = named \ DefaultSpecs
      BY DEF Unresolved
    <3>2. named = DefaultSpecs
      BY TemplatesUnion
    <3> HIDE DEF named
    <3> QED BY <3>1, <3>2
  <2>2. plugin' \in {"needs scratch", "built"}
    BY <2>1 DEF BuildPlugin
  <2> QED BY <1>1, <2>2 DEF FxInv, Phases, Graph
<1>3. phase \in {"run", "threw", "done"} /\ lost = {} /\ ~Clash => Running'
  <2> SUFFICES ASSUME phase \in {"run", "threw", "done"}, lost = {}, ~Clash
               PROVE  Running'
    OBVIOUS
  <2>1. Running
    BY DEF FxInv
  <2> QED BY <1>1, <2>1, SameRunning
<1> QED BY <1>1, <1>2, <1>3, SameGraph, SameEntries DEF FxInv, Graph


-----------------------------------------------------------------------------
(* Steps of the trace *)

LEMMA EntryAdded ==
  ASSUME FxInv, Grows, NEW node, fx # <<>>, fx' = Append(fx, node), IsSeq(nodes'),
         Len(nodes') >= Len(nodes), IsValue(node.example),
         IsParameterLeaf(node.example.term) \/ Unchanging(1) => node.actual = {node.example},
         NEW final, final = Len(fx) + 1, Settled(Len(nodes) + 1, final)'
  PROVE  IsSeq(fx') /\ Entries'
<1>1. IsSeq(fx) /\ IsSeq(nodes) /\ Entries
  BY DEF FxInv
<1>2. /\ IsSeq(fx') /\ DOMAIN fx = 1 .. Len(fx) /\ Len(fx) \in Nat /\ DOMAIN fx' = 1 .. final
      /\ fx'[final] = node /\ \A i \in DOMAIN fx : fx'[i] = fx[i]
  BY <1>1, AppendKeeps
<1>3. 1 \in DOMAIN fx /\ Len(nodes) \in Nat /\ Len(nodes') \in Nat
  BY <1>1, <1>2, Sequence
<1>4. fx' # <<>> => IsInput(1)'
  BY <1>1, <1>3, EntriesKept DEF Entries
<1>5. ASSUME NEW i \in DOMAIN fx
      PROVE  /\ IsValue(fx'[i].example)
             /\ IsParameterLeaf(fx'[i].example.term) => Unchanging(i)'
             /\ Unchanging(1)' => Unchanging(i)'
             /\ Settled(Len(nodes) + 1, i)'
  <2>1. /\ IsValue(fx[i].example) /\ fx'[i] = fx[i]
        /\ IsParameterLeaf(fx[i].example.term) => Unchanging(i)
        /\ Unchanging(1) => Unchanging(i)
        /\ Settled(Len(nodes) + 1, i)
    BY <1>1, <1>2 DEF Entries
  <2>2. (Unchanging(i)' <=> Unchanging(i)) /\ (Unchanging(1)' <=> Unchanging(1))
    BY <1>3, EntriesKept
  <2>3. \A n \in 1 .. Len(nodes) + 1 : Settled(n, i) => Settled(n, i)'
    BY SettledKept
  <2>4. PICK n \in 1 .. Len(nodes) + 1 : n = Len(nodes) + 1
    BY <1>3
  <2>5. Settled(n, i)'
    BY <2>1, <2>3, <2>4
  <2>6. \A k \in 1 .. n - 1 : k \in 1 .. (Len(nodes') + 1) - 1
    BY <1>3, <2>4
  <2>7. Settled(Len(nodes) + 1, i)'
    BY <2>5, <2>6 DEF Settled
  <2> QED BY <2>1, <2>2, <2>7
<1>6. /\ IsValue(fx'[final].example)
      /\ IsParameterLeaf(fx'[final].example.term) => Unchanging(final)'
      /\ Unchanging(1)' => Unchanging(final)'
  <2>1. Unchanging(1)' <=> Unchanging(1)
    BY <1>3, EntriesKept
  <2>2. Unchanging(final)' <=> node.actual = {node.example}
    BY <1>2 DEF Unchanging
  <2> QED BY <1>2, <2>1, <2>2
<1>7. \A i \in DOMAIN fx' : i \in DOMAIN fx \/ i = final
  BY <1>2
<1> QED BY <1>2, <1>4, <1>5, <1>6, <1>7 DEF Entries

(* A call gets the next entry and the next node. *)
LEMMA LowerInv ==
  ASSUME FxInv, phase = "trace", fx # <<>>, NEW i \in DOMAIN fx,
         NEW node, NEW op, NEW params, NEW attrs, NEW dropped \in SUBSET {"dilation", "groups"},
         Lower(node, op, i, params, attrs, dropped),
         node.env = NameOf(node.base), IsValue(node.example),
         IsParameterLeaf(node.example.term) => IsParameterLeaf(fx[i].example.term),
         Unchanging(i) => node.actual = {node.example},
         DOMAIN weights \subseteq DOMAIN weights', Weights',
         \A n, final : n = Len(nodes) + 1 /\ final = Len(fx) + 1 => Calls(n, i, final)'
  PROVE  FxInv'
<1>1. PICK n, final : n = Len(nodes) + 1 /\ final = Len(fx) + 1
  OBVIOUS
<1>2. IsSeq(fx) /\ IsSeq(nodes) /\ Phases /\ Entries /\ Lowered
  BY DEF FxInv
<1> DEFINE added == Node(op, <<fx[i].env>> \o params, node.env, attrs)
<1>3. /\ fx' = Append(fx, node) /\ nodes' = Append(nodes, added)
      /\ lost' = lost \cup dropped \cup (IF Stale(i) THEN {"inplace"} ELSE {})
      /\ UNCHANGED <<plugin, phase, outputs, tensors, next>>
  BY DEF Lower
<1>4. added.output = node.env
  BY DEF Node
<1> HIDE DEF added
<1>5. /\ IsSeq(fx') /\ DOMAIN fx = 1 .. Len(fx) /\ Len(fx) \in Nat /\ DOMAIN fx' = 1 .. final
      /\ fx'[final] = node /\ \A k \in DOMAIN fx : fx'[k] = fx[k]
  BY <1>1, <1>2, <1>3, AppendKeeps
<1>6. /\ IsSeq(nodes') /\ DOMAIN nodes = 1 .. Len(nodes) /\ Len(nodes) \in Nat
      /\ DOMAIN nodes' = 1 .. n /\ Len(nodes') = n
      /\ nodes'[n] = added /\ \A k \in DOMAIN nodes : nodes'[k] = nodes[k]
  BY <1>1, <1>2, <1>3, AppendKeeps
<1>7. Grows
  <2>1. DOMAIN fx \subseteq DOMAIN fx' /\ DOMAIN nodes \subseteq DOMAIN nodes' /\ lost \subseteq lost'
    BY <1>1, <1>3, <1>5, <1>6
  <2> QED BY <1>2, <1>5, <1>6, <2>1 DEF Grows
<1>8. Lowers(n, i, final)'
  <2>1. final - 1 = Len(fx) /\ final \notin DOMAIN fx
    BY <1>1, <1>5
  <2>2. Earlier(fx', final) = {k \in DOMAIN fx : fx[k].base = node.base}
    <3>1. Earlier(fx', final) = {k \in DOMAIN fx : fx'[k].base = fx'[final].base}
      BY <1>5, <2>1 DEF Earlier
    <3> QED BY <1>5, <3>1
  <2>3. NameAt(final)' = NameOf(node.base)
    BY <1>5, <2>2 DEF NameAt, NameIn, NameOf
  <2> QED BY <1>1, <1>5, <2>3 DEF Lowers
<1>9. Settled(Len(nodes) + 1, final)'
  <2>1. i \in DOMAIN fx' /\ n \in 1 .. (Len(nodes') + 1) - 1
    BY <1>1, <1>5, <1>6
  <2> QED BY <1>8, <2>1 DEF Settled
<1>10. Entries'
  <2>1. Unchanging(1) => Unchanging(i)
    BY <1>2 DEF Entries
  <2>2. IsParameterLeaf(fx[i].example.term) => Unchanging(i)
    BY <1>2 DEF Entries
  <2>3. IsParameterLeaf(node.example.term) \/ Unchanging(1) => node.actual = {node.example}
    BY <2>1, <2>2
  <2>4. Len(nodes') >= Len(nodes)
    BY <1>1, <1>6
  <2> QED BY <1>1, <1>3, <1>6, <1>7, <1>9, <2>3, <2>4, EntryAdded
<1>11. Lowered'
  <2>1. ASSUME NEW k \in DOMAIN nodes
        PROVE  \E a, b \in DOMAIN fx' : Lowers(k, b, a)' /\ Settled(k, b)' /\ a \in DOMAIN fx
    <3>1. PICK a, b \in DOMAIN fx : Lowers(k, b, a) /\ Settled(k, b)
      BY <1>2 DEF Lowered
    <3>2. k \in 1 .. Len(nodes) + 1
      BY <1>6
    <3>3. Lowers(k, b, a)' /\ Settled(k, b)'
      BY <1>7, <3>1, <3>2, CallsKept, SettledKept
    <3> QED BY <1>7, <3>1, <3>3 DEF Grows
  <2>2. Settled(n, i)'
    <3>1. n \in 1 .. Len(nodes) + 1
      BY <1>1, <1>6
    <3>2. Settled(n, i)
      BY <1>1, <1>2 DEF Entries
    <3> QED BY <1>7, <3>1, <3>2, SettledKept
  <2>3. \A k \in DOMAIN nodes' : k \in DOMAIN nodes \/ k = n
    BY <1>1, <1>6
  <2>4. \A k \in DOMAIN nodes' : \E a, b \in DOMAIN fx' : Lowers(k, b, a)' /\ Settled(k, b)'
    <3>1. i \in DOMAIN fx' /\ final \in DOMAIN fx'
      BY <1>1, <1>5
    <3> QED BY <1>8, <2>1, <2>2, <2>3, <3>1
  <2>5. \A k \in DOMAIN nodes : nodes'[k].output # node.env
    <3> TAKE k \in DOMAIN nodes
    <3>1. PICK a, b \in DOMAIN fx' : Lowers(k, b, a)' /\ a \in DOMAIN fx
      BY <2>1
    <3>2. nodes'[k].output = fx'[a].env /\ fx'[a].env = NameIn(fx', a)
      <4>1. Calls(k, b, a)' /\ fx'[a].env = NameIn(fx', a)
        BY <3>1 DEF Lowers, NameAt
      <4>2. \A o, ins, out, at : Node(o, ins, out, at).output = out
        BY DEF Node
      <4> QED BY <4>1, <4>2 DEF Calls
    <3>3. node.env = NameIn(fx', final)
      BY <1>5, <1>8 DEF Lowers, NameAt
    <3>4. a # final /\ final \in DOMAIN fx'
      BY <1>1, <1>5, <3>1
    <3> QED BY <1>5, <3>1, <3>2, <3>3, <3>4, NamesAreUnique
  <2>6. \A a, b \in DOMAIN nodes' : nodes'[a].output = nodes'[b].output => a = b
    <3>1. \A a, b \in DOMAIN nodes : nodes'[a].output = nodes'[b].output => a = b
      BY <1>2, <1>6 DEF Lowered
    <3>2. nodes'[n].output = node.env
      BY <1>4, <1>6
    <3> QED BY <2>3, <2>5, <3>1, <3>2
  <2> QED BY <2>4, <2>6 DEF Lowered
<1>12. Phases'
  <2>1. next = 0 /\ lost' \subseteq {"dilation", "groups", "inplace", "width"}
    BY <1>2, <1>3 DEF Phases
  <2>2. fx' # <<>>
    BY <1>1, <1>5
  <2> QED BY <1>2, <1>3, <2>1, <2>2 DEF Phases
<1> QED BY <1>3, <1>5, <1>6, <1>10, <1>11, <1>12 DEF FxInv


LEMMA PutFields ==
  ASSUME NEW map, NEW entries
  PROVE  /\ DOMAIN Put(map, entries) = DOMAIN map \cup DOMAIN entries
         /\ \A n \in DOMAIN entries : Put(map, entries)[n] = entries[n]
         /\ \A n \in DOMAIN map : n \notin DOMAIN entries => Put(map, entries)[n] = map[n]
BY DEF Put

LEMMA NodeFields ==
  ASSUME NEW base, NEW env, NEW example, NEW actual, NEW at, NEW version
  PROVE  LET node == FxNode(base, env, example, actual, at, version)
         IN  /\ node.base = base /\ node.env = env
             /\ node.example = example /\ node.actual = actual
BY DEF FxNode

LEMMA ParamNamesListed ==
  ASSUME NEW m \in Modules, ~Unsupported(m)
  PROVE  /\ DOMAIN ParamNames(m) = 1 .. Len(Added(m)) /\ Len(Added(m)) \in Nat
         /\ ParamNames(m) \in Seq({<<m.path, which>> : which \in Kinds})
         /\ Len(ParamNames(m)) = Len(Added(m))
         /\ \A k \in 1 .. Len(Added(m)) :
              Added(m)[k] \in Kinds /\ ParamNames(m)[k] = <<m.path, Added(m)[k]>>
<1> DEFINE S == {<<m.path, which>> : which \in Kinds}
           n == Len(Added(m))
<1>1. Added(m) \in Seq(Kinds) /\ DOMAIN Added(m) = 1 .. n
  BY ParamsListed
<1>2. n \in Nat /\ \A k \in 1 .. n : Added(m)[k] \in Kinds
  BY <1>1, LenProperties
<1>3. ParamNames(m) = [k \in 1 .. n |-> <<m.path, Added(m)[k]>>]
  BY <1>1 DEF ParamNames
<1>4. \A k \in 1 .. n : <<m.path, Added(m)[k]>> \in S
  BY <1>2
<1> HIDE DEF n, S
<1>5. ParamNames(m) \in [1 .. n -> S]
  BY <1>3, <1>4
<1>6. ParamNames(m) \in Seq(S) /\ Len(ParamNames(m)) = n
  BY <1>2, <1>5
<1> QED BY <1>2, <1>3, <1>5, <1>6 DEF n, S

LEMMA CallModuleInv ==
  ASSUME NEW m \in Modules, NEW i \in DOMAIN fx
  PROVE  FxInv /\ CallModule(m, i) => FxInv'
<1> SUFFICES ASSUME FxInv, CallModule(m, i)
             PROVE  FxInv'
  OBVIOUS
<1> DEFINE share == m.type = "Flatten" \/ IsInplace(m)
           writes == IF IsInplace(m) THEN 1 ELSE 0
           examples == TorchModule(m, fx[i].example)
           actuals == UNION {TorchModule(m, x) : x \in fx[i].actual}
           results == Result(m.path, i, examples, actuals, share, writes)
           params == ParamNames(m)
           saved == [n \in {params[k] : k \in DOMAIN params} |-> Param(m, n[2])]
<1>1. phase = "trace" /\ fx # <<>>
  BY DEF CallModule, Tracing
<1>2. CASE Raises
  BY <1>1, <1>2, RaisesInv
<1>3. ASSUME NEW node \in results, ~Unsupported(m),
             Lower(node, OpOf[m.type], i, params, Attrs(m, node.example), Dropped(m)),
             weights' = Put(weights, saved)
      PROVE  FxInv'
  <2>1. PICK example, at, version :
          example \in examples /\ node = FxNode(m.path, NameOf(m.path), example, actuals, at, version)
    BY <1>3 DEF Result, Out
  <2>2. /\ node.base = m.path /\ node.env = NameOf(m.path) /\ node.example = example
        /\ node.actual = actuals
    <3> HIDE DEF actuals, examples
    <3> QED BY <2>1, NodeFields
  <2>3. IsValue(fx[i].example)
    BY DEF FxInv, Entries
  <2>4. /\ examples = {example} /\ IsValue(example)
        /\ IsParameterLeaf(example.term) => IsParameterLeaf(fx[i].example.term)
    BY <1>3, <2>1, <2>3, ModuleStep
  <2>5. Unchanging(i) => actuals = {example}
    BY <2>4 DEF Unchanging
  <2>6. /\ DOMAIN params = 1 .. Len(Added(m))
        /\ \A k \in DOMAIN params : Added(m)[k] \in Kinds /\ params[k] = <<m.path, Added(m)[k]>>
    BY <1>3, ParamNamesListed
  <2>7. /\ DOMAIN saved = {params[k] : k \in DOMAIN params}
        /\ \A n \in DOMAIN saved : saved[n] = Param(m, n[2])
    OBVIOUS
  <2> HIDE DEF actuals, examples, results, params, saved
  <2>8. /\ DOMAIN weights' = DOMAIN weights \cup DOMAIN saved
        /\ \A n \in DOMAIN saved : weights'[n] = saved[n]
        /\ \A n \in DOMAIN weights : n \notin DOMAIN saved => weights'[n] = weights[n]
    <3>1. weights' = Put(weights, saved)
      BY <1>3
    <3>2. /\ DOMAIN Put(weights, saved) = DOMAIN weights \cup DOMAIN saved
          /\ \A n \in DOMAIN saved : Put(weights, saved)[n] = saved[n]
          /\ \A n \in DOMAIN weights : n \notin DOMAIN saved => Put(weights, saved)[n] = weights[n]
      BY PutFields
    <3> QED BY <3>1, <3>2
  <2>9. Weights'
    <3>1. Weights
      BY DEF FxInv
    <3>2. ASSUME NEW m2 \in Modules, NEW which \in Kinds, <<m2.path, which>> \in DOMAIN weights'
          PROVE  weights'[<<m2.path, which>>] = Param(m2, which)
      <4>1. CASE <<m2.path, which>> \in DOMAIN saved
        <5>1. PICK k \in DOMAIN params : <<m2.path, which>> = <<m.path, Added(m)[k]>>
          BY <2>6, <2>7, <4>1
        <5>2. m2.path = m.path
          BY <5>1, TuplesDiffer
        <5>3. m2 = m
          BY <5>2, FxAssumption
        <5>4. saved[<<m2.path, which>>] = Param(m, which)
          BY <2>7, <4>1
        <5> QED BY <2>8, <4>1, <5>3, <5>4
      <4>2. CASE <<m2.path, which>> \notin DOMAIN saved
        <5>1. <<m2.path, which>> \in DOMAIN weights
          BY <2>8, <3>2, <4>2
        <5>2. weights[<<m2.path, which>>] = Param(m2, which)
          BY <3>1, <5>1 DEF Weights, Kinds
        <5> QED BY <2>8, <4>2, <5>1, <5>2
      <4> QED BY <4>1, <4>2
    <3>3. ASSUME NEW name \in DOMAIN RootParams, <<name>> \in DOMAIN weights'
          PROVE  weights'[<<name>>] = Parameter(name)
      <4>1. <<name>> \notin DOMAIN saved
        BY <2>6, <2>7, TuplesDiffer
      <4>2. <<name>> \in DOMAIN weights
        BY <2>8, <3>3, <4>1
      <4>3. weights[<<name>>] = Parameter(name)
        BY <3>1, <4>2 DEF Weights
      <4> QED BY <2>8, <4>1, <4>2, <4>3
    <3>4. \A k \in DOMAIN outputs' : outputs'[k] \in DOMAIN fx'
      <4>1. outputs' = outputs /\ fx' = Append(fx, node)
        BY <1>3 DEF Lower
      <4>2. DOMAIN fx \subseteq DOMAIN fx'
        BY <4>1, AppendKeeps DEF FxInv
      <4> QED BY <3>1, <4>1, <4>2 DEF Weights
    <3> QED BY <3>2, <3>3, <3>4 DEF Weights, Kinds, Parameter
  <2>10. ASSUME NEW n, NEW final, n = Len(nodes) + 1, final = Len(fx) + 1
         PROVE  Calls(n, i, final)'
    <3>1. /\ fx' = Append(fx, node)
          /\ nodes' = Append(nodes, Node(OpOf[m.type], <<fx[i].env>> \o params, node.env,
                                         Attrs(m, node.example)))
          /\ Dropped(m) \subseteq lost'
      BY <1>3 DEF Lower
    <3>2. IsSeq(fx) /\ IsSeq(nodes)
      BY DEF FxInv
    <3>3. fx'[final] = node /\ fx'[i] = fx[i]
      BY <2>10, <3>1, <3>2, AppendKeeps
    <3>4. nodes'[n] = Node(OpOf[m.type], <<fx[i].env>> \o params, node.env, Attrs(m, node.example))
      BY <2>10, <3>1, <3>2, AppendKeeps
    <3>5. CallsModule(m, i, final)'
      BY <1>3, <2>1, <2>2, <3>1, <3>3 DEF CallsModule, examples, actuals
    <3>6. \A k \in DOMAIN params : params[k] \in DOMAIN weights'
      BY <2>7, <2>8
    <3> QED BY <3>3, <3>4, <3>5, <3>6 DEF Calls, params
  <2>11. Dropped(m) \in SUBSET {"dilation", "groups"}
    BY DEF Dropped
  <2>12. DOMAIN weights \subseteq DOMAIN weights'
    BY <2>8
  <2> QED BY <1>1, <1>3, <2>2, <2>4, <2>5, <2>9, <2>10, <2>11, <2>12, LowerInv
<1> HIDE DEF results, saved, params
<1>4. \/ Raises
      \/ /\ ~Unsupported(m)
         /\ \E node \in results :
              Lower(node, OpOf[m.type], i, params, Attrs(m, node.example), Dropped(m))
         /\ weights' = Put(weights, saved)
  BY DEF CallModule, results, saved, params
<1> QED BY <1>2, <1>3, <1>4


LEMMA CallViewInv ==
  ASSUME NEW name \in {"flatten", "size", "view"}, NEW target \in ViewTargets \cup {<<>>},
         name = "view" => target # <<>>, NEW i \in DOMAIN fx
  PROVE  FxInv /\ CallView(name, target, i) => FxInv'
<1> SUFFICES ASSUME FxInv, CallView(name, target, i)
             PROVE  FxInv'
  OBVIOUS
<1> DEFINE examples == Views(name, target, fx[i].example)
           actuals == UNION {Views(name, target, x) : x \in fx[i].actual}
           results == Result(name, i, examples, actuals, TRUE, 0)
<1>1. phase = "trace" /\ fx # <<>>
  BY DEF CallView, Tracing
<1>2. CASE Raises
  BY <1>1, <1>2, RaisesInv
<1>3. ASSUME NEW node \in results, name # "size",
             Lower(node, "reshape", i, <<>>, <<node.example.shape>>, {}), UNCHANGED weights
      PROVE  FxInv'
  <2>1. PICK example, at, version :
          example \in examples /\ node = FxNode(name, NameOf(name), example, actuals, at, version)
    BY <1>3 DEF Result, Out
  <2>2. /\ node.base = name /\ node.env = NameOf(name) /\ node.example = example
        /\ node.actual = actuals
    <3> HIDE DEF actuals, examples
    <3> QED BY <2>1, NodeFields
  <2>3. IsValue(fx[i].example) /\ name \in {"flatten", "view"}
    BY <1>3 DEF FxInv, Entries
  <2>4. examples = {example} /\ IsValue(example) /\ example.term = fx[i].example.term
    BY <2>1, <2>3, ViewStep
  <2>5. Unchanging(i) => actuals = {example}
    BY <2>4 DEF Unchanging
  <2> HIDE DEF actuals, examples, results
  <2>6. /\ fx' = Append(fx, node)
        /\ nodes' = Append(nodes, Node("reshape", <<fx[i].env>> \o <<>>, node.env, <<node.example.shape>>))
        /\ outputs' = outputs
    BY <1>3 DEF Lower
  <2>7. IsSeq(fx) /\ IsSeq(nodes) /\ Weights
    BY DEF FxInv
  <2>8. Weights'
    <3>1. DOMAIN fx \subseteq DOMAIN fx'
      BY <2>6, <2>7, AppendKeeps
    <3>2. weights' = weights
      BY <1>3
    <3> QED BY <2>6, <2>7, <3>1, <3>2 DEF Weights, Parameter
  <2>9. ASSUME NEW n, NEW final, n = Len(nodes) + 1, final = Len(fx) + 1
        PROVE  Calls(n, i, final)'
    <3>1. fx'[final] = node /\ fx'[i] = fx[i]
      BY <2>6, <2>7, <2>9, AppendKeeps
    <3>2. nodes'[n] = Node("reshape", <<fx[i].env>> \o <<>>, node.env, <<node.example.shape>>)
      BY <2>6, <2>7, <2>9, AppendKeeps
    <3>3. <<fx[i].env>> \o <<>> = <<fx[i].env>>
      <4>1. <<fx[i].env>> \in Seq({fx[i].env})
        OBVIOUS
      <4> QED BY <4>1, ConcatEmptySeq
    <3>4. CallsView(name, target, i, final)'
      BY <2>1, <2>2, <3>1 DEF CallsView, examples, actuals
    <3> QED BY <2>3, <3>1, <3>2, <3>3, <3>4 DEF Calls
  <2>10. DOMAIN weights \subseteq DOMAIN weights'
    BY <1>3
  <2> QED BY <1>1, <1>3, <2>2, <2>4, <2>5, <2>8, <2>9, <2>10, LowerInv
<1> HIDE DEF results
<1>4. \/ Raises
      \/ /\ name # "size"
         /\ \E node \in results : Lower(node, "reshape", i, <<>>, <<node.example.shape>>, {})
         /\ UNCHANGED weights
  BY DEF CallView, results
<1> QED BY <1>2, <1>3, <1>4

LEMMA ParameterIsValue ==
  ASSUME NEW name \in DOMAIN RootParams
  PROVE  IsValue(Parameter(name)) /\ Parameter(name).term = Leaf(<<name, "parameter">>)
<1>1. RootParams[name] \in Seq(Sizes) /\ InMemory(RootParams[name])
  BY FxAssumption
<1> QED BY <1>1, ValueFields DEF Parameter

LEMMA GetAttrInv ==
  ASSUME NEW name \in DOMAIN RootParams
  PROVE  FxInv /\ GetAttr(name) => FxInv'
<1> SUFFICES ASSUME FxInv, GetAttr(name)
             PROVE  FxInv'
  OBVIOUS
<1> DEFINE value == Parameter(name)
           entry == [n \in {<<name>>} |-> value]
<1>1. PICK final, at, version :
        /\ final = Len(fx) + 1
        /\ fx' = Append(fx, FxNode(name, <<name>>, value, {value}, at, version))
  BY DEF GetAttr, Parameter
<1>2. /\ phase = "trace" /\ fx # <<>> /\ weights' = Put(weights, entry)
      /\ UNCHANGED <<plugin, phase, nodes, outputs, lost, tensors, next>>
  BY DEF GetAttr, Tracing, Parameter
<1> DEFINE node == FxNode(name, <<name>>, value, {value}, at, version)
<1>3. node.env = <<name>> /\ node.example = value /\ node.actual = {value}
  BY NodeFields
<1>4. DOMAIN entry = {<<name>>} /\ entry[<<name>>] = value
  OBVIOUS
<1>5. IsValue(value)
  BY ParameterIsValue
<1> HIDE DEF node, entry
<1>6. IsSeq(fx) /\ IsSeq(nodes) /\ Phases /\ Lowered /\ Weights
  BY DEF FxInv
<1>7. /\ IsSeq(fx') /\ DOMAIN fx = 1 .. Len(fx) /\ Len(fx) \in Nat /\ DOMAIN fx' = 1 .. final
      /\ fx'[final] = node /\ \A k \in DOMAIN fx : fx'[k] = fx[k]
  BY <1>1, <1>6, AppendKeeps DEF node
<1>8. /\ DOMAIN weights' = DOMAIN weights \cup DOMAIN entry
      /\ \A n \in DOMAIN entry : weights'[n] = entry[n]
      /\ \A n \in DOMAIN weights : n \notin DOMAIN entry => weights'[n] = weights[n]
  <2>1. /\ DOMAIN Put(weights, entry) = DOMAIN weights \cup DOMAIN entry
        /\ \A n \in DOMAIN entry : Put(weights, entry)[n] = entry[n]
        /\ \A n \in DOMAIN weights : n \notin DOMAIN entry => Put(weights, entry)[n] = weights[n]
    BY PutFields
  <2> QED BY <1>2, <2>1
<1>9. Grows
  <2>1. DOMAIN fx \subseteq DOMAIN fx'
    BY <1>1, <1>7
  <2>2. nodes' = nodes /\ lost' = lost /\ DOMAIN weights \subseteq DOMAIN weights'
    BY <1>2, <1>8
  <2> QED BY <1>6, <1>7, <2>1, <2>2 DEF Grows
<1>10. Settled(Len(nodes) + 1, final)'
  <2>1. fx'[final].env = <<name>> /\ fx'[final].example = value /\ fx'[final].actual = {value}
    BY <1>3, <1>7
  <2>2. <<name>> \in DOMAIN weights'
    BY <1>4, <1>8
  <2>3. IsParam(final)'
    BY <2>1, <2>2 DEF IsParam, Parameter
  <2> QED BY <2>3 DEF Settled
<1>11. Entries'
  <2>1. Len(nodes) \in Nat /\ nodes' = nodes
    BY <1>2, <1>6, Sequence
  <2>2. IsSeq(nodes') /\ Len(nodes') >= Len(nodes)
    BY <1>6, <2>1
  <2>3. fx' = Append(fx, node)
    BY <1>1 DEF node
  <2>4. IsValue(node.example) /\ node.actual = {node.example}
    BY <1>3, <1>5
  <2> QED BY <1>1, <1>2, <1>9, <1>10, <2>2, <2>3, <2>4, EntryAdded
<1>12. Lowered'
  <2>1. nodes' = nodes
    BY <1>2
  <2>2. ASSUME NEW n \in DOMAIN nodes
        PROVE  \E i, j \in DOMAIN fx' : Lowers(n, j, i)' /\ Settled(n, j)'
    <3>1. PICK i, j \in DOMAIN fx : Lowers(n, j, i) /\ Settled(n, j)
      BY <1>6 DEF Lowered
    <3>2. n \in 1 .. Len(nodes) + 1
      BY <1>6, Sequence
    <3>3. Lowers(n, j, i)' /\ Settled(n, j)'
      BY <1>9, <3>1, <3>2, CallsKept, SettledKept
    <3>4. i \in DOMAIN fx' /\ j \in DOMAIN fx'
      BY <1>9, <3>1 DEF Grows
    <3> QED BY <3>3, <3>4
  <2> QED BY <1>6, <2>1, <2>2 DEF Lowered
<1>13. Weights'
  <2>1. ASSUME NEW m \in Modules, NEW which \in Kinds, <<m.path, which>> \in DOMAIN weights'
        PROVE  weights'[<<m.path, which>>] = Param(m, which)
    <3>1. <<m.path, which>> \notin DOMAIN entry
      BY <1>4, TuplesDiffer
    <3>2. <<m.path, which>> \in DOMAIN weights
      BY <1>8, <2>1, <3>1
    <3>3. weights[<<m.path, which>>] = Param(m, which)
      BY <1>6, <3>2 DEF Weights, Kinds
    <3> QED BY <1>8, <3>1, <3>2, <3>3
  <2>2. ASSUME NEW other \in DOMAIN RootParams, <<other>> \in DOMAIN weights'
        PROVE  weights'[<<other>>] = Parameter(other)
    <3>1. CASE <<other>> \in DOMAIN entry
      <4>1. other = name
        BY <1>4, <3>1, TuplesDiffer
      <4> QED BY <1>4, <1>8, <3>1, <4>1
    <3>2. CASE <<other>> \notin DOMAIN entry
      <4>1. <<other>> \in DOMAIN weights
        BY <1>8, <2>2, <3>2
      <4>2. weights[<<other>>] = Parameter(other)
        BY <1>6, <4>1 DEF Weights
      <4> QED BY <1>8, <3>2, <4>1, <4>2
    <3> QED BY <3>1, <3>2
  <2>3. \A k \in DOMAIN outputs' : outputs'[k] \in DOMAIN fx'
    <3>1. outputs' = outputs /\ DOMAIN fx \subseteq DOMAIN fx'
      BY <1>2, <1>9 DEF Grows
    <3> QED BY <1>6, <3>1 DEF Weights
  <2> QED BY <2>1, <2>2, <2>3 DEF Weights, Kinds, Parameter
<1>14. Phases'
  <2>1. fx' # <<>>
    BY <1>1, <1>7
  <2> QED BY <1>2, <1>6, <2>1 DEF Phases
<1>15. IsSeq(nodes')
  BY <1>2, <1>6
<1> QED BY <1>2, <1>7, <1>11, <1>12, <1>13, <1>14, <1>15 DEF FxInv


LEMMA PlaceholderInv ==
  ASSUME NEW name \in InputNames, NEW example \in Examples, NEW batch \in Batches
  PROVE  FxInv /\ Placeholder(name, example, batch) => FxInv'
<1> SUFFICES ASSUME FxInv, Placeholder(name, example, batch)
             PROVE  FxInv'
  OBVIOUS
<1> DEFINE term == Leaf(<<name>>)
           actual == IF Len(example) > 1 THEN [example EXCEPT ![1] = batch] ELSE example
           node == FxNode(name, <<name>>, Value(example, term), {Value(actual, term)}, 1, 0)
<1>1. /\ phase = "trace" /\ fx = <<>> /\ InMemory(actual) /\ fx' = <<node>>
      /\ UNCHANGED <<plugin, phase, nodes, weights, outputs, lost, tensors, next>>
  BY DEF Placeholder, Started
<1>2. /\ node.base = name /\ node.env = <<name>> /\ node.example = Value(example, term)
      /\ node.actual = {Value(actual, term)}
  <2> DEFINE e == Value(example, term)
             a == {Value(actual, term)}
             env == <<name>>
  <2>1. node = FxNode(name, env, e, a, 1, 0)
    OBVIOUS
  <2> HIDE DEF node, e, a, env
  <2>2. node.base = name /\ node.env = env /\ node.example = e /\ node.actual = a
    BY <2>1, NodeFields
  <2> QED BY <2>2 DEF e, a, env
<1>3. example \in Seq(Sizes) /\ InMemory(example) /\ batch \in Sizes
  BY FxAssumption
<1>4. Alike(actual, example)
  <2>1. Len(example) \in Nat /\ example \in [1 .. Len(example) -> Sizes] /\ DOMAIN example = 1 .. Len(example)
    BY <1>3, LenProperties
  <2>2. CASE Len(example) > 1
    <3> DEFINE r == Len(example)
    <3>1. actual = [example EXCEPT ![1] = batch]
      BY <2>2
    <3>2. actual \in [1 .. r -> Sizes] /\ \A k \in 2 .. r : actual[k] = example[k]
      BY <1>3, <2>1, <2>2, <3>1
    <3> HIDE DEF actual, r
    <3>3. r \in Nat /\ r # 1
      BY <2>1, <2>2 DEF r
    <3>4. actual \in Seq(Sizes) /\ Len(actual) = r
      BY <3>2, <3>3
    <3> QED BY <3>2, <3>3, <3>4 DEF Alike, r
  <2>3. CASE ~(Len(example) > 1)
    <3>1. actual = example
      BY <2>3
    <3> QED BY <1>3, <3>1, AlikeItself
  <2> QED BY <2>2, <2>3
<1> HIDE DEF node, actual
<1>5. /\ IsSeq(fx') /\ DOMAIN fx' = {1} /\ fx'[1] = node /\ fx' # <<>>
  <2>1. fx' \in Seq({node}) /\ Len(fx') = 1 /\ fx'[1] = node
    BY <1>1
  <2>2. DOMAIN fx' = 1 .. 1
    BY <2>1, LenProperties
  <2>3. 1 .. 1 = {1} /\ fx' # <<>>
    BY <2>1
  <2> QED BY <2>1, <2>2, <2>3 DEF IsSeq
<1>6. Phases /\ Weights /\ IsSeq(nodes)
  BY DEF FxInv
<1>7. nodes = <<>> /\ nodes' = nodes
  BY <1>1, <1>6 DEF Phases
<1>8. IsInput(1)'
  <2>1. actual \in Seq(Sizes)
    BY <1>4 DEF Alike
  <2> QED BY <1>1, <1>2, <1>4, <1>5, <2>1 DEF IsInput
<1>9. Entries'
  <2>1. IsValue(fx'[1].example) /\ fx'[1].example.term = term
    BY <1>2, <1>3, <1>5, ValueFields
  <2>2. ~IsParameterLeaf(term)
    <3>1. \A n : Leaf(<<n, "parameter">>).op = <<n, "parameter">> /\ term.op = <<name>>
      BY DEF Leaf, Term
    <3>2. ASSUME NEW n, term = Leaf(<<n, "parameter">>)
          PROVE  FALSE
      <4>1. <<n, "parameter">> = <<name>>
        BY <3>1, <3>2
      <4> QED BY <4>1, TuplesDiffer
    <3> QED BY <3>2 DEF IsParameterLeaf
  <2>3. Settled(Len(nodes) + 1, 1)'
    BY DEF Settled
  <2> QED BY <1>5, <1>8, <2>1, <2>2, <2>3 DEF Entries
<1>10. Lowered'
  <2>1. DOMAIN nodes' = {}
    BY <1>7
  <2> QED BY <2>1 DEF Lowered
<1>11. Weights'
  <2>1. \A k \in DOMAIN outputs : FALSE
    BY <1>1, <1>6 DEF Weights
  <2> QED BY <1>1, <1>6, <2>1 DEF Weights, Parameter
<1>12. Phases'
  BY <1>1, <1>5, <1>6 DEF Phases
<1> QED BY <1>1, <1>5, <1>6, <1>7, <1>9, <1>10, <1>11, <1>12 DEF FxInv

(* The engine is given the input and the weights. *)
LEMMA GivenTensors ==
  ASSUME fx # <<>>, IsInput(1), Weights, ~Clash, IsSeq(fx),
         NEW given, given = Put(weights, [n \in {fx[1].env} |-> CHOOSE x \in fx[1].actual : TRUE])
  PROVE  /\ given[fx[1].env] \in fx[1].actual /\ fx[1].env \in DOMAIN given
         /\ \A i \in DOMAIN fx : IsParam(i) =>
              fx[i].env \in DOMAIN given /\ given[fx[i].env] \in fx[i].actual
         /\ \A m \in Modules, which \in Kinds : <<m.path, which>> \in DOMAIN weights =>
              /\ <<m.path, which>> \in DOMAIN given
              /\ given[<<m.path, which>>] = Param(m, which)
<1> DEFINE input == CHOOSE x \in fx[1].actual : TRUE
           entry == [n \in {fx[1].env} |-> input]
<1>1. DOMAIN entry = {fx[1].env} /\ entry[fx[1].env] = input
  OBVIOUS
<1>2. PICK name, example, shape :
        /\ fx[1].env = <<name>> /\ fx[1].example = Value(example, Leaf(<<name>>))
        /\ fx[1].actual = {Value(shape, Leaf(<<name>>))}
  BY DEF IsInput
<1>3. input \in fx[1].actual
  BY <1>2
<1> HIDE DEF entry, input
<1>4. given = Put(weights, entry)
  BY DEF entry, input
<1>5. /\ DOMAIN given = DOMAIN weights \cup DOMAIN entry
      /\ \A n \in DOMAIN entry : given[n] = entry[n]
      /\ \A n \in DOMAIN weights : n \notin DOMAIN entry => given[n] = weights[n]
  <2>1. /\ DOMAIN Put(weights, entry) = DOMAIN weights \cup DOMAIN entry
        /\ \A n \in DOMAIN entry : Put(weights, entry)[n] = entry[n]
        /\ \A n \in DOMAIN weights : n \notin DOMAIN entry => Put(weights, entry)[n] = weights[n]
    BY PutFields
  <2> QED BY <1>4, <2>1
<1>6. ASSUME NEW i \in DOMAIN fx, IsParam(i)
      PROVE  fx[i].env \in DOMAIN given /\ given[fx[i].env] \in fx[i].actual
  <2>1. PICK other \in DOMAIN RootParams :
          /\ fx[i].env = <<other>> /\ <<other>> \in DOMAIN weights
          /\ fx[i].example = Parameter(other) /\ fx[i].actual = {Parameter(other)}
    BY <1>6 DEF IsParam
  <2>2. fx[i].env # fx[1].env
    <3>1. fx[i].example # fx[1].example
      <4>1. fx[i].example.term = Leaf(<<other, "parameter">>) /\ fx[1].example.term = Leaf(<<name>>)
        BY <1>2, <2>1, ParameterIsValue, ValueFields
      <4>2. Leaf(<<other, "parameter">>).op = <<other, "parameter">> /\ Leaf(<<name>>).op = <<name>>
        BY DEF Leaf, Term
      <4>3. <<other, "parameter">> # <<name>>
        BY TuplesDiffer
      <4> QED BY <4>1, <4>2, <4>3
    <3>2. 1 \in DOMAIN fx
      BY Sequence
    <3> QED BY <3>1, <3>2 DEF Clash
  <2>3. weights[<<other>>] = Parameter(other)
    BY <2>1 DEF Weights
  <2> QED BY <1>1, <1>5, <2>1, <2>2, <2>3
<1>7. ASSUME NEW m \in Modules, NEW which \in Kinds, <<m.path, which>> \in DOMAIN weights
      PROVE  /\ <<m.path, which>> \in DOMAIN given
             /\ given[<<m.path, which>>] = Param(m, which)
  <2>1. <<m.path, which>> # fx[1].env
    BY <1>2, TuplesDiffer
  <2>2. weights[<<m.path, which>>] = Param(m, which)
    BY <1>7 DEF Weights, Kinds
  <2> QED BY <1>1, <1>5, <1>7, <2>1, <2>2
<1> QED BY <1>1, <1>3, <1>5, <1>6, <1>7

LEMMA OutputInv ==
  ASSUME NEW i \in DOMAIN fx
  PROVE  FxInv /\ Output(<<i, Len(fx)>>) => FxInv'
<1> SUFFICES ASSUME FxInv, Output(<<i, Len(fx)>>)
             PROVE  FxInv'
  OBVIOUS
<1> DEFINE is == <<i, Len(fx)>>
           marks == IF \E k \in DOMAIN is : Stale(is[k]) THEN {"inplace"} ELSE {}
           given == Put(weights, [n \in {fx[1].env} |-> CHOOSE x \in fx[1].actual : TRUE])
<1>1. /\ phase = "trace" /\ phase' = "run" /\ next' = 1 /\ nodes # <<>> /\ outputs' = is
      /\ lost' = lost \cup marks /\ tensors' = given
      /\ UNCHANGED <<plugin, fx, nodes, weights>>
  BY DEF Output
<1>2. IsSeq(fx) /\ IsSeq(nodes) /\ Phases /\ Entries /\ Lowered /\ Weights
  BY DEF FxInv
<1>3. /\ Len(fx) \in Nat /\ DOMAIN fx = 1 .. Len(fx) /\ Len(nodes) \in Nat
      /\ DOMAIN nodes = 1 .. Len(nodes) /\ fx # <<>> /\ Len(fx) \in DOMAIN fx
  <2>1. fx # <<>>
    BY <1>1, <1>2 DEF Phases
  <2>2. Len(fx) \in Nat /\ DOMAIN fx = 1 .. Len(fx) /\ Len(fx) # 0
    BY <1>2, <2>1, Sequence
  <2>3. Len(nodes) \in Nat /\ DOMAIN nodes = 1 .. Len(nodes)
    BY <1>2, Sequence
  <2> QED BY <2>1, <2>2, <2>3
<1>4. marks \subseteq {"inplace"}
  OBVIOUS
<1> HIDE DEF marks, given
<1>5. Grows
  BY <1>1, <1>2 DEF Grows
<1>6. Phases'
  <2>1. lost' \subseteq {"dilation", "groups", "inplace", "width"}
    BY <1>1, <1>2, <1>4 DEF Phases
  <2>2. 1 \in 1 .. Len(nodes) + 1
    BY <1>3
  <2> QED BY <1>1, <1>2, <1>3, <2>1, <2>2 DEF Phases
<1>7. Entries'
  <2>1. IsInput(1)'
    BY <1>2, <1>3, <1>5, EntriesKept DEF Entries
  <2>2. ASSUME NEW k \in DOMAIN fx
        PROVE  /\ IsValue(fx[k].example)
               /\ IsParameterLeaf(fx[k].example.term) => Unchanging(k)'
               /\ Unchanging(1)' => Unchanging(k)'
               /\ Settled(Len(nodes) + 1, k)'
    <3>1. /\ IsValue(fx[k].example)
          /\ IsParameterLeaf(fx[k].example.term) => Unchanging(k)
          /\ Unchanging(1) => Unchanging(k)
          /\ Settled(Len(nodes) + 1, k)
      BY <1>2 DEF Entries
    <3>2. (Unchanging(k)' <=> Unchanging(k)) /\ (Unchanging(1)' <=> Unchanging(1))
      BY <1>1 DEF Unchanging
    <3>3. PICK n \in 1 .. Len(nodes) + 1 : n = Len(nodes) + 1
      BY <1>3
    <3>4. Settled(n, k)'
      BY <1>5, <3>1, <3>3, SettledKept
    <3>5. Settled(Len(nodes) + 1, k)'
      BY <1>1, <3>3, <3>4
    <3> QED BY <3>1, <3>2, <3>5
  <2> QED BY <1>1, <2>1, <2>2 DEF Entries
<1>8. Lowered'
  <2>1. ASSUME NEW n \in DOMAIN nodes
        PROVE  \E k, j \in DOMAIN fx : Lowers(n, j, k)' /\ Settled(n, j)'
    <3>1. PICK k, j \in DOMAIN fx : Lowers(n, j, k) /\ Settled(n, j)
      BY <1>2 DEF Lowered
    <3>2. n \in 1 .. Len(nodes) + 1
      BY <1>3
    <3> QED BY <1>5, <3>1, <3>2, CallsKept, SettledKept
  <2> QED BY <1>1, <1>2, <2>1 DEF Lowered
<1>9. Weights'
  <2>1. DOMAIN is = {1, 2} /\ is[1] = i /\ is[2] = Len(fx)
    OBVIOUS
  <2>2. \A k \in DOMAIN is : is[k] \in DOMAIN fx
    BY <1>3, <2>1
  <2> HIDE DEF is
  <2> QED BY <1>1, <1>2, <2>2 DEF Weights, Parameter
<1>10. ~Clash' => Running'
  <2> SUFFICES ASSUME ~Clash'
               PROVE  Running'
    OBVIOUS
  <2>1. ~Clash
    BY <1>1 DEF Clash
  <2>2. IsInput(1)
    BY <1>2, <1>3 DEF Entries
  <2>3. /\ given[fx[1].env] \in fx[1].actual /\ fx[1].env \in DOMAIN given
        /\ \A k \in DOMAIN fx : IsParam(k) =>
             fx[k].env \in DOMAIN given /\ given[fx[k].env] \in fx[k].actual
        /\ \A m \in Modules, which \in Kinds : <<m.path, which>> \in DOMAIN weights =>
             /\ <<m.path, which>> \in DOMAIN given
             /\ given[<<m.path, which>>] = Param(m, which)
    BY <1>2, <1>3, <2>1, <2>2, GivenTensors DEF given
  <2>4. ASSUME NEW k \in DOMAIN fx, k = 1 \/ IsParam(k)
        PROVE  Agrees(k)'
    <3>1. fx[k].env \in DOMAIN given /\ given[fx[k].env] \in fx[k].actual
      BY <2>3, <2>4
    <3>2. \E v : /\ fx[k].actual = {v} /\ IsValue(v) /\ Alike(v.shape, fx[k].example.shape)
      <4>1. CASE k = 1
        <5>1. PICK name, example, shape :
                /\ fx[1].example = Value(example, Leaf(<<name>>))
                /\ fx[1].actual = {Value(shape, Leaf(<<name>>))}
                /\ Alike(shape, example) /\ InMemory(shape)
          BY <2>2 DEF IsInput
        <5>2. shape \in Seq(Sizes)
          BY <5>1 DEF Alike
        <5>3. fx[1].example.shape = example /\ IsValue(Value(shape, Leaf(<<name>>)))
              /\ Value(shape, Leaf(<<name>>)).shape = shape
          BY <5>1, <5>2, ValueFields
        <5> QED BY <4>1, <5>1, <5>3
      <4>2. CASE IsParam(k)
        <5>1. PICK name \in DOMAIN RootParams :
                fx[k].example = Parameter(name) /\ fx[k].actual = {Parameter(name)}
          BY <4>2 DEF IsParam
        <5>2. IsValue(Parameter(name))
          BY ParameterIsValue
        <5>3. Alike(Parameter(name).shape, Parameter(name).shape)
          BY <5>2, AlikeItself DEF IsValue
        <5> QED BY <5>1, <5>2, <5>3
      <4> QED BY <2>4, <4>1, <4>2
    <3>3. PICK v : fx[k].actual = {v} /\ IsValue(v) /\ Alike(v.shape, fx[k].example.shape)
      BY <3>2
    <3>4. tensors'[fx'[k].env] = v
      BY <1>1, <3>1, <3>3
    <3> QED BY <1>1, <3>1, <3>3, <3>4 DEF Agrees
  <2>5. ASSUME NEW k \in DOMAIN fx', Settled(next, k)'
        PROVE  Agrees(k)'
    <3>1. k \in DOMAIN fx
      BY <1>1
    <3>2. 1 .. next' - 1 = {}
      BY <1>1
    <3>3. k = 1 \/ IsParam(k)'
      BY <2>5, <3>2 DEF Settled
    <3>4. IsParam(k)' => IsParam(k)
      BY <1>1 DEF IsParam, Parameter
    <3> QED BY <2>4, <3>1, <3>3, <3>4
  <2>6. \A m \in Modules, which \in {"weight", "bias", "mean", "var"} :
          <<m.path, which>> \in DOMAIN weights' =>
            /\ <<m.path, which>> \in DOMAIN tensors'
            /\ tensors'[<<m.path, which>>] = Param(m, which)
    BY <1>1, <2>3 DEF Kinds
  <2>7. phase' # "done" /\ phase' # "threw"
    BY <1>1
  <2> QED BY <2>5, <2>6, <2>7 DEF Running
<1>11. IsSeq(fx') /\ IsSeq(nodes')
  BY <1>1, <1>2
<1> QED BY <1>6, <1>7, <1>8, <1>9, <1>10, <1>11 DEF FxInv


-----------------------------------------------------------------------------
(* The run *)

(* What node "next" computes, and that it does on the example. *)
ExactCall(i, j) ==
  LET node == nodes[next]
      results == Compute(node.op, Inputs(next), node.attrs)
  IN  /\ HasInputs(next)
      /\ \A w \in results :
           fx[i].actual = {w} /\ IsValue(w) /\ Alike(w.shape, fx[i].example.shape)
      /\ \/ ~Unchanging(j)
         \/ ~HasKernel(node.op, Inputs(next), node.attrs)
         \/ node.op \in {"conv2d", "max_pool2d"} /\ Len(Inputs(next)[1].shape) = 3
         \/ results # {}

(* What the node holds in ints fits. *)
FitsInts == HasInputs(next) => ~Wide(nodes[next].op, Inputs(next), nodes[next].attrs)

LEMMA ModuleNode ==
  ASSUME FxInv, Running, lost = {}, FitsInts, NEW i \in DOMAIN fx, NEW j \in DOMAIN fx, Agrees(j),
         NEW m \in Modules, CallsModule(m, j, i),
         nodes[next] = Node(OpOf[m.type], <<fx[j].env>> \o ParamNames(m), fx[i].env,
                            Attrs(m, fx[i].example)),
         \A k \in DOMAIN ParamNames(m) : ParamNames(m)[k] \in DOMAIN weights
  PROVE  ExactCall(i, j)
<1> DEFINE x == tensors[fx[j].env]
           y == fx[i].example
           e == fx[j].example
           names == ParamNames(m)
           inputs == <<fx[j].env>> \o names
           n == Len(Added(m))
           op == OpOf[m.type]
           attrs == Attrs(m, y)
<1>1. /\ fx[j].env \in DOMAIN tensors /\ IsValue(x) /\ fx[j].actual = {x}
      /\ Alike(x.shape, e.shape)
  BY DEF Agrees
<1>2. /\ ~Unsupported(m) /\ Dropped(m) = {} /\ y \in TorchModule(m, e)
      /\ fx[i].actual = UNION {TorchModule(m, v) : v \in fx[j].actual}
  BY DEF CallsModule
<1>3. nodes[next].op = op /\ nodes[next].inputs = inputs /\ nodes[next].attrs = attrs
  <2> HIDE DEF op, inputs, attrs
  <2>1. nodes[next] = Node(op, inputs, fx[i].env, attrs)
    BY DEF op, inputs, attrs
  <2> QED BY <2>1 DEF Node
<1>4. IsValue(e)
  BY DEF FxInv, Entries
<1>5. /\ DOMAIN names = 1 .. n /\ n \in Nat /\ Len(names) = n
      /\ names \in Seq({<<m.path, which>> : which \in Kinds})
      /\ \A k \in 1 .. n : Added(m)[k] \in Kinds /\ names[k] = <<m.path, Added(m)[k]>>
  BY <1>2, ParamNamesListed
<1>6. \A k \in 1 .. n : names[k] \in DOMAIN tensors /\ tensors[names[k]] = Param(m, Added(m)[k])
  <2> TAKE k \in 1 .. n
  <2>1. names[k] \in DOMAIN weights
    BY <1>5
  <2>2. \A which \in Kinds : <<m.path, which>> \in DOMAIN weights =>
          /\ <<m.path, which>> \in DOMAIN tensors
          /\ tensors[<<m.path, which>>] = Param(m, which)
    BY DEF Running, Kinds
  <2> QED BY <1>5, <2>1, <2>2
<1>7. /\ DOMAIN inputs = 1 .. n + 1 /\ inputs[1] = fx[j].env
      /\ \A k \in 1 .. n : inputs[k + 1] = names[k]
  <2> HIDE DEF names, n
  <2> DEFINE S == {<<m.path, which>> : which \in Kinds}
             env == fx[j].env
  <2>1. names \in Seq(S) /\ Len(names) = n /\ inputs = <<env>> \o names
    BY <1>5
  <2> HIDE DEF S, inputs, env
  <2>2. /\ DOMAIN inputs = 1 .. Len(names) + 1 /\ inputs[1] = env
        /\ \A k \in 1 .. Len(names) : inputs[k + 1] = names[k]
    BY <2>1, FirstThen
  <2> QED BY <2>1, <2>2 DEF env
<1> HIDE DEF inputs, names
<1>8. \A k \in 1 .. n + 1 : k = 1 \/ (k - 1 \in 1 .. n /\ (k - 1) + 1 = k)
  BY <1>5
<1>9. /\ Args(m, x)[1] = x /\ DOMAIN Args(m, x) = 1 .. n + 1
      /\ \A k \in 1 .. n : Args(m, x)[k + 1] = Param(m, Added(m)[k])
      /\ Args(m, x) = [k \in 1 .. n + 1 |-> Args(m, x)[k]]
  <2>1. /\ Args(m, x)[1] = x
        /\ \A k \in 1 .. n : Args(m, x)[k + 1] = Param(m, Added(m)[k])
    BY <1>2, ArgsListed
  <2> DEFINE params == TorchParams(m)
             S == {Param(m, which) : which \in Kinds}
             xs == Args(m, x)
  <2>2. params \in Seq(S) /\ Len(params) = n /\ xs = <<x>> \o params
    BY <1>2, ParamsListed DEF Args
  <2> HIDE DEF params, S, xs, x
  <2>3. xs \in Seq(S \cup {x}) /\ DOMAIN xs = 1 .. Len(params) + 1
    BY <2>2, FirstThen
  <2>4. xs = [k \in DOMAIN xs |-> xs[k]]
    BY <2>3
  <2> QED BY <2>1, <2>2, <2>3, <2>4 DEF xs
<1>10. HasInputs(next)
  <2>1. \A k \in 1 .. n + 1 : inputs[k] \in DOMAIN tensors
    <3> TAKE k \in 1 .. n + 1
    <3>1. CASE k = 1
      BY <1>1, <1>7, <3>1
    <3>2. CASE k # 1
      <4>1. inputs[k] = names[k - 1] /\ k - 1 \in 1 .. n
        BY <1>7, <1>8, <3>2
      <4> QED BY <1>6, <4>1
    <3> QED BY <3>1, <3>2
  <2> QED BY <1>3, <1>7, <2>1 DEF HasInputs
<1>11. Inputs(next) = Args(m, x)
  <2>1. \A k \in 1 .. n + 1 : tensors[inputs[k]] = Args(m, x)[k]
    <3> TAKE k \in 1 .. n + 1
    <3>1. CASE k = 1
      BY <1>7, <1>9, <3>1
    <3>2. CASE k # 1
      <4>1. inputs[k] = names[k - 1] /\ k - 1 \in 1 .. n
        BY <1>7, <1>8, <3>2
      <4>2. Args(m, x)[k] = Param(m, Added(m)[k - 1])
        BY <1>8, <1>9, <3>2
      <4> QED BY <1>6, <4>1, <4>2
    <3> QED BY <3>1, <3>2
  <2>2. Inputs(next) = [k \in 1 .. n + 1 |-> tensors[inputs[k]]]
    BY <1>3, <1>7 DEF Inputs
  <2> QED BY <1>9, <2>1, <2>2
<1>12. Compute(nodes[next].op, Inputs(next), nodes[next].attrs) = ComputeModule(m, x, y)
  BY <1>3, <1>11 DEF ComputeModule
<1>12a. ~Wide(op, Args(m, x), attrs)
  BY <1>3, <1>10, <1>11 DEF FitsInts
<1>13. ASSUME NEW w \in ComputeModule(m, x, y)
       PROVE  fx[i].actual = {w} /\ IsValue(w) /\ Alike(w.shape, y.shape)
  <2>0. ~Wide(OpOf[m.type], Args(m, x), Attrs(m, y))
    BY <1>12a
  <2> HIDE DEF x, y, e
  <2>1. TorchModule(m, x) = {w} /\ IsValue(w) /\ Alike(w.shape, y.shape)
    BY <1>1, <1>2, <1>4, <1>13, <2>0, ModuleAgrees
  <2> QED BY <1>1, <1>2, <2>1
<1>14. ASSUME Unchanging(j), HasKernel(op, Args(m, x), attrs),
              ~(op \in {"conv2d", "max_pool2d"} /\ Len(x.shape) = 3)
       PROVE  ComputeModule(m, x, y) # {}
  <2>1. x = e
    BY <1>1, <1>14 DEF Unchanging
  <2>2. m.type \in {"Conv2d", "MaxPool2d"} => Len(e.shape) # 3
    <3>1. m.type \in {"Conv2d", "MaxPool2d"} => op \in {"conv2d", "max_pool2d"}
      BY OpNames
    <3> HIDE DEF op, x, e
    <3> QED BY <1>14, <2>1, <3>1
  <2> HIDE DEF x, y, e
  <2>3. HasKernel(OpOf[m.type], Args(m, e), Attrs(m, y))
        /\ ~Wide(OpOf[m.type], Args(m, e), Attrs(m, y))
    BY <1>12a, <1>14, <2>1
  <2> QED BY <1>2, <1>4, <2>1, <2>2, <2>3, ModuleRuns
<1> HIDE DEF x, op, attrs
<1> QED BY <1>3, <1>9, <1>10, <1>11, <1>12, <1>13, <1>14 DEF ExactCall

LEMMA ViewNode ==
  ASSUME FxInv, Running, NEW i \in DOMAIN fx, NEW j \in DOMAIN fx, Agrees(j),
         NEW name \in {"flatten", "view"}, NEW target \in ViewTargets \cup {<<>>},
         CallsView(name, target, j, i),
         nodes[next] = Node("reshape", <<fx[j].env>>, fx[i].env, <<fx[i].example.shape>>)
  PROVE  ExactCall(i, j)
<1> DEFINE x == tensors[fx[j].env]
           y == fx[i].example
           e == fx[j].example
           inputs == <<fx[j].env>>
           attrs == <<y.shape>>
<1>1. /\ fx[j].env \in DOMAIN tensors /\ IsValue(x) /\ fx[j].actual = {x}
      /\ Alike(x.shape, e.shape)
  BY DEF Agrees
<1>2. /\ y \in Views(name, target, e) /\ (name = "view" => target # <<>>)
      /\ fx[i].actual = UNION {Views(name, target, v) : v \in fx[j].actual}
  BY DEF CallsView
<1>3. nodes[next].op = "reshape" /\ nodes[next].inputs = inputs /\ nodes[next].attrs = attrs
  <2> HIDE DEF inputs, attrs
  <2>1. nodes[next] = Node("reshape", inputs, fx[i].env, attrs)
    BY DEF inputs, attrs
  <2> QED BY <2>1 DEF Node
<1>4. IsValue(e)
  BY DEF FxInv, Entries
<1>5. DOMAIN inputs = {1} /\ inputs[1] = fx[j].env
  OBVIOUS
<1> HIDE DEF inputs
<1>6. HasInputs(next)
  BY <1>1, <1>3, <1>5 DEF HasInputs
<1> DEFINE xs == Inputs(next)
<1>7. xs[1] = x
  BY <1>3, <1>5 DEF Inputs
<1> HIDE DEF x, y, e, xs
<1>8. \A w \in Compute("reshape", xs, attrs) :
        fx[i].actual = {w} /\ IsValue(w) /\ Alike(w.shape, y.shape)
  <2> TAKE w \in Compute("reshape", xs, attrs)
  <2>1. Views(name, target, x) = {w} /\ IsValue(w) /\ Alike(w.shape, y.shape)
    <3>1. w \in Compute("reshape", xs, <<y.shape>>)
      OBVIOUS
    <3> HIDE DEF attrs
    <3>2. ViewRun(name, target, e, y, xs, w)
      BY <1>1, <1>2, <1>4, <1>7, <3>1 DEF ViewRun
    <3> QED BY <1>7, <3>2, ViewAgrees
  <2>2. fx[i].actual = Views(name, target, x)
    <3>1. fx[j].actual = {x}
      BY <1>1
    <3>2. fx[i].actual = UNION {Views(name, target, v) : v \in {x}}
      BY <1>2, <3>1
    <3> QED BY <3>2
  <2> QED BY <2>1, <2>2
<1>9. Unchanging(j) => Compute("reshape", xs, attrs) # {}
  <2>1. Unchanging(j) => x = e
    BY <1>1 DEF Unchanging, e
  <2>2. xs[1] = e => Compute("reshape", xs, attrs) # {}
    BY <1>2, <1>4, ViewRuns
  <2> QED BY <1>7, <2>1, <2>2
<1> HIDE DEF attrs
<1> QED BY <1>3, <1>6, <1>8, <1>9 DEF ExactCall, xs, y

LEMMA NodeIsExact ==
  ASSUME FxInv, Running, lost = {}, FitsInts, next \in DOMAIN nodes
  PROVE  \E i, j \in DOMAIN fx : Lowers(next, j, i) /\ Settled(next, j) /\ Agrees(j) /\ ExactCall(i, j)
<1>1. PICK i, j \in DOMAIN fx : Lowers(next, j, i) /\ Settled(next, j)
  BY DEF FxInv, Lowered
<1>2. Agrees(j)
  BY <1>1 DEF Running
<1>3. Calls(next, j, i)
  BY <1>1 DEF Lowers
<1>4. ExactCall(i, j)
  BY <1>2, <1>3, ModuleNode, ViewNode DEF Calls
<1> QED BY <1>1, <1>2, <1>4


LEMMA LoweredNames ==
  ASSUME NEW n, NEW i, NEW j, Lowers(n, j, i)
  PROVE  nodes[n].output = fx[i].env /\ fx[i].env = NameAt(i)
<1>1. Calls(n, j, i) /\ fx[i].env = NameAt(i)
  BY DEF Lowers
<1>2. \A o, ins, out, at : Node(o, ins, out, at).output = out
  BY DEF Node
<1> QED BY <1>1, <1>2 DEF Calls

(* A run that has computed a node still agrees with the model. *)
LEMMA NodeComputed ==
  ASSUME FxInv, Running, lost = {}, FitsInts, ~Clash, phase = "run", next \in DOMAIN nodes,
         UNCHANGED Graph,
         phase' = "run", next' = next + 1,
         NEW w \in Compute(nodes[next].op, Inputs(next), nodes[next].attrs),
         tensors' = Put(tensors, [n \in {nodes[next].output} |-> w])
  PROVE  Running'
<1>1. PICK i, j \in DOMAIN fx : Lowers(next, j, i) /\ Settled(next, j) /\ Agrees(j) /\ ExactCall(i, j)
  BY NodeIsExact
<1>2. nodes[next].output = fx[i].env /\ fx[i].env = NameAt(i)
  BY <1>1, LoweredNames
<1>3. fx[i].actual = {w} /\ IsValue(w) /\ Alike(w.shape, fx[i].example.shape)
  BY <1>1 DEF ExactCall
<1> DEFINE entry == [n \in {nodes[next].output} |-> w]
<1>4. DOMAIN entry = {fx[i].env} /\ entry[fx[i].env] = w
  BY <1>2
<1> HIDE DEF entry
<1>5. /\ DOMAIN tensors' = DOMAIN tensors \cup {fx[i].env} /\ tensors'[fx[i].env] = w
      /\ \A n \in DOMAIN tensors : n # fx[i].env => tensors'[n] = tensors[n]
  <2>1. /\ DOMAIN Put(tensors, entry) = DOMAIN tensors \cup DOMAIN entry
        /\ \A n \in DOMAIN entry : Put(tensors, entry)[n] = entry[n]
        /\ \A n \in DOMAIN tensors : n \notin DOMAIN entry => Put(tensors, entry)[n] = tensors[n]
    BY PutFields
  <2>2. tensors' = Put(tensors, entry)
    BY DEF entry
  <2>3. /\ DOMAIN tensors' = DOMAIN tensors \cup DOMAIN entry
        /\ \A n \in DOMAIN entry : tensors'[n] = entry[n]
        /\ \A n \in DOMAIN tensors : n \notin DOMAIN entry => tensors'[n] = tensors[n]
    BY <2>1, <2>2
  <2> QED BY <1>4, <2>3
<1>6. fx' = fx /\ nodes' = nodes /\ weights' = weights
  BY DEF Graph
<1>7. /\ IsSeq(fx) /\ IsSeq(nodes) /\ DOMAIN nodes = 1 .. Len(nodes) /\ Len(nodes) \in Nat
      /\ next \in 1 .. Len(nodes)
  <2>1. IsSeq(fx) /\ IsSeq(nodes)
    BY DEF FxInv
  <2> QED BY <2>1, Sequence
<1>8. Agrees(i)'
  BY <1>3, <1>5, <1>6 DEF Agrees
<1>9. ASSUME NEW k \in DOMAIN fx, NameAt(k) = fx[i].env
      PROVE  Agrees(k)'
  <2>1. k = i
    BY <1>2, <1>7, <1>9, NamesAreUnique DEF NameAt
  <2> QED BY <1>8, <2>1
<1>10. ASSUME NEW k \in DOMAIN fx, Settled(next, k)
       PROVE  Agrees(k)'
  <2>1. /\ fx[k].env \in DOMAIN tensors /\ IsValue(tensors[fx[k].env])
        /\ fx[k].actual = {tensors[fx[k].env]}
        /\ Alike(tensors[fx[k].env].shape, fx[k].example.shape)
    BY <1>10 DEF Running, Agrees
  <2>2. CASE fx[k].env # fx[i].env
    <3>1. tensors'[fx[k].env] = tensors[fx[k].env] /\ fx[k].env \in DOMAIN tensors'
      BY <1>5, <2>1, <2>2
    <3> QED BY <1>6, <2>1, <3>1 DEF Agrees
  <2>3. CASE fx[k].env = fx[i].env
    <3>1. CASE k = 1
      <4>1. fx # <<>>
        BY <1>7, Sequence
      <4>2. fx[1].env = NameAt(1)
        BY <4>1, NameShapes DEF FxInv, Entries
      <4> QED BY <1>9, <2>3, <3>1, <4>2
    <3>2. CASE IsParam(k)
      <4>1. PICK name \in DOMAIN RootParams :
              fx[k].example = Parameter(name) /\ fx[k].actual = {Parameter(name)}
        BY <3>2 DEF IsParam
      <4>2. fx[i].example = Parameter(name)
        BY <2>3, <4>1 DEF Clash
      <4>3. IsParameterLeaf(fx[i].example.term)
        <5>1. fx[i].example.term = Leaf(<<name, "parameter">>)
          BY <4>2, ParameterIsValue
        <5>2. Leaf(<<name, "parameter">>).args = <<>>
          BY DEF Leaf, Term
        <5> QED BY <5>1, <5>2 DEF IsParameterLeaf
      <4>4. fx[i].actual = {fx[i].example}
        BY <4>3 DEF FxInv, Entries, Unchanging
      <4>5. w = Parameter(name)
        BY <1>3, <4>2, <4>4
      <4>6. tensors'[fx[k].env] = w /\ fx[k].env \in DOMAIN tensors'
        BY <1>5, <2>3
      <4>7. Alike(w.shape, fx[k].example.shape)
        BY <1>3, <4>1, <4>2
      <4> QED BY <1>3, <1>6, <4>1, <4>5, <4>6, <4>7 DEF Agrees
    <3>3. CASE \E n \in 1 .. next - 1, l \in DOMAIN fx : Lowers(n, l, k)
      <4>1. fx[k].env = NameAt(k)
        BY <3>3, LoweredNames
      <4> QED BY <1>9, <2>3, <4>1
    <3> QED BY <1>10, <3>1, <3>2, <3>3 DEF Settled
  <2> QED BY <2>2, <2>3
<1>11. ASSUME NEW k \in DOMAIN fx', Settled(next, k)'
       PROVE  Agrees(k)'
  <2>1. k \in DOMAIN fx
    BY <1>6
  <2>2. CASE Settled(next, k)
    BY <1>10, <2>1, <2>2
  <2>3. CASE ~Settled(next, k)
    <3>1. k # 1 /\ ~IsParam(k) /\ ~\E n \in 1 .. next - 1, l \in DOMAIN fx : Lowers(n, l, k)
      BY <2>3 DEF Settled
    <3>2. ~IsParam(k)'
      BY <3>1, SameEntries
    <3>3. PICK n \in 1 .. next' - 1, l \in DOMAIN fx' : Lowers(n, l, k)'
      BY <1>11, <3>1, <3>2 DEF Settled
    <3>4. Lowers(n, l, k) /\ l \in DOMAIN fx
      BY <1>6, <3>3, SameCalls
    <3>5. n \in 1 .. next - 1 \/ n = next
      BY <1>7, <3>3
    <3>6. Lowers(next, l, k)
      BY <3>1, <3>4, <3>5
    <3>7. nodes[next].output = NameAt(k)
      BY <3>6, LoweredNames
    <3> QED BY <1>2, <1>9, <2>1, <3>7
  <2> QED BY <2>2, <2>3
<1>12. ASSUME NEW m \in Modules, NEW which \in Kinds, <<m.path, which>> \in DOMAIN weights'
       PROVE  /\ <<m.path, which>> \in DOMAIN tensors'
              /\ tensors'[<<m.path, which>>] = Param(m, which)
  <2>1. <<m.path, which>> # fx[i].env
    BY <1>2, NameShapes
  <2>2. /\ <<m.path, which>> \in DOMAIN tensors
        /\ tensors[<<m.path, which>>] = Param(m, which)
    BY <1>6, <1>12 DEF Running, Kinds
  <2> QED BY <1>5, <2>1, <2>2
<1> QED BY <1>11, <1>12 DEF Running, Kinds

LEMMA RunNodeInv == FxInv /\ RunNode => FxInv'
<1> SUFFICES ASSUME FxInv, RunNode
             PROVE  FxInv'
  OBVIOUS
<1> DEFINE node == nodes[next]
           computed == Compute(node.op, Inputs(next), node.attrs)
           results == IF HasInputs(next) THEN computed ELSE {}
           wide == HasInputs(next) /\ Wide(node.op, Inputs(next), node.attrs)
<1>1. /\ phase = "run" /\ next \in DOMAIN nodes /\ plugin' = plugin
      /\ UNCHANGED <<fx, nodes, weights, outputs>>
      /\ lost' = lost \cup (IF wide THEN {"width"} ELSE {})
      /\ \/ (results = {} \/ wide) /\ phase' = "threw" /\ UNCHANGED <<tensors, next>>
         \/ /\ \E value \in results : tensors' = Put(tensors, [n \in {node.output} |-> value])
            /\ next' = next + 1
            /\ UNCHANGED phase
  BY DEF RunNode
<1> HIDE DEF computed, wide
<1>2. IsSeq(nodes) /\ Phases
  BY DEF FxInv
<1>3. DOMAIN nodes = 1 .. Len(nodes) /\ Len(nodes) \in Nat
  BY <1>2, Sequence
<1>4. Phases'
  <2>1. fx' = fx /\ nodes' = nodes /\ lost' \subseteq lost \cup {"width"}
    BY <1>1
  <2>2. next' \in 1 .. Len(nodes) + 1 /\ phase' \in {"run", "threw"}
    BY <1>1, <1>3
  <2> QED BY <1>1, <1>2, <2>1, <2>2 DEF Phases
<1>5. ASSUME lost' = {}, ~Clash'
      PROVE  Running'
  <2>0. ~wide /\ FitsInts /\ UNCHANGED Graph /\ lost = {}
    <3>1. lost' = {} /\ ~wide /\ lost' = lost
      BY <1>1, <1>5
    <3> QED BY <1>1, <3>1 DEF Graph, wide, FitsInts
  <2>1. lost = {} /\ ~Clash
    BY <1>5, <2>0, SameEntries
  <2>2. Running
    BY <1>1, <2>1 DEF FxInv
  <2>3. CASE results = {} /\ phase' = "threw" /\ UNCHANGED <<tensors, next>>
    <3>1. fx' = fx /\ nodes' = nodes /\ weights' = weights
      BY <1>1
    <3>2. ASSUME NEW i \in DOMAIN fx', Settled(next, i)'
          PROVE  Agrees(i)'
      <4>1. Settled(next, i)
        BY <2>0, <2>3, <3>1, <3>2, SameCalls, SameEntries DEF Settled
      <4>2. Agrees(i)
        BY <2>2, <3>1, <4>1 DEF Running
      <4> QED BY <2>3, <3>1, <4>2 DEF Agrees
    <3>3. HasInputs(next)' <=> HasInputs(next)
      BY <2>3, <3>1 DEF HasInputs
    <3>4. Inputs(next)' = Inputs(next)
      BY <2>3, <3>1 DEF Inputs
    <3>5. HasInputs(next)' =>
            /\ ~Wide(nodes'[next'].op, Inputs(next)', nodes'[next'].attrs)
            /\ Compute(nodes'[next'].op, Inputs(next)', nodes'[next'].attrs) = {}
      BY <2>0, <2>3, <3>1, <3>3, <3>4 DEF computed, wide
    <3>6. /\ next' \in DOMAIN nodes' /\ phase' = "threw" /\ phase' # "done"
          /\ tensors' = tensors /\ weights' = weights
      BY <1>1, <2>3, <3>1
    <3> QED BY <2>2, <3>2, <3>5, <3>6 DEF Running
  <2>4. CASE /\ \E value \in results : tensors' = Put(tensors, [n \in {node.output} |-> value])
             /\ next' = next + 1
             /\ UNCHANGED phase
    <3>1. PICK value \in computed : tensors' = Put(tensors, [n \in {node.output} |-> value])
      BY <2>4
    <3> QED BY <1>1, <2>0, <2>1, <2>2, <2>4, <3>1, NodeComputed DEF computed
  <2> QED BY <1>1, <2>0, <2>3, <2>4
<1> QED BY <1>1, <1>4, <1>5, SameGraph DEF FxInv

LEMMA ReturnInv == FxInv /\ Return => FxInv'
<1> SUFFICES ASSUME FxInv, Return
             PROVE  FxInv'
  OBVIOUS
<1>1. /\ phase = "run" /\ next = Len(nodes) + 1 /\ UNCHANGED Graph
      /\ UNCHANGED <<plugin, tensors, next>> /\ phase' \in {"done", "threw"}
      /\ phase' = "threw" => ~\A k \in DOMAIN outputs : fx[outputs[k]].env \in DOMAIN tensors
  BY DEF Return, Graph
<1>2. fx' = fx /\ nodes' = nodes /\ weights' = weights /\ lost' = lost
  BY <1>1 DEF Graph
<1>3. Phases /\ Entries /\ Weights
  BY DEF FxInv
<1>4. Phases'
  BY <1>1, <1>2, <1>3 DEF Phases
<1>5. ASSUME lost' = {}, ~Clash'
      PROVE  Running'
  <2>1. lost = {} /\ ~Clash
    BY <1>1, <1>2, <1>5, SameEntries
  <2>2. Running
    BY <1>1, <2>1 DEF FxInv
  <2>3. \A k \in DOMAIN outputs : fx[outputs[k]].env \in DOMAIN tensors
    <3> TAKE k \in DOMAIN outputs
    <3>1. outputs[k] \in DOMAIN fx
      BY <1>3 DEF Weights
    <3>2. Settled(next, outputs[k])
      BY <1>1, <1>3, <3>1 DEF Entries
    <3> QED BY <2>2, <3>1, <3>2 DEF Running, Agrees
  <2>4. phase' = "done"
    BY <1>1, <2>3
  <2>5. ASSUME NEW i \in DOMAIN fx', Settled(next, i)'
        PROVE  Agrees(i)'
    <3>1. Settled(next, i)
      <4>1. \A k, j : Lowers(k, j, i)' <=> Lowers(k, j, i)
        BY <1>1, SameCalls
      <4>2. (IsParam(i)' <=> IsParam(i)) /\ next' = next /\ DOMAIN fx' = DOMAIN fx
        BY <1>1, <1>2, SameEntries
      <4> QED BY <2>5, <4>1, <4>2 DEF Settled
    <3>2. Agrees(i)
      BY <1>2, <2>2, <3>1 DEF Running
    <3> QED BY <1>1, <1>2, <3>2 DEF Agrees
  <2> QED BY <1>1, <1>2, <2>2, <2>4, <2>5 DEF Running
<1>6. UNCHANGED <<fx, nodes, weights, outputs>> /\ lost \subseteq lost'
  BY <1>1 DEF Graph
<1> QED BY <1>1, <1>4, <1>5, <1>6, SameGraph DEF FxInv

-----------------------------------------------------------------------------
(* The theorems *)

LEMMA FxNextInv == FxInv /\ [FxNext]_fxVars => FxInv'
<1> SUFFICES ASSUME FxInv, [FxNext]_fxVars
             PROVE  FxInv'
  OBVIOUS
<1>1. CASE BuildPlugin
  BY <1>1, BuildInv
<1>2. CASE NoExample
  BY <1>2, RaisesInv DEF NoExample, Started
<1>3. ASSUME NEW name \in InputNames, NEW example \in Examples, NEW batch \in Batches,
             Placeholder(name, example, batch)
      PROVE  FxInv'
  BY <1>3, PlaceholderInv
<1>4. ASSUME NEW name \in DOMAIN RootParams, GetAttr(name)
      PROVE  FxInv'
  BY <1>4, GetAttrInv
<1>5. ASSUME NEW i \in DOMAIN fx, NEW m \in Modules, CallModule(m, i)
      PROVE  FxInv'
  BY <1>5, CallModuleInv
<1>6. ASSUME NEW i \in DOMAIN fx, NEW name \in {"flatten", "size"}, CallView(name, <<>>, i)
      PROVE  FxInv'
  BY <1>6, CallViewInv
<1>7. ASSUME NEW i \in DOMAIN fx, NEW target \in ViewTargets, CallView("view", target, i)
      PROVE  FxInv'
  <2>1. target \in ViewTargets \cup {<<>>} /\ target # <<>>
    BY FxAssumption
  <2> QED BY <1>7, <2>1, CallViewInv
<1>8. ASSUME NEW i \in DOMAIN fx, Output(<<i, Len(fx)>>)
      PROVE  FxInv'
  BY <1>8, OutputInv
<1>9. CASE RunNode
  BY <1>9, RunNodeInv
<1>10. CASE Return
  BY <1>10, ReturnInv
<1>11. CASE UNCHANGED fxVars
  <2>1. UNCHANGED Graph /\ UNCHANGED <<phase, tensors, next>> /\ plugin' = plugin
    BY <1>11 DEF fxVars, Graph
  <2>2. Phases'
    <3>1. fx' = fx /\ nodes' = nodes /\ lost' = lost
      BY <2>1 DEF Graph
    <3> QED BY <2>1, <3>1 DEF FxInv, Phases
  <2>3. ASSUME phase' \in {"run", "threw", "done"}, lost' = {}, ~Clash'
        PROVE  Running'
    <3>1. lost = {} /\ ~Clash
      BY <2>1, <2>3, SameEntries DEF Graph
    <3>2. Running
      BY <2>1, <2>3, <3>1 DEF FxInv
    <3> QED BY <2>1, <3>2, SameRunning
  <2>4. UNCHANGED <<fx, nodes, weights, outputs>> /\ lost \subseteq lost'
    BY <2>1 DEF Graph
  <2> QED BY <2>1, <2>2, <2>3, <2>4, SameGraph DEF FxInv
<1> QED BY <1>1, <1>2, <1>3, <1>4, <1>5, <1>6, <1>7, <1>8, <1>9, <1>10, <1>11 DEF FxNext

LEMMA FxInvariant == FxSpec => []FxInv
BY FxInitInv, FxNextInv, PTL DEF FxSpec

LEMMA FxTypeFromInv == FxInv => FxTypeOK
<1> SUFFICES ASSUME FxInv
             PROVE  FxTypeOK
  OBVIOUS
<1> DEFINE Names(n) == {fx[1].env} \cup DOMAIN weights \cup {nodes[k].output : k \in 1 .. n - 1}
<1>1. /\ Phases /\ Entries /\ Lowered /\ IsSeq(fx) /\ IsSeq(nodes)
      /\ DOMAIN nodes = 1 .. Len(nodes) /\ Len(nodes) \in Nat
  <2>1. Phases /\ Entries /\ Lowered /\ IsSeq(fx) /\ IsSeq(nodes)
    BY DEF FxInv
  <2> QED BY <2>1, Sequence
<1>2. ASSUME NEW n, NEW i, Settled(n, i)
      PROVE  fx[i].env \in Names(n)
  <2>1. CASE i = 1
    BY <2>1
  <2>2. CASE IsParam(i)
    BY <2>2 DEF IsParam
  <2>3. CASE \E k \in 1 .. n - 1, j \in DOMAIN fx : Lowers(k, j, i)
    <3>1. PICK k \in 1 .. n - 1, j \in DOMAIN fx : Lowers(k, j, i)
      BY <2>3
    <3>2. nodes[k].output = fx[i].env
      BY <3>1, LoweredNames
    <3> QED BY <3>1, <3>2
  <2> QED BY <1>2, <2>1, <2>2, <2>3 DEF Settled
<1>3. ASSUME NEW n \in DOMAIN nodes
      PROVE  NamesOf(n) \subseteq Names(n)
  <2>1. PICK i, j \in DOMAIN fx : Lowers(n, j, i) /\ Settled(n, j)
    BY <1>1 DEF Lowered
  <2>2. fx[j].env \in Names(n)
    BY <1>2, <2>1
  <2>3. Calls(n, j, i)
    BY <2>1 DEF Lowers
  <2>4. ASSUME NEW m \in Modules, ~Unsupported(m),
               nodes[n].inputs = <<fx[j].env>> \o ParamNames(m),
               \A k \in DOMAIN ParamNames(m) : ParamNames(m)[k] \in DOMAIN weights
        PROVE  NamesOf(n) \subseteq Names(n)
    <3> DEFINE names == ParamNames(m)
               env == fx[j].env
               inputs == nodes[n].inputs
               S == {<<m.path, which>> : which \in Kinds}
    <3>1. names \in Seq(S) /\ DOMAIN names = 1 .. Len(names) /\ Len(names) \in Nat
      BY <2>4, ParamNamesListed
    <3>2. inputs = <<env>> \o names /\ \A k \in 1 .. Len(names) : names[k] \in Names(n)
      BY <2>4, <3>1
    <3> HIDE DEF names, env, S, Names
    <3>3. /\ DOMAIN inputs = 1 .. Len(names) + 1 /\ inputs[1] = env
          /\ \A k \in 1 .. Len(names) : inputs[k + 1] = names[k]
      BY <3>1, <3>2, FirstThen
    <3>4. \A k \in 1 .. Len(names) + 1 : k = 1 \/ (k - 1 \in 1 .. Len(names) /\ (k - 1) + 1 = k)
      BY <3>1
    <3>5. \A k \in DOMAIN inputs : inputs[k] \in Names(n)
      <4> TAKE k \in DOMAIN inputs
      <4>1. CASE k = 1
        BY <2>2, <3>3, <4>1 DEF env
      <4>2. CASE k # 1
        <5>1. k - 1 \in 1 .. Len(names) /\ inputs[k] = names[k - 1]
          BY <3>3, <3>4, <4>2
        <5> QED BY <3>2, <5>1
      <4> QED BY <4>1, <4>2
    <3> QED BY <3>5 DEF NamesOf
  <2>5. ASSUME nodes[n].inputs = <<fx[j].env>>
        PROVE  NamesOf(n) \subseteq Names(n)
    <3> HIDE DEF Names
    <3>1. NamesOf(n) = {fx[j].env}
      BY <2>5 DEF NamesOf
    <3> QED BY <2>2, <3>1
  <2>6. \A o, ins, out, at : Node(o, ins, out, at).inputs = ins
    BY DEF Node
  <2> HIDE DEF Names
  <2>7. CASE \E m \in Modules :
               /\ CallsModule(m, j, i)
               /\ nodes[n] = Node(OpOf[m.type], <<fx[j].env>> \o ParamNames(m), fx[i].env,
                                  Attrs(m, fx[i].example))
               /\ \A k \in DOMAIN ParamNames(m) : ParamNames(m)[k] \in DOMAIN weights
    <3>1. PICK m \in Modules :
               /\ CallsModule(m, j, i)
               /\ nodes[n] = Node(OpOf[m.type], <<fx[j].env>> \o ParamNames(m), fx[i].env,
                                  Attrs(m, fx[i].example))
               /\ \A k \in DOMAIN ParamNames(m) : ParamNames(m)[k] \in DOMAIN weights
      BY <2>7
    <3>2. ~Unsupported(m)
      BY <3>1 DEF CallsModule
    <3> DEFINE ins == <<fx[j].env>> \o ParamNames(m)
               op == OpOf[m.type]
               attrs == Attrs(m, fx[i].example)
    <3>3. nodes[n] = Node(op, ins, fx[i].env, attrs)
      BY <3>1
    <3> HIDE DEF ins, op, attrs
    <3>4. nodes[n].inputs = ins
      BY <3>3 DEF Node
    <3>5. nodes[n].inputs = <<fx[j].env>> \o ParamNames(m)
      BY <3>4 DEF ins
    <3> QED BY <2>4, <3>1, <3>2, <3>5
  <2>8. CASE \E name \in {"flatten", "view"}, target \in ViewTargets \cup {<<>>} :
               /\ CallsView(name, target, j, i)
               /\ nodes[n] = Node("reshape", <<fx[j].env>>, fx[i].env, <<fx[i].example.shape>>)
    <3>1. nodes[n].inputs = <<fx[j].env>>
      BY <2>6, <2>8
    <3> QED BY <2>5, <3>1
  <2> QED BY <2>3, <2>7, <2>8 DEF Calls
<1>4. ASSUME NEW i \in DOMAIN fx
      PROVE  fx[i].env \in {fx[1].env} \cup DOMAIN weights \cup {nodes[n].output : n \in DOMAIN nodes}
  <2>1. fx[i].env \in Names(Len(nodes) + 1)
    BY <1>1, <1>2, <1>4 DEF Entries
  <2>2. (Len(nodes) + 1) - 1 = Len(nodes)
    BY <1>1
  <2> QED BY <1>1, <2>1, <2>2
<1>5. \A a, b \in DOMAIN nodes : nodes[a].output = nodes[b].output => a = b
  BY <1>1 DEF Lowered
<1>6. next \in 0 .. Len(nodes) + 1
  <2>1. next = 0 \/ next \in 1 .. Len(nodes) + 1
    BY <1>1 DEF Phases
  <2>2. Len(nodes) \in Nat
    BY <1>1
  <2> QED BY <2>1, <2>2
<1> QED BY <1>1, <1>3, <1>4, <1>5, <1>6 DEF FxTypeOK, Phases

(* The graph is sorted over the input and the weights, names no output      *)
(* twice, and has every value of the trace (_export_fx).                    *)
THEOREM GraphIsSorted == FxSpec => []FxTypeOK
BY FxInvariant, FxTypeFromInv, PTL

(* The templates and the generator's specifications name the same kernels,  *)
(* so that no placeholder is left (emit_plugin).                            *)
THEOREM PluginEmbedsItsKernels == FxSpec => []PluginIsExact
<1>1. FxInv => PluginIsExact
  <2>1. DefaultSpecs = UNION {TemplateKernels[op] : op \in DOMAIN TemplateKernels}
    BY TemplatesUnion
  <2>2. FxInv => plugin # "unresolved placeholder"
    BY DEF FxInv, Phases
  <2> QED BY <2>1, <2>2 DEF PluginIsExact
<1> QED BY <1>1, FxInvariant, PTL

(* What the engine returns from the graph of a model that lost nothing is   *)
(* what the model computes, on the example's shape and on other batches, as *)
(* long as what the templates hold in ints fits them (_export_fx,           *)
(* Engine::run and the vision operators).                                   *)
THEOREM ExportsAreFaithful == FxSpec => []Faithful
<1>1. FxInv => Faithful
  <2> SUFFICES ASSUME FxInv, phase = "done", lost = {}, ~Clash, NEW k \in DOMAIN outputs
               PROVE  {tensors[fx[outputs[k]].env]} = fx[outputs[k]].actual
    BY DEF Faithful
  <2>1. Running /\ next = Len(nodes) + 1
    BY DEF FxInv, Running
  <2>2. outputs[k] \in DOMAIN fx
    BY DEF FxInv, Weights
  <2>3. Settled(next, outputs[k])
    BY <2>1, <2>2 DEF FxInv, Entries
  <2> QED BY <2>1, <2>2, <2>3 DEF Running, Agrees
<1> QED BY <1>1, FxInvariant, PTL

(* A run on the example, whose numbers fit the ints, throws only where      *)
(* there is no kernel or an image comes without its batch (Engine::run and  *)
(* the vision operators).                                                   *)
THEOREM ExportsRunOnTheirExamples == FxSpec => []ExampleRuns
<1>1. FxInv => ExampleRuns
  <2> SUFFICES ASSUME FxInv, phase = "threw", fx[1].actual = {fx[1].example}, lost = {}, ~Clash
               PROVE  /\ next \in DOMAIN nodes
                      /\ HasInputs(next)
                      /\ \/ ~HasKernel(nodes[next].op, Inputs(next), nodes[next].attrs)
                         \/ nodes[next].op \in {"conv2d", "max_pool2d"} /\ Len(Inputs(next)[1].shape) = 3
    BY DEF ExampleRuns
  <2>1. Running /\ next \in DOMAIN nodes
    BY DEF FxInv, Running
  <2>2. PICK i, j \in DOMAIN fx : ExactCall(i, j)
    <3>1. FitsInts
      BY <2>1 DEF Running, FitsInts
    <3> QED BY <2>1, <3>1, NodeIsExact
  <2>3. HasInputs(next)
    BY <2>2 DEF ExactCall
  <2>4. Compute(nodes[next].op, Inputs(next), nodes[next].attrs) = {}
    BY <2>1, <2>3 DEF Running
  <2>5. Unchanging(j)
    BY DEF FxInv, Entries, Unchanging
  <2> QED BY <2>1, <2>2, <2>3, <2>4, <2>5 DEF ExactCall
<1> QED BY <1>1, FxInvariant, PTL

=============================================================================
