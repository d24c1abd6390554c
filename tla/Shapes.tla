------------------------------- MODULE Shapes -------------------------------
(***************************************************************************)
(* The shape arithmetic of dli::Tensor and of utils.h: element counts,     *)
(* reshape targets, offsets.  A dimension is an int64_t and a count a      *)
(* size_t; both wrap at Word, so that overflow is within reach of small    *)
(* shapes.                                                                 *)
(***************************************************************************)
EXTENDS Integers, Sequences, SequencesExt

CONSTANT Half    \* half the range of size_t: int64_t is -Half .. Half - 1

ASSUME ShapesAssumption == Half \in Nat \ {0, 1}

Word == 2 * Half

Dims == -Half .. Half - 1

AsSize(n) == n % Word

AsInt(n) == ((n + Half) % Word) - Half

\* A function that may throw is modelled by the set of what it returns: one
\* element, or none.
Throws == {}

\* An empty shape means one element.
Normal(shape) == IF shape = <<>> THEN <<1>> ELSE shape

HasNegative(shape) == \E i \in DOMAIN shape : shape[i] < 0

\* The count on paper, which no code computes.
Count(shape) == FoldLeft(LAMBDA p, d : p * d, 1, shape)

\* product(): the compiled multiplication of int64_t keeps the low bits.
Product(shape) == FoldLeft(LAMBDA p, d : AsInt(p * d), 1, shape)

\* The count withShape() asks for.
Requested(shape) == FoldLeft(LAMBDA p, d : AsSize(p * AsSize(d)), 1, shape)

Overflow == -1

\* One turn of the loop of numel(): a count that is 0 has been returned, one
\* that is negative has been thrown.
NumelStep(n, d) ==
  IF n <= 0 THEN n
  ELSE IF d = 0 THEN 0
  ELSE IF AsSize(d) > (Word - 1) \div n THEN Overflow
  ELSE n * AsSize(d)

CheckedNumel(shape) == FoldLeft(NumelStep, 1, shape)

-----------------------------------------------------------------------------
(* reshapeShape() *)

Inferred(target) == {i \in DOMAIN target : target[i] = -1}

(* Mutant: the -1 is multiplied in. *)
KnownWithSign(target) == Product(target)

Known(target) == FoldLeft(LAMBDA p, d : IF d = -1 THEN p ELSE AsInt(p * d), 1, target)

\* The division of C++, where it is exact; a wrapped divisor may be negative.
Divides(k, n) == n % (IF k > 0 THEN k ELSE -k) = 0

Quotient(n, k) == IF k > 0 THEN n \div k ELSE (-n) \div (-k)

Malformed(target) ==
  \/ \E i \in DOMAIN target : target[i] <= 0 /\ target[i] # -1
  \/ \E i, j \in Inferred(target) : i # j

\* The division has no defined result where the divisor has wrapped to 0, or
\* to -1 and the count to the least int64_t.
DivisionTraps(input, target) ==
  /\ ~Malformed(target)
  /\ Inferred(target) # {}
  /\ \/ Known(target) = 0
     \/ Known(target) = -1 /\ Product(input) = -Half

ReshapeRefuses(input, target) ==
  \/ Malformed(target)
  \/ Inferred(target) # {} /\ ~Divides(Known(target), Product(input))

Resolved(input, target) ==
  [i \in DOMAIN target |->
     IF target[i] = -1 THEN Quotient(Product(input), Known(target)) ELSE target[i]]

ReshapeShape(input, target) ==
  IF \/ ReshapeRefuses(input, target)
     \/ Product(Resolved(input, target)) # Product(input)
  THEN Throws
  ELSE {Resolved(input, target)}

-----------------------------------------------------------------------------
(* contiguousOffset(), for indices of the rank of the shape *)

IndexRefused(shape, index) ==
  \E i \in DOMAIN shape : index[i] < 0 \/ index[i] >= shape[i]

(* Mutant: the stride counts the dimension itself. *)
StrideInclusive(shape, i) == Requested(SubSeq(shape, i, Len(shape)))

\* Row-major: the product of the dimensions behind.
Stride(shape, i) == Requested(SubSeq(shape, i + 1, Len(shape)))

ContiguousOffset(shape, index) ==
  FoldLeftDomain(LAMBDA sum, i : AsSize(sum + index[i] * Stride(shape, i)),
                 0, shape)

=============================================================================
