------------------------------- MODULE Tensors -------------------------------
(***************************************************************************)
(* A dli::Tensor variable and what a program does with it.  It wraps an    *)
(* ATen tensor, or is a pointer to device memory of the caller with a      *)
(* shape ("external"), or is neither: default-constructed, or moved from.  *)
(* A view is assigned back to the variable.  That a call throws shows in   *)
(* "last"; the variable keeps its value.                                   *)
(***************************************************************************)
EXTENDS Shapes, FiniteSets

CONSTANT Arguments   \* the shapes a caller passes

ASSUME TensorsAssumption == Arguments \subseteq Seq(Dims)

VARIABLES tensor,    \* the variable
          last       \* the last call: what it was asked and what it returned

vars == <<tensor, last>>

Tensor(backing, shape) == [backing |-> backing, shape |-> shape]

Default == Tensor("none", <<>>)

\* What a move leaves behind: the shape and the shared_ptr are gone, a raw
\* pointer is copied and stays.
MovedFrom(t) ==
  Tensor(IF t.backing = "external" THEN "external" ELSE "none", <<>>)

\* ATen keeps the count of its tensors; any other is computed from the shape.
Numel(t) == IF t.backing = "torch" THEN Count(t.shape) ELSE CheckedNumel(t.shape)

(* Mutant: only the signs are checked. *)
SignsOnly(t, shape) == HasNegative(shape) \/ Numel(t) = Overflow

WithShapeRefuses(t, shape) ==
  \/ HasNegative(shape)
  \/ Numel(t) = Overflow
  \/ Numel(t) # Requested(shape)

\* at::view compares the counts themselves.
AtenRefuses(t, shape) == t.backing = "torch" /\ Count(shape) # Count(t.shape)

(* Mutant: an empty shape is kept. *)
WithShapeAsGiven(t, argument) ==
  IF WithShapeRefuses(t, argument) \/ AtenRefuses(t, argument)
  THEN Throws
  ELSE {[t EXCEPT !.shape = argument]}

WithShape(t, argument) ==
  LET shape == Normal(argument)
  IN  IF WithShapeRefuses(t, shape) \/ AtenRefuses(t, shape)
      THEN Throws
      ELSE {[t EXCEPT !.shape = shape]}

\* What the reshape operator does with a tensor.
Reshaped(t, argument) ==
  UNION {WithShape(t, shape) : shape \in ReshapeShape(t.shape, argument)}

-----------------------------------------------------------------------------
\* A call that gives the variable a tensor, or throws.
Returns(name, from, argument, results) ==
  /\ last' = [name |-> name, from |-> from, argument |-> argument, results |-> results]
  /\ \/ results = Throws /\ UNCHANGED tensor
     \/ tensor' \in results

\* zeros() and cuda(); ATen may fail to allocate.
Allocate(argument) ==
  LET shape == Normal(argument)
  IN  \/ Returns("allocate", Default, argument, Throws)
      \/ /\ ~HasNegative(shape)
         /\ Count(shape) < Half
         /\ Returns("allocate", Default, argument, {Tensor("torch", shape)})

\* externalCuda() checks the pointer and takes any shape.
External(argument, isNull) ==
  Returns("externalCuda", Default, argument,
          IF isNull THEN Throws ELSE {Tensor("external", Normal(argument))})

TakeView(argument) ==
  Returns("withShape", tensor, argument, WithShape(tensor, argument))

\* Some sizes make reshapeShape() divide with no defined outcome.
Reshape(argument) ==
  /\ ~DivisionTraps(tensor.shape, argument)
  /\ Returns("reshape", tensor, argument, Reshaped(tensor, argument))

Move == Returns("move", tensor, <<>>, {MovedFrom(tensor)})

Init ==
  /\ tensor = Default
  /\ last = [name |-> "none", from |-> Default, argument |-> <<>>, results |-> Throws]

Next ==
  \/ \E argument \in Arguments :
       \/ Allocate(argument)
       \/ \E isNull \in BOOLEAN : External(argument, isNull)
       \/ TakeView(argument)
       \/ Reshape(argument)
  \/ Move

Spec == Init /\ [][Next]_vars

-----------------------------------------------------------------------------
\* The variable holds a tensor; it has no dimensions only if it was never
\* assigned or was moved from (Tensor::Tensor, withShape, externalCuda).
TypeOK ==
  /\ tensor \in [backing : {"none", "torch", "external"}, shape : Seq(Dims)]
  /\ tensor.backing = "torch" =>
       ~HasNegative(tensor.shape) /\ Count(tensor.shape) \in 0 .. Half - 1
  /\ tensor.shape = <<>> => tensor = MovedFrom(tensor)
  /\ tensor.shape = <<>> => last.results = Throws \/ last.name = "move"

\* withShape() and the reshape operator keep the number of elements, although
\* the count they compare with was multiplied without a check: a shape whose
\* count wraps to the old one gives a tensor whose numel() throws, never one
\* that reports another count.
ViewKeepsCount ==
  last.name \in {"withShape", "reshape"} =>
    \A t \in last.results : Numel(t) \in {Numel(last.from), Overflow}

Fits(shape) == ~HasNegative(shape) /\ Count(shape) < Half

\* The sizes of the target that are given, with 1 for any other entry.
GivenSizes(target) == [i \in DOMAIN target |-> IF target[i] > 0 THEN target[i] ELSE 1]

\* What numpy's rule gives: the target with a size for its one -1, so that the
\* counts agree.
Resolutions(input, target) ==
  {shape \in [DOMAIN target -> 0 .. Half - 1] :
     /\ \A i \in DOMAIN target : target[i] # -1 => target[i] = shape[i] /\ target[i] > 0
     /\ Count(shape) = Count(input)}

\* While the sizes fit, the reshape operator gives exactly the shape the rule
\* of reshapeShape() describes, and throws when there is none or two sizes
\* are to be inferred.
ReshapeIsExact ==
  LET input  == last.from.shape
      target == last.argument
  IN  /\ last.name = "reshape"
      /\ last.from.backing # "none"
      /\ input # <<>>
      /\ target # <<>>
      /\ Fits(input)
      /\ Numel(last.from) # Overflow
      /\ Fits(GivenSizes(target))
      => {t.shape : t \in last.results} =
           IF Cardinality(Inferred(target)) > 1 THEN {} ELSE Resolutions(input, target)

\* The offsets contiguousOffset() gives for the accepted indices of a tensor
\* whose numel() does not throw are different and lie inside it.
OffsetsAreDistinct ==
  LET shape    == tensor.shape
      accepted == {index \in [DOMAIN shape -> -1 .. Half - 1] : ~IndexRefused(shape, index)}
  IN  Numel(tensor) # Overflow =>
        /\ \A index \in accepted : ContiguousOffset(shape, index) < Numel(tensor)
        /\ \A i, j \in accepted :
             ContiguousOffset(shape, i) = ContiguousOffset(shape, j) => i = j

=============================================================================
