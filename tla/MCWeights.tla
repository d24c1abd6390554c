----------------------------- MODULE MCWeights -----------------------------
(* TLC instances of Weights: 4-bit sizes and manifests whose integers      *)
(* sit on every side of the bounds, or do not fit the entry's shape.       *)
EXTENDS Weights, TLC

E(off, n) == [offset |-> off, nbytes |-> n, expected |-> IF n < 0 THEN n + 16 ELSE n]
Misfit == [offset |-> 0, nbytes |-> 1, expected |-> 2]
MCForeign ==
  {[n \in {m} |-> e] :
     m \in Names, e \in {E(-1, 1), E(0, -1), E(2, 1), E(1, 2), E(1, 0), Misfit}}

MCSymmetry == Permutations(Names)
=============================================================================
