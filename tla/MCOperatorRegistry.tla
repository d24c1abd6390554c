------------------------- MODULE MCOperatorRegistry -------------------------
(* TLC instances of OperatorRegistry: two engines that may load the same   *)
(* plugin, and a library that is not one.                                  *)
EXTENDS OperatorRegistry, TLC

MCSymmetry == Permutations(Registries) \union Permutations(Types)
=============================================================================
