------------------------------ MODULE MCEngine ------------------------------
(* TLC instances of Engine: Qwen2 models with a head dimension of 2, as    *)
(* the tiny example, and biases on the query, key and value projections.   *)
EXTENDS Engine

MCBiased == {"q_proj", "k_proj", "v_proj"}
=============================================================================
