----------------------------- MODULE MCKVCache ------------------------------
(* TLC instances of KVCache: two layers and shapes that differ in one      *)
(* dimension each, so that every shape check of append() decides a case.   *)
EXTENDS KVCache, TLC

Sh(b, h, s, d) == [b |-> b, h |-> h, s |-> s, d |-> d]

In(kind, key, value) == [kind |-> kind, key |-> key, value |-> value]
Good(sh) == In("float32_cuda", sh, sh)

One == Sh(1, 1, 1, 1)

MCInputs ==
  {Good(sh) : sh \in {One, Sh(1, 1, 2, 1), Sh(2, 1, 1, 1), Sh(1, 2, 1, 1), Sh(1, 1, 1, 2)}}
  \union {In("float32_cuda", One, Sh(1, 1, 2, 1)), In("float32_cuda", Sh(1, 1, 2, 1), One)}
  \union {In(kind, One, One) : kind \in Kind \ {"float32_cuda"}}

(* The tiny Qwen2 example: batch 1, two heads, single-token chunks. *)
MCTwoHeads == {Good(Sh(1, 2, 1, 1))}

MCNamesSymmetry == Permutations(Names)
=============================================================================
