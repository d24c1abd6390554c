------------------------------ MODULE MCTensors ------------------------------
EXTENDS Tensors

\* Counts of 4 bits: 4 * 4 wraps to 0, 4 * 5 to 4, 7 * 7 to 1, 3 * 5 to -1 and
\* 2 * 4 to the least int64_t.
MCArguments ==
  {<<>>, <<0>>, <<2>>, <<4>>, <<6>>, <<2, 2>>, <<2, 3>>, <<3, 0>>, <<4, 4>>, <<4, 5>>,
   <<7, 7>>, <<-1>>, <<2, -1>>, <<-1, 3>>, <<-1, -1>>, <<-2>>, <<4, 4, 0>>, <<2, 1, 2>>,
   <<5, -1, 2>>, <<2, 4>>, <<3, 5, -1>>}

=============================================================================
