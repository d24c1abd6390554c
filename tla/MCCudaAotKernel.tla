-------------------------- MODULE MCCudaAotKernel --------------------------
(* TLC instances of CudaAotKernel: threads that launch the same kernels,   *)
(* one of which has no cubin.                                              *)
EXTENDS CudaAotKernel, TLC

MCSymmetry == Permutations(Threads)
=============================================================================
