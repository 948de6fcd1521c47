-------------------------- MODULE MCKernelFuture --------------------------
(* KernelFuture for TLC.                                                   *)
EXTENDS KernelFuture
=============================================================================
