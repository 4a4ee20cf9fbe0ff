---------------------------- MODULE MCKernelHeap ----------------------------
(***************************************************************************)
(* A heap of 80 bytes with pages of 32: two or three blocks fit, the next  *)
(* request goes past heap_max.                                             *)
(***************************************************************************)
EXTENDS KernelHeap

MCRequests == {1, 8, 10, 24}
=============================================================================
