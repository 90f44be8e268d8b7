------------------------------- MODULE MCMLFQ -------------------------------
(* A small instance of MLFQ: three segments share a batch of one.   *)
EXTENDS MLFQ
=============================================================================
