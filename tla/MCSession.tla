----------------------------- MODULE MCSession -----------------------------
(***************************************************************************)
(* Bounded instances of one resumable stream.                              *)
(***************************************************************************)
EXTENDS ResumableSession
=============================================================================
