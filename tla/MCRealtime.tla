----------------------------- MODULE MCRealtime -----------------------------
(***************************************************************************)
(* Bounded instances of the Realtime endpoint.  In each behaviour the      *)
(* joint bound MaxInputs trades responses, connections, texts and raising  *)
(* calls against each other.                                               *)
(***************************************************************************)
EXTENDS RealtimeGateway
=============================================================================
