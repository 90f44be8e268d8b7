------------------------------ MODULE MCPlayback ------------------------------
(* Model-checking instances of Playback. *)
EXTENDS Playback
=============================================================================
