------------------------------ MODULE MCResume ------------------------------
(* One resumable WebSocket stream, for TLC. *)
EXTENDS WebsocketResume
=============================================================================
