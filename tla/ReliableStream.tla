---------------------------- MODULE ReliableStream ----------------------------
(***************************************************************************)
(* What a resumable stream promises its caller, whatever happens to its    *)
(* connections: the deliveries the server publishes are heard one by one,  *)
(* in order and once each; the caller sees the stream end well exactly     *)
(* when it has heard the terminal delivery and with it everything; and     *)
(* nothing is published or heard after the end.                            *)
(*                                                                         *)
(* Both transports implement it: ResumableSession (the native gateway) and *)
(* WebsocketResume (the JSON gateway).                                     *)
(***************************************************************************)
EXTENDS Naturals, Sequences

VARIABLES
    published,  \* how many deliveries the server has made available
    sealed,     \* the last of them is the terminal one
    heard,      \* the deliveries the caller has heard, by their numbers
    verdict     \* what the caller knows of the end: "open", "done", "failed"

streamVars == <<published, sealed, heard, verdict>>

StreamInit ==
    /\ published = 0
    /\ sealed = FALSE
    /\ heard = <<>>
    /\ verdict = "open"

Publish ==
    /\ ~sealed
    /\ published' = published + 1
    /\ sealed' \in BOOLEAN
    /\ UNCHANGED <<heard, verdict>>

Hear ==
    /\ verdict = "open"
    /\ Len(heard) < published
    /\ heard' = Append(heard, Len(heard) + 1)
    /\ verdict' = IF sealed /\ Len(heard') = published THEN "done" ELSE "open"
    /\ UNCHANGED <<published, sealed>>

Fail ==
    /\ verdict = "open"
    /\ verdict' = "failed"
    /\ UNCHANGED <<published, sealed, heard>>

StreamNext == Publish \/ Hear \/ Fail

StreamSpec == StreamInit /\ [][StreamNext]_streamVars
=============================================================================
