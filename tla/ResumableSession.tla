-------------------------- MODULE ResumableSession --------------------------
(***************************************************************************)
(* One resumable stream end to end: the logical session and its registry   *)
(* (engine/session/resumable, service), the WebSocket handler of each      *)
(* physical connection (gateway/native_session_gateway), and the SDK       *)
(* client that acknowledges, reconnects and resumes                        *)
(* (qwen3tts/_adapters/engine_websocket).  The replay ledger is            *)
(* DeliveryLedger; every step here is a step of it or leaves it alone.     *)
(*                                                                         *)
(* All server code runs on one event loop, so a stretch of code between    *)
(* two awaits that can suspend is one step.  Connections may break at any  *)
(* time and either side may notice first.                                  *)
(***************************************************************************)
EXTENDS DeliveryLedger

CONSTANTS
    OutMax,        \* output_queue_maxsize of the session handle
    AckInterval    \* stream_resume_ack_interval of the client

ASSUME SessionAssumption == OutMax \in Nat \ {0} /\ AckInterval \in Nat \ {0}

VARIABLES
    registered,       \* the token is bound to this session in the registry
    closing,          \* progress of close(): "open", "cancelling", "closing",
                      \* "closed", or "raised" when its fence did not fit
    close_fence,      \* the fence argument of that close()
    grace_task,       \* expire_detached() is scheduled
    terminal_task,    \* the terminal expiry is scheduled
    outputs,          \* the session handle's output queue
    handle_terminal,  \* the session handle has its terminal output
    pump,             \* _pump_outputs() is running
    serving,          \* connections whose handler still reads its socket
    sending,          \* connections whose output task still runs
    wire,             \* wire[g]: sent by the handler of g, not yet received
    uplink,           \* uplink[g]: sent by the client on g, not yet handled
    client,           \* "idle", "streaming", "resuming", "done", "failed", "protocol_error"
    conn,             \* the connection the client reads, 0 if none
    last_delivery_seq,       \* the client's cursor ...
    audio_through_sample,    \* ... in deliveries and in samples
    deliveries_since_ack

lifecycleVars == <<registered, closing, close_fence, grace_task, terminal_task>>
handleVars == <<outputs, handle_terminal, pump>>
connectionVars == <<serving, sending, wire, uplink>>
clientVars == <<client, conn, last_delivery_seq, audio_through_sample,
                deliveries_since_ack>>
vars == <<ledgerVars, lifecycleVars, handleVars, connectionVars, clientVars>>

Connections == 1..MaxAttachments
ResumeError == NoDelivery("resume_error")
Ack(type, seq, sample) == [type |-> type, seq |-> seq, sample |-> sample]

Init ==
    /\ LedgerInit
    /\ registered = FALSE
    /\ closing = "open"
    /\ close_fence = FALSE
    /\ grace_task = FALSE
    /\ terminal_task = FALSE
    /\ outputs = <<>>
    /\ handle_terminal = FALSE
    /\ pump = FALSE
    /\ serving = {}
    /\ sending = {}
    /\ wire = [g \in Connections |-> <<>>]
    /\ uplink = [g \in Connections |-> <<>>]
    /\ client = "idle"
    /\ conn = 0
    /\ last_delivery_seq = 0
    /\ audio_through_sample = 0
    /\ deliveries_since_ack = 0

-----------------------------------------------------------------------------
(* Starting, resuming and losing a connection.                             *)

\* The handler of the new attachment runs and the client reads from it.
Connected ==
    /\ serving' = serving \cup {generation + 1}
    /\ sending' = sending \cup {generation + 1}
    /\ client' = "streaming"
    /\ conn' = generation + 1
    /\ deliveries_since_ack' = 0
    /\ UNCHANGED <<wire, uplink, last_delivery_seq, audio_through_sample>>

Rejected ==
    /\ client' = "failed"
    /\ UNCHANGED <<connectionVars, conn, last_delivery_seq,
                   audio_through_sample, deliveries_since_ack>>

\* "start" on the first connection: the registry binds the token, the session
\* is initialised, its pump starts and the connection attaches from zero.
Start ==
    /\ client = "idle"
    /\ registered' = TRUE
    /\ pump' = TRUE
    /\ LedgerAttach(0, 0)
    /\ Connected
    /\ UNCHANGED <<closing, close_fence, grace_task, terminal_task, outputs,
                   handle_terminal>>

\* "resume" finds no session: it has been removed from the registry.
ResumeNotFound ==
    /\ client = "resuming"
    /\ ~registered
    /\ Rejected
    /\ UNCHANGED <<ledgerVars, lifecycleVars, handleVars>>

\* The grace task is cancelled before the ledger accepts or rejects the cursor.
Resume ==
    /\ client = "resuming"
    /\ registered
    /\ grace_task' = FALSE
    /\ \/ /\ failure \/ ~ValidCursor(last_delivery_seq, audio_through_sample)
          /\ Rejected
          /\ UNCHANGED ledgerVars
       \/ /\ LedgerAttach(last_delivery_seq, audio_through_sample)
          /\ IF AttachRaises(last_delivery_seq) THEN Rejected ELSE Connected
    /\ UNCHANGED <<registered, closing, close_fence, terminal_task, handleVars>>

ArmsGrace == ~terminal

\* detach(): only the current attachment detaches, and the session expires
\* unless a new connection comes or its terminal output is already retained.
Detach(g) ==
    \/ /\ LedgerDetach(g)
       /\ grace_task' = (grace_task \/ ArmsGrace)
    \/ /\ ~IsCurrent(g)
       /\ UNCHANGED <<ledgerVars, grace_task>>

\* A connection may only break while the model has another one to offer.
MayBreak == generation < MaxAttachments

HandlerEnds(g) ==
    /\ serving' = serving \ {g}
    /\ sending' = sending \ {g}
    /\ uplink' = [uplink EXCEPT ![g] = <<>>]

\* A terminal_ack is handled in three steps, between which the handler is busy.
Idle(g) ==
    uplink[g] # <<>> => Head(uplink[g]).type \in {"ack", "terminal_ack"}

\* The handler of g sees its socket closed or broken.
HandlerExit(g) ==
    /\ g \in serving
    /\ Idle(g)
    /\ conn # g \/ MayBreak
    /\ HandlerEnds(g)
    /\ Detach(g)
    /\ UNCHANGED <<registered, closing, close_fence, terminal_task, handleVars,
                   wire, clientVars>>

-----------------------------------------------------------------------------
(* The engine's outputs and the pump.                                      *)

\* SessionHandle._emit(): nothing follows the terminal output.
Emit(kind) ==
    /\ registered \/ closing # "open"
    /\ ~handle_terminal /\ closing # "closed"
    /\ Len(outputs) < OutMax
    /\ kind # "terminal" => next_delivery_seq + Len(outputs) < MaxDeliveries
    /\ outputs' = Append(outputs, kind)
    /\ handle_terminal' = (kind = "terminal")
    /\ UNCHANGED <<ledgerVars, lifecycleVars, pump, connectionVars, clientVars>>

Publish(kind) ==
    \/ PublishExceedsBuffer
    \/ \E n \in (IF kind = "audio" THEN SampleCounts ELSE {0}) : LedgerPublish(kind, n)

\* Forgets to schedule the expiry of a terminal session.
SchedulesNoExpiry == FALSE

SchedulesExpiry == terminal' /\ ~publish_raised'

\* The pump publishes one output.  Its loop ends when publish() raises or after
\* the terminal output, for which it arms the terminal expiry.
Pump ==
    /\ pump
    /\ outputs # <<>>
    /\ Publish(Head(outputs))
    /\ pump' = (~publish_raised' /\ ~terminal')
    /\ outputs' = Tail(outputs)
    /\ terminal_task' = (terminal_task \/ SchedulesExpiry)
    /\ UNCHANGED <<registered, closing, close_fence, grace_task, handle_terminal,
                   connectionVars, clientVars>>

\* After publish() has raised, the pump awaits handle.cancel() and the terminal
\* output is emitted, unless another one comes first.  Nobody reads the outputs
\* any more, so it makes no difference that a full queue blocks the put.
PumpCancelled ==
    /\ publish_raised /\ ~handle_terminal
    /\ handle_terminal' = TRUE
    /\ outputs' = (IF Len(outputs) < OutMax THEN Append(outputs, "terminal") ELSE outputs)
    /\ UNCHANGED <<ledgerVars, lifecycleVars, pump, connectionVars, clientVars>>

-----------------------------------------------------------------------------
(* close() and what calls it.                                              *)

\* registry.remove() and the first part of close(), up to the await of cancel.
CloseBegins(fence, cancel) ==
    /\ registered' = FALSE
    /\ closing' = (IF cancel /\ ~handle_terminal THEN "cancelling" ELSE "closing")
    /\ close_fence' = fence
    /\ grace_task' = FALSE
    /\ terminal_task' = FALSE

\* handle.cancel() has stopped the execution and emits the terminal output,
\* unless another one came first.
CloseCancelled ==
    /\ closing = "cancelling"
    /\ Len(outputs) < OutMax \/ handle_terminal
    /\ closing' = "closing"
    /\ outputs' = (IF handle_terminal THEN outputs ELSE Append(outputs, "terminal"))
    /\ handle_terminal' = TRUE
    /\ UNCHANGED <<ledgerVars, registered, close_fence, grace_task, terminal_task,
                   pump, connectionVars, clientVars>>

\* Forgets to cancel the pump.
CloseLeavesPump ==
    /\ closing = "closing"
    /\ LedgerClose(close_fence)
    /\ closing' = (IF CloseRaises(close_fence) THEN "raised" ELSE "closed")
    /\ UNCHANGED <<registered, close_fence, grace_task, terminal_task, handleVars,
                   connectionVars, clientVars>>

\* The rest of close(): the ledger is released, the pump cancelled and the
\* session closed in the service.  A fence that does not fit raises out of
\* close() and leaves the pump running.
CloseEnds ==
    /\ closing = "closing"
    /\ LedgerClose(close_fence)
    /\ IF CloseRaises(close_fence)
       THEN closing' = "raised" /\ UNCHANGED pump
       ELSE closing' = "closed" /\ pump' = FALSE
    /\ UNCHANGED <<registered, close_fence, grace_task, terminal_task, outputs,
                   handle_terminal, connectionVars, clientVars>>

\* expire_detached(): nothing happens if a connection is attached, or if the
\* session is no longer the one in the registry.
GraceExpires ==
    /\ grace_task
    /\ IF attachment = 0 /\ registered
       THEN CloseBegins(FALSE, TRUE)
       ELSE /\ grace_task' = FALSE
            /\ UNCHANGED <<registered, closing, close_fence, terminal_task>>
    /\ UNCHANGED <<ledgerVars, handleVars, connectionVars, clientVars>>

TerminalExpires ==
    /\ terminal_task
    /\ IF registered
       THEN CloseBegins(TRUE, FALSE)
       ELSE /\ terminal_task' = FALSE
            /\ UNCHANGED <<registered, closing, close_fence, grace_task>>
    /\ UNCHANGED <<ledgerVars, handleVars, connectionVars, clientVars>>

\* ResumableSessionRegistry.close(), at server shutdown.
Shutdown ==
    /\ registered
    /\ CloseBegins(TRUE, TRUE)
    /\ UNCHANGED <<ledgerVars, handleVars, connectionVars, clientVars>>

-----------------------------------------------------------------------------
(* The handler of one connection.                                          *)

\* send_reliable_output(): a fence closes the socket, a failure or a terminal
\* output ends the task.
Send(g) ==
    /\ g \in sending
    /\ Take(g)
    /\ LET m == Head(queues[g])
       IN  IF m = Fence
           THEN HandlerEnds(g) /\ UNCHANGED wire
           ELSE /\ wire' = [wire EXCEPT ![g] =
                        Append(@, IF m = Failure THEN ResumeError ELSE m)]
                /\ sending' = (IF m = Failure \/ m.kind = "terminal"
                               THEN sending \ {g} ELSE sending)
                /\ UNCHANGED <<serving, uplink>>
    /\ UNCHANGED <<lifecycleVars, handleVars, clientVars>>

\* An ACK or the first step of a terminal ACK.
HandleAck(g) ==
    /\ g \in serving
    /\ uplink[g] # <<>>
    /\ LET m == Head(uplink[g])
       IN  /\ m.type \in {"ack", "terminal_ack"}
           /\ IsCurrent(g)
           /\ \/ LedgerAcknowledge(g, m.seq, m.sample)
              \/ /\ m.seq <= acked_delivery_seq /\ m.sample <= acked_audio_sample
                 /\ UNCHANGED ledgerVars
           /\ uplink' = [uplink EXCEPT ![g] =
                  IF m.type = "ack" THEN Tail(@)
                  ELSE <<Ack("terminal_acking", m.seq, m.sample)>>]
    /\ UNCHANGED <<lifecycleVars, handleVars, serving, sending, wire, clientVars>>

\* The second step of a terminal ACK.
HandleTerminalAck(g) ==
    /\ g \in serving
    /\ uplink[g] # <<>> /\ Head(uplink[g]).type = "terminal_acking"
    /\ LedgerTerminalAck(g)
    /\ uplink' = [uplink EXCEPT ![g] = <<Ack("removing", 0, 0)>>]
    /\ UNCHANGED <<lifecycleVars, handleVars, serving, sending, wire, clientVars>>

\* The last step of a terminal ACK removes the session; the handler is then
\* ready for another stream, which is another session.
HandleRemove(g) ==
    /\ g \in serving
    /\ uplink[g] # <<>> /\ Head(uplink[g]).type = "removing"
    /\ IF registered THEN CloseBegins(FALSE, FALSE) ELSE UNCHANGED lifecycleVars
    /\ HandlerEnds(g)
    /\ UNCHANGED <<ledgerVars, handleVars, wire, clientVars>>

\* A command from a fenced connection, or a cursor the ledger rejects, raises:
\* the handler reports the error and ends.
HandleError(g) ==
    /\ g \in serving
    /\ uplink[g] # <<>>
    /\ LET m == Head(uplink[g])
       IN  \/ m.type # "removing" /\ ~IsCurrent(g)
           \/ /\ m.type \in {"ack", "terminal_ack"} /\ IsCurrent(g)
              /\ ~(m.seq <= acked_delivery_seq /\ m.sample <= acked_audio_sample)
              /\ \/ ~ValidCursor(m.seq, m.sample)
                 \/ m.seq < acked_delivery_seq \/ m.sample < acked_audio_sample
    /\ HandlerEnds(g)
    /\ wire' = [wire EXCEPT ![g] = Append(@, ResumeError)]
    /\ Detach(g)
    /\ UNCHANGED <<registered, closing, close_fence, terminal_task, handleVars,
                   clientVars>>

-----------------------------------------------------------------------------
(* The SDK client.                                                         *)

\* The reader finds its connection closed or broken, or idle for too long, and
\* drops it.
Reconnect ==
    /\ client = "streaming"
    /\ conn \notin serving \/ MayBreak
    /\ client' = "resuming"
    /\ conn' = 0
    /\ wire' = [wire EXCEPT ![conn] = <<>>]
    /\ UNCHANGED <<ledgerVars, lifecycleVars, handleVars, serving, sending, uplink,
                   last_delivery_seq, audio_through_sample, deliveries_since_ack>>

\* The resume attempts or the resume deadline are exhausted.
GiveUp ==
    /\ client = "resuming"
    /\ Rejected
    /\ UNCHANGED <<ledgerVars, lifecycleVars, handleVars>>

AckNotDue == deliveries_since_ack + 1 < AckInterval

\* _maybe_ack_locked(): every AckInterval deliveries, the cursor just reached.
\* A write that raises on a broken connection leaves the ACK due.
MaybeAck(seq, sample) ==
    \/ /\ AckNotDue \/ conn \notin serving \/ MayBreak
       /\ deliveries_since_ack' = deliveries_since_ack + 1
       /\ UNCHANGED uplink
    \/ /\ ~AckNotDue
       /\ deliveries_since_ack' = 0
       /\ uplink' = (IF conn \in serving
                     THEN [uplink EXCEPT ![conn] = Append(@, Ack("ack", seq, sample))]
                     ELSE uplink)

\* A delivery that continues the client's cursor, in deliveries and in samples.
Continues(m) ==
    /\ m.seq = last_delivery_seq + 1
    /\ m.kind = "audio" => m.start = audio_through_sample

\* The terminal delivery is taken for an ordinary event.
AcceptUnended(m) ==
    /\ last_delivery_seq' = m.seq
    /\ audio_through_sample' = (IF m.kind = "audio" THEN m.end ELSE audio_through_sample)
    /\ client' = client
    /\ MaybeAck(m.seq, audio_through_sample')

Accept(m) ==
    /\ last_delivery_seq' = m.seq
    /\ audio_through_sample' = (IF m.kind = "audio" THEN m.end ELSE audio_through_sample)
    /\ IF m.kind = "terminal"
       THEN /\ client' = "done"
            /\ uplink' = (IF conn \in serving
                          THEN [uplink EXCEPT ![conn] = Append(@,
                                  Ack("terminal_ack", m.seq, audio_through_sample))]
                          ELSE uplink)
            /\ UNCHANGED deliveries_since_ack
       ELSE /\ client' = client
            /\ MaybeAck(m.seq, audio_through_sample')

\* _fail_terminal(): the stream ends with an error and drops its connection.
FailTerminal(why) ==
    /\ client' = why
    /\ conn' = 0
    /\ UNCHANGED <<uplink, last_delivery_seq, audio_through_sample,
                   deliveries_since_ack>>

\* The reader takes one message: a resume_error ends the stream, a delivery
\* seen before is dropped, one that leaves a gap is a protocol error.
Receive ==
    /\ client = "streaming"
    /\ wire[conn] # <<>>
    /\ wire' = [wire EXCEPT ![conn] = Tail(@)]
    /\ LET m == Head(wire[conn])
       IN  \/ /\ m = ResumeError
              /\ FailTerminal("failed")
           \/ /\ m # ResumeError /\ m.seq <= last_delivery_seq
              /\ UNCHANGED <<clientVars, uplink>>
           \/ /\ m # ResumeError /\ Continues(m)
              /\ Accept(m)
              /\ UNCHANGED conn
           \/ /\ m # ResumeError /\ m.seq > last_delivery_seq /\ ~Continues(m)
              /\ FailTerminal("protocol_error")
    /\ UNCHANGED <<ledgerVars, lifecycleVars, handleVars, serving, sending>>

-----------------------------------------------------------------------------
Next ==
    \/ Start \/ Resume \/ ResumeNotFound \/ Reconnect \/ GiveUp \/ Receive
    \/ \E kind \in Kinds : Emit(kind)
    \/ Pump \/ PumpCancelled
    \/ CloseCancelled \/ CloseEnds \/ GraceExpires \/ TerminalExpires \/ Shutdown
    \/ \E g \in Connections :
          \/ HandlerExit(g) \/ Send(g) \/ HandleAck(g) \/ HandleTerminalAck(g)
          \/ HandleRemove(g) \/ HandleError(g)

Spec == Init /\ [][Next]_vars

\* What the scheduler, the timers and the sockets guarantee: tasks that can run
\* do, timers fire, what was sent on a live socket arrives, a closed socket is
\* noticed, and the engine ends every session.  Nothing is assumed about
\* breaks, about giving up or about shutdown.
Fairness ==
    /\ WF_vars(Start) /\ WF_vars(Resume) /\ WF_vars(ResumeNotFound)
    /\ WF_vars(Receive)
    /\ WF_vars(conn \notin serving /\ Reconnect)
    /\ WF_vars(Emit("terminal")) /\ WF_vars(Pump)
    /\ WF_vars(PumpCancelled)
    /\ WF_vars(CloseCancelled) /\ WF_vars(CloseEnds)
    /\ WF_vars(GraceExpires) /\ WF_vars(TerminalExpires)
    /\ \A g \in Connections :
          /\ WF_vars(conn # g /\ HandlerExit(g))
          /\ WF_vars(Send(g)) /\ WF_vars(HandleAck(g))
          /\ WF_vars(HandleTerminalAck(g)) /\ WF_vars(HandleRemove(g))
          /\ WF_vars(HandleError(g))

LiveSpec == Spec /\ Fairness

-----------------------------------------------------------------------------
(* Properties.                                                             *)

\* The fields of the session, its connections and its client keep their types.
SessionTypeOK ==
    /\ LedgerTypeOK
    /\ closing \in {"open", "cancelling", "closing", "closed", "raised"}
    /\ registered => closing = "open"
    /\ outputs \in Seq(Kinds) /\ Len(outputs) <= OutMax
    /\ sending \subseteq serving /\ serving \subseteq handlers
    /\ client \in {"idle", "streaming", "resuming", "done", "failed", "protocol_error"}
    /\ conn \in 0..generation
    /\ deliveries_since_ack \in Nat

\* The cursor from which a live client would resume is always one the ledger
\* still accepts: trimming never runs ahead of what the client has kept.
ResumeCursorRetained ==
    client \in {"streaming", "resuming"} /\ ~released =>
        ValidCursor(last_delivery_seq, audio_through_sample)

\* While its handler serves it and the session is open, the newest connection
\* stays attached: the late cleanup of an older handler cannot detach it.  And
\* a client on the attached connection misses nothing: every published delivery
\* is heard, on the client's wire or in its queue, and no queue has a gap.  (Every
\* field has its type, too.)
HeardOrInFlight ==
    /\ SessionTypeOK
    /\ QueuesConsecutive
    /\ generation \in serving /\ ~released => attachment = generation
    /\ client = "streaming" /\ conn = attachment /\ ~publish_raised =>
        last_delivery_seq + Len(wire[conn]) + Len(queues[conn])
            = next_delivery_seq - 1

\* close() is final, wherever it interleaves with the pump, the handlers and a
\* resuming client: the session is out of the registry and no connection is
\* attached to it again, and once close() has returned, the pump has stopped and
\* nothing is retained.  When the fence did not fit, close() raised before it
\* cancelled the pump; the session handle then has its terminal output, so that
\* no further output comes for the pump to publish.
CloseIsFinal ==
    /\ closing \in {"closed", "raised"} => ~registered /\ attachment = 0
    /\ closing = "closed" => ~pump /\ records = <<>>
    /\ closing = "raised" => handle_terminal

Stream == INSTANCE ReliableStream WITH
    published <- next_delivery_seq - 1,
    sealed    <- terminal,
    heard     <- [n \in 1..last_delivery_seq |-> n],
    verdict   <- IF client \in {"idle", "streaming", "resuming"} THEN "open" ELSE client

\* The session, its handlers and the SDK client together implement the stream
\* the caller is promised: no delivery is skipped, repeated or heard after the
\* end, the stream is "done" exactly when the terminal delivery is heard, and
\* the checks of the client's reader (a protocol error) never fire.
StreamImplemented == Stream!StreamSpec

\* Every stream comes to an end for its client.
ClientSettles == <>(client \in {"done", "failed"})

\* No session stays in the registry once its client is gone, unless its output
\* has outgrown the replay window (for that case see DetachedExpires).
SessionReclaimed == (client \in {"done", "failed"}) ~> (~registered \/ failure)

-----------------------------------------------------------------------------
(* What the documentation says of the replay window.                       *)

\* "failure is explicit rather than silently dropping output": a pump that
\* stopped early has recorded a failure the client is told of.
StopIsExplicit == publish_raised /\ ~terminal /\ registered => failure

\* The replay log "expires after the advertised grace period": a registered
\* session without a connection has a timer.
DetachedExpires == registered /\ attachment = 0 => grace_task \/ terminal_task
=============================================================================
