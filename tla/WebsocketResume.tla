--------------------------- MODULE WebsocketResume ---------------------------
(***************************************************************************)
(* One resumable stream over the JSON WebSocket gateway, with its input    *)
(* side: the logical session and its registry (gateway/websocket_resume),  *)
(* the handler of each physical connection (gateway/websocket_server), and *)
(* the SDK's stream session (qwen3tts/_adapters/engine_websocket) with its *)
(* two threads.  The application thread sends text; the reader thread      *)
(* receives; whichever finds the connection broken leads the recovery.     *)
(*                                                                         *)
(* A step is a stretch of a coroutine between two awaits that can suspend, *)
(* or a section of a client thread under its lock.  A connection may break *)
(* at any time and lose what is under way on it, in both directions.       *)
(***************************************************************************)
EXTENDS Integers, Sequences

CONSTANTS
    NumTexts,       \* text chunks the application may send
    NumAudio,       \* audio deliveries of the engine before its terminal event
    MaxConns,       \* physical connections the client may open
    MaxRetained,    \* deliveries the replay buffer holds
    Attempts,       \* stream_resume_attempts
    AckInterval,    \* stream_resume_ack_interval
    FailsFrom       \* deliveries from which on the engine may fail (1: at any time)

ASSUME ResumeAssumption ==
    /\ NumTexts \in Nat /\ NumAudio \in Nat /\ MaxConns \in Nat \ {0}
    /\ MaxRetained \in Nat \ {0} /\ Attempts \in Nat \ {0}
    /\ AckInterval \in Nat \ {0} /\ FailsFrom \in Nat \ {0}

Conns == 1..MaxConns
F(t, n) == [t |-> t, n |-> n]

VARIABLES
    \* the logical session
    registered, closed, expiring, failure, terminal,
    attachment,          \* the connection that owns the stream, 0 if none
    generation,          \* the last connection that attached
    grace_task,          \* the connection whose detach armed the grace timer, 0 if none
    terminal_task,
    produced, trimmed,   \* deliveries published, and trimmed by acknowledgements
    acked_text_seq, input_closed, final_text_seq,
    input_lock,          \* who is in accept_text() or close_input(), and where
    cancel_by,           \* the handler inside publish_cancelled(), 0 if none
    \* the engine
    fed, input_complete, engine_cancelled,
    \* connections
    handler,             \* "none", "ready", "ended"
    queue,               \* the attachment's output queue
    alive, wire, uplink,
    \* the client
    conn, finished, recovering, send_closed, outcome, cancel_conn,
    next_text_seq, client_acked, stop_sent,
    last_delivery_seq, pending_header, deliveries_since_ack, heard,
    rpc, rconn, rframe,  \* the reader thread
    spc, sconn,          \* the application thread inside send_text() or stop()
    leader, phase, new_conn, attempt

sessionVars == <<registered, closed, expiring, failure, terminal, attachment,
                 generation, grace_task, terminal_task, produced, trimmed>>
inputVars == <<acked_text_seq, input_closed, final_text_seq, input_lock, cancel_by>>
engineVars == <<fed, input_complete, engine_cancelled>>
linkVars == <<handler, queue, alive, wire, uplink>>
streamVars == <<conn, finished, recovering, send_closed, outcome, cancel_conn,
                next_text_seq, client_acked, stop_sent>>
hearVars == <<last_delivery_seq, pending_header, deliveries_since_ack, heard>>
readerVars == <<rpc, rconn, rframe>>
senderVars == <<spc, sconn>>
leaderVars == <<leader, phase, new_conn, attempt>>
clientVars == <<streamVars, hearVars, readerVars, senderVars, leaderVars>>
serverVars == <<sessionVars, inputVars, engineVars>>
vars == <<serverVars, linkVars, clientVars>>

Free == [g |-> 0, op |-> "free", n |-> 0]
NoFrame == F("none", 0)

\* The client has written "start" on its first connection.
ResumeInit ==
    /\ registered = FALSE /\ closed = FALSE /\ expiring = FALSE
    /\ failure = FALSE /\ terminal = FALSE
    /\ attachment = 0 /\ generation = 0 /\ grace_task = 0 /\ terminal_task = FALSE
    /\ produced = 0 /\ trimmed = 0
    /\ acked_text_seq = 0 /\ input_closed = FALSE /\ final_text_seq = -1
    /\ input_lock = Free /\ cancel_by = 0
    /\ fed = <<>> /\ input_complete = FALSE /\ engine_cancelled = FALSE
    /\ handler = [g \in Conns |-> IF g = 1 THEN "ready" ELSE "none"]
    /\ queue = [g \in Conns |-> <<>>]
    /\ alive = [g \in Conns |-> g = 1]
    /\ wire = [g \in Conns |-> <<>>]
    /\ uplink = [g \in Conns |-> IF g = 1 THEN <<F("start", 0)>> ELSE <<>>]
    /\ conn = 1 /\ finished = FALSE /\ recovering = FALSE /\ send_closed = FALSE
    /\ outcome = "none" /\ cancel_conn = 0
    /\ next_text_seq = 1 /\ client_acked = 0 /\ stop_sent = FALSE
    /\ last_delivery_seq = 0 /\ pending_header = 0 /\ deliveries_since_ack = 0
    /\ heard = <<>>
    /\ rpc = "recv" /\ rconn = 1 /\ rframe = NoFrame
    /\ spc = "idle" /\ sconn = 0
    /\ leader = "none" /\ phase = "none" /\ new_conn = 0 /\ attempt = 0

-----------------------------------------------------------------------------
(* The logical session.                                                    *)

Current(g) == ~closed /\ attachment = g
Send(g, frames) == wire' = IF alive[g] THEN [wire EXCEPT ![g] = @ \o frames] ELSE wire
Consume(g) == uplink' = [uplink EXCEPT ![g] = Tail(@)]

\* put_batch() of one frame: the start event is the first delivery, the done
\* or error event the last, everything between them audio.
Kind(n, last) == IF last THEN "done" ELSE IF n = 1 THEN "event" ELSE "audio"

\* The replay window is never checked.
PutUnbounded(last) ==
    IF closed \/ failure \/ terminal
    THEN UNCHANGED <<failure, terminal, terminal_task, produced, queue, engine_cancelled>>
    ELSE /\ produced' = produced + 1
         /\ terminal' = last
         /\ terminal_task' = (terminal_task \/ last)
         /\ queue' = IF attachment = 0 THEN queue
                     ELSE [queue EXCEPT ![attachment] =
                              Append(@, F(Kind(produced + 1, last), produced + 1))]
         /\ UNCHANGED <<failure, engine_cancelled>>

Put(last) ==
    IF closed \/ failure \/ terminal
    THEN UNCHANGED <<failure, terminal, terminal_task, produced, queue, engine_cancelled>>
    ELSE IF produced - trimmed + 1 > MaxRetained
    THEN /\ failure' = TRUE
         /\ engine_cancelled' = TRUE
         /\ queue' = IF attachment = 0 THEN queue
                     ELSE [queue EXCEPT ![attachment] = Append(@, F("failure", 0))]
         /\ UNCHANGED <<terminal, terminal_task, produced>>
    ELSE /\ produced' = produced + 1
         /\ terminal' = last
         /\ terminal_task' = (terminal_task \/ last)
         /\ queue' = IF attachment = 0 THEN queue
                     ELSE [queue EXCEPT ![attachment] =
                              Append(@, F(Kind(produced + 1, last), produced + 1))]
         /\ UNCHANGED <<failure, engine_cancelled>>

\* What a resume from cursor n replays.
Replay(n) ==
    [i \in 1..(produced - n) |-> F(Kind(n + i, terminal /\ n + i = produced), n + i)]

ValidCursor(n) == n \in trimmed..produced

\* attach(): the cursor is validated before the previous owner is fenced and
\* the grace timer is cancelled.
Attach(g, n) ==
    /\ queue' = [q \in Conns |->
                    IF q = g THEN Replay(n)
                    ELSE IF q = attachment THEN Append(queue[q], F("fence", 0))
                    ELSE queue[q]]
    /\ attachment' = g
    /\ generation' = g
    /\ grace_task' = 0

\* The cleanup of any handler detaches, whoever owns the stream now.
DetachAny(g) ==
    IF ~closed /\ attachment # 0
    THEN /\ attachment' = 0
         /\ grace_task' = IF terminal THEN 0 ELSE g
    ELSE UNCHANGED <<attachment, grace_task>>

\* No timer is left behind.
DetachUntimed(g) ==
    IF Current(g) THEN attachment' = 0 /\ UNCHANGED grace_task
    ELSE UNCHANGED <<attachment, grace_task>>

\* detach(): only the owner detaches; the session then expires unless a
\* client comes back or the terminal event has its own timer.
Detach(g) ==
    IF Current(g)
    THEN /\ attachment' = 0
         /\ grace_task' = IF terminal THEN 0 ELSE g
    ELSE UNCHANGED <<attachment, grace_task>>

\* remove() and mark_closed().
RemoveSession(fence) ==
    /\ registered' = FALSE
    /\ closed' = TRUE
    /\ grace_task' = 0
    /\ terminal_task' = FALSE
    /\ queue' = IF fence /\ attachment # 0
                THEN [queue EXCEPT ![attachment] = Append(@, F("fence", 0))]
                ELSE queue
    /\ attachment' = 0

-----------------------------------------------------------------------------
(* The handler of connection g.  It handles one message at a time: while   *)
(* it is inside accept_text(), close_input() or publish_cancelled() it     *)
(* neither reads nor sends.                                                *)

Busy(g) == input_lock.g = g \/ cancel_by = g
Ready(g) == handler[g] = "ready" /\ ~Busy(g)

\* The handler leaves its loop: its cleanup detaches and closes the socket.
End(g) ==
    /\ handler' = [handler EXCEPT ![g] = "ended"]
    /\ alive' = [alive EXCEPT ![g] = FALSE]
    /\ uplink' = [uplink EXCEPT ![g] = <<>>]
    /\ queue' = [queue EXCEPT ![g] = <<>>]
    /\ Detach(g)

Receives(g, t) == Ready(g) /\ uplink[g] # <<>> /\ Head(uplink[g]).t = t

\* A ResumeProtocolError or another exception ends the handler with a message.
Refuse(g, t) ==
    /\ Send(g, <<F(t, 0)>>)
    /\ End(g)

\* "start": the token is claimed, the connection attaches from zero, the engine
\* session is created and the start event published; or creation fails and the
\* token is free again.
Start(g) ==
    /\ Receives(g, "start")
    /\ \/ /\ Consume(g)
          /\ registered' = TRUE
          /\ attachment' = g
          /\ generation' = g
          /\ produced' = 1
          /\ queue' = [queue EXCEPT ![g] = <<F("event", 1)>>]
          /\ UNCHANGED <<closed, handler, alive, wire, engine_cancelled>>
       \/ /\ closed' = TRUE
          /\ engine_cancelled' = TRUE
          /\ Refuse(g, "error")
          /\ UNCHANGED <<registered, generation, produced>>
    /\ UNCHANGED <<expiring, failure, terminal, terminal_task, grace_task, trimmed,
                   inputVars, fed, input_complete, clientVars>>

MayAttach(n) == registered /\ ~closed /\ ~expiring /\ ~failure /\ ValidCursor(n)

\* "resume": find() and attach(), answered with what the server has accepted.
Resume(g) ==
    /\ Receives(g, "resume")
    /\ LET n == Head(uplink[g]).n IN
       IF MayAttach(n)
       THEN /\ Consume(g)
            /\ Attach(g, n)
            /\ Send(g, <<F(IF input_closed THEN "resumed_closed" ELSE "resumed",
                           acked_text_seq)>>)
            /\ UNCHANGED <<handler, alive>>
       ELSE Refuse(g, "resume_error") /\ UNCHANGED generation
    /\ UNCHANGED <<registered, closed, expiring, failure, terminal, terminal_task,
                   produced, trimmed, inputVars, engineVars, clientVars>>

\* accept_text() up to the push: a duplicate is acknowledged, a gap or text
\* after the end is refused, and a new chunk goes to the engine.
AcceptText(g) ==
    /\ Receives(g, "text") /\ input_lock = Free
    /\ LET n == Head(uplink[g]).n IN
       \/ /\ ~Current(g) \/ (n > acked_text_seq /\ (n # acked_text_seq + 1 \/ input_closed))
          /\ Refuse(g, "resume_error")
          /\ UNCHANGED input_lock
       \/ /\ Current(g) /\ n <= acked_text_seq
          /\ Consume(g)
          /\ Send(g, <<F("text_ack", acked_text_seq)>>)
          /\ UNCHANGED <<handler, alive, queue, attachment, grace_task, input_lock>>
       \/ /\ Current(g) /\ n = acked_text_seq + 1 /\ ~input_closed
          /\ Consume(g)
          /\ input_lock' = [g |-> g, op |-> "push", n |-> n]
          /\ UNCHANGED <<handler, alive, queue, attachment, grace_task, wire>>
    /\ UNCHANGED <<registered, closed, expiring, failure, terminal, generation,
                   terminal_task, produced, trimmed, acked_text_seq, input_closed,
                   final_text_seq, cancel_by, engineVars, clientVars>>

\* A session that has ended or is complete ignores the text.
EngineTakesText == ~engine_cancelled /\ ~terminal /\ ~input_complete

\* A connection that lost the stream during the push does not record it.
TextAcceptedByOwner ==
    /\ input_lock.op = "push"
    /\ fed' = IF EngineTakesText THEN Append(fed, input_lock.n) ELSE fed
    /\ acked_text_seq' = IF Current(input_lock.g) THEN input_lock.n ELSE acked_text_seq
    /\ input_lock' = Free
    /\ IF Current(input_lock.g)
       THEN Send(input_lock.g, <<F("text_ack", input_lock.n)>>)
       ELSE UNCHANGED wire
    /\ UNCHANGED <<sessionVars, input_closed, final_text_seq, cancel_by, input_complete,
                   engine_cancelled, handler, queue, alive, uplink, clientVars>>

\* The push returns: the sequence number is accepted even if another
\* connection has attached meanwhile, and acknowledged only to the owner.
TextAccepted ==
    /\ input_lock.op = "push"
    /\ fed' = IF EngineTakesText THEN Append(fed, input_lock.n) ELSE fed
    /\ acked_text_seq' = input_lock.n
    /\ input_lock' = Free
    /\ IF Current(input_lock.g)
       THEN Send(input_lock.g, <<F("text_ack", input_lock.n)>>)
       ELSE UNCHANGED wire
    /\ UNCHANGED <<sessionVars, input_closed, final_text_seq, cancel_by, input_complete,
                   engine_cancelled, handler, queue, alive, uplink, clientVars>>

\* Normalisation of the text fails before any of it was committed.
PushFails ==
    /\ input_lock.op = "push"
    /\ Refuse(input_lock.g, "error")
    /\ input_lock' = Free
    /\ UNCHANGED <<registered, closed, expiring, failure, terminal, generation,
                   terminal_task, produced, trimmed, acked_text_seq, input_closed,
                   final_text_seq, cancel_by, engineVars, clientVars>>

\* close_input() up to the call of the engine.
CloseInput(g) ==
    /\ Receives(g, "stop") /\ input_lock = Free
    /\ LET n == Head(uplink[g]).n IN
       \/ /\ \/ ~Current(g) \/ n # acked_text_seq
             \/ input_closed /\ final_text_seq # n
          /\ Refuse(g, "resume_error")
          /\ UNCHANGED <<input_lock, input_closed, final_text_seq>>
       \/ /\ Current(g) /\ n = acked_text_seq /\ input_closed /\ final_text_seq = n
          /\ Consume(g)
          /\ UNCHANGED <<handler, alive, queue, attachment, grace_task, input_lock,
                         input_closed, final_text_seq, wire>>
       \/ /\ Current(g) /\ n = acked_text_seq /\ ~input_closed
          /\ Consume(g)
          /\ input_closed' = TRUE
          /\ final_text_seq' = n
          /\ input_lock' = [g |-> g, op |-> "close", n |-> n]
          /\ UNCHANGED <<handler, alive, queue, attachment, grace_task, wire>>
    /\ UNCHANGED <<registered, closed, expiring, failure, terminal, generation,
                   terminal_task, produced, trimmed, acked_text_seq, cancel_by,
                   engineVars, clientVars>>

\* The client does nothing with the input_ack the owner gets.
InputClosed ==
    /\ input_lock.op = "close"
    /\ input_complete' = (input_complete \/ EngineTakesText)
    /\ input_lock' = Free
    /\ UNCHANGED <<sessionVars, acked_text_seq, input_closed, final_text_seq,
                   cancel_by, fed, engine_cancelled, linkVars, clientVars>>

\* The input stays closed although the engine was never told.
CloseFailsKept ==
    /\ input_lock.op = "close"
    /\ Refuse(input_lock.g, "error")
    /\ input_lock' = Free
    /\ UNCHANGED <<registered, closed, expiring, failure, terminal, generation,
                   terminal_task, produced, trimmed, acked_text_seq, input_closed,
                   final_text_seq, cancel_by, engineVars, clientVars>>

\* The engine's call raises: the input is open again so that a replayed stop
\* can repeat it, unless the stream is over.
CloseFails ==
    /\ input_lock.op = "close"
    /\ Refuse(input_lock.g, "error")
    /\ input_lock' = Free
    /\ input_closed' = terminal
    /\ final_text_seq' = IF terminal THEN final_text_seq ELSE -1
    /\ UNCHANGED <<registered, closed, expiring, failure, terminal, generation,
                   terminal_task, produced, trimmed, acked_text_seq, cancel_by,
                   engineVars, clientVars>>

\* "ack": a cumulative acknowledgement from the owner trims the buffer.
Acknowledge(g) ==
    /\ Receives(g, "ack")
    /\ LET n == Head(uplink[g]).n IN
       IF Current(g) /\ (n < trimmed \/ ValidCursor(n))
       THEN /\ Consume(g)
            /\ trimmed' = IF n < trimmed THEN trimmed ELSE n
            /\ UNCHANGED <<handler, alive, queue, attachment, grace_task, wire>>
       ELSE Refuse(g, "resume_error") /\ UNCHANGED trimmed
    /\ UNCHANGED <<registered, closed, expiring, failure, terminal, generation,
                   terminal_task, produced, inputVars, engineVars, clientVars>>

\* "terminal_ack": the session is removed and the connection is free.
TerminalAck(g) ==
    /\ Receives(g, "terminal_ack")
    /\ LET n == Head(uplink[g]).n IN
       IF terminal /\ Current(g) /\ (n < trimmed \/ ValidCursor(n))
       THEN /\ trimmed' = IF n < trimmed THEN trimmed ELSE n
            /\ Consume(g)
            /\ RemoveSession(FALSE)
            /\ handler' = [handler EXCEPT ![g] = "ended"]
            /\ UNCHANGED <<alive, wire>>
       ELSE /\ Refuse(g, "resume_error")
            /\ UNCHANGED <<trimmed, registered, closed, terminal_task>>
    /\ UNCHANGED <<expiring, failure, terminal, generation, produced, inputVars,
                   engineVars, clientVars>>

\* "cancel": publish_cancelled() closes the input, cancels the engine ...
CancelStream(g) ==
    /\ Receives(g, "cancel")
    /\ Consume(g)
    /\ IF terminal \/ closed
       THEN UNCHANGED <<input_closed, final_text_seq, cancel_by, engine_cancelled>>
       ELSE /\ input_closed' = TRUE
            /\ final_text_seq' = IF final_text_seq = -1 THEN acked_text_seq
                                 ELSE final_text_seq
            /\ cancel_by' = g
            /\ engine_cancelled' = TRUE
    /\ UNCHANGED <<sessionVars, acked_text_seq, input_lock, fed, input_complete,
                   handler, queue, alive, wire, clientVars>>

\* ... and, once the engine has answered, publishes the terminal event.  The
\* engine's cancel() only queues a request and cleans up: it waits for room in
\* the engine's inbox, and raises nothing.
CancelPublished ==
    /\ cancel_by # 0
    /\ Put(TRUE)
    /\ cancel_by' = 0
    /\ UNCHANGED <<registered, closed, expiring, attachment, generation, grace_task,
                   trimmed, acked_text_seq, input_closed, final_text_seq, input_lock,
                   fed, input_complete, handler, alive, wire, uplink, clientVars>>

\* One entry of the output queue.  An audio delivery is two frames.
Frames(q) == IF q.t = "audio" THEN <<F("header", q.n), F("payload", q.n)>> ELSE <<q>>

SendOutput(g) ==
    /\ Ready(g) /\ queue[g] # <<>>
    /\ LET q == Head(queue[g]) IN
       \/ /\ q.t = "fence" \/ (q.t \in {"event", "audio", "done"} /\ ~Current(g))
          /\ End(g)
          /\ UNCHANGED wire
       \/ /\ q.t = "failure"
          /\ Refuse(g, "resume_error")
       \/ /\ q.t \in {"event", "audio", "done"} /\ Current(g)
          /\ queue' = [queue EXCEPT ![g] = Tail(@)]
          /\ Send(g, Frames(q))
          /\ UNCHANGED <<handler, alive, uplink, attachment, grace_task>>
    /\ UNCHANGED <<registered, closed, expiring, failure, terminal, generation,
                   terminal_task, produced, trimmed, inputVars, engineVars,
                   clientVars>>

\* The handler finds its connection gone, reading or sending.
Notices(g) ==
    /\ Ready(g) /\ ~alive[g]
    /\ End(g)
    /\ UNCHANGED <<registered, closed, expiring, failure, terminal, generation,
                   terminal_task, produced, trimmed, inputVars, engineVars, wire,
                   clientVars>>

-----------------------------------------------------------------------------
(* The engine and the timers.                                              *)

\* A cancelled engine may still call back until the cancellation has returned.
EngineRuns ==
    /\ registered /\ ~terminal
    /\ ~engine_cancelled \/ cancel_by # 0 \/ expiring

\* on_audio(): another delivery, once some text has arrived.
EngineAudio ==
    /\ EngineRuns /\ fed # <<>> /\ produced <= NumAudio
    /\ Put(FALSE)
    /\ UNCHANGED <<registered, closed, expiring, attachment, generation, grace_task,
                   trimmed, inputVars, fed, input_complete, handler, alive, wire, uplink,
                   clientVars>>

\* on_done(): all text is spoken, or the session fails in the engine, whose
\* error is a done event too and may come while the input is still open.
EngineDone ==
    /\ EngineRuns
    /\ input_complete \/ produced >= FailsFrom
    /\ Put(TRUE)
    /\ UNCHANGED <<registered, closed, expiring, attachment, generation, grace_task,
                   trimmed, inputVars, fed, input_complete, handler, alive, wire, uplink,
                   clientVars>>

MayExpire == ~closed /\ ~expiring /\ attachment = 0 /\ generation = grace_task

\* expire_detached(): the claim fences a late resume before the engine is
\* cancelled; a task whose claim fails is over.
GraceExpires ==
    /\ grace_task # 0
    /\ expiring' = (expiring \/ MayExpire)
    /\ engine_cancelled' = (engine_cancelled \/ MayExpire)
    /\ grace_task' = 0
    /\ UNCHANGED <<registered, closed, failure, terminal, attachment, generation,
                   terminal_task, produced, trimmed, inputVars, fed, input_complete,
                   linkVars, clientVars>>

TerminalExpires ==
    /\ terminal_task
    /\ IF expiring THEN terminal_task' = FALSE /\ UNCHANGED <<registered, closed, queue,
                                                attachment, grace_task, expiring>>
       ELSE RemoveSession(TRUE) /\ expiring' = TRUE
    /\ UNCHANGED <<failure, terminal, generation, produced, trimmed, inputVars,
                   engineVars, handler, alive, wire, uplink, clientVars>>

\* The claimed session is removed.
Expired ==
    /\ expiring /\ ~closed
    /\ RemoveSession(FALSE)
    /\ UNCHANGED <<expiring, failure, terminal, generation, produced, trimmed,
                   inputVars, engineVars, handler, alive, wire, uplink, clientVars>>

-----------------------------------------------------------------------------
(* The client's application thread.                                        *)

\* The client closes a socket: what it has not read is gone.
Shut(g) ==
    /\ alive' = [alive EXCEPT ![g] = FALSE]
    /\ wire' = [wire EXCEPT ![g] = <<>>]

Deliver(g, m) ==
    uplink' = IF alive[g] /\ handler[g] = "ready" THEN [uplink EXCEPT ![g] = Append(@, m)] ELSE uplink

\* ws_send_json() returns, though a connection that died unnoticed loses the
\* message, or raises, and then the message may have left all the same.
SendOrFail(m) ==
    /\ Deliver(conn, m)
    /\ \/ UNCHANGED <<spc, sconn>>
       \/ spc' = "recover" /\ sconn' = conn

Sendable == spc = "idle" /\ ~recovering /\ ~finished

\* send_text(): journal, then write.
SendText ==
    /\ Sendable /\ ~send_closed /\ next_text_seq <= NumTexts
    /\ next_text_seq' = next_text_seq + 1
    /\ SendOrFail(F("text", next_text_seq))
    /\ UNCHANGED <<serverVars, handler, queue, alive, wire, conn, finished, recovering,
                   send_closed, outcome, cancel_conn, client_acked, stop_sent,
                   hearVars, readerVars, leaderVars>>

\* stop() and end().
FinishInput ==
    /\ Sendable /\ ~send_closed
    /\ stop_sent' = TRUE
    /\ send_closed' = TRUE
    /\ SendOrFail(F("stop", next_text_seq - 1))
    /\ UNCHANGED <<serverVars, handler, queue, alive, wire, conn, finished, recovering,
                   outcome, cancel_conn, next_text_seq, client_acked, hearVars,
                   readerVars, leaderVars>>

\* _fail_terminal() and _finish_transport_locked(): the first ending counts.
Finish(o) ==
    /\ finished' = TRUE
    /\ recovering' = FALSE
    /\ send_closed' = TRUE
    /\ outcome' = IF outcome = "none" THEN o ELSE outcome

GiveUp(o) ==
    /\ Finish(o)
    /\ IF finished THEN UNCHANGED <<alive, wire>> ELSE Shut(conn)

\* cancel(): one message, without recovery; once sending is closed, or if the
\* write raises, the stream is given up locally.
Cancel ==
    /\ Sendable
    /\ \/ /\ ~send_closed
          /\ send_closed' = TRUE
          /\ cancel_conn' = conn
          /\ Deliver(conn, F("cancel", 0))
          /\ UNCHANGED <<finished, recovering, outcome, alive, wire>>
       \/ /\ GiveUp("cancelled")
          /\ UNCHANGED <<uplink, cancel_conn>>
    /\ UNCHANGED <<serverVars, handler, queue, conn, next_text_seq, client_acked,
                   stop_sent, hearVars, readerVars, senderVars, leaderVars>>

-----------------------------------------------------------------------------
(* The client's reader thread.  A frame received on a connection that has  *)
(* been replaced meanwhile is dropped.                                     *)

ReaderLoop ==
    /\ rpc = "loop" /\ ~recovering
    /\ rpc' = IF finished THEN "exit" ELSE "recv"
    /\ rconn' = conn
    /\ UNCHANGED <<serverVars, linkVars, streamVars, hearVars, rframe, senderVars,
                   leaderVars>>

ReaderRecv ==
    /\ rpc = "recv" /\ wire[rconn] # <<>>
    /\ rframe' = Head(wire[rconn])
    /\ wire' = [wire EXCEPT ![rconn] = Tail(@)]
    /\ rpc' = "handle"
    /\ UNCHANGED <<serverVars, handler, queue, alive, uplink, streamVars, hearVars,
                   rconn, senderVars, leaderVars>>

\* The connection is closed, or was silent for too long: the timeout is longer
\* than anything that is under way takes.
Idle(g) == wire[g] = <<>> /\ uplink[g] = <<>> /\ queue[g] = <<>> /\ ~Busy(g)

ReaderFails ==
    /\ rpc = "recv" /\ (~alive[rconn] \/ Idle(rconn))
    /\ rpc' = "recover"
    /\ UNCHANGED <<serverVars, linkVars, streamVars, hearVars, rconn, rframe,
                   senderVars, leaderVars>>

Stale == rconn # conn \/ finished

\* _maybe_ack_locked(): the acknowledgement may fail to leave.
MaybeAck(n) ==
    IF deliveries_since_ack + 1 < AckInterval
    THEN deliveries_since_ack' = deliveries_since_ack + 1 /\ UNCHANGED uplink
    ELSE \/ deliveries_since_ack' = 0 /\ Deliver(conn, F("ack", n))
         \/ /\ ~alive[conn]
            /\ deliveries_since_ack' = deliveries_since_ack + 1
            /\ UNCHANGED uplink

\* A delivery becomes visible to the caller before the cursor moves.
Accept(n) ==
    /\ heard' = Append(heard, n)
    /\ last_delivery_seq' = n
    /\ MaybeAck(n)

\* A failure that reconnecting could not repair.
ReaderGivesUp(o) ==
    /\ GiveUp(o)
    /\ rpc' = "exit" /\ UNCHANGED rconn
    /\ UNCHANGED <<pending_header, uplink, last_delivery_seq, heard, deliveries_since_ack>>

Continue ==
    /\ rpc' = (IF recovering THEN "loop" ELSE IF finished THEN "exit" ELSE "recv")
    /\ rconn' = conn
    /\ UNCHANGED <<finished, recovering, send_closed, outcome, alive, wire>>

Skip ==
    Continue /\ UNCHANGED <<uplink, last_delivery_seq, heard, deliveries_since_ack>>

HandleHeader(n) ==
    IF Stale THEN Skip /\ UNCHANGED pending_header
    ELSE IF pending_header # 0 \/ n > last_delivery_seq + 1
    THEN ReaderGivesUp("protocol_error")
    ELSE Skip /\ pending_header' = n

HandlePayload ==
    IF Stale THEN Skip /\ UNCHANGED pending_header
    ELSE IF pending_header = 0 THEN ReaderGivesUp("protocol_error")
    ELSE /\ pending_header' = 0
         /\ IF pending_header <= last_delivery_seq THEN Skip
            ELSE Continue /\ Accept(pending_header)

\* The terminal event is acknowledged and the connection returned before the
\* caller sees the event.
HandleDone(n) ==
    /\ Finish("done")
    /\ heard' = Append(heard, n)
    /\ last_delivery_seq' = n
    /\ Deliver(conn, F("terminal_ack", n))
    /\ rpc' = "exit" /\ UNCHANGED rconn
    /\ UNCHANGED <<pending_header, deliveries_since_ack, alive, wire>>

\* A replayed event is taken again.
HandleEventTwice(n, last) ==
    IF Stale THEN Skip /\ UNCHANGED pending_header
    ELSE IF n > last_delivery_seq + 1 THEN ReaderGivesUp("protocol_error")
    ELSE IF last THEN HandleDone(n)
    ELSE Continue /\ Accept(n) /\ UNCHANGED pending_header

HandleEvent(n, last) ==
    IF Stale \/ n <= last_delivery_seq THEN Skip /\ UNCHANGED pending_header
    ELSE IF n # last_delivery_seq + 1 THEN ReaderGivesUp("protocol_error")
    ELSE IF last THEN HandleDone(n)
    ELSE Continue /\ Accept(n) /\ UNCHANGED pending_header

\* _handle_text_ack() does not look at the connection the frame came from.
ValidTextAck(n) == n >= client_acked /\ n < next_text_seq

Handle ==
    /\ rpc = "handle"
    /\ rframe' = NoFrame
    /\ LET m == rframe IN
       \/ m.t = "header" /\ HandleHeader(m.n) /\ UNCHANGED client_acked
       \/ m.t = "payload" /\ HandlePayload /\ UNCHANGED client_acked
       \/ m.t \in {"event", "done"} /\ HandleEvent(m.n, m.t = "done") /\ UNCHANGED client_acked
       \/ m.t = "text_ack" /\ ValidTextAck(m.n)
             /\ Skip /\ UNCHANGED pending_header /\ client_acked' = m.n
       \/ m.t = "text_ack" /\ ~ValidTextAck(m.n)
             /\ ReaderGivesUp("protocol_error") /\ UNCHANGED client_acked
       \/ m.t = "error" /\ Stale /\ Skip /\ UNCHANGED <<pending_header, client_acked>>
       \/ (m.t = "resume_error" \/ (m.t = "error" /\ ~Stale))
             /\ ReaderGivesUp("refused") /\ UNCHANGED client_acked
    /\ UNCHANGED <<serverVars, handler, queue, conn, cancel_conn, next_text_seq,
                   stop_sent, senderVars, leaderVars>>

-----------------------------------------------------------------------------
(* _recover_connection(), run by whichever thread noticed the failure.     *)

Threads == {"reader", "sender"}
FailedIn(w) == IF w = "reader" THEN rpc = "recover" ELSE spc = "recover"
FailedConn(w) == IF w = "reader" THEN rconn ELSE sconn

\* The reader goes on or ends; send_text() and stop() return or raise.
Returns(w, ok) ==
    IF w = "reader"
    THEN rpc' = (IF ok THEN "loop" ELSE "exit") /\ UNCHANGED <<spc, sconn>>
    ELSE spc' = "idle" /\ sconn' = 0 /\ UNCHANGED rpc

\* Nothing to do: the stream is over, or the other thread has already
\* replaced the connection.
RecoverNothing(w) ==
    /\ FailedIn(w) /\ leader # w
    /\ finished \/ conn # FailedConn(w)
    /\ Returns(w, ~finished)
    /\ UNCHANGED <<serverVars, linkVars, streamVars, hearVars, rconn, rframe,
                   leaderVars>>

\* The first to find the failure leads; the other waits for it.
Lead(w) ==
    /\ FailedIn(w) /\ leader = "none"
    /\ ~finished /\ conn = FailedConn(w) /\ ~recovering
    /\ recovering' = TRUE
    /\ pending_header' = 0
    /\ leader' = w /\ phase' = "dial" /\ new_conn' = 0 /\ attempt' = 1
    /\ UNCHANGED <<serverVars, linkVars, conn, finished, send_closed, outcome,
                   cancel_conn, next_text_seq, client_acked, stop_sent,
                   last_delivery_seq, deliveries_since_ack, heard, readerVars,
                   senderVars>>

Current_conn == IF new_conn = 0 THEN FailedConn(leader) ELSE new_conn

\* The leader is done: ok, or not.
LeaderReturns(ok) ==
    /\ Returns(leader, ok)
    /\ leader' = "none" /\ phase' = "none" /\ new_conn' = 0 /\ attempt' = 0

\* No attempt is left, or the server's refusal is final.
RecoverFails(o) ==
    /\ Finish(o)
    /\ alive' = [alive EXCEPT ![Current_conn] = FALSE]
    /\ wire' = [wire EXCEPT ![Current_conn] = <<>>]
    /\ LeaderReturns(FALSE)
    /\ UNCHANGED <<uplink, handler>>

\* The stream ended while the leader was on the network.
RecoverAbandoned ==
    /\ recovering' = FALSE
    /\ Shut(new_conn)
    /\ LeaderReturns(FALSE)
    /\ UNCHANGED <<finished, send_closed, outcome, uplink, handler>>

NextAttempt ==
    IF attempt < Attempts
    THEN /\ attempt' = attempt + 1
         /\ phase' = "dial"
         /\ UNCHANGED <<finished, recovering, send_closed, outcome, alive, wire, uplink,
                        handler, rpc, spc, sconn, leader, new_conn>>
    ELSE RecoverFails("recovery_error")

\* _replace_connection(): the failed connection is closed, then one is dialled.
Dial ==
    /\ phase = "dial"
    /\ \/ finished /\ RecoverFails("recovery_error")
       \/ /\ ~finished
          /\ \E g \in Conns :
                /\ handler[g] = "none" /\ \A h \in 1..(g - 1) : handler[h] # "none"
                /\ new_conn' = g
                /\ handler' = [handler EXCEPT ![g] = "ready"]
                /\ alive' = [alive EXCEPT ![g] = TRUE, ![Current_conn] = FALSE]
                /\ wire' = [wire EXCEPT ![Current_conn] = <<>>]
          /\ phase' = "resume"
          /\ UNCHANGED <<finished, recovering, send_closed, outcome, uplink, rpc, spc,
                         sconn, leader, attempt>>
       \/ ~finished /\ NextAttempt
    /\ UNCHANGED <<serverVars, queue, conn, cancel_conn, next_text_seq, client_acked,
                   stop_sent, hearVars, rconn, rframe>>

\* _resume_on_connection(): the cursor is read now; what arrives on the old
\* connection until it is replaced still counts.
SendResume ==
    /\ phase = "resume"
    /\ \/ finished /\ RecoverAbandoned
       \/ /\ ~finished
          /\ Deliver(new_conn, F("resume", last_delivery_seq))
          /\ phase' = "await"
          /\ UNCHANGED <<finished, recovering, send_closed, outcome, alive, wire,
                         handler, rpc, spc, sconn, leader, new_conn, attempt>>
       \/ ~finished /\ ~alive[new_conn] /\ NextAttempt
    /\ UNCHANGED <<serverVars, queue, conn, cancel_conn, next_text_seq, client_acked,
                   stop_sent, hearVars, rconn, rframe>>

\* _replay_unacked_input(): the text the server does not have, then the stop.
Unacked(n, c) ==
    [i \in 1..(next_text_seq - 1 - n) |-> F("text", n + i)]
        \o (IF stop_sent /\ ~c THEN <<F("stop", next_text_seq - 1)>> ELSE <<>>)

Resumed(m) ==
    /\ client_acked' = m.n
    /\ phase' = "commit"
    /\ wire' = [wire EXCEPT ![new_conn] = Tail(@)]
    /\ uplink' = IF alive[new_conn]
                 THEN [uplink EXCEPT ![new_conn] =
                          @ \o Unacked(m.n, m.t = "resumed_closed")]
                 ELSE uplink
    /\ UNCHANGED <<finished, recovering, send_closed, outcome, alive, handler, rpc, spc,
                   sconn, leader, new_conn, attempt>>

AwaitResumed ==
    /\ phase = "await"
    /\ \/ /\ wire[new_conn] # <<>>
          /\ LET m == Head(wire[new_conn]) IN
             IF m.t \in {"resumed", "resumed_closed"}
             THEN IF ValidTextAck(m.n) THEN Resumed(m)
                  ELSE RecoverFails("protocol_error") /\ UNCHANGED client_acked
             ELSE RecoverFails("refused") /\ UNCHANGED client_acked
       \/ ~alive[new_conn] /\ NextAttempt /\ UNCHANGED client_acked
       \/ wire[new_conn] = <<>> /\ RecoverFails("recovery_error") /\ UNCHANGED client_acked
    /\ UNCHANGED <<serverVars, queue, conn, cancel_conn, next_text_seq, stop_sent,
                   hearVars, rconn, rframe>>

Commit ==
    /\ phase = "commit"
    /\ \/ /\ finished
          /\ RecoverAbandoned
          /\ UNCHANGED <<conn, pending_header, deliveries_since_ack>>
       \/ /\ ~finished
          /\ conn' = new_conn
          /\ pending_header' = 0
          /\ deliveries_since_ack' = 0
          /\ recovering' = FALSE
          /\ LeaderReturns(TRUE)
          /\ UNCHANGED <<finished, send_closed, outcome, alive, wire, uplink, handler>>
    /\ UNCHANGED <<serverVars, queue, cancel_conn, next_text_seq, client_acked,
                   stop_sent, last_delivery_seq, heard, rconn, rframe>>

\* A connection breaks.  How much of what is under way still arrives is up to
\* when each side notices.
Break(g) ==
    /\ alive[g]
    /\ alive' = [alive EXCEPT ![g] = FALSE]
    /\ UNCHANGED <<serverVars, handler, queue, wire, uplink, clientVars>>

-----------------------------------------------------------------------------
HandlerStep(g) ==
    \/ Start(g) \/ Resume(g) \/ AcceptText(g) \/ CloseInput(g) \/ Acknowledge(g)
    \/ TerminalAck(g) \/ CancelStream(g) \/ SendOutput(g) \/ Notices(g)

InputStep ==
    TextAccepted \/ PushFails \/ InputClosed \/ CloseFails \/ CancelPublished

TimerStep == GraceExpires \/ TerminalExpires \/ Expired

ReaderStep == ReaderLoop \/ ReaderRecv \/ ReaderFails \/ Handle

LeaderStep == Dial \/ SendResume \/ AwaitResumed \/ Commit

AppStep == SendText \/ FinishInput \/ Cancel

\* The stream is over on both sides.
Over ==
    /\ finished /\ ~registered /\ spc = "idle" /\ rpc = "exit"
    /\ UNCHANGED vars

ResumeNext ==
    \/ \E g \in Conns : HandlerStep(g) \/ Break(g)
    \/ InputStep \/ TimerStep \/ EngineAudio \/ EngineDone
    \/ ReaderStep \/ LeaderStep \/ AppStep
    \/ \E w \in Threads : RecoverNothing(w) \/ Lead(w)
    \/ Over

ResumeSpec == ResumeInit /\ [][ResumeNext]_vars

\* The engine owes the terminal event only once it knows the input is complete.
ServerStep ==
    \/ \E g \in Conns : HandlerStep(g)
    \/ InputStep \/ TimerStep
    \/ input_complete /\ EngineDone

ClientStep ==
    \/ ReaderStep \/ LeaderStep
    \/ \E w \in Threads : RecoverNothing(w) \/ Lead(w)

-----------------------------------------------------------------------------
\* Every variable has its type (the fields of ResumableSession and of the
\* SDK's stream session).
ResumeTypeOK ==
    /\ {registered, closed, expiring, failure, terminal, terminal_task, input_closed,
        input_complete, engine_cancelled, finished, recovering, send_closed,
        stop_sent} \subseteq BOOLEAN
    /\ {attachment, generation, grace_task, cancel_by, conn, cancel_conn, rconn, sconn,
        new_conn, input_lock.g} \subseteq Conns \cup {0}
    /\ trimmed \in 0..Len(heard) /\ produced - trimmed <= MaxRetained
    /\ acked_text_seq \in 0..NumTexts /\ client_acked \in 0..NumTexts
    /\ final_text_seq \in -1..NumTexts /\ next_text_seq \in 1..(NumTexts + 1)
    /\ last_delivery_seq \in 0..produced /\ pending_header \in 0..produced
    /\ attempt \in 0..Attempts
    /\ phase = "none" <=> leader = "none"

\* Text reaches the engine once and in order, whatever was replayed after a lost
\* acknowledgement; the client's journal forgets only what the server has; and
\* the engine is told that the input is complete only when it has all the text
\* the application sent: accept_text() and close_input() with final_seq_no,
\* against _replay_unacked_input() and _handle_text_ack().
TextOnce ==
    /\ \A i \in DOMAIN fed : fed[i] = i
    /\ client_acked <= acked_text_seq
    /\ ~engine_cancelled /\ ~terminal => Len(fed) = acked_text_seq
    /\ input_complete => stop_sent /\ Len(fed) = next_text_seq - 1

Stream == INSTANCE ReliableStream WITH
    published <- produced,
    sealed    <- terminal,
    heard     <- heard,
    verdict   <- IF outcome = "none" THEN "open"
                 ELSE IF outcome = "done" THEN "done" ELSE "failed"

\* The gateway, its handlers and both threads of the client together implement
\* the stream the caller is promised, whichever thread leads a recovery: every
\* delivery is heard once and in order, and "done" means that all were (the
\* cursors of _handle_audio_payload() and _handle_event() against acknowledge()
\* and attach()).
StreamImplemented == Stream!StreamSpec

\* A closed input is never a secret of the gateway: the engine has been told, is
\* being told, or the stream is ending; so a client that is told "input_closed"
\* at a resume may leave the stop out of its replay: the rollback in close_input().
ClosedMeansTold ==
    input_closed => \/ input_complete \/ input_lock.op = "close"
                    \/ engine_cancelled \/ terminal \/ closed

\* A fenced handler never takes the stream from the connection that replaced
\* it: while the session lives, the last connection to attach owns it, until
\* that one's own handler has ended: detach() and its generation.
NewestOwns ==
    registered /\ ~closed /\ handler[generation] = "ready" => attachment = generation

\* A stream whose input was ended, that was cancelled or that is over for the
\* caller never hangs: until the caller has its ending and the server has
\* forgotten the session, some handler, timer or client thread can move without
\* the application's help.  (Every such step uses up a message, a timer or a
\* connection, so the stream does end.)  This is what the timers of detach() and
\* put_batch(), the rollback in close_input() and the replay of a lost stop are for.
NeverStuck ==
    (stop_sent \/ cancel_conn # 0 \/ finished) /\ ~(finished /\ ~registered)
        => ENABLED (ServerStep \/ ClientStep)

\* A cancel() is not undone by the recovery: the stream is not resumed on
\* another connection while the engine goes on.
CancelHolds ==
    cancel_conn # 0 /\ ~finished =>
        attachment \in {0, cancel_conn} \/ engine_cancelled \/ terminal

\* A client and a server that follow the protocol never end a stream with a
\* protocol error: connection failures alone only lead to recovery.
ProtocolFailureReal == outcome # "protocol_error"
=============================================================================
