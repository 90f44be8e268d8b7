----------------------- MODULE ResumableSessionProofs -----------------------
(***************************************************************************)
(* Proofs about ResumableSession: the client can always resume, close() is *)
(* final, and the session, its handlers and the SDK client together        *)
(* implement ReliableStream, for every size of the queues, the buffer and  *)
(* the ACK interval and any number of connections.                         *)
(***************************************************************************)
EXTENDS ResumableSession, DeliveryLedgerProofs

USE LedgerAssumption, SessionAssumption

Sent == Delivery \cup {ResumeError}
Command == [type: {"ack", "terminal_ack", "terminal_acking", "removing"},
            seq: Nat, sample: Nat]

\* A session that has not started.
Fresh ==
    /\ generation = 0 /\ records = <<>>
    /\ last_delivery_seq = 0 /\ audio_through_sample = 0
    /\ closing = "open" /\ ~registered /\ ~pump /\ ~grace_task /\ ~terminal_task

\* The types of the session's own variables.
SessionShape ==
    /\ SessionTypeOK
    /\ released <=> closing \in {"closed", "raised"}
    /\ generation <= MaxAttachments
    /\ next_delivery_seq <= MaxDeliveries + 1
    /\ wire \in [Connections -> Seq(Sent)]
    /\ uplink \in [Connections -> Seq(Command)]
    /\ last_delivery_seq \in Nat
    /\ audio_through_sample \in Nat
    /\ client = "streaming" => conn \in 1..generation
    /\ client = "idle" => Fresh

\* The loop of the pump ends when publish() raises.
PumpLive == pump \/ client = "idle" => ~publish_raised

-----------------------------------------------------------------------------
\* The steps are first-order reasoning unless they say otherwise; a leaf that needs
\* arithmetic, records or function updates cites SMT.
USE ZenonT(30)

\* A handler that serves is one attach() returned to.
LEMMA ServingHandles ==
    ASSUME SessionShape
    PROVE  serving \subseteq handlers /\ sending \subseteq handlers
BY DEF SessionShape, SessionTypeOK

\* A cursor the ledger accepts is one LedgerSpec offers it.
LEMMA CursorOffered ==
    ASSUME SessionShape, NEW seq \in Nat, NEW sample \in Nat, ValidCursor(seq, sample)
    PROVE  seq \in 0..MaxDeliveries /\ sample \in 0..next_audio_sample
<1>1. /\ next_delivery_seq \in Nat /\ next_delivery_seq <= MaxDeliveries + 1
      /\ next_audio_sample \in Nat
  BY DEF SessionShape, SessionTypeOK, LedgerTypeOK, RecordsTypeOK
<1>2. seq <= next_delivery_seq - 1 /\ sample <= next_audio_sample
  BY DEF ValidCursor
<1> QED BY SMTT(30), <1>1, <1>2

\* Every step of the session is a step of its ledger, or leaves it alone.
LEMMA SessionDrivesLedger ==
    ASSUME SessionShape, PumpLive, [Next]_vars
    PROVE  [LedgerNext]_ledgerVars
<1> USE ServingHandles
<1>1. CASE UNCHANGED vars
  BY <1>1 DEF vars
<1>2. CASE Start
  <2>1. LedgerAttach(0, 0) /\ ValidCursor(0, 0)
    BY <1>2 DEF Start, LedgerAttach
  <2>2. ~released
    BY <1>2 DEF Start, SessionShape, Fresh
  <2> QED BY <2>1, <2>2, CursorOffered DEF LedgerNext
<1>3. CASE Resume
  <2>1. CASE UNCHANGED ledgerVars
    BY <2>1
  <2>2. CASE LedgerAttach(last_delivery_seq, audio_through_sample)
    <3>1. ValidCursor(last_delivery_seq, audio_through_sample)
      BY <2>2 DEF LedgerAttach
    <3>2. last_delivery_seq \in Nat /\ audio_through_sample \in Nat
      BY DEF SessionShape
    <3>3. last_delivery_seq \in 0..MaxDeliveries /\ audio_through_sample \in 0..next_audio_sample
      BY <3>1, <3>2, CursorOffered
    <3>4. ~released
      BY <1>3 DEF Resume, SessionShape, SessionTypeOK
    <3> QED BY <2>2, <3>3, <3>4 DEF LedgerNext
  <2> QED BY <1>3, <2>1, <2>2 DEF Resume
<1>4. CASE ResumeNotFound \/ Reconnect \/ GiveUp \/ Receive
  BY <1>4 DEF ResumeNotFound, Reconnect, GiveUp, Receive
<1>5. ASSUME NEW kind \in Kinds, Emit(kind) PROVE [LedgerNext]_ledgerVars
  BY <1>5 DEF Emit
<1>6. CASE Pump
  <2>1. outputs \in Seq(Kinds) /\ outputs # <<>>
    BY <1>6 DEF Pump, SessionShape, SessionTypeOK
  <2>2. Head(outputs) \in Kinds
    BY SMTT(30), <2>1
  <2>3. PICK kind \in Kinds : Publish(kind)
    BY <1>6, <2>2 DEF Pump
  <2>4. ~publish_raised
    BY <1>6 DEF Pump, PumpLive
  <2> QED BY <2>3, <2>4 DEF Publish, LedgerNext, Kinds
<1>7. CASE PumpCancelled \/ CloseCancelled \/ GraceExpires \/ TerminalExpires \/ Shutdown
  BY <1>7 DEF PumpCancelled, CloseCancelled, GraceExpires, TerminalExpires, Shutdown
<1>8. CASE CloseEnds
  <2>1. ~released
    BY <1>8 DEF CloseEnds, SessionShape
  <2>2. \E fence \in BOOLEAN : LedgerClose(fence)
    <3>1. CASE close_fence
      <4>1. LedgerClose(TRUE)
        BY <1>8, <3>1 DEF CloseEnds, LedgerClose
      <4> QED BY <4>1
    <3>2. CASE ~close_fence
      <4>1. LedgerClose(FALSE)
        BY <1>8, <3>2 DEF CloseEnds, LedgerClose
      <4> QED BY <4>1
    <3> QED BY <3>1, <3>2
  <2> QED BY <2>1, <2>2 DEF LedgerNext
<1>9. ASSUME NEW g \in Connections, HandlerExit(g) PROVE [LedgerNext]_ledgerVars
  BY <1>9 DEF HandlerExit, Detach, LedgerNext
<1>10. ASSUME NEW g \in Connections, Send(g) PROVE [LedgerNext]_ledgerVars
  BY <1>10 DEF Send, LedgerNext
<1>11. ASSUME NEW g \in Connections, HandleAck(g) PROVE [LedgerNext]_ledgerVars
  <2>1. g \in handlers /\ uplink[g] \in Seq(Command) /\ uplink[g] # <<>>
    BY <1>11 DEF HandleAck, SessionShape
  <2>2. PICK m : m = Head(uplink[g])
    OBVIOUS
  <2>3. m \in Command
    BY SMTT(30), <2>1, <2>2
  <2>4. m.seq \in Nat /\ m.sample \in Nat
    BY <2>3 DEF Command
  <2>5. CASE LedgerAcknowledge(g, m.seq, m.sample)
    <3>1. m.seq \in 0..MaxDeliveries /\ m.sample \in 0..next_audio_sample
      BY <2>4, <2>5, CursorOffered DEF LedgerAcknowledge
    <3> QED BY <2>1, <2>5, <3>1 DEF LedgerNext
  <2> QED BY <1>11, <2>2, <2>5 DEF HandleAck
<1>12. ASSUME NEW g \in Connections, HandleTerminalAck(g) PROVE [LedgerNext]_ledgerVars
  BY <1>12 DEF HandleTerminalAck, LedgerNext
<1>13. ASSUME NEW g \in Connections, HandleRemove(g) PROVE [LedgerNext]_ledgerVars
  BY <1>13 DEF HandleRemove
<1>14. ASSUME NEW g \in Connections, HandleError(g) PROVE [LedgerNext]_ledgerVars
  BY <1>14 DEF HandleError, Detach, LedgerNext
<1> QED BY <1>1, <1>2, <1>3, <1>4, <1>5, <1>6, <1>7, <1>8, <1>9, <1>10, <1>11,
           <1>12, <1>13, <1>14 DEF Next

\* Only publish() raises, and only the pump calls it.
LEMMA PumpStep ==
    ASSUME SessionShape, PumpLive, [Next]_vars
    PROVE  PumpLive'
<1>1. CASE Pump
  <2>1. client # "idle" /\ UNCHANGED client
    BY <1>1 DEF Pump, SessionShape, Fresh, clientVars
  <2> QED BY <1>1, <2>1 DEF Pump, PumpLive
<1>2. CASE ~Pump
  <2>1. UNCHANGED publish_raised
    BY <1>2 DEF Next, vars, ledgerVars, Start, Resume, ResumeNotFound, Reconnect, GiveUp, Receive,
       Emit, PumpCancelled, CloseCancelled, CloseEnds, GraceExpires, TerminalExpires, Shutdown,
       HandlerExit, Send, HandleAck, HandleTerminalAck, HandleRemove, HandleError, Detach,
       LedgerAttach, LedgerClose, LedgerDetach, Take, LedgerAcknowledge, LedgerTerminalAck
  <2>2. pump' => pump \/ client = "idle"
    BY <1>2 DEF Next, vars, handleVars, Start, Resume, ResumeNotFound, Reconnect, GiveUp, Receive,
       Emit, PumpCancelled, CloseCancelled, CloseEnds, GraceExpires, TerminalExpires, Shutdown,
       HandlerExit, Send, HandleAck, HandleTerminalAck, HandleRemove, HandleError
  <2>3. client' = "idle" => client = "idle"
    BY <1>2 DEF Next, vars, clientVars, Start, Resume, ResumeNotFound, Reconnect, GiveUp, Receive,
       Connected, Rejected, FailTerminal, Accept,
       Emit, PumpCancelled, CloseCancelled, CloseEnds, GraceExpires, TerminalExpires, Shutdown,
       HandlerExit, Send, HandleAck, HandleTerminalAck, HandleRemove, HandleError
  <2> QED BY <2>1, <2>2, <2>3 DEF PumpLive
<1> QED BY <1>1, <1>2

-----------------------------------------------------------------------------
\* What no step of the ledger changes in the session's own shape.
LEMMA LedgerBounds ==
    ASSUME RecordsInv, SessionShape, [LedgerNext]_ledgerVars
    PROVE  /\ RecordsInv' /\ LedgerTypeOK'
           /\ handlers \subseteq handlers'
           /\ generation' \in {generation, generation + 1}
           /\ generation' <= MaxAttachments
           /\ next_delivery_seq' <= MaxDeliveries + 1
<1>1. RecordsInv' /\ LedgerTypeOK'
  BY RecordsStep DEF RecordsInv
<1>2. /\ handlers \subseteq handlers'
      /\ generation' \in {generation, generation + 1}
      /\ generation' = generation \/ generation < MaxAttachments
  BY DEF LedgerNext, ledgerVars, LedgerAttach, LedgerAcknowledge, LedgerDetach,
         LedgerTerminalAck, Take, PublishExceedsBuffer, LedgerPublish, LedgerClose
<1>3. \/ next_delivery_seq' = next_delivery_seq
      \/ next_delivery_seq' = next_delivery_seq + 1 /\ next_delivery_seq <= MaxDeliveries
  BY DEF LedgerNext, ledgerVars, LedgerAttach, LedgerAcknowledge, LedgerDetach,
         LedgerTerminalAck, Take, PublishExceedsBuffer, LedgerPublish, LedgerClose,
         PublishEnabled, outputVars
<1>4. generation \in Nat /\ next_delivery_seq \in Nat
  BY DEF RecordsInv, LedgerTypeOK, RecordsTypeOK, AttachmentsTypeOK
<1>5. generation <= MaxAttachments /\ next_delivery_seq <= MaxDeliveries + 1
  BY DEF SessionShape
<1> QED BY SMTT(30), <1>1, <1>2, <1>3, <1>4, <1>5

\* A step that leaves the connections and the client alone keeps the shape.
LEMMA ShapeOfServer ==
    ASSUME RecordsInv, SessionShape, [LedgerNext]_ledgerVars,
           UNCHANGED <<generation, clientVars>>,
           wire' \in [Connections -> Seq(Sent)],
           client = "idle" => UNCHANGED <<records, pump, closing, registered, grace_task, terminal_task>>,
           uplink' \in [Connections -> Seq(Command)],
           serving' \subseteq serving, sending' \subseteq serving',
           released' <=> closing' \in {"closed", "raised"},
           closing' \in {"open", "cancelling", "closing", "closed", "raised"},
           registered' => closing' = "open",
           outputs' \in Seq(Kinds) /\ Len(outputs') <= OutMax
    PROVE  SessionShape'
<1>1. SessionTypeOK'
  BY LedgerBounds DEF SessionShape, SessionTypeOK, clientVars
<1> QED BY SMTT(30), <1>1, LedgerBounds DEF SessionShape, Fresh, clientVars

\* A step of the client alone, or its handshake, keeps the shape.
LEMMA ShapeOfClient ==
    ASSUME RecordsInv, SessionShape, [LedgerNext]_ledgerVars,
           UNCHANGED <<released, closing, registered, outputs, serving, sending>>,
           wire' \in [Connections -> Seq(Sent)],
           uplink' \in [Connections -> Seq(Command)],
           last_delivery_seq' \in Nat, audio_through_sample' \in Nat,
           deliveries_since_ack' \in Nat,
           client' \in {"streaming", "resuming", "done", "failed", "protocol_error"},
           conn' \in {0, conn}, client' = "streaming" => conn' = conn /\ client = "streaming"
    PROVE  SessionShape'
<1>1. conn' \in 0..generation' /\ (client' = "streaming" => conn' \in 1..generation')
  <2>1. generation \in Nat /\ conn \in 0..generation /\ (client = "streaming" => conn \in 1..generation)
    BY DEF SessionShape, SessionTypeOK, LedgerTypeOK, AttachmentsTypeOK
  <2>2. generation' \in {generation, generation + 1}
    BY LedgerBounds
  <2> QED BY SMTT(30), <2>1, <2>2
<1>2. SessionTypeOK'
  BY <1>1, LedgerBounds DEF SessionShape, SessionTypeOK
<1> QED BY <1>1, <1>2, LedgerBounds DEF SessionShape

\* A connection that attach() accepted.
LEMMA ShapeOfConnected ==
    ASSUME RecordsInv, SessionShape, [LedgerNext]_ledgerVars, Connected,
           NEW seq, NEW sample, LedgerAttach(seq, sample), ~AttachRaises(seq),
           registered' => closing = "open",
           UNCHANGED <<closing, outputs>>
    PROVE  SessionShape'
<1>1. /\ generation' = generation + 1 /\ handlers' = handlers \cup {generation + 1}
      /\ released' = released
  BY DEF LedgerAttach
<1>2. /\ serving' = serving \cup {generation + 1}
      /\ sending' = sending \cup {generation + 1}
      /\ client' = "streaming" /\ conn' = generation + 1
      /\ deliveries_since_ack' = 0
      /\ UNCHANGED <<wire, uplink, last_delivery_seq, audio_through_sample>>
  BY DEF Connected
<1>3. generation \in Nat
  BY DEF RecordsInv, LedgerTypeOK, AttachmentsTypeOK
<1>4. SessionTypeOK'
  BY SMTT(30), <1>1, <1>2, <1>3, LedgerBounds DEF SessionShape, SessionTypeOK
<1> QED BY SMTT(30), <1>1, <1>2, <1>3, <1>4, LedgerBounds DEF SessionShape

\* Every step of the session keeps its shape.
LEMMA ShapeStep ==
    ASSUME RecordsInv, SessionShape, PumpLive, [Next]_vars
    PROVE  SessionShape'
<1>0. [LedgerNext]_ledgerVars
  BY SessionDrivesLedger
<1> DEFINE Plain == /\ wire \in [Connections -> Seq(Sent)]
                    /\ uplink \in [Connections -> Seq(Command)]
                    /\ last_delivery_seq \in Nat /\ audio_through_sample \in Nat
                    /\ deliveries_since_ack \in Nat
                    /\ sending \subseteq serving
                    /\ released <=> closing \in {"closed", "raised"}
                    /\ closing \in {"open", "cancelling", "closing", "closed", "raised"}
                    /\ registered => closing = "open"
                    /\ outputs \in Seq(Kinds) /\ Len(outputs) <= OutMax
<1>p. Plain
  BY DEF SessionShape, SessionTypeOK
<1>1. CASE UNCHANGED vars
  BY <1>0, <1>1, <1>p, ShapeOfServer DEF vars, ledgerVars, lifecycleVars, handleVars,
                                   connectionVars, clientVars
<1>2. CASE Start
  <2>1. ~AttachRaises(0)
    <3>1. attachment = 0 /\ records = <<>> /\ trimmed_through_seq \in Nat
      BY SMTT(30), <1>2 DEF Start, SessionShape, Fresh, RecordsInv, LedgerTypeOK, AttachmentsTypeOK, RecordsTypeOK
    <3>2. 0 >= trimmed_through_seq
      BY <1>2 DEF Start, LedgerAttach, ValidCursor
    <3>3. trimmed_through_seq = 0
      BY SMTT(30), <3>1, <3>2
    <3>4. Len(Replay(0)) = 0
      BY SMTT(30), <3>1, <3>3, EmptySeq DEF Replay
    <3> QED BY SMTT(30), <3>1, <3>4 DEF AttachRaises
  <2>2. closing = "open"
    BY <1>2 DEF Start, SessionShape, Fresh
  <2> QED BY <1>0, <1>2, <2>1, <2>2, ShapeOfConnected DEF Start
<1>3. CASE Resume
  <2>1. CASE Rejected
    BY <1>0, <1>3, <1>p, <2>1, ShapeOfClient
       DEF Resume, Rejected, ledgerVars, LedgerAttach, handleVars, connectionVars
  <2>2. CASE ~Rejected
    <3>1. /\ LedgerAttach(last_delivery_seq, audio_through_sample)
          /\ ~AttachRaises(last_delivery_seq) /\ Connected
          /\ UNCHANGED <<closing, outputs, registered>>
      BY <1>3, <2>2 DEF Resume, handleVars
    <3> QED BY <1>0, <1>p, <3>1, ShapeOfConnected
  <2> QED BY <2>1, <2>2
<1>4. CASE ResumeNotFound \/ GiveUp
  BY <1>0, <1>4, <1>p, ShapeOfClient
     DEF ResumeNotFound, GiveUp, Rejected, ledgerVars, lifecycleVars, handleVars, connectionVars
<1>5. CASE Reconnect
  <2>1. wire' \in [Connections -> Seq(Sent)]
    BY <1>5, <1>p, EmptySeq DEF Reconnect
  <2> QED BY <1>0, <1>5, <1>p, <2>1, ShapeOfClient
          DEF Reconnect, ledgerVars, lifecycleVars, handleVars
<1>6. CASE Receive
  <2>1. conn \in Connections /\ wire[conn] \in Seq(Sent) /\ wire[conn] # <<>>
    <3>1. conn \in 1..generation /\ generation \in Nat /\ generation <= MaxAttachments
      BY <1>6 DEF Receive, SessionShape, RecordsInv, LedgerTypeOK, AttachmentsTypeOK
    <3> QED BY SMTT(30), <1>6, <1>p, <3>1 DEF Receive, Connections
  <2>2. wire' \in [Connections -> Seq(Sent)]
    BY <1>6, <1>p, <2>1, HeadTailProperties DEF Receive
  <2>3. PICK m : m = Head(wire[conn])
    OBVIOUS
  <2>4. m \in Sent
    BY SMTT(30), <2>1, <2>3
  <2>5. UNCHANGED <<released, closing, registered, outputs, serving, sending>>
    BY <1>6 DEF Receive, ledgerVars, lifecycleVars, handleVars
  <2>6. CASE \/ m = ResumeError /\ FailTerminal("failed")
             \/ FailTerminal("protocol_error")
    BY <1>0, <1>p, <2>2, <2>5, <2>6, ShapeOfClient DEF FailTerminal
  <2>7. CASE UNCHANGED <<clientVars, uplink>>
    BY <1>0, <1>6, <1>p, <2>2, <2>5, <2>7, ShapeOfClient DEF clientVars, Receive
  <2>8. CASE m # ResumeError /\ Accept(m) /\ UNCHANGED conn
    <3>1. m.seq \in Nat /\ m.end \in Nat
      BY <2>4, <2>8 DEF Sent, Delivery
    <3>2. last_delivery_seq' \in Nat /\ audio_through_sample' \in Nat
      BY <1>p, <2>8, <3>1 DEF Accept
    <3>3. deliveries_since_ack' \in Nat
      BY SMTT(30), <1>p, <2>8 DEF Accept, MaybeAck, AckNotDue
    <3>4. client' \in {client, "done"}
      BY <2>8 DEF Accept
    <3>5. uplink' \in [Connections -> Seq(Command)]
      <4>1. ASSUME NEW c \in Command
            PROVE  [uplink EXCEPT ![conn] = Append(uplink[conn], c)] \in [Connections -> Seq(Command)]
        BY SMTT(30), <1>p, <2>1
      <4>2. /\ Ack("ack", m.seq, audio_through_sample') \in Command
            /\ Ack("terminal_ack", m.seq, audio_through_sample) \in Command
        BY <1>p, <3>1, <3>2 DEF Ack, Command
      <4> QED BY <1>p, <2>8, <4>1, <4>2 DEF Accept, MaybeAck
    <3> QED BY <1>0, <1>6, <2>2, <2>5, <2>8, <3>2, <3>3, <3>4, <3>5, ShapeOfClient DEF Receive
  <2> QED BY <1>6, <2>3, <2>6, <2>7, <2>8 DEF Receive
<1>7. ASSUME NEW kind \in Kinds, Emit(kind) PROVE SessionShape'
  <2>1. outputs' \in Seq(Kinds) /\ Len(outputs') <= OutMax
    BY SMTT(30), <1>7, <1>p DEF Emit
  <2>2. client # "idle"
    BY <1>7 DEF Emit, SessionShape, Fresh
  <2> QED BY <1>0, <1>7, <1>p, <2>1, <2>2, ShapeOfServer
          DEF Emit, ledgerVars, lifecycleVars, connectionVars
<1>8. CASE Pump
  <2>1. Tail(outputs) \in Seq(Kinds) /\ Len(Tail(outputs)) = Len(outputs) - 1 /\ Len(outputs) \in Nat
    BY SMTT(30), <1>8, <1>p DEF Pump
  <2>2. outputs' \in Seq(Kinds) /\ Len(outputs') <= OutMax
    <3>1. outputs' = Tail(outputs)
      BY <1>8 DEF Pump
    <3>2. Len(outputs) <= OutMax
      BY <1>p
    <3> QED BY SMTT(30), <2>1, <3>1, <3>2
  <2>3. UNCHANGED <<generation, released>>
    BY <1>8 DEF Pump, Publish, PublishExceedsBuffer, LedgerPublish
  <2>4. client # "idle"
    BY <1>8 DEF Pump, SessionShape, Fresh
  <2> QED BY <1>0, <1>8, <1>p, <2>2, <2>3, <2>4, ShapeOfServer DEF Pump, connectionVars
<1>9. CASE PumpCancelled \/ CloseCancelled
  <2>1. outputs' \in {outputs, Append(outputs, "terminal")}
    BY <1>9 DEF PumpCancelled, CloseCancelled
  <2>2. outputs' # outputs => Len(outputs) < OutMax
    BY <1>9, <2>1 DEF PumpCancelled, CloseCancelled
  <2>3. /\ Append(outputs, "terminal") \in Seq(Kinds)
        /\ Len(Append(outputs, "terminal")) = Len(outputs) + 1 /\ Len(outputs) \in Nat
    BY SMTT(30), <1>p DEF Kinds
  <2>4. outputs' \in Seq(Kinds) /\ Len(outputs') <= OutMax
    BY SMTT(30), <1>p, <2>1, <2>2, <2>3
  <2>5. client # "idle"
    <3>1. CASE PumpCancelled
      BY <3>1 DEF PumpCancelled, PumpLive
    <3>2. CASE CloseCancelled
      BY <3>2 DEF CloseCancelled, SessionShape, Fresh
    <3> QED BY <1>9, <3>1, <3>2
  <2>6. CASE PumpCancelled
    BY <1>0, <1>p, <2>4, <2>5, <2>6, ShapeOfServer
       DEF PumpCancelled, ledgerVars, lifecycleVars, connectionVars
  <2>7. CASE CloseCancelled
    BY <1>0, <1>p, <2>4, <2>5, <2>7, ShapeOfServer
       DEF CloseCancelled, ledgerVars, connectionVars
  <2> QED BY <1>9, <2>6, <2>7
<1>10. CASE CloseEnds
  <2>1. UNCHANGED generation /\ released' /\ closing' \in {"closed", "raised"} /\ ~registered
    BY <1>10, <1>p DEF CloseEnds, LedgerClose
  <2>2. client # "idle"
    BY <1>10 DEF CloseEnds, SessionShape, Fresh
  <2> QED BY <1>0, <1>10, <1>p, <2>1, <2>2, ShapeOfServer DEF CloseEnds, connectionVars
<1>11. CASE GraceExpires \/ TerminalExpires \/ Shutdown
  <2>1. client # "idle"
    BY <1>11 DEF GraceExpires, TerminalExpires, Shutdown, SessionShape, Fresh
  <2>2. UNCHANGED <<closing, registered>> \/ \E fence, cancel : CloseBegins(fence, cancel) /\ registered
    BY <1>11 DEF GraceExpires, TerminalExpires, Shutdown
  <2>3. UNCHANGED <<ledgerVars, handleVars, connectionVars, clientVars>>
    BY <1>11 DEF GraceExpires, TerminalExpires, Shutdown
  <2> QED BY SMTT(30), <1>0, <1>p, <2>1, <2>2, <2>3, ShapeOfServer
          DEF CloseBegins, ledgerVars, handleVars, connectionVars
<1>12. ASSUME NEW g \in Connections, g \in serving PROVE client # "idle"
  BY SMTT(30), <1>12 DEF SessionShape, Fresh, SessionTypeOK, LedgerTypeOK, AttachmentsTypeOK
<1>13. ASSUME NEW g \in Connections, HandlerEnds(g)
       PROVE  /\ uplink' \in [Connections -> Seq(Command)]
              /\ serving' \subseteq serving /\ sending' \subseteq serving'
  BY <1>13, <1>p, EmptySeq DEF HandlerEnds
<1>14. ASSUME NEW g \in Connections, Detach(g) PROVE UNCHANGED <<generation, released>>
  BY <1>14 DEF Detach, LedgerDetach, ledgerVars
<1>15. ASSUME NEW g \in Connections, HandlerExit(g) PROVE SessionShape'
  BY <1>0, <1>12, <1>13, <1>14, <1>15, <1>p, ShapeOfServer DEF HandlerExit, handleVars
<1>16. ASSUME NEW g \in Connections, NEW x \in Sent,
              wire' = [wire EXCEPT ![g] = Append(wire[g], x)]
       PROVE  wire' \in [Connections -> Seq(Sent)]
  BY SMTT(30), <1>16, <1>p
<1>17. ASSUME NEW g \in Connections, Send(g) PROVE SessionShape'
  <2>1. g \in serving /\ client # "idle"
    BY <1>12, <1>17, <1>p DEF Send
  <2>2. UNCHANGED <<generation, released, lifecycleVars, handleVars, clientVars>>
    BY <1>17 DEF Send, Take
  <2>3. PICK m : m = Head(queues[g])
    OBVIOUS
  <2>4. m \in Message
    <3>1. g \in 1..generation /\ queues \in Seq(Seq(Message)) /\ Len(queues) = generation
      BY <2>1, ServingHandles DEF RecordsInv, LedgerTypeOK, AttachmentsTypeOK
    <3>2. queues[g] \in Seq(Message) /\ queues[g] # <<>>
      BY <1>17, <3>1, ElementOfSeq DEF Send, Take
    <3> QED BY SMTT(30), <2>3, <3>2
  <2>5. CASE m = Fence
    <3>1. HandlerEnds(g) /\ UNCHANGED wire
      BY <1>17, <2>3, <2>5 DEF Send
    <3> QED BY <1>0, <1>13, <1>p, <2>1, <2>2, <3>1, ShapeOfServer DEF lifecycleVars, handleVars
  <2>6. CASE m # Fence
    <3>1. (IF m = Failure THEN ResumeError ELSE m) \in Sent
      BY <2>4, <2>6 DEF Sent, Message
    <3>2. /\ wire' = [wire EXCEPT ![g] = Append(wire[g], IF m = Failure THEN ResumeError ELSE m)]
          /\ sending' \subseteq sending
          /\ UNCHANGED <<serving, uplink>>
      BY <1>17, <2>3, <2>6 DEF Send
    <3>3. wire' \in [Connections -> Seq(Sent)]
      BY <1>16, <3>1, <3>2
    <3> QED BY <1>0, <1>p, <2>1, <2>2, <3>2, <3>3, ShapeOfServer DEF lifecycleVars, handleVars
  <2> QED BY <2>5, <2>6
<1>18. ASSUME NEW g \in Connections, NEW q \in Seq(Command),
              uplink' = [uplink EXCEPT ![g] = q]
       PROVE  uplink' \in [Connections -> Seq(Command)]
  BY <1>18, <1>p
<1>19. ASSUME NEW g \in Connections, HandleAck(g) PROVE SessionShape'
  <2>1. /\ UNCHANGED <<generation, released, lifecycleVars, handleVars, serving, sending,
                       wire, clientVars>>
        /\ client # "idle"
    BY <1>12, <1>19 DEF HandleAck, LedgerAcknowledge, ledgerVars
  <2>2. uplink[g] \in Seq(Command) /\ uplink[g] # <<>>
    BY <1>19, <1>p DEF HandleAck
  <2>3. PICK m : m = Head(uplink[g])
    OBVIOUS
  <2>4. m \in Command /\ Tail(uplink[g]) \in Seq(Command)
    BY SMTT(30), <2>2, <2>3
  <2>5. Ack("terminal_acking", m.seq, m.sample) \in Command
    BY <2>4 DEF Command, Ack
  <2>6. <<Ack("terminal_acking", m.seq, m.sample)>> \in Seq(Command)
    BY SMTT(30), <2>5
  <2>7. \/ uplink' = [uplink EXCEPT ![g] = Tail(uplink[g])]
        \/ uplink' = [uplink EXCEPT ![g] = <<Ack("terminal_acking", m.seq, m.sample)>>]
    BY <1>19, <2>3 DEF HandleAck
  <2>8. uplink' \in [Connections -> Seq(Command)]
    BY <1>18, <2>4, <2>6, <2>7
  <2> QED BY <1>0, <1>p, <2>1, <2>8, ShapeOfServer DEF lifecycleVars, handleVars
<1>20. ASSUME NEW g \in Connections, HandleTerminalAck(g) PROVE SessionShape'
  <2>1. /\ UNCHANGED <<generation, released, lifecycleVars, handleVars, serving, sending,
                       wire, clientVars>>
        /\ client # "idle"
        /\ uplink' = [uplink EXCEPT ![g] = <<Ack("removing", 0, 0)>>]
    BY <1>12, <1>20 DEF HandleTerminalAck, LedgerTerminalAck
  <2>2. Ack("removing", 0, 0) \in Command
    BY DEF Command, Ack
  <2>3. uplink' \in [Connections -> Seq(Command)]
    <3>1. <<Ack("removing", 0, 0)>> \in Seq(Command)
      BY SMTT(30), <2>2
    <3> QED BY <1>18, <2>1, <3>1
  <2> QED BY <1>0, <1>p, <2>1, <2>3, ShapeOfServer DEF lifecycleVars, handleVars
<1>21. ASSUME NEW g \in Connections, HandleRemove(g) PROVE SessionShape'
  <2>1. /\ UNCHANGED <<ledgerVars, handleVars, wire, clientVars>>
        /\ client # "idle" /\ HandlerEnds(g)
    BY <1>12, <1>21 DEF HandleRemove
  <2>2. \/ UNCHANGED <<closing, registered>>
        \/ registered /\ CloseBegins(FALSE, FALSE)
    BY <1>21 DEF HandleRemove, lifecycleVars
  <2> QED BY SMTT(30), <1>0, <1>13, <1>p, <2>1, <2>2, ShapeOfServer
          DEF CloseBegins, ledgerVars, handleVars
<1>22. ASSUME NEW g \in Connections, HandleError(g) PROVE SessionShape'
  <2>1. /\ UNCHANGED <<registered, closing, handleVars, clientVars>>
        /\ client # "idle" /\ HandlerEnds(g) /\ Detach(g)
        /\ wire' = [wire EXCEPT ![g] = Append(wire[g], ResumeError)]
    BY <1>12, <1>22 DEF HandleError
  <2>2. wire' \in [Connections -> Seq(Sent)]
    <3>1. ResumeError \in Sent
      BY DEF Sent
    <3> QED BY <1>16, <2>1, <3>1
  <2> QED BY <1>0, <1>13, <1>14, <1>p, <2>1, <2>2, ShapeOfServer DEF handleVars
<1> QED BY <1>1, <1>2, <1>3, <1>4, <1>5, <1>6, <1>7, <1>8, <1>9, <1>10, <1>11, <1>15,
           <1>17, <1>19, <1>20, <1>21, <1>22 DEF Next

\* The initial state has the shape of a session that has not started.
LEMMA ShapeInit == Init => SessionShape /\ RecordsInv /\ PumpLive
<1> SUFFICES ASSUME Init PROVE SessionShape /\ RecordsInv /\ PumpLive
  OBVIOUS
<1>1. RecordsInv
  BY RecordsInit DEF Init
<1>2. SessionTypeOK
  BY SMTT(30), <1>1, EmptySeq DEF Init, LedgerInit, SessionTypeOK, RecordsInv
<1>3. PumpLive
  BY DEF Init, LedgerInit, PumpLive
<1> QED BY SMTT(30), <1>1, <1>2, <1>3, EmptySeq DEF Init, LedgerInit, SessionShape, Fresh

-----------------------------------------------------------------------------
(* The cursor of the client, what is on its way to it, and what it sent.   *)

\* What a handler has sent is what the ledger published; nothing is on the
\* wire of a connection that has not been made.
WiresGenuine ==
    /\ \A g \in Connections : \A m \in Elements(wire[g]) : Genuine(m)
    /\ \A g \in Connections : g > generation => wire[g] = <<>>

\* The client acknowledges only what it has heard.
AcksHeard ==
    /\ \A g \in Connections : \A c \in Elements(uplink[g]) : c.seq <= last_delivery_seq
    /\ trimmed_through_seq <= last_delivery_seq

\* The newest connection stays attached while its handler serves it.
NewestAttached == generation \in serving /\ ~released => attachment = generation

\* The sample at which the deliveries on wire w end, for a client at sample a.
EndOf(w, a) == IF w = <<>> THEN a ELSE w[Len(w)].end

\* The wire w continues the cursor (l, a) of the client: its deliveries are the
\* next ones, in order, and only an error may follow them.
Chains(w, l, a) ==
    \A i \in 1..Len(w) : w[i] # ResumeError =>
        /\ w[i].seq = l + i
        /\ w[i].start = (IF i = 1 THEN a ELSE w[i-1].end)
        /\ i # 1 => w[i-1] # ResumeError

Clean(w) == \A i \in 1..Len(w) : w[i] # ResumeError

\* The queue q continues the wire.
Follows(w, q, l, a) ==
    q # <<>> /\ q[1] \in Delivery => q[1].seq = l + Len(w) + 1 /\ q[1].start = EndOf(w, a)

\* Cursor, wire and queue add up to what has been published.
Complete(w, q, l, a) ==
    /\ Clean(w)
    /\ l + Len(w) + Len(q) = next_delivery_seq - 1
    /\ q = <<>> => EndOf(w, a) = next_audio_sample

\* The wire continues the client's cursor, the queue continues the wire while
\* the output task runs, and nothing is missing while the client's connection
\* is the attached one.
ChainInv ==
    client = "streaming" =>
        /\ Chains(wire[conn], last_delivery_seq, audio_through_sample)
        /\ conn \in sending =>
              /\ Clean(wire[conn])
              /\ Follows(wire[conn], queues[conn], last_delivery_seq, audio_through_sample)
        /\ conn = attachment /\ ~publish_raised =>
              Complete(wire[conn], queues[conn], last_delivery_seq, audio_through_sample)

\* The inductive invariant of the session.
SessionInv ==
    /\ SessionShape /\ PumpLive /\ RecordsInv /\ QueuesInv
    /\ WiresGenuine
    /\ AcksHeard
    /\ NewestAttached
    /\ ChainInv
    /\ ResumeCursorRetained

-----------------------------------------------------------------------------
\* The sample at which a retained delivery, or the trimmed part, ends.
RecEnd(seq) == IF seq = trimmed_through_seq THEN trimmed_audio_sample
                                            ELSE records[seq - trimmed_through_seq].end

CursorRetained(seq, sample) ==
    /\ trimmed_through_seq <= seq /\ seq <= next_delivery_seq - 1
    /\ sample = RecEnd(seq)

\* The cursors the ledger accepts are the ends of what it retains.
LEMMA CursorIsEnd ==
    ASSUME RecordsInv, ~released, NEW seq \in Nat, NEW sample \in Nat
    PROVE  ValidCursor(seq, sample) <=> CursorRetained(seq, sample)
<1>1. /\ records \in Seq(Delivery) /\ Len(records) \in Nat
      /\ Len(records) = next_delivery_seq - 1 - trimmed_through_seq
      /\ \A i \in 1..Len(records) : records[i].seq = trimmed_through_seq + i
      /\ trimmed_through_seq \in Nat /\ next_delivery_seq \in Nat
      /\ trimmed_audio_sample \in Nat /\ next_audio_sample \in Nat
  BY LenProperties DEF RecordsInv, RecordsConsecutive, LedgerTypeOK, RecordsTypeOK
<1>2. ASSUME ValidCursor(seq, sample)
      PROVE  /\ trimmed_through_seq <= seq /\ seq <= next_delivery_seq - 1
             /\ sample = RecEnd(seq)
  <2>1. CASE seq = trimmed_through_seq
    BY <1>1, <1>2, <2>1 DEF ValidCursor, RecEnd
  <2>2. CASE seq # trimmed_through_seq
    <3>1. PICK i \in 1..Len(records) : records[i].seq = seq /\ records[i].end = sample
      BY <1>2, <2>2 DEF ValidCursor
    <3>2. i = seq - trimmed_through_seq
      BY SMTT(30), <1>1, <3>1
    <3> QED BY <1>1, <1>2, <2>2, <3>1, <3>2 DEF ValidCursor, RecEnd
  <2> QED BY <2>1, <2>2
<1>3. ASSUME trimmed_through_seq <= seq, seq <= next_delivery_seq - 1, sample = RecEnd(seq)
      PROVE  ValidCursor(seq, sample)
  <2>1. next_audio_sample >= trimmed_audio_sample
    BY SMTT(30), <1>1 DEF RecordsInv, SamplesChain, EndsMonotone
  <2>2. CASE seq = trimmed_through_seq
    BY SMTT(30), <1>1, <1>3, <2>1, <2>2 DEF ValidCursor, RecEnd
  <2>3. CASE seq # trimmed_through_seq
    <3>1. PICK i : i = seq - trimmed_through_seq
      OBVIOUS
    <3>2. i \in 1..Len(records)
      BY SMTT(30), <1>1, <1>3, <2>3, <3>1
    <3>3. records[i].seq = seq /\ records[i].end = sample
      BY SMTT(30), <1>1, <1>3, <2>3, <3>1, <3>2 DEF RecEnd
    <3>4. sample >= trimmed_audio_sample /\ sample <= next_audio_sample
      <4>1. Len(records) \in 1..Len(records) /\ i <= Len(records) /\ records # <<>>
        BY SMTT(30), <1>1, <3>2, EmptySeq
      <4> QED BY <3>2, <3>3, <4>1 DEF RecordsInv, SamplesChain, EndsMonotone
    <3> QED BY <1>3, <2>3, <3>2, <3>3, <3>4 DEF ValidCursor
  <2> QED BY <2>2, <2>3
<1> QED BY <1>2, <1>3 DEF CursorRetained

RetainedAccepted ==
    \A seq, sample \in Nat : CursorRetained(seq, sample) => ValidCursor(seq, sample)

\* The same, of every cursor at once.
LEMMA RetainedIsValid == RecordsInv /\ ~released => RetainedAccepted
BY CursorIsEnd DEF RetainedAccepted

\* A cursor stays acceptable until an acknowledgement passes it.
LEMMA CursorKept ==
    ASSUME RecordsInv, [LedgerNext]_ledgerVars, NEW seq \in Nat, NEW sample \in Nat,
           ~released, ~released', ValidCursor(seq, sample), trimmed_through_seq' <= seq
    PROVE  ValidCursor(seq, sample)'
<1>0. RecordsInv'
  BY RecordsStep
<1>1. /\ trimmed_through_seq <= seq /\ seq <= next_delivery_seq - 1 /\ sample = RecEnd(seq)
      /\ records \in Seq(Delivery) /\ Len(records) \in Nat
      /\ Len(records) = next_delivery_seq - 1 - trimmed_through_seq
      /\ trimmed_through_seq \in Nat /\ next_delivery_seq \in Nat
  BY CursorIsEnd, LenProperties DEF CursorRetained, RecordsInv, RecordsConsecutive, LedgerTypeOK, RecordsTypeOK
<1>2. RetainedAccepted'
  BY <1>0, RetainedIsValid, PTL
<1>3. SUFFICES CursorRetained(seq, sample)'
  BY <1>2 DEF RetainedAccepted
<1>4. CASE UNCHANGED <<records, next_delivery_seq, trimmed_through_seq, trimmed_audio_sample>>
  BY <1>1, <1>4 DEF CursorRetained, RecEnd
<1>5. ASSUME NEW kind, NEW n, LedgerPublish(kind, n) PROVE CursorRetained(seq, sample)'
  <2>1. /\ next_delivery_seq' = next_delivery_seq + 1
        /\ UNCHANGED <<trimmed_through_seq, trimmed_audio_sample>>
        /\ \E d : records' = Append(records, d)
    BY <1>5 DEF LedgerPublish, Retain, cursorVars
  <2>2. \A i \in 1..Len(records) : records'[i] = records[i]
    BY SMTT(30), <1>1, <2>1, AppendProperties
  <2>3. seq # trimmed_through_seq => seq - trimmed_through_seq \in 1..Len(records)
    BY SMTT(30), <1>1
  <2>4. sample = RecEnd(seq)'
    BY <1>1, <2>1, <2>2, <2>3 DEF RecEnd
  <2> QED BY SMTT(30), <1>1, <2>1, <2>4 DEF CursorRetained
<1>6. ASSUME NEW g, NEW acked \in Nat, NEW through \in Nat, LedgerAcknowledge(g, acked, through)
      PROVE  CursorRetained(seq, sample)'
  <2>1. PICK k : k = acked - trimmed_through_seq
    OBVIOUS
  <2>2. /\ k \in 1..Len(records) /\ TrimCount(acked, through) = k
        /\ records[k].seq = acked /\ records[k].end = through
    BY <1>6, <2>1, TrimCountExact DEF LedgerAcknowledge
  <2>3. /\ records' = SubSeq(records, k + 1, Len(records))
        /\ trimmed_through_seq' = acked /\ trimmed_audio_sample' = through
        /\ next_delivery_seq' = next_delivery_seq
    BY SMTT(30), <1>6, <2>2 DEF LedgerAcknowledge, Trim, outputVars
  <2>4. /\ Len(records') = Len(records) - k
        /\ \A i \in 1..Len(records') : records'[i] = records[k + i]
    BY <1>1, <2>2, <2>3, DropPrefix
  <2>5. acked <= seq /\ acked # trimmed_through_seq /\ seq # trimmed_through_seq
    <3>1. acked <= seq
      BY <2>3
    <3>2. acked > trimmed_through_seq
      BY SMTT(30), <1>1, <2>1, <2>2
    <3> QED BY SMTT(30), <1>1, <3>1, <3>2
  <2>6. sample = records[seq - trimmed_through_seq].end
    BY <1>1, <2>5 DEF RecEnd
  <2>7. CASE seq = acked
    BY <1>1, <2>1, <2>2, <2>3, <2>6, <2>7 DEF CursorRetained, RecEnd
  <2>8. CASE seq # acked
    <3>1. seq - acked \in 1..Len(records') /\ k + (seq - acked) = seq - trimmed_through_seq
      BY ONLY SMTT(30), <1>1, <2>1, <2>2, <2>4, <2>5, <2>8, seq \in Nat, acked \in Nat
    <3>2. records'[seq - acked] = records[seq - trimmed_through_seq]
      BY <2>4, <3>1
    <3> QED BY <1>1, <2>3, <2>5, <2>6, <2>8, <3>2 DEF CursorRetained, RecEnd
  <2> QED BY <2>7, <2>8
<1>7. CASE UNCHANGED ledgerVars
  BY <1>4, <1>7 DEF ledgerVars, cursorVars, outputVars
<1>8. ASSUME NEW q \in 0..MaxDeliveries, NEW a \in 0..next_audio_sample,
             \/ LedgerAttach(q, a)
             \/ \E g \in handlers : LedgerAcknowledge(g, q, a)
      PROVE  CursorRetained(seq, sample)'
  <2>1. q \in Nat /\ a \in Nat
    BY SMTT(30) DEF RecordsInv, LedgerTypeOK, RecordsTypeOK
  <2>2. CASE LedgerAttach(q, a)
    BY <1>4, <2>2 DEF LedgerAttach, cursorVars, outputVars
  <2> QED BY <1>6, <1>8, <2>1, <2>2
<1>9. ASSUME NEW g \in handlers, LedgerDetach(g) \/ LedgerTerminalAck(g) \/ Take(g)
      PROVE  CursorRetained(seq, sample)'
  BY <1>4, <1>9 DEF LedgerDetach, LedgerTerminalAck, Take, cursorVars, outputVars
<1>10. CASE PublishExceedsBuffer
  BY <1>4, <1>10 DEF PublishExceedsBuffer, cursorVars, outputVars
<1>11. ASSUME NEW fence \in BOOLEAN, LedgerClose(fence) PROVE FALSE
  BY <1>11 DEF LedgerClose
<1> QED BY <1>5, <1>7, <1>8, <1>9, <1>10, <1>11 DEF LedgerNext

-----------------------------------------------------------------------------
\* A step that neither touches the ledger nor the connections, and leaves the
\* client as it is or gives up.
Quiet ==
    /\ UNCHANGED <<ledgerVars, connectionVars, conn, last_delivery_seq, audio_through_sample>>
    /\ \/ client' = client
       \/ client = "resuming" /\ client' = "failed"

\* The steps that matter to a stream.
LEMMA StepCases ==
    ASSUME [Next]_vars
    PROVE  \/ Quiet
           \/ Start \/ Resume \/ Reconnect \/ Receive \/ Pump \/ CloseEnds
           \/ \E g \in Connections :
                 \/ HandlerExit(g) \/ Send(g) \/ HandleAck(g) \/ HandleTerminalAck(g)
                 \/ HandleRemove(g) \/ HandleError(g)
<1>1. UNCHANGED vars => Quiet
  BY DEF vars, clientVars, Quiet
<1>2. ResumeNotFound \/ GiveUp => Quiet
  BY DEF ResumeNotFound, GiveUp, Rejected, Quiet
<1>3. \A kind \in Kinds : Emit(kind) => Quiet
  BY DEF Emit, clientVars, Quiet
<1>4. PumpCancelled \/ CloseCancelled \/ GraceExpires \/ TerminalExpires \/ Shutdown => Quiet
  BY DEF PumpCancelled, CloseCancelled, GraceExpires, TerminalExpires, Shutdown, clientVars, Quiet
<1> QED BY <1>1, <1>2, <1>3, <1>4 DEF Next

\* Replacing one element of a function on the connections.
LEMMA ConnectionExcept ==
    ASSUME NEW f, NEW S, f \in [Connections -> S], NEW g \in Connections, NEW x
    PROVE  /\ [f EXCEPT ![g] = x][g] = x
           /\ \A h \in Connections : h # g => [f EXCEPT ![g] = x][h] = f[h]
OBVIOUS

\* What is in a sequence after one is appended.
LEMMA ElementsAppend ==
    ASSUME NEW S, NEW s \in Seq(S), NEW x
    PROVE  Elements(Append(s, x)) = Elements(s) \cup {x}
<1>1. /\ Len(s) \in Nat /\ Len(Append(s, x)) = Len(s) + 1
      /\ \A i \in 1..Len(s) : Append(s, x)[i] = s[i]
      /\ Append(s, x)[Len(s) + 1] = x
  BY SMTT(30), AppendProperties, LenProperties
<1>2. 1..(Len(s) + 1) = 1..Len(s) \cup {Len(s) + 1}
  BY SMTT(30), <1>1
<1> QED BY SMTT(30), <1>1, <1>2 DEF Elements

\* What is left in a sequence after its first element is taken was in it.
LEMMA ElementsTail ==
    ASSUME NEW S, NEW s \in Seq(S), s # <<>>
    PROVE  /\ Elements(Tail(s)) \subseteq Elements(s)
           /\ Head(s) \in Elements(s)
<1>1. /\ Len(s) \in Nat /\ Len(s) # 0 /\ Len(Tail(s)) = Len(s) - 1
      /\ \A i \in 1..Len(Tail(s)) : Tail(s)[i] = s[i+1]
      /\ Head(s) = s[1]
  BY SMTT(30), HeadTailProperties, LenProperties, EmptySeq
<1>2. 1 \in 1..Len(s) /\ \A i \in 1..Len(Tail(s)) : i + 1 \in 1..Len(s)
  BY SMTT(30), <1>1
<1> QED BY SMTT(30), <1>1, <1>2 DEF Elements

\* The types the proofs below use, in one place.
LEMMA SessionFacts ==
    ASSUME SessionInv, [Next]_vars
    PROVE  /\ [LedgerNext]_ledgerVars /\ SessionShape' /\ RecordsInv' /\ QueuesInv'
           /\ wire \in [Connections -> Seq(Sent)]
           /\ uplink \in [Connections -> Seq(Command)]
           /\ queues \in Seq(Seq(Message)) /\ Len(queues) = generation
           /\ \A g \in 1..generation : queues[g] \in Seq(Message) /\ Len(queues[g]) \in Nat
           /\ generation \in Nat /\ 1..generation \subseteq Connections
           /\ serving \subseteq 1..generation /\ sending \subseteq serving
           /\ last_delivery_seq \in Nat /\ audio_through_sample \in Nat
           /\ client = "streaming" => conn \in 1..generation
<1>1. /\ [LedgerNext]_ledgerVars /\ SessionShape' /\ RecordsInv' /\ QueuesInv'
  BY SessionDrivesLedger, ShapeStep, RecordsStep, QueuesStep DEF SessionInv
<1>2. /\ wire \in [Connections -> Seq(Sent)]
      /\ uplink \in [Connections -> Seq(Command)]
      /\ last_delivery_seq \in Nat /\ audio_through_sample \in Nat
      /\ client = "streaming" => conn \in 1..generation
      /\ sending \subseteq serving /\ serving \subseteq handlers
      /\ generation <= MaxAttachments
  BY DEF SessionInv, SessionShape, SessionTypeOK
<1>3. /\ queues \in Seq(Seq(Message)) /\ Len(queues) = generation
      /\ generation \in Nat /\ handlers \subseteq 1..generation
  BY DEF SessionInv, RecordsInv, LedgerTypeOK, AttachmentsTypeOK
<1>4. \A g \in 1..generation : queues[g] \in Seq(Message) /\ Len(queues[g]) \in Nat
  BY <1>3, ElementOfSeq, LenProperties
<1>5. 1..generation \subseteq Connections
  BY SMTT(30), <1>2, <1>3 DEF Connections
<1> QED BY <1>1, <1>2, <1>3, <1>4, <1>5

\* What a step does to the wires: it sends the next message of a queue or an
\* error, or the client takes or drops what is there.
LEMMA WireCases ==
    ASSUME SessionInv, [Next]_vars
    PROVE  \/ wire' = wire
           \/ \E g \in 1..generation : wire' = [wire EXCEPT ![g] = Append(wire[g], ResumeError)]
           \/ \E g \in 1..generation : /\ queues[g] # <<>> /\ Head(queues[g]) \in Delivery
                                       /\ wire' = [wire EXCEPT ![g] = Append(wire[g], Head(queues[g]))]
           \/ /\ conn \in 1..generation
              /\ \/ wire' = [wire EXCEPT ![conn] = <<>>]
                 \/ wire[conn] # <<>> /\ wire' = [wire EXCEPT ![conn] = Tail(wire[conn])]
<1>1. CASE Quiet \/ Start \/ Resume \/ Pump \/ CloseEnds
  BY <1>1 DEF Quiet, Start, Resume, Connected, Rejected, Pump, CloseEnds, connectionVars
<1>2. CASE Reconnect \/ Receive
  BY <1>2, SessionFacts DEF Reconnect, Receive
<1>3. ASSUME NEW g \in Connections,
             HandlerExit(g) \/ HandleAck(g) \/ HandleTerminalAck(g) \/ HandleRemove(g)
      PROVE  wire' = wire
  BY <1>3 DEF HandlerExit, HandleAck, HandleTerminalAck, HandleRemove
<1>4. ASSUME NEW g \in Connections, HandleError(g)
      PROVE  g \in 1..generation /\ wire' = [wire EXCEPT ![g] = Append(wire[g], ResumeError)]
  BY <1>4, SessionFacts DEF HandleError
<1>5. ASSUME NEW g \in Connections, Send(g)
      PROVE  /\ g \in 1..generation
             /\ \/ wire' = wire
                \/ wire' = [wire EXCEPT ![g] = Append(wire[g], ResumeError)]
                \/ /\ queues[g] # <<>> /\ Head(queues[g]) \in Delivery
                   /\ wire' = [wire EXCEPT ![g] = Append(wire[g], Head(queues[g]))]
  <2>1. g \in 1..generation /\ queues[g] # <<>>
    BY <1>5, SessionFacts DEF Send, Take
  <2>2. queues[g] \in Seq(Message)
    BY <2>1, SessionFacts
  <2>3. Head(queues[g]) \in Message
    BY SMTT(30), <2>1, <2>2
  <2> QED BY <1>5, <2>1, <2>3 DEF Send, Message
<1> QED BY <1>1, <1>2, <1>3, <1>4, <1>5, StepCases

\* Whatever is sent is what was published.
LEMMA WiresStep ==
    ASSUME SessionInv, [Next]_vars
    PROVE  WiresGenuine'
<1>1. /\ [LedgerNext]_ledgerVars /\ wire \in [Connections -> Seq(Sent)]
      /\ 1..generation \subseteq Connections /\ generation \in Nat
  BY SessionFacts
<1>2. generation' \in {generation, generation + 1}
  BY <1>1, LedgerBounds DEF SessionInv
<1>3. Genuine(ResumeError)'
  <2>1. ResumeError \notin Delivery
    BY DEF ResumeError, NoDelivery, Delivery, Kinds
  <2>2. PICK m : m = ResumeError
    OBVIOUS
  <2>3. Genuine(m)'
    BY <2>1, <2>2 DEF Genuine
  <2> QED BY <2>2, <2>3 DEF ResumeError, NoDelivery
<1>4. ASSUME NEW g \in Connections, NEW m \in Elements(wire[g]) PROVE Genuine(m)'
  BY <1>1, GenuineKept DEF SessionInv, WiresGenuine
<1>5. ASSUME NEW g \in 1..generation, NEW m \in Elements(queues[g]) PROVE Genuine(m)'
  BY <1>1, GenuineKept DEF SessionInv, QueuesInv, QueueOK, MessageOK
<1>6. ASSUME NEW g \in 1..generation, NEW x, Genuine(x)',
             wire' = [wire EXCEPT ![g] = Append(wire[g], x)]
      PROVE  WiresGenuine'
  <2>1. g \in Connections /\ wire[g] \in Seq(Sent)
    BY <1>1
  <2>2. Elements(wire'[g]) = Elements(wire[g]) \cup {x}
    BY <1>1, <1>6, <2>1, ElementsAppend
  <2>3. \A h \in Connections : h # g => wire'[h] = wire[h]
    BY <1>1, <1>6, <2>1
  <2>4. ASSUME NEW h \in Connections, NEW m \in Elements(wire'[h]) PROVE Genuine(m)'
    <3>1. CASE h = g
      BY <1>4, <1>6, <2>1, <2>2, <3>1
    <3>2. CASE h # g
      BY <1>4, <2>3, <3>2
    <3> QED BY <3>1, <3>2
  <2>5. \A h \in Connections : h > generation' => wire'[h] = <<>>
    <3> SUFFICES ASSUME NEW h \in Connections, h > generation' PROVE wire'[h] = <<>>
      OBVIOUS
    <3>1. h > generation /\ h # g
      BY SMTT(30), <1>1, <1>2 DEF Connections
    <3> QED BY <2>3, <3>1 DEF SessionInv, WiresGenuine
  <2> QED BY <2>4, <2>5 DEF WiresGenuine, Elements
<1>7. ASSUME \A h \in Connections : Elements(wire'[h]) \subseteq Elements(wire[h]),
             \A h \in Connections : h > generation => wire'[h] = wire[h]
      PROVE  WiresGenuine'
  <2>1. \A h \in Connections : \A m \in Elements(wire'[h]) : Genuine(m)'
    BY <1>4, <1>7
  <2>2. ASSUME NEW h \in Connections, h > generation' PROVE wire'[h] = <<>>
    <3>1. h > generation
      BY SMTT(30), <1>1, <1>2, <2>2 DEF Connections
    <3> QED BY <1>7, <3>1 DEF SessionInv, WiresGenuine
  <2> QED BY <2>1, <2>2 DEF WiresGenuine, Elements
<1>8. CASE wire' = wire
  BY <1>7, <1>8
<1>9. CASE \E g \in 1..generation : wire' = [wire EXCEPT ![g] = Append(wire[g], ResumeError)]
  BY <1>3, <1>6, <1>9
<1>10. ASSUME NEW g \in 1..generation, queues[g] # <<>>,
              wire' = [wire EXCEPT ![g] = Append(wire[g], Head(queues[g]))]
       PROVE  WiresGenuine'
  <2>1. PICK x : x = Head(queues[g])
    OBVIOUS
  <2>2. x \in Elements(queues[g])
    BY <1>10, <2>1, SessionFacts, ElementsTail
  <2> QED BY <1>5, <1>6, <1>10, <2>1, <2>2
<1>11. ASSUME conn \in 1..generation,
              \/ wire' = [wire EXCEPT ![conn] = <<>>]
              \/ wire[conn] # <<>> /\ wire' = [wire EXCEPT ![conn] = Tail(wire[conn])]
       PROVE  WiresGenuine'
  <2>1. conn \in Connections /\ wire[conn] \in Seq(Sent)
    BY <1>1, <1>11
  <2>2. Elements(<<>>) = {}
    BY SMTT(30), EmptySeq DEF Elements
  <2>3. Elements(wire'[conn]) \subseteq Elements(wire[conn])
    <3>1. CASE wire' = [wire EXCEPT ![conn] = <<>>]
      <4>1. wire'[conn] = <<>>
        BY <1>1, <2>1, <3>1
      <4> QED BY <2>2, <4>1
    <3>2. CASE wire[conn] # <<>> /\ wire' = [wire EXCEPT ![conn] = Tail(wire[conn])]
      <4>1. wire'[conn] = Tail(wire[conn])
        BY <1>1, <2>1, <3>2
      <4> QED BY <2>1, <3>2, <4>1, ElementsTail
    <3> QED BY <1>11, <3>1, <3>2
  <2>4. \A h \in Connections : h # conn => wire'[h] = wire[h]
    BY <1>1, <1>11, <2>1
  <2>5. \A h \in Connections : h > generation => h # conn
    BY SMTT(30), <1>1, <1>11 DEF Connections
  <2> QED BY <1>7, <2>3, <2>4, <2>5
<1> QED BY <1>8, <1>9, <1>10, <1>11, WireCases

\* The cursor of the client, the trimmed part and the newest attachment move
\* only in these steps.
LEMMA CursorMoves ==
    ASSUME SessionInv, [Next]_vars
    PROVE  /\ last_delivery_seq' # last_delivery_seq \/ audio_through_sample' # audio_through_sample
                => /\ client = "streaming" /\ wire[conn] # <<>> /\ Head(wire[conn]) # ResumeError
                   /\ Continues(Head(wire[conn])) /\ Accept(Head(wire[conn])) /\ Receive
           /\ trimmed_through_seq' # trimmed_through_seq
                => \E g \in serving : /\ uplink[g] # <<>> /\ ~released
                                      /\ trimmed_through_seq' = Head(uplink[g]).seq
<1>1. CASE Quiet \/ Start \/ Resume \/ Reconnect \/ Pump \/ CloseEnds
  BY <1>1 DEF Quiet, Start, Resume, Connected, Rejected, Reconnect, Pump, CloseEnds,
     ledgerVars, cursorVars, LedgerAttach, Publish, PublishExceedsBuffer, LedgerPublish,
     LedgerClose, clientVars
<1>2. CASE Receive
  BY <1>2 DEF Receive, FailTerminal, ledgerVars, cursorVars, clientVars
<1>3. ASSUME NEW g \in Connections, HandlerExit(g) \/ HandleTerminalAck(g) \/ HandleRemove(g)
                                     \/ HandleError(g) \/ Send(g)
      PROVE  UNCHANGED <<last_delivery_seq, audio_through_sample, trimmed_through_seq>>
  BY <1>3 DEF HandlerExit, HandleTerminalAck, HandleRemove, HandleError, Send, Detach, LedgerDetach,
     LedgerTerminalAck, Take, ledgerVars, cursorVars, clientVars
<1>4. ASSUME NEW g \in Connections, HandleAck(g)
      PROVE  /\ UNCHANGED <<last_delivery_seq, audio_through_sample>>
             /\ \/ UNCHANGED trimmed_through_seq
                \/ /\ g \in serving /\ uplink[g] # <<>> /\ ~released
                   /\ trimmed_through_seq' = Head(uplink[g]).seq
  <2>1. UNCHANGED <<last_delivery_seq, audio_through_sample>>
    BY <1>4 DEF HandleAck, clientVars
  <2>2. g \in serving /\ uplink[g] # <<>>
    BY <1>4 DEF HandleAck
  <2>3. PICK m : m = Head(uplink[g])
    OBVIOUS
  <2>4. m \in Command
    BY SMTT(30), <2>2, <2>3, SessionFacts
  <2>5. m.seq \in Nat /\ m.sample \in Nat
    BY <2>4 DEF Command
  <2>6. CASE UNCHANGED ledgerVars
    BY <2>1, <2>6 DEF ledgerVars, cursorVars
  <2>7. CASE LedgerAcknowledge(g, m.seq, m.sample)
    <3>1. ~released
      BY <2>7 DEF LedgerAcknowledge, IsCurrent, SessionInv, RecordsInv, ReleasedDetached
    <3>2. /\ TrimCount(m.seq, m.sample) \in 1..Len(records)
          /\ records[TrimCount(m.seq, m.sample)].seq = m.seq
      BY SMTT(30), <2>5, <2>7, <3>1, TrimCountExact DEF LedgerAcknowledge, SessionInv
    <3>3. trimmed_through_seq' = m.seq
      BY SMTT(30), <2>7, <3>2 DEF LedgerAcknowledge, Trim
    <3> QED BY <2>1, <2>2, <2>3, <3>1, <3>3
  <2> QED BY <1>4, <2>3, <2>6, <2>7 DEF HandleAck
<1> QED BY <1>1, <1>2, <1>3, <1>4, StepCases

\* What a step does to the commands: the handler takes or replaces its first
\* one or ends, the client sends one with its own cursor.
LEMMA UplinkCases ==
    ASSUME SessionInv, [Next]_vars
    PROVE  \/ uplink' = uplink
           \/ \E g \in 1..generation :
                 \/ uplink' = [uplink EXCEPT ![g] = <<>>]
                 \/ uplink' = [uplink EXCEPT ![g] = <<Ack("removing", 0, 0)>>]
                 \/ uplink[g] # <<>> /\ uplink' = [uplink EXCEPT ![g] = Tail(uplink[g])]
                 \/ /\ uplink[g] # <<>>
                    /\ uplink' = [uplink EXCEPT ![g] =
                          <<Ack("terminal_acking", Head(uplink[g]).seq, Head(uplink[g]).sample)>>]
                 \/ \E c : /\ uplink' = [uplink EXCEPT ![g] = Append(uplink[g], c)]
                           /\ c.seq = last_delivery_seq'
<1>1. CASE Quiet \/ Start \/ Resume \/ Pump \/ CloseEnds \/ Reconnect
  BY <1>1 DEF Quiet, Start, Resume, Connected, Rejected, Pump, CloseEnds, Reconnect, connectionVars
<1>2. CASE Receive
  <2>1. conn \in 1..generation
    BY <1>2, SessionFacts DEF Receive
  <2>2. PICK m : m = Head(wire[conn])
    OBVIOUS
  <2>3. CASE FailTerminal("failed") \/ FailTerminal("protocol_error") \/ UNCHANGED uplink
    BY <2>3 DEF FailTerminal
  <2>4. CASE Accept(m)
    <3>1. \A type, seq, sample : Ack(type, seq, sample).seq = seq
      BY DEF Ack
    <3> QED BY SMTT(30), <2>1, <2>4, <3>1 DEF Accept, MaybeAck
  <2> QED BY <1>2, <2>2, <2>3, <2>4 DEF Receive
<1>3. ASSUME NEW g \in Connections, HandlerExit(g) \/ HandleRemove(g) \/ HandleError(g)
      PROVE  g \in 1..generation /\ uplink' = [uplink EXCEPT ![g] = <<>>]
  BY <1>3, SessionFacts DEF HandlerExit, HandleRemove, HandleError, HandlerEnds
<1>4. ASSUME NEW g \in Connections, Send(g)
      PROVE  g \in 1..generation /\ (uplink' = uplink \/ uplink' = [uplink EXCEPT ![g] = <<>>])
  BY <1>4, SessionFacts DEF Send, HandlerEnds
<1>5. ASSUME NEW g \in Connections, HandleTerminalAck(g)
      PROVE  g \in 1..generation /\ uplink' = [uplink EXCEPT ![g] = <<Ack("removing", 0, 0)>>]
  BY <1>5, SessionFacts DEF HandleTerminalAck
<1>6. ASSUME NEW g \in Connections, HandleAck(g)
      PROVE  /\ g \in 1..generation /\ uplink[g] # <<>>
             /\ \/ uplink' = [uplink EXCEPT ![g] = Tail(uplink[g])]
                \/ uplink' = [uplink EXCEPT ![g] =
                      <<Ack("terminal_acking", Head(uplink[g]).seq, Head(uplink[g]).sample)>>]
  BY <1>6, SessionFacts DEF HandleAck
<1> QED BY <1>1, <1>2, <1>3, <1>4, <1>5, <1>6, StepCases

\* No step acknowledges, or trims, more than the client has heard.
LEMMA AcksStep ==
    ASSUME SessionInv, [Next]_vars
    PROVE  AcksHeard'
<1>1. /\ uplink \in [Connections -> Seq(Command)] /\ last_delivery_seq \in Nat
      /\ 1..generation \subseteq Connections /\ serving \subseteq 1..generation
  BY SessionFacts
<1>2. last_delivery_seq' \in Nat /\ last_delivery_seq' >= last_delivery_seq
  BY SMTT(30), <1>1, CursorMoves DEF Continues, Accept
<1>3. \A g \in Connections : \A c \in Elements(uplink[g]) : c.seq \in Nat /\ c.seq <= last_delivery_seq
  <2>1. \A g \in Connections : Elements(uplink[g]) \subseteq Command
    BY SMTT(30), <1>1, ElementOfSeq DEF Elements
  <2> QED BY <2>1 DEF Command, SessionInv, AcksHeard
<1>4. \A g \in Connections : \A c \in Elements(uplink[g]) : c.seq <= last_delivery_seq'
  BY SMTT(30), <1>1, <1>2, <1>3
<1>5. trimmed_through_seq' <= last_delivery_seq'
  <2>1. trimmed_through_seq \in Nat /\ trimmed_through_seq <= last_delivery_seq
    BY DEF SessionInv, AcksHeard, RecordsInv, LedgerTypeOK, RecordsTypeOK
  <2>2. CASE trimmed_through_seq' = trimmed_through_seq
    BY SMTT(30), <1>1, <1>2, <2>1, <2>2
  <2>3. CASE trimmed_through_seq' # trimmed_through_seq
    <3>1. PICK g \in serving : uplink[g] # <<>> /\ trimmed_through_seq' = Head(uplink[g]).seq
      BY <2>3, CursorMoves
    <3>2. Head(uplink[g]) \in Elements(uplink[g])
      BY <1>1, <3>1, ElementsTail
    <3> QED BY <1>1, <1>4, <3>1, <3>2
  <2> QED BY <2>2, <2>3
<1>6. ASSUME NEW g \in 1..generation, NEW s, uplink' = [uplink EXCEPT ![g] = s],
             \A c \in Elements(s) : c.seq <= last_delivery_seq'
      PROVE  AcksHeard'
  <2>1. \A h \in Connections : \A c \in Elements(uplink'[h]) : c.seq <= last_delivery_seq'
    BY <1>1, <1>4, <1>6
  <2> QED BY <1>5, <2>1 DEF AcksHeard, Elements
<1>7. \A x : Elements(<<x>>) = {x}
  BY SMTT(30) DEF Elements
<1>8. Elements(<<>>) = {}
  BY SMTT(30) DEF Elements
<1>9. CASE uplink' = uplink
  BY <1>4, <1>5, <1>9 DEF AcksHeard, Elements
<1>10. ASSUME NEW g \in 1..generation, uplink' = [uplink EXCEPT ![g] = <<>>]
       PROVE  AcksHeard'
  BY <1>6, <1>8, <1>10
<1>11. ASSUME NEW g \in 1..generation, uplink' = [uplink EXCEPT ![g] = <<Ack("removing", 0, 0)>>]
       PROVE  AcksHeard'
  <2>1. Ack("removing", 0, 0).seq <= last_delivery_seq'
    BY SMTT(30), <1>2 DEF Ack
  <2>2. PICK s : s = <<Ack("removing", 0, 0)>>
    OBVIOUS
  <2>3. \A c \in Elements(s) : c.seq <= last_delivery_seq'
    BY SMTT(30), <1>7, <2>1, <2>2
  <2> QED BY <1>6, <1>11, <2>2, <2>3
<1>12. ASSUME NEW g \in 1..generation, uplink[g] # <<>>,
              uplink' = [uplink EXCEPT ![g] = Tail(uplink[g])]
       PROVE  AcksHeard'
  <2>1. g \in Connections /\ Elements(Tail(uplink[g])) \subseteq Elements(uplink[g])
    BY <1>1, <1>12, ElementsTail
  <2>2. \A c \in Elements(Tail(uplink[g])) : c.seq <= last_delivery_seq'
    BY <1>4, <2>1
  <2> QED BY <1>6, <1>12, <2>2
<1>13. ASSUME NEW g \in 1..generation, uplink[g] # <<>>,
              uplink' = [uplink EXCEPT ![g] =
                  <<Ack("terminal_acking", Head(uplink[g]).seq, Head(uplink[g]).sample)>>]
       PROVE  AcksHeard'
  <2>1. PICK m : m = Head(uplink[g])
    OBVIOUS
  <2>2. g \in Connections /\ m \in Elements(uplink[g])
    BY <1>1, <1>13, <2>1, ElementsTail
  <2>3. Ack("terminal_acking", m.seq, m.sample).seq <= last_delivery_seq'
    BY <1>4, <2>2 DEF Ack
  <2>4. PICK s : s = <<Ack("terminal_acking", m.seq, m.sample)>>
    OBVIOUS
  <2>5. \A c \in Elements(s) : c.seq <= last_delivery_seq'
    BY SMTT(30), <1>7, <2>3, <2>4
  <2> QED BY <1>6, <1>13, <2>1, <2>4, <2>5
<1>14. ASSUME NEW g \in 1..generation, NEW c,
              uplink' = [uplink EXCEPT ![g] = Append(uplink[g], c)], c.seq = last_delivery_seq'
       PROVE  AcksHeard'
  <2>1. g \in Connections /\ Elements(Append(uplink[g], c)) = Elements(uplink[g]) \cup {c}
    BY <1>1, ElementsAppend
  <2>2. \A x \in Elements(Append(uplink[g], c)) : x.seq <= last_delivery_seq'
    BY SMTT(30), <1>2, <1>4, <1>14, <2>1
  <2> QED BY <1>6, <1>14, <2>2
<1> QED BY <1>9, <1>10, <1>11, <1>12, <1>13, <1>14, UplinkCases

\* Only its own handler detaches the newest connection.
LEMMA NewestStep ==
    ASSUME SessionInv, [Next]_vars
    PROVE  NewestAttached'
<1>1. /\ generation \in Nat /\ attachment \in 0..generation
      /\ serving \subseteq 1..generation
      /\ generation \in serving /\ ~released => attachment = generation
  BY SessionFacts DEF SessionInv, NewestAttached, RecordsInv, LedgerTypeOK, AttachmentsTypeOK
<1>2. generation + 1 \notin serving
  BY SMTT(30), <1>1
<1>3. CASE Quiet \/ Reconnect \/ Receive
  BY SMTT(30), <1>1, <1>3 DEF Quiet, Reconnect, Receive, NewestAttached, connectionVars, ledgerVars
<1>4. CASE Start \/ Resume
  <2>1. CASE UNCHANGED ledgerVars /\ Rejected
    BY <1>1, <2>1 DEF Rejected, NewestAttached, connectionVars, ledgerVars
  <2>2. ASSUME NEW seq, NEW sample, LedgerAttach(seq, sample) PROVE NewestAttached'
    BY <2>2 DEF LedgerAttach, NewestAttached
  <2> QED BY <1>4, <2>1, <2>2 DEF Start, Resume
<1>5. CASE Pump
  BY <1>1, <1>5 DEF Pump, Publish, PublishExceedsBuffer, LedgerPublish, NewestAttached, connectionVars
<1>6. CASE CloseEnds
  BY <1>6 DEF CloseEnds, LedgerClose, NewestAttached
<1>7. ASSUME NEW g \in Connections, HandlerExit(g) \/ HandleError(g) PROVE NewestAttached'
  <2>1. serving' = serving \ {g} /\ Detach(g)
    BY <1>7 DEF HandlerExit, HandleError, HandlerEnds
  <2>2. generation' = generation /\ released' = released
    BY <2>1 DEF Detach, LedgerDetach, ledgerVars
  <2>3. attachment' = attachment \/ attachment = g
    BY <2>1 DEF Detach, LedgerDetach, IsCurrent, ledgerVars
  <2> QED BY <1>1, <2>1, <2>2, <2>3 DEF NewestAttached
<1>8. ASSUME NEW g \in Connections, HandleAck(g) \/ HandleTerminalAck(g) \/ HandleRemove(g) \/ Send(g)
      PROVE  NewestAttached'
  <2>1. serving' \subseteq serving
    BY <1>8 DEF HandleAck, HandleTerminalAck, HandleRemove, Send, HandlerEnds
  <2>2. UNCHANGED <<generation, released, attachment>>
    BY <1>8 DEF HandleAck, HandleTerminalAck, HandleRemove, Send, LedgerAcknowledge,
       LedgerTerminalAck, Take, ledgerVars
  <2> QED BY <1>1, <2>1, <2>2 DEF NewestAttached
<1> QED BY <1>3, <1>4, <1>5, <1>6, <1>7, <1>8, StepCases

-----------------------------------------------------------------------------
(* The chain from the client's cursor through its wire and its queue.      *)

\* The first message of a queue that grew.
LEMMA AppendFirst ==
    ASSUME NEW S, NEW q \in Seq(S), NEW m
    PROVE  /\ Append(q, m) # <<>> /\ Len(Append(q, m)) = Len(q) + 1
           /\ q = <<>> => Append(q, m)[1] = m
           /\ q # <<>> => Append(q, m)[1] = q[1]
<1>1. /\ Len(q) \in Nat /\ Len(Append(q, m)) = Len(q) + 1
      /\ \A i \in 1..Len(q) : Append(q, m)[i] = q[i]
      /\ Append(q, m)[Len(q) + 1] = m /\ Append(q, m) # <<>>
  BY SMTT(30), AppendProperties, LenProperties
<1>2. q = <<>> <=> Len(q) = 0
  BY EmptySeq
<1> QED BY SMTT(30), <1>1, <1>2

\* A fence, a failure or an error is no delivery.
LEMMA MarkersNoDelivery == Fence \notin Delivery /\ Failure \notin Delivery /\ ResumeError \notin Delivery
BY DEF Fence, Failure, ResumeError, NoDelivery, Delivery, Kinds

\* A message put on the wire extends the chain.
LEMMA ChainAppend ==
    ASSUME NEW w \in Seq(Sent), NEW m \in Sent, NEW l \in Nat, NEW a \in Nat, Chains(w, l, a),
           m # ResumeError =>
               Clean(w) /\ m.seq = l + Len(w) + 1 /\ m.start = EndOf(w, a)
    PROVE  /\ Chains(Append(w, m), l, a)
           /\ Len(Append(w, m)) = Len(w) + 1
           /\ EndOf(Append(w, m), a) = m.end
           /\ Clean(w) /\ m # ResumeError => Clean(Append(w, m))
<1> DEFINE x == Append(w, m)
<1>1. /\ Len(w) \in Nat /\ Len(x) = Len(w) + 1 /\ x # <<>>
      /\ \A i \in 1..Len(w) : x[i] = w[i]
      /\ x[Len(w) + 1] = m
  BY SMTT(30), AppendProperties, LenProperties
<1>2. w = <<>> <=> Len(w) = 0
  BY EmptySeq
<1> HIDE DEF x
<1>3. ASSUME NEW i \in 1..Len(x), x[i] # ResumeError
      PROVE  /\ x[i].seq = l + i
             /\ x[i].start = (IF i = 1 THEN a ELSE x[i-1].end)
             /\ i # 1 => x[i-1] # ResumeError
  <2>1. CASE i \in 1..Len(w)
    <3>1. x[i] = w[i] /\ (i # 1 => i - 1 \in 1..Len(w))
      BY SMTT(30), <1>1, <2>1
    <3> QED BY <1>1, <1>3, <2>1, <3>1 DEF Chains
  <2>2. CASE i = Len(w) + 1
    <3>1. x[i] = m /\ m # ResumeError
      BY <1>1, <1>3, <2>2
    <3>2. i # 1 => i - 1 = Len(w) /\ Len(w) \in 1..Len(w) /\ x[i-1] = w[Len(w)] /\ w # <<>>
      BY SMTT(30), <1>1, <1>2, <2>2
    <3>3. i = 1 => w = <<>>
      BY SMTT(30), <1>1, <1>2, <2>2
    <3>4. m.seq = l + i
      BY SMTT(30), <1>1, <2>2, <3>1
    <3> QED BY <3>1, <3>2, <3>3, <3>4 DEF EndOf, Clean
  <2> QED BY SMTT(30), <1>1, <2>1, <2>2
<1>4. EndOf(x, a) = m.end
  BY <1>1 DEF EndOf
<1>5. Clean(w) /\ m # ResumeError => Clean(x)
  <2> SUFFICES ASSUME Clean(w), m # ResumeError, NEW i \in 1..Len(x) PROVE x[i] # ResumeError
    BY DEF Clean
  <2>1. i \in 1..Len(w) \/ i = Len(w) + 1
    BY SMTT(30), <1>1
  <2> QED BY <1>1, <2>1 DEF Clean
<1> QED BY <1>1, <1>3, <1>4, <1>5 DEF Chains, x

\* Taking the first delivery off the wire moves the cursor over it.
LEMMA ChainTail ==
    ASSUME NEW w \in Seq(Sent), w # <<>>, NEW l \in Nat, NEW a \in Nat, Chains(w, l, a),
           w[1] # ResumeError
    PROVE  /\ Chains(Tail(w), l + 1, w[1].end)
           /\ Len(Tail(w)) = Len(w) - 1
           /\ EndOf(Tail(w), w[1].end) = EndOf(w, a)
           /\ Clean(w) => Clean(Tail(w))
<1> DEFINE x == Tail(w)
<1>1. /\ Len(w) \in Nat /\ Len(w) # 0 /\ Len(x) = Len(w) - 1 /\ x \in Seq(Sent)
      /\ \A i \in 1..Len(w) - 1 : x[i] = w[i+1]
  BY HeadTailProperties, LenProperties, EmptySeq
<1>2. x = <<>> <=> Len(x) = 0
  BY <1>1, EmptySeq
<1> HIDE DEF x
<1>3. ASSUME NEW i \in 1..Len(x), x[i] # ResumeError
      PROVE  /\ x[i].seq = (l + 1) + i
             /\ x[i].start = (IF i = 1 THEN w[1].end ELSE x[i-1].end)
             /\ i # 1 => x[i-1] # ResumeError
  <2>1. PICK j : j = i + 1
    OBVIOUS
  <2>2. /\ x[i] = w[j] /\ j \in 1..Len(w) /\ j # 1 /\ j - 1 = i
        /\ i # 1 => x[i-1] = w[i] /\ i \in 1..Len(w)
    BY SMTT(30), <1>1, <2>1
  <2>3. w[j].seq = l + j /\ w[j].start = w[j-1].end /\ w[j-1] # ResumeError
    BY <1>3, <2>2 DEF Chains
  <2> QED BY SMTT(30), <2>1, <2>2, <2>3
<1>4. EndOf(x, w[1].end) = EndOf(w, a)
  <2>1. CASE Len(w) = 1
    BY SMTT(30), <1>1, <1>2, <2>1 DEF EndOf
  <2>2. CASE Len(w) # 1
    <3>1. Len(x) \in 1..Len(w) - 1 /\ x # <<>> /\ x[Len(x)] = w[Len(x) + 1] /\ Len(x) + 1 = Len(w)
      BY SMTT(30), <1>1, <1>2, <2>2
    <3> QED BY <3>1 DEF EndOf
  <2> QED BY <2>1, <2>2
<1>5. Clean(w) => Clean(x)
  BY SMTT(30), <1>1 DEF Clean
<1> QED BY <1>1, <1>3, <1>4, <1>5 DEF Chains, x

\* What a step of the client's connection leaves as it is.
LEMMA ChainFrame ==
    ASSUME SessionInv, NEW g, g = conn,
           client' = "streaming" =>
              /\ client = "streaming" /\ conn' = conn /\ wire'[g] = wire[g]
              /\ UNCHANGED <<last_delivery_seq, audio_through_sample>>
              /\ g \in sending' =>
                    /\ g \in sending
                    /\ \/ queues'[g] = queues[g]
                       \/ /\ queues[g] = <<>> /\ queues'[g] # <<>>
                          /\ queues'[g][1] \notin Delivery
                       \/ /\ queues[g] # <<>> /\ queues'[g] # <<>>
                          /\ queues'[g][1] = queues[g][1]
              /\ g = attachment' /\ ~publish_raised' =>
                    /\ g = attachment /\ ~publish_raised
                    /\ queues'[g] = queues[g]
                    /\ UNCHANGED <<next_delivery_seq, next_audio_sample>>
    PROVE  ChainInv'
<1> SUFFICES ASSUME client' = "streaming"
             PROVE  (/\ Chains(wire[conn], last_delivery_seq, audio_through_sample)
                     /\ conn \in sending =>
                           /\ Clean(wire[conn])
                           /\ Follows(wire[conn], queues[conn], last_delivery_seq, audio_through_sample)
                     /\ conn = attachment /\ ~publish_raised =>
                           Complete(wire[conn], queues[conn], last_delivery_seq, audio_through_sample))'
  BY DEF ChainInv
<1>1. /\ client = "streaming" /\ conn' = g /\ wire'[g] = wire[g]
      /\ last_delivery_seq' = last_delivery_seq /\ audio_through_sample' = audio_through_sample
  OBVIOUS
<1>2. Chains(wire[g], last_delivery_seq, audio_through_sample)
  BY <1>1 DEF SessionInv, ChainInv
<1>3. Chains(wire'[conn'], last_delivery_seq', audio_through_sample')
  BY <1>1, <1>2
<1>4. ASSUME g \in sending'
      PROVE  /\ Clean(wire'[g])
             /\ Follows(wire'[g], queues'[g], last_delivery_seq', audio_through_sample')
  <2>1. /\ Clean(wire[g])
        /\ Follows(wire[g], queues[g], last_delivery_seq, audio_through_sample)
    BY <1>1, <1>4 DEF SessionInv, ChainInv
  <2>2. Follows(wire[g], queues'[g], last_delivery_seq, audio_through_sample)
    BY <1>4, <2>1 DEF Follows
  <2> QED BY <1>1, <2>1, <2>2
<1>5. ASSUME g = attachment', ~publish_raised'
      PROVE  Complete(wire[g], queues[g], last_delivery_seq, audio_through_sample)
  BY <1>1, <1>5 DEF SessionInv, ChainInv
<1>6. ASSUME g = attachment', ~publish_raised'
      PROVE  /\ Clean(wire'[g])
             /\ last_delivery_seq' + Len(wire'[g]) + Len(queues'[g]) = next_delivery_seq' - 1
             /\ queues'[g] = <<>> => EndOf(wire'[g], audio_through_sample') = next_audio_sample'
  BY <1>1, <1>5, <1>6 DEF Complete
<1> QED BY <1>1, <1>3, <1>4, <1>6 DEF Chains, Clean, Follows, EndOf, Complete

\* What ChainInv' says, once the client's connection has a fixed name.
LEMMA ChainIntro ==
    ASSUME NEW g, conn' = g,
           Chains(wire'[g], last_delivery_seq', audio_through_sample'),
           g \in sending' =>
              /\ Clean(wire'[g])
              /\ Follows(wire'[g], queues'[g], last_delivery_seq', audio_through_sample'),
           g = attachment' /\ ~publish_raised' =>
              /\ Clean(wire'[g])
              /\ last_delivery_seq' + Len(wire'[g]) + Len(queues'[g]) = next_delivery_seq' - 1
              /\ queues'[g] = <<>> => EndOf(wire'[g], audio_through_sample') = next_audio_sample'
    PROVE  ChainInv'
BY DEF ChainInv, Chains, Clean, Follows, EndOf, Complete

\* Other connections' steps, and steps of the ledger that only reach the client
\* through its queue.
LEMMA ChainOfOthers ==
    ASSUME SessionInv, [Next]_vars, Quiet \/ Reconnect \/ CloseEnds \/ Rejected
    PROVE  ChainInv'
<1>1. PICK g : g = conn
  OBVIOUS
<1>2. CASE Quiet
  BY <1>1, <1>2, ChainFrame DEF Quiet, connectionVars, ledgerVars, outputVars
<1>3. CASE Reconnect
  BY <1>1, <1>3, ChainFrame DEF Reconnect
<1>4. CASE Rejected
  BY <1>1, <1>4, ChainFrame DEF Rejected
<1>5. CASE CloseEnds
  <2> SUFFICES ASSUME client' = "streaming" PROVE ChainInv'
    BY DEF ChainInv
  <2>1. /\ attachment' = 0
        /\ queues' = IF close_fence THEN FenceQueue(attachment) ELSE queues
        /\ UNCHANGED <<connectionVars, clientVars>>
    BY <1>5 DEF CloseEnds, LedgerClose
  <2>2. client = "streaming" /\ g \in 1..generation
    BY <1>1, <2>1, SessionFacts DEF clientVars
  <2>3. g # attachment'
    BY SMTT(30), <2>1, <2>2
  <2>4. \/ queues'[g] = queues[g]
        \/ queues'[g] = Append(queues[g], Fence)
    BY SMTT(30), <2>1, <2>2, ExceptSeq DEF FenceQueue, SessionInv, RecordsInv, LedgerTypeOK, AttachmentsTypeOK
  <2>5. queues[g] \in Seq(Message)
    BY <2>2, SessionFacts
  <2>6. \/ queues'[g] = queues[g]
        \/ /\ queues[g] = <<>> /\ queues'[g] # <<>>
           /\ queues'[g][1] \notin Delivery
        \/ /\ queues[g] # <<>> /\ queues'[g] # <<>>
           /\ queues'[g][1] = queues[g][1]
    BY SMTT(30), <2>4, <2>5, AppendFirst, MarkersNoDelivery
  <2> QED BY <1>1, <2>1, <2>2, <2>3, <2>6, ChainFrame DEF connectionVars, clientVars
<1> QED BY <1>2, <1>3, <1>4, <1>5

\* A new connection starts at the client's cursor.
LEMMA ChainOfConnected ==
    ASSUME SessionInv, [Next]_vars, Connected, ~released,
           LedgerAttach(last_delivery_seq, audio_through_sample), ~AttachRaises(last_delivery_seq)
    PROVE  ChainInv'
<1> DEFINE l == last_delivery_seq
           a == audio_through_sample
           k == last_delivery_seq - trimmed_through_seq
<1>1. PICK g : g = generation + 1
  OBVIOUS
<1>2. /\ ~released /\ ValidCursor(l, a) /\ generation < MaxAttachments
      /\ queues' = Append(FenceQueue(attachment),
                          IF attachment = 0 \/ HasRoom(attachment)
                          THEN SubSeq(Replay(l), 1, IF Len(Replay(l)) <= QueueMax THEN Len(Replay(l)) ELSE QueueMax)
                          ELSE <<>>)
      /\ UNCHANGED outputVars
  BY DEF LedgerAttach
<1>3. /\ conn' = g
      /\ UNCHANGED <<wire, last_delivery_seq, audio_through_sample>>
  BY <1>1 DEF Connected
<1>4. /\ generation \in Nat /\ l \in Nat /\ a \in Nat
      /\ g \in Connections /\ g > generation
  BY SMTT(30), <1>1, <1>2, SessionFacts DEF Connections
<1>5. wire'[g] = <<>>
  BY <1>3, <1>4 DEF SessionInv, WiresGenuine
<1>6. CursorRetained(l, a)
  BY <1>2, <1>4, CursorIsEnd DEF SessionInv
<1>7. /\ l >= trimmed_through_seq /\ l <= next_delivery_seq - 1 /\ a = RecEnd(l)
      /\ next_delivery_seq \in Nat /\ trimmed_through_seq \in Nat
      /\ next_audio_sample \in Nat
      /\ records \in Seq(Delivery) /\ Len(records) \in Nat
      /\ Len(records) = next_delivery_seq - 1 - trimmed_through_seq
  BY <1>2, <1>6, LenProperties DEF CursorRetained, SessionInv, RecordsInv, RecordsConsecutive,
     LedgerTypeOK, RecordsTypeOK
<1>8. PICK q : q = SubSeq(Replay(l), 1, Len(Replay(l)))
  OBVIOUS
<1>9. /\ Len(q) = next_delivery_seq - 1 - l
      /\ \A i \in 1..Len(q) : q[i] = records[k + i] /\ k + i \in 1..Len(records)
      /\ q \in Seq(Message) /\ Len(Replay(l)) = Len(q)
  <2>1. Len(Replay(l)) \in 0..Len(Replay(l))
    <3>1. Replay(l) \in Seq(Delivery)
      <4>1. k \in 0..Len(records)
        BY SMTT(30), <1>4, <1>7
      <4>2. \A i \in k + 1 .. Len(records) : records[i] \in Delivery
        BY SMTT(30), <1>7, <4>1, ElementOfSeq
      <4> HIDE DEF k
      <4>3. SubSeq(records, k + 1, Len(records)) \in Seq(Delivery)
        BY SMTT(30), <1>7, <4>1, <4>2, SubSeqProperties
      <4> QED BY <4>3 DEF Replay, k
    <3> QED BY SMTT(30), <3>1, LenProperties
  <2> HIDE DEF k, l
  <2> QED BY SMTT(30), <1>2, <1>4, <1>7, <1>8, <2>1, ReplayConsecutive DEF SessionInv, QueuesInv, k, l
<1>10. queues' = Append(FenceQueue(attachment), q)
  BY SMTT(30), <1>2, <1>8 DEF AttachRaises
<1>11. queues'[g] = q
  <2>1. /\ FenceQueue(attachment) \in Seq(Seq(Message))
        /\ Len(FenceQueue(attachment)) = generation
    BY FenceKeepsQueues DEF SessionInv, RecordsInv
  <2> QED BY SMTT(30), <1>1, <1>10, <2>1, AppendProperties
<1>12. q = <<>> <=> Len(q) = 0
  BY <1>9, EmptySeq
<1>13. ASSUME q # <<>> PROVE q[1].seq = l + 1 /\ q[1].start = a
  <2>1. 1 \in 1..Len(q)
    BY SMTT(30), <1>9, <1>12, <1>13, LenProperties
  <2>2. q[1] = records[k + 1] /\ k + 1 \in 1..Len(records)
    BY <1>9, <2>1
  <2>3. records[k + 1].seq = trimmed_through_seq + (k + 1)
    BY <1>2, <2>2 DEF SessionInv, RecordsInv, RecordsConsecutive
  <2>4. records[k + 1].start = (IF k + 1 = 1 THEN trimmed_audio_sample ELSE records[(k + 1)-1].end)
    BY <1>2, <2>2 DEF SessionInv, RecordsInv, SamplesChain
  <2>5. k \in Nat /\ (k + 1) - 1 = k /\ (k = 0 <=> l = trimmed_through_seq)
    BY SMTT(30), <1>4, <1>7
  <2>6. records[k + 1].start = RecEnd(l)
    BY SMTT(30), <2>4, <2>5 DEF RecEnd
  <2> QED BY SMTT(30), <1>4, <1>7, <2>2, <2>3, <2>6
<1>14. ASSUME q = <<>> PROVE a = next_audio_sample
  <2>1. l = next_delivery_seq - 1 /\ k = Len(records)
    BY SMTT(30), <1>4, <1>7, <1>9, <1>12, <1>14
  <2>2. records = <<>> <=> Len(records) = 0
    BY <1>7, EmptySeq
  <2>3. next_audio_sample = (IF records = <<>> THEN trimmed_audio_sample ELSE records[Len(records)].end)
    BY <1>2 DEF SessionInv, RecordsInv, SamplesChain
  <2>4. l = trimmed_through_seq <=> Len(records) = 0
    BY SMTT(30), <1>4, <1>7, <2>1
  <2> QED BY <1>7, <2>1, <2>2, <2>3, <2>4 DEF RecEnd
<1>15. Chains(wire'[g], l, a) /\ Clean(wire'[g]) /\ Len(wire'[g]) = 0 /\ EndOf(wire'[g], a) = a
  BY SMTT(30), <1>5 DEF Chains, Clean, EndOf
<1>16. Follows(wire'[g], q, l, a)
  BY SMTT(30), <1>4, <1>13, <1>15 DEF Follows
<1>17. /\ l + Len(wire'[g]) + Len(q) = next_delivery_seq' - 1
       /\ q = <<>> => EndOf(wire'[g], a) = next_audio_sample'
  BY SMTT(30), <1>2, <1>4, <1>7, <1>9, <1>14, <1>15 DEF outputVars
<1> QED BY <1>3, <1>11, <1>15, <1>16, <1>17, ChainIntro

\* A published delivery, or the failure to publish it, goes to the end of the
\* attached connection's queue.
LEMMA ChainOfPump ==
    ASSUME SessionInv, [Next]_vars, Pump
    PROVE  ChainInv'
<1> SUFFICES ASSUME client' = "streaming" PROVE ChainInv'
  BY DEF ChainInv
<1>1. PICK g : g = conn
  OBVIOUS
<1>2. /\ UNCHANGED <<serving, sending, wire, conn, last_delivery_seq, audio_through_sample>>
      /\ client = "streaming"
  BY DEF Pump, connectionVars, clientVars
<1>3. g \in 1..generation /\ queues[g] \in Seq(Message) /\ wire[g] \in Seq(Sent) /\ g # 0
  BY SMTT(30), <1>1, <1>2, SessionFacts
<1>4. CASE PublishExceedsBuffer
  <2>1. /\ publish_raised'
        /\ queues' = IF attachment # 0 /\ HasRoom(attachment)
                     THEN [queues EXCEPT ![attachment] = Append(queues[attachment], Failure)]
                     ELSE queues
    BY <1>4 DEF PublishExceedsBuffer
  <2>2. \/ queues'[g] = queues[g]
        \/ queues'[g] = Append(queues[g], Failure)
    BY SMTT(30), <1>3, <2>1, ExceptSeq DEF SessionInv, RecordsInv, LedgerTypeOK, AttachmentsTypeOK
  <2>3. \/ queues'[g] = queues[g]
        \/ /\ queues[g] = <<>> /\ queues'[g] # <<>>
           /\ queues'[g][1] \notin Delivery
        \/ /\ queues[g] # <<>> /\ queues'[g] # <<>>
           /\ queues'[g][1] = queues[g][1]
    BY SMTT(30), <1>3, <2>2, AppendFirst, MarkersNoDelivery
  <2> QED BY <1>1, <1>2, <2>1, <2>3, ChainFrame
<1>5. ASSUME NEW kind \in Kinds, NEW n \in Nat, LedgerPublish(kind, n) PROVE ChainInv'
  <2>0. PICK d : d = [kind |-> kind, seq |-> next_delivery_seq,
                      start |-> next_audio_sample, end |-> next_audio_sample + n]
    OBVIOUS
  <2>1. /\ ~publish_raised /\ attachment' = attachment
        /\ publish_raised' = (attachment # 0 /\ ~HasRoom(attachment))
        /\ next_delivery_seq' = next_delivery_seq + 1
        /\ next_audio_sample' = next_audio_sample + n
        /\ queues' = IF attachment # 0 /\ HasRoom(attachment)
                     THEN [queues EXCEPT ![attachment] = Append(queues[attachment], d)]
                     ELSE queues
    BY <1>5, <2>0 DEF LedgerPublish, PublishRaises, Pump, SessionInv, PumpLive
  <2>2. CASE g = attachment /\ HasRoom(attachment)
    <3>1. queues'[g] = Append(queues[g], d)
      BY SMTT(30), <1>3, <2>1, <2>2, ExceptSeq DEF SessionInv, RecordsInv, LedgerTypeOK, AttachmentsTypeOK
    <3>2. /\ Chains(wire[g], last_delivery_seq, audio_through_sample)
          /\ Complete(wire[g], queues[g], last_delivery_seq, audio_through_sample)
          /\ g \in sending => Follows(wire[g], queues[g], last_delivery_seq, audio_through_sample)
      BY <1>1, <1>2, <2>1, <2>2 DEF SessionInv, ChainInv
    <3>3. /\ last_delivery_seq \in Nat /\ next_delivery_seq \in Nat
          /\ Len(wire[g]) \in Nat /\ Len(queues[g]) \in Nat
      BY <1>3, SessionFacts, LenProperties DEF SessionInv, RecordsInv, LedgerTypeOK, RecordsTypeOK
    <3>4. /\ queues'[g] # <<>> /\ Len(queues'[g]) = Len(queues[g]) + 1
          /\ queues[g] = <<>> => queues'[g][1] = d /\ Len(queues[g]) = 0
          /\ queues[g] # <<>> => queues'[g][1] = queues[g][1]
      BY SMTT(30), <1>3, <3>1, AppendFirst, EmptySeq
    <3>5. /\ Clean(wire[g])
          /\ last_delivery_seq + Len(wire[g]) + Len(queues[g]) = next_delivery_seq - 1
          /\ queues[g] = <<>> => EndOf(wire[g], audio_through_sample) = next_audio_sample
      BY <3>2 DEF Complete
    <3>6. ASSUME g \in sending
          PROVE  Follows(wire[g], queues'[g], last_delivery_seq, audio_through_sample)
      <4>1. CASE queues[g] = <<>>
        <5>1. d.seq = next_delivery_seq /\ d.start = next_audio_sample
          BY <2>0
        <5>2. next_delivery_seq = last_delivery_seq + Len(wire[g]) + 1
          BY SMTT(30), <3>3, <3>4, <3>5, <4>1
        <5> QED BY <3>4, <3>5, <4>1, <5>1, <5>2 DEF Follows
      <4>2. CASE queues[g] # <<>>
        BY <3>2, <3>4, <3>6, <4>2 DEF Follows
      <4> QED BY <4>1, <4>2
    <3>7. last_delivery_seq + Len(wire[g]) + Len(queues'[g]) = next_delivery_seq' - 1
      <4>1. /\ next_delivery_seq' = next_delivery_seq + 1 /\ Len(queues'[g]) = Len(queues[g]) + 1
            /\ last_delivery_seq + Len(wire[g]) + Len(queues[g]) = next_delivery_seq - 1
        BY <2>1, <3>4, <3>5
      <4>2. PICK w \in Nat : w = Len(wire[g])
        BY <3>3
      <4>3. PICK i \in Nat : i = Len(queues[g])
        BY <3>3
      <4>4. last_delivery_seq + w + i = next_delivery_seq - 1
        BY <4>1, <4>2, <4>3
      <4>5. last_delivery_seq + w + (i + 1) = (next_delivery_seq + 1) - 1
        BY SMTT(30), <3>3, <4>4
      <4> QED BY <4>1, <4>2, <4>3, <4>5
    <3> QED BY <1>1, <1>2, <3>2, <3>4, <3>5, <3>6, <3>7, ChainIntro
  <2>3. CASE ~(g = attachment /\ HasRoom(attachment))
    <3>1. queues'[g] = queues[g]
      BY SMTT(30), <1>3, <2>1, <2>3, ExceptSeq DEF SessionInv, RecordsInv, LedgerTypeOK, AttachmentsTypeOK
    <3>2. ~(g = attachment' /\ ~publish_raised')
      BY <1>3, <2>1, <2>3
    <3> QED BY <1>1, <1>2, <3>1, <3>2, ChainFrame
  <2> QED BY <2>2, <2>3
<1>6. PICK kind \in Kinds : Publish(kind)
  <2>1. outputs \in Seq(Kinds) /\ outputs # <<>>
    BY DEF Pump, SessionInv, SessionShape, SessionTypeOK
  <2> QED BY SMTT(30), <2>1 DEF Pump
<1> QED BY <1>4, <1>5, <1>6 DEF Publish

\* A handler sends the first message of its queue.
LEMMA ChainOfSend ==
    ASSUME SessionInv, [Next]_vars, NEW h \in Connections, Send(h)
    PROVE  ChainInv'
<1> SUFFICES ASSUME client' = "streaming" PROVE ChainInv'
  BY DEF ChainInv
<1>1. PICK g : g = conn
  OBVIOUS
<1>2. /\ UNCHANGED <<conn, last_delivery_seq, audio_through_sample>>
      /\ client = "streaming"
      /\ queues[h] # <<>> /\ h \in sending
      /\ queues' = [queues EXCEPT ![h] = Tail(queues[h])]
      /\ UNCHANGED <<attachment, publish_raised, next_delivery_seq, next_audio_sample>>
  BY DEF Send, clientVars, Take, outputVars
<1>3. /\ g \in 1..generation /\ h \in 1..generation /\ g \in Connections
      /\ wire \in [Connections -> Seq(Sent)] /\ wire[g] \in Seq(Sent)
      /\ queues[h] \in Seq(Message) /\ queues \in Seq(Seq(Message)) /\ Len(queues) = generation
      /\ last_delivery_seq \in Nat /\ audio_through_sample \in Nat
  BY <1>1, <1>2, SessionFacts
<1>4. PICK m : m = Head(queues[h])
  OBVIOUS
<1>5. CASE g # h
  <2>1. queues'[g] = queues[g]
    BY SMTT(30), <1>2, <1>3, <1>5, ExceptSeq
  <2>2. wire'[g] = wire[g]
    BY <1>3, <1>5 DEF Send
  <2>3. g \in sending' => g \in sending
    BY DEF Send, HandlerEnds
  <2> QED BY <1>1, <1>2, <2>1, <2>2, <2>3, ChainFrame
<1>6. CASE g = h
  <2> DEFINE q == queues[g]
  <2>1. /\ q \in Seq(Message) /\ q # <<>> /\ queues'[g] = Tail(q) /\ m = q[1]
        /\ Len(q) \in Nat /\ Len(q) >= 1 /\ 1 \in 1..Len(q) /\ Len(Tail(q)) = Len(q) - 1
        /\ \A i \in 1..Len(q) - 1 : Tail(q)[i] = q[i+1]
        /\ Tail(q) = <<>> <=> Len(q) = 1
    <3>1. q \in Seq(Message) /\ q # <<>> /\ queues'[g] = Tail(q) /\ m = q[1]
      BY SMTT(30), <1>2, <1>3, <1>4, <1>6, ExceptSeq, HeadTailProperties
    <3>2. /\ Len(q) \in Nat /\ Len(q) # 0 /\ Len(Tail(q)) = Len(q) - 1 /\ Tail(q) \in Seq(Message)
          /\ \A i \in 1..Len(q) - 1 : Tail(q)[i] = q[i+1]
      BY <3>1, HeadTailProperties, LenProperties, EmptySeq
    <3>3. Tail(q) = <<>> <=> Len(Tail(q)) = 0
      BY <3>2, EmptySeq
    <3> HIDE DEF q
    <3> QED BY SMTT(30), <3>1, <3>2, <3>3
  <2>2. /\ Consecutive(q) /\ MessageOK(g, m) /\ m \in Message
    <3>1. QueueOK(g)
      BY <1>3 DEF SessionInv, QueuesInv
    <3>2. m \in Elements(q)
      BY <2>1 DEF Elements
    <3> QED BY <2>1, <3>1, <3>2, ElementOfSeq DEF QueueOK
  <2>3. /\ Chains(wire[g], last_delivery_seq, audio_through_sample)
        /\ Clean(wire[g])
        /\ Follows(wire[g], q, last_delivery_seq, audio_through_sample)
        /\ g = attachment /\ ~publish_raised =>
              Complete(wire[g], q, last_delivery_seq, audio_through_sample)
    BY <1>1, <1>2, <1>6 DEF SessionInv, ChainInv
  <2>4. CASE m = Fence
    <3>1. wire' = wire /\ sending' = sending \ {g}
      BY <1>4, <1>6, <2>4 DEF Send, HandlerEnds
    <3>2. g # attachment
      BY <2>2, <2>4 DEF MessageOK
    <3> QED BY <1>1, <1>2, <2>3, <3>1, <3>2, ChainIntro
  <2>5. CASE m = Failure
    <3>1. wire'[g] = Append(wire[g], ResumeError) /\ sending' = sending \ {g}
      <4>1. Failure # Fence
        BY DEF Failure, Fence, NoDelivery
      <4> QED BY <1>3, <1>4, <1>6, <2>5, <4>1 DEF Send
    <3>2. publish_raised
      BY <2>2, <2>5 DEF MessageOK
    <3>3. Chains(wire'[g], last_delivery_seq, audio_through_sample)
      BY <1>3, <2>3, <3>1, ChainAppend DEF Sent
    <3> QED BY <1>1, <1>2, <3>1, <3>2, <3>3, ChainIntro
  <2>6. CASE m \in Delivery
    <3>1. m # Fence /\ m # Failure /\ m # ResumeError /\ m \in Sent /\ IsDelivery(m)
      BY <2>2, <2>6, MarkersNoDelivery, MessageKinds DEF Sent
    <3>2. wire'[g] = Append(wire[g], m)
      BY <1>3, <1>4, <1>6, <3>1 DEF Send
    <3>3. m.seq = last_delivery_seq + Len(wire[g]) + 1 /\ m.start = EndOf(wire[g], audio_through_sample)
      BY <2>1, <2>3, <2>6 DEF Follows
    <3>4. /\ Chains(wire'[g], last_delivery_seq, audio_through_sample)
          /\ Len(wire'[g]) = Len(wire[g]) + 1
          /\ EndOf(wire'[g], audio_through_sample) = m.end
          /\ Clean(wire'[g])
      BY ONLY SMTT(30), <1>3, <2>3, <3>1, <3>2, <3>3, ChainAppend
    <3>5. Len(wire[g]) \in Nat
      BY <1>3, LenProperties
    <3>6. Follows(wire'[g], Tail(q), last_delivery_seq, audio_through_sample)
      <4> SUFFICES ASSUME Tail(q) # <<>>, Tail(q)[1] \in Delivery
                   PROVE  /\ Tail(q)[1].seq = last_delivery_seq + Len(wire'[g]) + 1
                          /\ Tail(q)[1].start = m.end
        BY <3>4 DEF Follows
      <4>1. 1 \in 1..Len(q) - 1 /\ Tail(q)[1] = q[1+1] /\ 1 + 1 \in 1..Len(q)
        BY SMTT(30), <2>1
      <4>2. q[1+1] \in Message
        BY <2>1, <4>1, ElementOfSeq
      <4>3. IsDelivery(q[1+1])
        BY <4>1, <4>2, MessageKinds
      <4>4. q[1+1].seq = q[1].seq + 1 /\ q[1+1].start = q[1].end
        BY <2>2, <4>1, <4>3 DEF Consecutive
      <4> HIDE DEF q
      <4> QED BY SMTT(30), <1>3, <2>1, <3>3, <3>4, <3>5, <4>1, <4>4
    <3>7. ASSUME g = attachment, ~publish_raised
          PROVE  /\ last_delivery_seq + Len(wire'[g]) + Len(Tail(q)) = next_delivery_seq - 1
                 /\ Tail(q) = <<>> => m.end = next_audio_sample
      <4>1. last_delivery_seq + Len(wire[g]) + Len(q) = next_delivery_seq - 1
        BY <2>3, <3>7 DEF Complete
      <4>2. ASSUME Tail(q) = <<>> PROVE m.end = next_audio_sample
        <5>1. Len(q) = 1
          BY <2>1, <4>2
        <5>2. attachment # 0 /\ attachment \in handlers
          BY SMTT(30), <1>2, <1>3, <1>6, <3>7 DEF SessionInv, SessionShape, SessionTypeOK
        <5> QED BY <2>1, <3>7, <5>1, <5>2 DEF SessionInv, QueuesInv, NewestLast
      <4>3. /\ last_delivery_seq \in Nat /\ Len(wire[g]) \in Nat /\ Len(q) \in Nat
            /\ Len(wire'[g]) = Len(wire[g]) + 1 /\ Len(Tail(q)) = Len(q) - 1
        BY <1>3, <2>1, <3>4, <3>5
      <4>4. last_delivery_seq + Len(wire'[g]) + Len(Tail(q)) = last_delivery_seq + Len(wire[g]) + Len(q)
        <5>1. PICK w \in Nat : w = Len(wire[g])
          BY <4>3
        <5>2. PICK i \in Nat : i = Len(q)
          BY <4>3
        <5>3. last_delivery_seq + (w + 1) + (i - 1) = last_delivery_seq + w + i
          BY SMTT(30), <4>3
        <5>4. Len(wire'[g]) = w + 1 /\ Len(Tail(q)) = i - 1
          BY <4>3, <5>1, <5>2
        <5> QED BY <5>1, <5>2, <5>3, <5>4
      <4> QED BY <4>1, <4>2, <4>4
    <3> QED BY <1>1, <1>2, <2>1, <3>4, <3>6, <3>7, ChainIntro
  <2> QED BY <2>2, <2>4, <2>5, <2>6 DEF Message
<1> QED BY <1>5, <1>6

\* The other steps of a handler.
LEMMA ChainOfHandler ==
    ASSUME SessionInv, [Next]_vars, NEW h \in Connections,
           HandlerExit(h) \/ HandleAck(h) \/ HandleTerminalAck(h) \/ HandleRemove(h) \/ HandleError(h)
    PROVE  ChainInv'
<1> SUFFICES ASSUME client' = "streaming" PROVE ChainInv'
  BY DEF ChainInv
<1>1. PICK g : g = conn
  OBVIOUS
<1>2. /\ UNCHANGED <<conn, last_delivery_seq, audio_through_sample>>
      /\ client = "streaming" /\ sending' \subseteq sending
  BY DEF HandlerExit, HandleAck, HandleTerminalAck, HandleRemove, HandleError, HandlerEnds, clientVars
<1>3. /\ UNCHANGED <<queues, publish_raised, next_delivery_seq, next_audio_sample>>
      /\ attachment' \in {attachment, 0}
  BY DEF HandlerExit, HandleAck, HandleTerminalAck, HandleRemove, HandleError, Detach, LedgerDetach,
     LedgerAcknowledge, LedgerTerminalAck, ledgerVars, outputVars
<1>4. /\ g \in 1..generation /\ g # 0 /\ g \in Connections
      /\ wire \in [Connections -> Seq(Sent)] /\ wire[g] \in Seq(Sent)
      /\ last_delivery_seq \in Nat /\ audio_through_sample \in Nat
  BY SMTT(30), <1>1, <1>2, SessionFacts
<1>5. CASE ~(HandleError(h) /\ g = h)
  <2>1. wire'[g] = wire[g]
    BY <1>4, <1>5 DEF HandlerExit, HandleAck, HandleTerminalAck, HandleRemove, HandleError
  <2> QED BY <1>1, <1>2, <1>3, <1>4, <2>1, ChainFrame
<1>6. CASE HandleError(h) /\ g = h
  <2>1. wire'[g] = Append(wire[g], ResumeError) /\ sending' = sending \ {g} /\ Detach(g)
    BY <1>4, <1>6 DEF HandleError, HandlerEnds
  <2>2. attachment' # g
    BY <1>4, <2>1 DEF Detach, LedgerDetach, IsCurrent, ledgerVars
  <2>3. Chains(wire[g], last_delivery_seq, audio_through_sample)
    BY <1>1, <1>2 DEF SessionInv, ChainInv
  <2>4. Chains(wire'[g], last_delivery_seq, audio_through_sample)
    BY SMTT(30), <1>4, <2>1, <2>3, ChainAppend DEF Sent
  <2> QED BY <1>1, <1>2, <2>1, <2>2, <2>4, ChainIntro
<1> QED BY <1>5, <1>6

\* What the client finds on its connection is an error or the next delivery, so
\* its reader never meets a gap or a duplicate.
LEMMA ReceiveIsNext ==
    ASSUME SessionInv, [Next]_vars, Receive, NEW m, m = Head(wire[conn])
    PROVE  /\ m = wire[conn][1] /\ wire[conn] \in Seq(Sent) /\ conn \in 1..generation
           /\ \/ m = ResumeError /\ FailTerminal("failed")
              \/ /\ m \in Delivery /\ m # ResumeError /\ Genuine(m)
                 /\ m.seq = last_delivery_seq + 1 /\ m.start = audio_through_sample
                 /\ Accept(m) /\ conn' = conn
                 /\ last_delivery_seq' = last_delivery_seq + 1 /\ audio_through_sample' = m.end
<1>1. PICK g : g = conn
  OBVIOUS
<1>2. client = "streaming" /\ wire[g] # <<>>
  BY <1>1 DEF Receive
<1>3. g \in 1..generation /\ g \in Connections /\ wire[g] \in Seq(Sent)
  BY <1>1, <1>2, SessionFacts
<1>4. m = wire[g][1] /\ m \in Elements(wire[g]) /\ 1 \in 1..Len(wire[g])
  <2>1. m = wire[g][1]
    BY SMTT(30), <1>1, <1>2, <1>3, HeadTailProperties
  <2>2. m \in Elements(wire[g])
    BY <1>1, <1>2, <1>3, ElementsTail
  <2>3. 1 \in 1..Len(wire[g])
    BY SMTT(30), <1>2, <1>3, LenProperties, EmptySeq
  <2> QED BY <2>1, <2>2, <2>3
<1>5. m \in Sent
  BY SMTT(30), <1>3, <1>4, ElementOfSeq
<1>6. Genuine(m)
  BY <1>3, <1>4 DEF SessionInv, WiresGenuine
<1>7. ASSUME m # ResumeError
      PROVE  m \in Delivery /\ m.seq = last_delivery_seq + 1 /\ m.start = audio_through_sample
  <2>1. Chains(wire[g], last_delivery_seq, audio_through_sample)
    BY <1>1, <1>2 DEF SessionInv, ChainInv
  <2> QED BY <1>4, <1>5, <1>7, <2>1 DEF Chains, Sent
<1>8. ASSUME m # ResumeError
      PROVE  Continues(m) /\ ~(m.seq <= last_delivery_seq)
  BY SMTT(30), <1>7, <1>8, SessionFacts DEF Continues
<1>9. \/ m = ResumeError /\ FailTerminal("failed")
      \/ m # ResumeError /\ Accept(m) /\ conn' = conn
  BY <1>8 DEF Receive
<1>10. ASSUME m # ResumeError, Accept(m)
       PROVE  last_delivery_seq' = last_delivery_seq + 1 /\ audio_through_sample' = m.end
  <2>1. m.kind # "audio" => m.start = m.end
    BY <1>6, <1>7, <1>10 DEF Genuine
  <2> QED BY <1>7, <1>10, <2>1 DEF Accept
<1> QED BY <1>1, <1>3, <1>4, <1>6, <1>7, <1>9, <1>10

\* The client takes a message.
LEMMA ChainOfReceive ==
    ASSUME SessionInv, [Next]_vars, Receive
    PROVE  ChainInv'
<1> SUFFICES ASSUME client' = "streaming" PROVE ChainInv'
  BY DEF ChainInv
<1>1. PICK g : g = conn
  OBVIOUS
<1>2. PICK m : m = Head(wire[g])
  OBVIOUS
<1>3. /\ m = wire[g][1] /\ wire[g] \in Seq(Sent) /\ g \in Connections
      /\ m # ResumeError /\ conn' = g
      /\ last_delivery_seq' = last_delivery_seq + 1 /\ audio_through_sample' = m.end
  BY <1>1, <1>2, ReceiveIsNext, SessionFacts DEF FailTerminal
<1>4. /\ client = "streaming" /\ wire[g] # <<>>
      /\ wire' = [wire EXCEPT ![g] = Tail(wire[g])]
      /\ UNCHANGED <<ledgerVars, sending>>
  BY <1>1 DEF Receive
<1>5. wire'[g] = Tail(wire[g])
  BY <1>3, <1>4, SessionFacts
<1>6. /\ Chains(wire[g], last_delivery_seq, audio_through_sample)
      /\ g \in sending =>
            Clean(wire[g]) /\ Follows(wire[g], queues[g], last_delivery_seq, audio_through_sample)
      /\ g = attachment /\ ~publish_raised =>
            Complete(wire[g], queues[g], last_delivery_seq, audio_through_sample)
  BY <1>1, <1>4 DEF SessionInv, ChainInv
<1>7. last_delivery_seq \in Nat /\ audio_through_sample \in Nat /\ Len(wire[g]) \in Nat
  BY <1>3, SessionFacts, LenProperties
<1>8. /\ Chains(wire'[g], last_delivery_seq', audio_through_sample')
      /\ Len(wire'[g]) = Len(wire[g]) - 1
      /\ EndOf(wire'[g], audio_through_sample') = EndOf(wire[g], audio_through_sample)
      /\ Clean(wire[g]) => Clean(wire'[g])
  BY <1>3, <1>4, <1>5, <1>6, <1>7, ChainTail
<1>9. PICK w \in Nat : w = Len(wire[g])
  BY <1>7
<1>10. last_delivery_seq' + Len(wire'[g]) = last_delivery_seq + Len(wire[g])
  <2>1. (last_delivery_seq + 1) + (w - 1) = last_delivery_seq + w
    BY SMTT(30), <1>7
  <2> QED BY <1>3, <1>8, <1>9, <2>1
<1>11. queues'[g] = queues[g] /\ attachment' = attachment /\ sending' = sending
       /\ publish_raised' = publish_raised
       /\ next_delivery_seq' = next_delivery_seq /\ next_audio_sample' = next_audio_sample
  BY <1>4 DEF ledgerVars, outputVars
<1>12. g \in sending => Follows(wire'[g], queues'[g], last_delivery_seq', audio_through_sample')
  BY <1>6, <1>8, <1>10, <1>11 DEF Follows
<1>13. g = attachment /\ ~publish_raised =>
          /\ Clean(wire'[g])
          /\ last_delivery_seq' + Len(wire'[g]) + Len(queues'[g]) = next_delivery_seq' - 1
          /\ queues'[g] = <<>> => EndOf(wire'[g], audio_through_sample') = next_audio_sample'
  BY <1>6, <1>8, <1>10, <1>11 DEF Complete
<1> QED BY <1>3, <1>6, <1>8, <1>11, <1>12, <1>13, ChainIntro

\* Every step keeps the chain.
LEMMA ChainStep ==
    ASSUME SessionInv, [Next]_vars
    PROVE  ChainInv'
<1>1. CASE Start
  <2>1. /\ generation = 0 /\ records = <<>> /\ last_delivery_seq = 0 /\ audio_through_sample = 0
    BY <1>1 DEF Start, SessionInv, SessionShape, Fresh
  <2>2. LedgerAttach(0, 0) /\ Connected
    BY <1>1 DEF Start
  <2>3. attachment = 0 /\ QueueMax >= 1
    BY SMTT(30), <2>1 DEF SessionInv, RecordsInv, LedgerTypeOK, AttachmentsTypeOK
  <2>4. Len(Replay(0)) = 0
    <3>1. trimmed_through_seq = 0 /\ Len(records) = 0
      BY SMTT(30), <2>1 DEF SessionInv, AcksHeard, RecordsInv, LedgerTypeOK, RecordsTypeOK
    <3>2. Len(SubSeq(records, 1, 0)) = 0
      BY SMTT(30), <2>1
    <3> QED BY SMTT(30), <3>1, <3>2 DEF Replay
  <2>5. ~AttachRaises(0)
    BY SMTT(30), <2>3, <2>4 DEF AttachRaises
  <2>6. ~released
    BY <1>1 DEF Start, SessionInv, SessionShape, Fresh
  <2> QED BY <2>1, <2>2, <2>5, <2>6, ChainOfConnected
<1>2. CASE Resume
  <2>1. ~released
    BY <1>2 DEF Resume, SessionInv, SessionShape, SessionTypeOK
  <2> QED BY <1>2, <2>1, ChainOfConnected, ChainOfOthers DEF Resume
<1> QED BY <1>1, <1>2, ChainOfOthers, ChainOfPump, ChainOfSend, ChainOfHandler, ChainOfReceive,
           StepCases

\* And the cursor a live client holds stays one the ledger accepts.
LEMMA CursorStep ==
    ASSUME SessionInv, [Next]_vars
    PROVE  ResumeCursorRetained'
<1> SUFFICES ASSUME client' \in {"streaming", "resuming"}, ~released'
             PROVE  ValidCursor(last_delivery_seq, audio_through_sample)'
  BY DEF ResumeCursorRetained
<1>1. /\ [LedgerNext]_ledgerVars /\ last_delivery_seq \in Nat /\ audio_through_sample \in Nat
  BY SessionFacts
<1>2. PICK l \in Nat : l = last_delivery_seq
  BY <1>1
<1>3. PICK a \in Nat : a = audio_through_sample
  BY <1>1
<1>4. ~released
  BY <1>1 DEF LedgerNext, ledgerVars, LedgerAttach, LedgerAcknowledge, LedgerDetach,
     LedgerTerminalAck, Take, PublishExceedsBuffer, LedgerPublish, LedgerClose
<1>5. CASE last_delivery_seq' = last_delivery_seq /\ audio_through_sample' = audio_through_sample
  <2>1. trimmed_through_seq' <= l
    BY <1>2, <1>5, AcksStep DEF AcksHeard
  <2>2. CASE client \in {"streaming", "resuming"}
    <3>1. ValidCursor(l, a)
      BY <1>2, <1>3, <1>4, <2>2 DEF SessionInv, ResumeCursorRetained
    <3>2. ValidCursor(l, a)'
      BY <1>1, <1>4, <2>1, <3>1, CursorKept DEF SessionInv
    <3> QED BY <1>2, <1>3, <1>5, <3>2 DEF ValidCursor
  <2>3. CASE client \notin {"streaming", "resuming"}
    <3>1. Start \/ Resume
      <4>1. Quiet => FALSE
        BY <2>3 DEF Quiet
      <4>2. ~(Reconnect \/ Receive)
        BY <2>3 DEF Reconnect, Receive
      <4>3. ~(Pump \/ CloseEnds)
        BY <2>3 DEF Pump, CloseEnds, clientVars
      <4>4. \A g \in Connections : ~(HandlerExit(g) \/ Send(g) \/ HandleAck(g) \/ HandleTerminalAck(g)
                                       \/ HandleRemove(g) \/ HandleError(g))
        BY <2>3 DEF HandlerExit, Send, HandleAck, HandleTerminalAck, HandleRemove, HandleError, clientVars
      <4> QED BY <4>1, <4>2, <4>3, <4>4, StepCases
    <3>2. LedgerAttach(l, a)
      <4>1. Start
        BY <2>3, <3>1 DEF Resume
      <4>2. l = 0 /\ a = 0
        BY <1>2, <1>3, <4>1 DEF Start, SessionInv, SessionShape, Fresh
      <4> QED BY <4>1, <4>2 DEF Start
    <3>3. ValidCursor(l, a)
      BY <3>2 DEF LedgerAttach
    <3>4. ValidCursor(l, a)'
      BY <1>1, <1>4, <2>1, <3>3, CursorKept DEF SessionInv
    <3> QED BY <1>2, <1>3, <1>5, <3>4 DEF ValidCursor
  <2> QED BY <2>2, <2>3
<1>6. CASE ~(last_delivery_seq' = last_delivery_seq /\ audio_through_sample' = audio_through_sample)
  <2>1. Receive
    BY <1>6, CursorMoves
  <2>2. PICK m : m = Head(wire[conn])
    OBVIOUS
  <2>3. /\ m \in Delivery /\ Genuine(m) /\ m.seq = l + 1
        /\ last_delivery_seq' = m.seq /\ audio_through_sample' = m.end
    BY <1>2, <1>6, <2>1, <2>2, ReceiveIsNext DEF FailTerminal
  <2>4. m.seq \in Nat /\ m.end \in Nat
    BY <2>3 DEF Delivery
  <2>5. trimmed_through_seq \in Nat /\ trimmed_through_seq <= l /\ next_delivery_seq \in Nat
    BY <1>2 DEF SessionInv, AcksHeard, RecordsInv, LedgerTypeOK, RecordsTypeOK
  <2>6. m.seq > trimmed_through_seq /\ m.seq <= next_delivery_seq - 1
    BY SMTT(30), <2>3, <2>5 DEF Genuine
  <2>7. m = records[m.seq - trimmed_through_seq]
    BY <1>4, <2>3, <2>6 DEF Genuine
  <2>8. CursorRetained(m.seq, m.end)
    BY SMTT(30), <2>4, <2>5, <2>6, <2>7 DEF CursorRetained, RecEnd
  <2>9. ValidCursor(m.seq, m.end)
    BY <1>4, <2>4, <2>8, CursorIsEnd DEF SessionInv
  <2>10. UNCHANGED ledgerVars
    BY <2>1 DEF Receive
  <2> QED BY <2>3, <2>9, <2>10 DEF ValidCursor, ledgerVars, cursorVars, outputVars
<1> QED BY <1>5, <1>6

-----------------------------------------------------------------------------
\* The invariant holds when nothing has started.
LEMMA SessionStarts == Init => SessionInv
<1> SUFFICES ASSUME Init PROVE SessionInv
  OBVIOUS
<1>1. SessionShape /\ PumpLive /\ RecordsInv /\ QueuesInv
  BY ShapeInit, QueuesInit DEF Init
<1>2. \A g \in Connections : wire[g] = <<>> /\ uplink[g] = <<>>
  BY DEF Init
<1>3. Elements(<<>>) = {}
  BY SMTT(30) DEF Elements
<1>4. WiresGenuine
  BY <1>2, <1>3 DEF WiresGenuine
<1>5. AcksHeard
  BY SMTT(30), <1>2, <1>3 DEF AcksHeard, Init, LedgerInit
<1>6. NewestAttached /\ ChainInv /\ ResumeCursorRetained
  BY DEF Init, NewestAttached, ChainInv, ResumeCursorRetained
<1> QED BY <1>1, <1>4, <1>5, <1>6 DEF SessionInv

\* The session's inductive invariant is one.
LEMMA SessionSafe == Spec => []SessionInv
<1>1. SessionInv /\ [Next]_vars => SessionInv'
  <2> SUFFICES ASSUME SessionInv, [Next]_vars PROVE SessionInv'
    OBVIOUS
  <2>1. SessionShape' /\ PumpLive' /\ RecordsInv' /\ QueuesInv'
    BY SessionFacts, PumpStep DEF SessionInv
  <2> QED BY <2>1, WiresStep, AcksStep, NewestStep, ChainStep, CursorStep DEF SessionInv
<1> QED BY <1>1, SessionStarts, PTL DEF Spec

\* A client that streams or is about to resume always holds a cursor the server
\* still accepts, whatever was acknowledged, lost or replayed before: trimming
\* never overtakes what the client has kept.
THEOREM CursorAlwaysRetained == Spec => []ResumeCursorRetained
BY SessionSafe, PTL DEF SessionInv

\* The newest connection stays attached while it is served, and a client on the
\* attached connection misses nothing: what was published is heard, on the wire
\* or in the queue.
THEOREM NothingIsMissed == Spec => []HeardOrInFlight
<1>1. SessionInv => HeardOrInFlight
  <2> SUFFICES ASSUME SessionInv PROVE HeardOrInFlight
    OBVIOUS
  <2>1. SessionTypeOK
    BY DEF SessionInv, SessionShape
  <2>2. QueuesConsecutive
    BY DEF SessionInv, QueuesInv, QueueOK, Consecutive, QueuesConsecutive
  <2>3. generation \in serving /\ ~released => attachment = generation
    BY DEF SessionInv, NewestAttached
  <2>4. client = "streaming" /\ conn = attachment /\ ~publish_raised =>
          last_delivery_seq + Len(wire[conn]) + Len(queues[conn]) = next_delivery_seq - 1
    BY DEF SessionInv, ChainInv, Complete
  <2> QED BY <2>1, <2>2, <2>3, <2>4 DEF HeardOrInFlight
<1> QED BY <1>1, SessionSafe, PTL

\* What is proved of the ledger on its own holds of the ledger in the session.
THEOREM SessionReplayIsExact == Spec => []ReplayExact
BY SessionSafe, PTL DEF SessionInv, RecordsInv, ReplayExact

-----------------------------------------------------------------------------
(* close() and the pump.                                                   *)

\* A close() that fences comes after the handle's terminal output, and what
\* close() left behind stays as it was.
EndingInv ==
    /\ "terminal" \in Elements(outputs) => handle_terminal
    /\ terminal_task => handle_terminal
    /\ closing = "closing" /\ close_fence => handle_terminal
    /\ closing = "raised" => handle_terminal
    /\ closing = "closed" => ~pump /\ records = <<>>

\* A step that neither adds an output, nor arms the terminal expiry, nor closes,
\* nor publishes.
LEMMA EndingFrame ==
    ASSUME EndingInv, handle_terminal => handle_terminal',
           UNCHANGED <<outputs, closing, close_fence, pump>>,
           terminal_task' => terminal_task,
           closing = "closed" => UNCHANGED records
    PROVE  EndingInv'
BY DEF EndingInv

\* close() begins with the fence of the terminal expiry or of a shutdown, which
\* cancels first, or without one.
LEMMA EndingOfClose ==
    ASSUME EndingInv, UNCHANGED <<ledgerVars, handleVars>>,
           NEW fence, NEW cancel, CloseBegins(fence, cancel),
           fence => cancel \/ handle_terminal
    PROVE  EndingInv'
BY DEF EndingInv, CloseBegins, handleVars

\* Every step keeps the ending in order.
LEMMA EndingStep ==
    ASSUME SessionInv, EndingInv, [Next]_vars
    PROVE  EndingInv'
<1>0. outputs \in Seq(Kinds) /\ (released <=> closing \in {"closed", "raised"}) /\ (registered => closing = "open")
  BY DEF SessionInv, SessionShape, SessionTypeOK
<1>1. CASE UNCHANGED vars
  BY <1>1, EndingFrame DEF vars, lifecycleVars, handleVars, ledgerVars
<1>2. CASE Start
  <2>1. closing = "open" /\ UNCHANGED <<closing, close_fence, terminal_task, outputs, handle_terminal>>
    BY <1>2 DEF Start, SessionInv, SessionShape, Fresh
  <2> QED BY <2>1 DEF EndingInv
<1>3. CASE Resume \/ ResumeNotFound \/ Reconnect \/ GiveUp \/ Receive
  <2>1. UNCHANGED <<outputs, closing, close_fence, pump, terminal_task, handle_terminal, records>>
    BY <1>3 DEF Resume, ResumeNotFound, Reconnect, GiveUp, Receive, ledgerVars, lifecycleVars,
       handleVars, LedgerAttach
  <2> QED BY <2>1, EndingFrame
<1>4. ASSUME NEW kind \in Kinds, Emit(kind) PROVE EndingInv'
  <2>1. /\ ~handle_terminal /\ handle_terminal' = (kind = "terminal")
        /\ outputs' = Append(outputs, kind) /\ closing # "closed"
        /\ UNCHANGED <<closing, close_fence, terminal_task>>
    BY <1>4 DEF Emit, lifecycleVars
  <2>2. Elements(outputs') = Elements(outputs) \cup {kind}
    BY <1>0, <2>1, ElementsAppend
  <2> QED BY <2>1, <2>2 DEF EndingInv
<1>5. CASE Pump
  <2>1. /\ pump /\ outputs # <<>> /\ outputs' = Tail(outputs)
        /\ UNCHANGED <<closing, close_fence, handle_terminal>>
        /\ terminal_task' = (terminal_task \/ (terminal' /\ ~publish_raised'))
    BY <1>5 DEF Pump, SchedulesExpiry
  <2>2. Elements(outputs') \subseteq Elements(outputs) /\ Head(outputs) \in Elements(outputs)
    BY <1>0, <2>1, ElementsTail
  <2>3. PICK kind : kind = Head(outputs)
    OBVIOUS
  <2>4. terminal' => kind = "terminal"
    BY <1>5, <2>3 DEF Pump, Publish, PublishExceedsBuffer, LedgerPublish, PublishEnabled, outputVars
  <2> QED BY <2>1, <2>2, <2>3, <2>4 DEF EndingInv
<1>6. CASE PumpCancelled \/ CloseCancelled
  <2>1. /\ handle_terminal' /\ UNCHANGED <<pump, records>>
        /\ closing' = "closed" => closing = "closed"
    BY <1>6 DEF PumpCancelled, CloseCancelled, lifecycleVars, ledgerVars
  <2> QED BY <2>1 DEF EndingInv
<1>7. CASE CloseEnds
  <2>1. /\ closing = "closing" /\ records' = <<>>
        /\ UNCHANGED <<terminal_task, outputs, handle_terminal>>
        /\ \/ closing' = "raised" /\ close_fence
           \/ closing' = "closed" /\ ~pump'
    BY <1>7 DEF CloseEnds, LedgerClose, CloseRaises
  <2> QED BY <2>1 DEF EndingInv
<1>8. CASE GraceExpires
  <2>1. CASE CloseBegins(FALSE, TRUE)
    BY <1>8, <2>1, EndingOfClose DEF GraceExpires
  <2>2. CASE UNCHANGED <<closing, close_fence, terminal_task>>
    BY <1>8, <2>2, EndingFrame DEF GraceExpires, handleVars, ledgerVars
  <2> QED BY <1>8, <2>1, <2>2 DEF GraceExpires
<1>9. CASE TerminalExpires
  <2>1. handle_terminal
    BY <1>9 DEF TerminalExpires, EndingInv
  <2>2. CASE CloseBegins(TRUE, FALSE)
    BY <1>9, <2>1, <2>2, EndingOfClose DEF TerminalExpires
  <2>3. CASE terminal_task' = FALSE /\ UNCHANGED <<closing, close_fence>>
    BY <1>9, <2>3, EndingFrame DEF TerminalExpires, handleVars, ledgerVars
  <2> QED BY <1>9, <2>2, <2>3 DEF TerminalExpires
<1>10. CASE Shutdown
  BY <1>10, EndingOfClose DEF Shutdown
<1>11. ASSUME NEW g \in Connections, HandleRemove(g) PROVE EndingInv'
  <2>1. CASE CloseBegins(FALSE, FALSE)
    BY <1>11, <2>1, EndingOfClose DEF HandleRemove
  <2>2. CASE UNCHANGED lifecycleVars
    BY <1>11, <2>2, EndingFrame DEF HandleRemove, lifecycleVars, handleVars, ledgerVars
  <2> QED BY <1>11, <2>1, <2>2 DEF HandleRemove
<1>12. ASSUME NEW g \in Connections,
              HandlerExit(g) \/ HandleError(g) \/ Send(g) \/ HandleAck(g) \/ HandleTerminalAck(g)
       PROVE  EndingInv'
  <2>1. UNCHANGED <<outputs, closing, close_fence, pump, terminal_task, handle_terminal>>
    BY <1>12 DEF HandlerExit, HandleError, Send, HandleAck, HandleTerminalAck, lifecycleVars, handleVars
  <2>2. closing = "closed" => attachment = 0
    BY <1>0 DEF SessionInv, RecordsInv, ReleasedDetached
  <2>3. closing = "closed" => UNCHANGED records
    BY <1>12, <2>2 DEF HandlerExit, HandleError, Send, HandleAck, HandleTerminalAck, Detach,
       LedgerDetach, Take, LedgerAcknowledge, LedgerTerminalAck, IsCurrent, ledgerVars
  <2> QED BY <2>1, <2>3, EndingFrame
<1> QED BY <1>1, <1>2, <1>3, <1>4, <1>5, <1>6, <1>7, <1>8, <1>9, <1>10, <1>11, <1>12 DEF Next

\* close() is final at every size of the queues, also where its fence does not
\* fit: no connection is attached again, no output follows, and after a close()
\* that returned the pump has stopped and nothing is retained.
THEOREM ClosingIsFinal == Spec => []CloseIsFinal
<1>1. Init => EndingInv
  <2>1. Elements(<<>>) = {}
    BY SMTT(30) DEF Elements
  <2> QED BY <2>1 DEF Init, EndingInv
<1>2. SessionInv /\ EndingInv /\ [Next]_vars => EndingInv'
  BY EndingStep
<1>3. SessionInv /\ EndingInv => CloseIsFinal
  BY DEF SessionInv, SessionShape, SessionTypeOK, RecordsInv, ReleasedDetached, EndingInv, CloseIsFinal
<1> QED BY <1>1, <1>2, <1>3, SessionSafe, PTL DEF Spec

-----------------------------------------------------------------------------
(* The refinement of ReliableStream.                                       *)

Heard(l) == [n \in 1..l |-> n]

\* Hearing one more delivery extends the sequence of those heard.
LEMMA HeardMore ==
    ASSUME NEW l \in Nat
    PROVE  Len(Heard(l)) = l /\ Heard(l + 1) = Append(Heard(l), l + 1)
<1>1. Heard(l) \in Seq(Nat) /\ Heard(l + 1) \in Seq(Nat) /\ Len(Heard(l)) = l /\ Len(Heard(l + 1)) = l + 1
  BY SMTT(30) DEF Heard
<1>2. Append(Heard(l), l + 1) \in Seq(Nat) /\ Len(Append(Heard(l), l + 1)) = l + 1
  BY SMTT(30), <1>1, AppendProperties
<1>3. \A i \in 1..l + 1 : Append(Heard(l), l + 1)[i] = Heard(l + 1)[i]
  <2> SUFFICES ASSUME NEW i \in 1..l + 1 PROVE Append(Heard(l), l + 1)[i] = Heard(l + 1)[i]
    OBVIOUS
  <2>1. CASE i = l + 1
    BY SMTT(30), <1>1, <2>1, AppendProperties DEF Heard
  <2>2. CASE i # l + 1
    <3>1. i \in 1..l
      BY SMTT(30), <2>2
    <3> QED BY SMTT(30), <1>1, <3>1, AppendProperties DEF Heard
  <2> QED BY <2>1, <2>2
<1> QED BY <1>1, <1>2, <1>3, SeqEqual

Verdict(c) == IF c \in {"idle", "streaming", "resuming"} THEN "open" ELSE c

\* Each step of the session publishes, lets the client hear, ends its stream
\* with an error, or is invisible to the caller.
LEMMA StreamStep ==
    ASSUME SessionInv, [Next]_vars
    PROVE  [Stream!StreamNext]_(Stream!streamVars)
<1>1. ASSUME UNCHANGED <<next_delivery_seq, terminal, last_delivery_seq>>,
             Verdict(client') = Verdict(client)
      PROVE  UNCHANGED Stream!streamVars
  BY <1>1 DEF Stream!streamVars, Verdict
<1>2. ASSUME UNCHANGED <<next_delivery_seq, terminal, last_delivery_seq>>,
             client \in {"streaming", "resuming"}, client' = "failed"
      PROVE  Stream!Fail
  BY <1>2 DEF Stream!Fail
<1>3. ASSUME UNCHANGED <<next_delivery_seq, terminal, last_delivery_seq>>,
             \/ client' = client
             \/ client \in {"streaming", "resuming"} /\ client' = "failed"
             \/ client \in {"idle", "resuming", "streaming"} /\ client' \in {"streaming", "resuming"}
      PROVE  [Stream!StreamNext]_(Stream!streamVars)
  <2>1. CASE client' = "failed" /\ client # "failed"
    BY <1>2, <1>3, <2>1 DEF Stream!StreamNext
  <2>2. CASE client' # "failed" \/ client = "failed"
    <3>1. Verdict(client') = Verdict(client)
      BY <1>3, <2>2 DEF Verdict
    <3> QED BY <1>1, <1>3, <3>1
  <2> QED BY <2>1, <2>2
<1>4. CASE Quiet \/ Reconnect \/ CloseEnds
  BY <1>3, <1>4 DEF Quiet, Reconnect, CloseEnds, LedgerClose, ledgerVars, outputVars, clientVars
<1>5. CASE Start \/ Resume
  BY <1>3, <1>5 DEF Start, Resume, Connected, Rejected, LedgerAttach, ledgerVars, outputVars
<1>6. ASSUME NEW g \in Connections, HandlerExit(g) \/ Send(g) \/ HandleAck(g) \/ HandleTerminalAck(g)
                                     \/ HandleRemove(g) \/ HandleError(g)
      PROVE  [Stream!StreamNext]_(Stream!streamVars)
  BY <1>3, <1>6 DEF HandlerExit, Send, HandleAck, HandleTerminalAck, HandleRemove, HandleError, Detach,
     LedgerDetach, LedgerAcknowledge, LedgerTerminalAck, Take, ledgerVars, outputVars, clientVars
<1>7. CASE Pump
  <2>1. PICK kind : Publish(kind)
    BY <1>7 DEF Pump
  <2>2. CASE PublishExceedsBuffer
    BY <1>3, <1>7, <2>2 DEF Pump, PublishExceedsBuffer, outputVars, clientVars
  <2>3. ASSUME NEW n, LedgerPublish(kind, n) PROVE Stream!Publish
    <3>1. /\ ~terminal /\ next_delivery_seq' = next_delivery_seq + 1
          /\ terminal' \in BOOLEAN /\ next_delivery_seq \in Nat
      BY <2>3 DEF LedgerPublish, PublishEnabled, SessionInv, RecordsInv, LedgerTypeOK,
         RecordsTypeOK, FlagsTypeOK
    <3>2. UNCHANGED <<client, last_delivery_seq>>
      BY <1>7 DEF Pump, clientVars
    <3>3. next_delivery_seq' - 1 = (next_delivery_seq - 1) + 1
      BY SMTT(30), <3>1
    <3> QED BY <3>1, <3>2, <3>3 DEF Stream!Publish
  <2> QED BY <2>1, <2>2, <2>3 DEF Publish, Stream!StreamNext
<1>8. CASE Receive
  <2>1. PICK m : m = Head(wire[conn])
    OBVIOUS
  <2>2. client = "streaming" /\ UNCHANGED <<next_delivery_seq, terminal>>
    BY <1>8 DEF Receive, ledgerVars, outputVars
  <2>3. CASE FailTerminal("failed")
    BY <1>3, <2>2, <2>3 DEF FailTerminal
  <2>4. ASSUME m \in Delivery, Genuine(m), m.seq = last_delivery_seq + 1, Accept(m),
               last_delivery_seq' = last_delivery_seq + 1
        PROVE  Stream!Hear
    <3>1. PICK l \in Nat : l = last_delivery_seq
      BY SessionFacts
    <3>2. Len(Heard(l)) = l /\ Heard(l + 1) = Append(Heard(l), l + 1) /\ Len(Heard(l + 1)) = l + 1
      <4>1. Len(Heard(l)) = l /\ Heard(l + 1) = Append(Heard(l), l + 1)
        BY HeardMore
      <4>2. l + 1 \in Nat
        BY SMTT(30)
      <4>3. Len(Heard(l + 1)) = l + 1
        BY <4>2, HeardMore
      <4> QED BY <4>1, <4>3
    <3>3. /\ next_delivery_seq \in Nat /\ l + 1 <= next_delivery_seq - 1
          /\ m.kind = "terminal" <=> terminal /\ l + 1 = next_delivery_seq - 1
      BY SMTT(30), <2>4, <3>1 DEF Genuine, SessionInv, RecordsInv, LedgerTypeOK, RecordsTypeOK
    <3>4. client' = IF m.kind = "terminal" THEN "done" ELSE "streaming"
      BY <2>2, <2>4 DEF Accept
    <3>5. Verdict(client) = "open" /\ Verdict(client') = IF m.kind = "terminal" THEN "done" ELSE "open"
      BY <2>2, <3>4 DEF Verdict
    <3>6. last_delivery_seq' = l + 1 /\ l < next_delivery_seq - 1
      BY SMTT(30), <2>4, <3>1, <3>3
    <3> QED BY <2>2, <3>1, <3>2, <3>3, <3>5, <3>6 DEF Stream!Hear, Heard, Verdict
  <2> QED BY <1>8, <2>1, <2>3, <2>4, ReceiveIsNext DEF Stream!StreamNext
<1> QED BY <1>4, <1>5, <1>6, <1>7, <1>8, StepCases

\* The caller of a resumable stream gets the stream ReliableStream describes,
\* through any losses of connections, replays and acknowledgements: every
\* delivery once and in order, "done" exactly at the terminal one, and never a
\* protocol error.
THEOREM StreamIsImplemented == Spec => StreamImplemented
<1>1. Init => Stream!StreamInit
  <2> SUFFICES ASSUME Init PROVE Stream!StreamInit
    OBVIOUS
  <2>1. next_delivery_seq = 1 /\ terminal = FALSE /\ client = "idle" /\ last_delivery_seq = 0
    BY DEF Init, LedgerInit
  <2>2. [n \in 1..last_delivery_seq |-> n] = <<>>
    BY SMTT(30), <2>1
  <2> QED BY SMTT(30), <2>1, <2>2 DEF Stream!StreamInit
<1>2. SessionInv /\ [Next]_vars => [Stream!StreamNext]_(Stream!streamVars)
  BY StreamStep
<1> QED BY <1>1, <1>2, SessionSafe, PTL DEF Spec, StreamImplemented, Stream!StreamSpec
=============================================================================
