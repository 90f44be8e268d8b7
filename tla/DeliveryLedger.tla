--------------------------- MODULE DeliveryLedger ---------------------------
(***************************************************************************)
(* The replay ledger of one resumable session (engine/session/reliability).*)
(* It numbers every output of the session, retains the outputs the client  *)
(* has not acknowledged, and hands them to the current attachment (one     *)
(* physical connection) through a bounded queue.  A new attachment fences  *)
(* the previous one and replays what is newer than the client's cursor.    *)
(*                                                                         *)
(* Every method body runs under one asyncio.Lock and never awaits inside   *)
(* it, so a method is one atomic step.  A method that raises before it has *)
(* assigned anything changes nothing and is not an action; one that raises *)
(* after it has (a full queue) is.  The sample range of an audio output    *)
(* is the one the session gave it from the same counter, so the checks     *)
(* publish() makes of the range never fire and are left out.               *)
(***************************************************************************)
EXTENDS Integers, Sequences

CONSTANTS
    QueueMax,        \* attachment_queue_maxsize
    BufferMax,       \* max_buffer_bytes, counted in retained deliveries
    SampleCounts,    \* sample counts one audio output may carry
    MaxDeliveries,   \* model bound: outputs ever published
    MaxAttachments   \* model bound: attachments ever made

ASSUME LedgerAssumption ==
    /\ QueueMax \in Nat \ {0}
    /\ BufferMax \in Nat \ {0}
    /\ SampleCounts \subseteq Nat
    /\ MaxDeliveries \in Nat
    /\ MaxAttachments \in Nat

VARIABLES
    records,               \* the retained deliveries, oldest first
    retained,              \* _retained_bytes, in deliveries
    next_delivery_seq,
    next_audio_sample,
    trimmed_through_seq,
    trimmed_audio_sample,
    acked_delivery_seq,
    acked_audio_sample,
    generation,            \* the number of attachments made so far
    attachment,            \* generation of the current attachment, 0 if none
    queues,                \* queues[g]: the bounded queue of attachment g
    handlers,              \* generations that attach() returned to a handler
    terminal,              \* a terminal output has been published
    terminal_acked,
    failure,               \* the replay window was exceeded
    publish_raised,        \* publish() has raised to the pump
    released               \* close() has dropped the retained deliveries

cursorVars == <<trimmed_through_seq, trimmed_audio_sample,
                acked_delivery_seq, acked_audio_sample>>
outputVars == <<next_delivery_seq, next_audio_sample, terminal>>
ledgerVars == <<records, retained, cursorVars, outputVars, generation,
                attachment, queues, handlers, terminal_acked, failure,
                publish_raised, released>>

Kinds == {"audio", "event", "terminal"}
Delivery == [kind: Kinds, seq: Nat, start: Nat, end: Nat]
NoDelivery(kind) == [kind |-> kind, seq |-> 0, start |-> 0, end |-> 0]
Fence == NoDelivery("fence")
Failure == NoDelivery("failure")
Message == Delivery \cup {Fence, Failure}

LedgerInit ==
    /\ records = <<>>
    /\ retained = 0
    /\ next_delivery_seq = 1
    /\ next_audio_sample = 0
    /\ trimmed_through_seq = 0
    /\ trimmed_audio_sample = 0
    /\ acked_delivery_seq = 0
    /\ acked_audio_sample = 0
    /\ generation = 0
    /\ attachment = 0
    /\ queues = <<>>
    /\ handlers = {}
    /\ terminal = FALSE
    /\ terminal_acked = FALSE
    /\ failure = FALSE
    /\ publish_raised = FALSE
    /\ released = FALSE

-----------------------------------------------------------------------------
(* The cursor a client presents when it resumes or acknowledges.           *)

ValidCursor(seq, sample) ==
    /\ seq <= next_delivery_seq - 1
    /\ sample <= next_audio_sample
    /\ seq >= trimmed_through_seq
    /\ sample >= trimmed_audio_sample
    /\ IF seq = trimmed_through_seq
       THEN sample = trimmed_audio_sample
       ELSE \E i \in 1..Len(records) :
                records[i].seq = seq /\ records[i].end = sample

IsCurrent(g) == attachment # 0 /\ attachment = g

HasRoom(g) == Len(queues[g]) < QueueMax

-----------------------------------------------------------------------------
(* attach(): what the new attachment replays, and when it raises.          *)

\* The retained deliveries newer than the cursor; the deque is consecutive
\* from trimmed_through_seq + 1 (RecordsConsecutive).
Replay(seq) ==
    SubSeq(records, seq - trimmed_through_seq + 1, Len(records))

\* The fence does not fit in the old queue, or the replay in the new one.
AttachRaises(seq) ==
    \/ attachment # 0 /\ ~HasRoom(attachment)
    \/ Len(Replay(seq)) > QueueMax

FenceQueue(g) ==
    IF g # 0 /\ HasRoom(g)
    THEN [queues EXCEPT ![g] = Append(@, Fence)]
    ELSE queues

\* The generation is bumped and the attachment replaced before the first put
\* can raise: a raising attach leaves an attachment that nobody reads.
LedgerAttach(seq, sample) ==
    LET fenced == attachment = 0 \/ HasRoom(attachment)
        fits   == IF Len(Replay(seq)) <= QueueMax THEN Len(Replay(seq)) ELSE QueueMax
    IN  /\ ~failure
        /\ ValidCursor(seq, sample)
        /\ generation < MaxAttachments
        /\ generation' = generation + 1
        /\ attachment' = generation + 1
        /\ queues' = Append(FenceQueue(attachment),
                            IF fenced THEN SubSeq(Replay(seq), 1, fits) ELSE <<>>)
        /\ handlers' = IF AttachRaises(seq) THEN handlers
                                            ELSE handlers \cup {generation + 1}
        /\ UNCHANGED <<records, retained, cursorVars, outputVars,
                       terminal_acked, failure, publish_raised, released>>

\* Forgets the generation check: a fenced handler detaches its successor.
DetachAny(g) ==
    /\ attachment # 0
    /\ attachment' = 0
    /\ UNCHANGED <<records, retained, cursorVars, outputVars, generation, queues,
                   handlers, terminal_acked, failure, publish_raised, released>>

LedgerDetach(g) ==
    /\ IsCurrent(g)
    /\ attachment' = 0
    /\ UNCHANGED <<records, retained, cursorVars, outputVars, generation, queues,
                   handlers, terminal_acked, failure, publish_raised, released>>

-----------------------------------------------------------------------------
(* publish()                                                               *)

PublishEnabled == ~terminal /\ next_delivery_seq <= MaxDeliveries

ExceedsBuffer == retained + 1 > BufferMax

\* The buffer would be exceeded: the failure is recorded and, room permitting,
\* told to the attachment; the output is not retained.
PublishExceedsBuffer ==
    /\ PublishEnabled
    /\ ExceedsBuffer
    /\ failure' = TRUE
    /\ publish_raised' = TRUE
    /\ queues' = IF attachment # 0 /\ HasRoom(attachment)
                 THEN [queues EXCEPT ![attachment] = Append(@, Failure)]
                 ELSE queues
    /\ UNCHANGED <<records, retained, cursorVars, outputVars, generation,
                   attachment, handlers, terminal_acked, released>>

\* The put into the attachment's queue raises; the record stays retained.
PublishRaises == attachment # 0 /\ ~HasRoom(attachment)

\* Retains only what no attachment is there to receive.
RetainWhenDetached(delivery) ==
    IF attachment = 0
    THEN records' = Append(records, delivery) /\ retained' = retained + 1
    ELSE UNCHANGED <<records, retained>>

Retain(delivery) ==
    records' = Append(records, delivery) /\ retained' = retained + 1

LedgerPublish(kind, n) ==
    LET delivery == [kind |-> kind, seq |-> next_delivery_seq,
                     start |-> next_audio_sample, end |-> next_audio_sample + n]
    IN  /\ PublishEnabled
        /\ ~ExceedsBuffer
        /\ Retain(delivery)
        /\ next_delivery_seq' = next_delivery_seq + 1
        /\ next_audio_sample' = delivery.end
        /\ terminal' = (terminal \/ kind = "terminal")
        /\ queues' = IF attachment # 0 /\ HasRoom(attachment)
                     THEN [queues EXCEPT ![attachment] = Append(@, delivery)]
                     ELSE queues
        /\ publish_raised' = PublishRaises
        /\ UNCHANGED <<cursorVars, generation, attachment, handlers,
                       terminal_acked, failure, released>>

-----------------------------------------------------------------------------
(* acknowledge(), terminal_ack(), close() and the reader of a queue.       *)

\* Trims the delivery after the acknowledged one as well.
TrimmableOneMore(r, seq, sample) == r.seq <= seq + 1

Trimmable(r, seq, sample) == r.seq <= seq /\ r.end <= sample

\* How many records the trimming loop pops from the left.
TrimCount(seq, sample) ==
    CHOOSE k \in 0..Len(records) :
        /\ \A i \in 1..k : Trimmable(records[i], seq, sample)
        /\ k < Len(records) => ~Trimmable(records[k+1], seq, sample)

Trim(k) ==
    /\ records' = SubSeq(records, k + 1, Len(records))
    /\ retained' = retained - k
    /\ trimmed_through_seq' = (IF k = 0 THEN trimmed_through_seq ELSE records[k].seq)
    /\ trimmed_audio_sample' = (IF k = 0 THEN trimmed_audio_sample ELSE records[k].end)

LedgerAcknowledge(g, seq, sample) ==
    /\ IsCurrent(g)
    /\ ~(seq <= acked_delivery_seq /\ sample <= acked_audio_sample)
    /\ ValidCursor(seq, sample)
    /\ seq >= acked_delivery_seq
    /\ sample >= acked_audio_sample
    /\ acked_delivery_seq' = seq
    /\ acked_audio_sample' = sample
    /\ Trim(TrimCount(seq, sample))
    /\ UNCHANGED <<outputVars, generation, attachment, queues, handlers,
                   terminal_acked, failure, publish_raised, released>>

LedgerTerminalAck(g) ==
    /\ IsCurrent(g)
    /\ terminal
    /\ terminal_acked' = TRUE
    /\ UNCHANGED <<records, retained, cursorVars, outputVars, generation,
                   attachment, queues, handlers, failure, publish_raised,
                   released>>

\* Never wakes the attachment.
LedgerCloseSilent(fence) ==
    /\ attachment' = 0
    /\ records' = <<>>
    /\ retained' = 0
    /\ released' = TRUE
    /\ UNCHANGED <<cursorVars, outputVars, generation, queues, handlers,
                   terminal_acked, failure, publish_raised>>

\* The fence does not fit: close() raises, with everything else done.
CloseRaises(fence) == fence /\ attachment # 0 /\ ~HasRoom(attachment)

LedgerClose(fence) ==
    /\ attachment' = 0
    /\ records' = <<>>
    /\ retained' = 0
    /\ released' = TRUE
    /\ queues' = IF fence THEN FenceQueue(attachment) ELSE queues
    /\ UNCHANGED <<cursorVars, outputVars, generation, handlers,
                   terminal_acked, failure, publish_raised>>

\* The transport handler of attachment g takes the next message to send.
Take(g) ==
    /\ queues[g] # <<>>
    /\ queues' = [queues EXCEPT ![g] = Tail(@)]
    /\ UNCHANGED <<records, retained, cursorVars, outputVars, generation,
                   attachment, handlers, terminal_acked, failure,
                   publish_raised, released>>

-----------------------------------------------------------------------------
(* The ledger on its own, called in any order by its owner and by the      *)
(* handlers of all the attachments it ever made.  The owner never attaches *)
(* after close() (ResumableLogicalSession._closed) and never publishes     *)
(* after publish() has raised (the loop of the pump has ended).            *)

LedgerNext ==
    \/ \E seq \in 0..MaxDeliveries, sample \in 0..next_audio_sample :
          \/ ~released /\ LedgerAttach(seq, sample)
          \/ \E g \in handlers : LedgerAcknowledge(g, seq, sample)
    \/ \E g \in handlers : LedgerDetach(g) \/ LedgerTerminalAck(g) \/ Take(g)
    \/ ~publish_raised /\ PublishExceedsBuffer
    \/ \E n \in SampleCounts : ~publish_raised /\ LedgerPublish("audio", n)
    \/ \E kind \in {"event", "terminal"} : ~publish_raised /\ LedgerPublish(kind, 0)
    \/ \E fence \in BOOLEAN : ~released /\ LedgerClose(fence)

LedgerSpec == LedgerInit /\ [][LedgerNext]_ledgerVars

-----------------------------------------------------------------------------
(* Properties.                                                             *)

RecordsTypeOK ==
    /\ records \in Seq(Delivery)
    /\ retained \in Nat
    /\ next_delivery_seq \in Nat \ {0}
    /\ next_audio_sample \in Nat
    /\ trimmed_through_seq \in Nat
    /\ trimmed_audio_sample \in Nat
    /\ acked_delivery_seq \in Nat
    /\ acked_audio_sample \in Nat

AttachmentsTypeOK ==
    /\ generation \in Nat
    /\ attachment \in 0..generation
    /\ queues \in Seq(Seq(Message))
    /\ Len(queues) = generation
    /\ handlers \subseteq 1..generation
    /\ \A g \in 1..generation : Len(queues[g]) <= QueueMax

FlagsTypeOK ==
    /\ terminal \in BOOLEAN
    /\ terminal_acked \in BOOLEAN
    /\ failure \in BOOLEAN
    /\ publish_raised \in BOOLEAN
    /\ released \in BOOLEAN

\* Every field of the ledger keeps its type; there is one queue for each
\* attachment ever made, none longer than attachment_queue_maxsize.
LedgerTypeOK == RecordsTypeOK /\ AttachmentsTypeOK /\ FlagsTypeOK

\* The retained deliveries are exactly those after the trimmed one, without a
\* gap, however publish() and acknowledge() interleave.
RecordsConsecutive ==
    ~released =>
        /\ Len(records) = next_delivery_seq - 1 - trimmed_through_seq
        /\ \A i \in 1..Len(records) : records[i].seq = trimmed_through_seq + i

\* Their sample ranges chain from the trimmed sample to the next sample to be
\* published, so a replayed stream has no audio gap and no overlap.
SamplesChain ==
    ~released =>
        /\ \A i \in 1..Len(records) :
              /\ records[i].start = (IF i = 1 THEN trimmed_audio_sample
                                              ELSE records[i-1].end)
              /\ records[i].start <= records[i].end
        /\ next_audio_sample = (IF records = <<>> THEN trimmed_audio_sample
                                                  ELSE records[Len(records)].end)

\* Nothing is dropped before it is acknowledged: trimming follows the
\* cumulative ACK exactly, in deliveries and in samples.
TrimFollowsAck ==
    /\ trimmed_through_seq = acked_delivery_seq
    /\ trimmed_audio_sample = acked_audio_sample

\* The byte accounting matches what is retained and stays within
\* max_buffer_bytes.
BufferAccounted ==
    retained = Len(records) /\ retained <= BufferMax

\* The replay window is exact, whatever order publish() and acknowledge() are
\* called in: it holds the deliveries after the acknowledged one, without a gap
\* in deliveries or in samples, and its size is accounted and bounded.
ReplayExact == RecordsConsecutive /\ SamplesChain /\ TrimFollowsAck /\ BufferAccounted

IsDelivery(m) == m.kind \in Kinds

\* What a handler can still take from the queue of one attachment is a
\* consecutive run of deliveries, possibly followed by a fence or a failure:
\* no delivery is skipped or repeated within an attachment, and none follows
\* the terminal one.
QueuesConsecutive ==
    \A g \in 1..generation :
        \A i \in 1..Len(queues[g]) - 1 :
            IsDelivery(queues[g][i+1]) =>
                /\ queues[g][i].kind \in Kinds \ {"terminal"}
                /\ queues[g][i+1].seq = queues[g][i].seq + 1
                /\ queues[g][i+1].start = queues[g][i].end
=============================================================================
