------------------------ MODULE DeliveryLedgerProofs ------------------------
(***************************************************************************)
(* Proofs about DeliveryLedger, for every queue size, buffer size and      *)
(* number of deliveries and attachments.                                   *)
(***************************************************************************)
EXTENDS DeliveryLedger, SequenceTheorems, TLAPS

USE LedgerAssumption

\* The sample positions at which the retained deliveries end never decrease,
\* and none ends before the trimmed sample.
EndsMonotone ==
    ~released =>
        /\ \A i \in 1..Len(records) : records[i].end >= trimmed_audio_sample
        /\ \A i, j \in 1..Len(records) : i <= j => records[i].end <= records[j].end

\* After close() nothing is attached.
ReleasedDetached == released => attachment = 0

\* The inductive invariant of the retained deliveries.
RecordsInv ==
    /\ LedgerTypeOK
    /\ RecordsConsecutive
    /\ SamplesChain
    /\ EndsMonotone
    /\ TrimFollowsAck
    /\ BufferAccounted
    /\ ReleasedDetached

-----------------------------------------------------------------------------
\* The steps are first-order reasoning unless they say otherwise; a leaf that needs
\* arithmetic, records or function updates cites SMT.
USE ZenonT(30)

\* The trimming loop of acknowledge() pops exactly the deliveries up to the
\* acknowledged one.
LEMMA TrimCountExact ==
    ASSUME RecordsInv, ~released,
           NEW seq \in Nat, NEW sample \in Nat,
           ValidCursor(seq, sample),
           ~(seq <= acked_delivery_seq /\ sample <= acked_audio_sample)
    PROVE  /\ seq - trimmed_through_seq \in 1..Len(records)
           /\ TrimCount(seq, sample) = seq - trimmed_through_seq
           /\ records[seq - trimmed_through_seq].seq = seq
           /\ records[seq - trimmed_through_seq].end = sample
<1> DEFINE k == seq - trimmed_through_seq
           P(n) == /\ \A i \in 1..n : Trimmable(records[i], seq, sample)
                   /\ n < Len(records) => ~Trimmable(records[n+1], seq, sample)
<1>1. seq # trimmed_through_seq
  BY DEF ValidCursor, RecordsInv, TrimFollowsAck, LedgerTypeOK, RecordsTypeOK
<1>2. PICK j \in 1..Len(records) : records[j].seq = seq /\ records[j].end = sample
  BY <1>1 DEF ValidCursor
<1>3. j = k /\ k \in 1..Len(records)
  BY SMTT(30), <1>2 DEF RecordsInv, RecordsConsecutive, LedgerTypeOK, RecordsTypeOK
<1>4. P(k)
  <2>1. ASSUME NEW i \in 1..k PROVE Trimmable(records[i], seq, sample)
    <3>1. i \in 1..Len(records) /\ i <= k /\ i <= seq - trimmed_through_seq
      BY SMTT(30), <1>3 DEF RecordsInv, LedgerTypeOK, RecordsTypeOK
    <3>2. records[i].end <= sample
      BY <1>2, <1>3, <3>1 DEF RecordsInv, EndsMonotone
    <3>3. records[i].seq = trimmed_through_seq + i
      BY <3>1 DEF RecordsInv, RecordsConsecutive
    <3> QED BY SMTT(30), <3>1, <3>2, <3>3 DEF Trimmable, RecordsInv, LedgerTypeOK, RecordsTypeOK
  <2>2. k < Len(records) => ~Trimmable(records[k+1], seq, sample)
    BY SMTT(30), <1>3 DEF Trimmable, RecordsInv, RecordsConsecutive, LedgerTypeOK, RecordsTypeOK
  <2> QED BY <2>1, <2>2
<1>5. ASSUME NEW n \in 0..Len(records), P(n) PROVE n = k
  <2>1. ~(n < k)
    <3>1. SUFFICES ASSUME n < k PROVE FALSE
      OBVIOUS
    <3>2. n + 1 \in 1..k /\ n < Len(records)
      BY SMTT(30), <1>3, <3>1 DEF RecordsInv, LedgerTypeOK, RecordsTypeOK
    <3> QED BY <1>4, <1>5, <3>2
  <2>2. ~(n > k)
    <3>1. SUFFICES ASSUME n > k PROVE FALSE
      OBVIOUS
    <3>2. k + 1 \in 1..n /\ k < Len(records)
      BY SMTT(30), <1>3, <3>1 DEF RecordsInv, LedgerTypeOK, RecordsTypeOK
    <3> QED BY <1>4, <1>5, <3>2
  <2> QED BY SMTT(30), <1>3, <2>1, <2>2 DEF RecordsInv, LedgerTypeOK, RecordsTypeOK
<1>6. k \in 0..Len(records)
  BY SMTT(30), <1>3
<1>7. TrimCount(seq, sample) = CHOOSE n \in 0..Len(records) : P(n)
  BY DEF TrimCount
<1>8. TrimCount(seq, sample) = k
  <2> HIDE DEF P, k
  <2> QED BY <1>4, <1>5, <1>6, <1>7
<1> QED BY <1>2, <1>3, <1>8

\* Every retained delivery has the fields of a delivery.
LEMMA RecordFields ==
    ASSUME RecordsInv, NEW i \in 1..Len(records)
    PROVE  /\ records[i] \in Delivery
           /\ records[i].seq \in Nat
           /\ records[i].start \in Nat
           /\ records[i].end \in Nat
<1>1. records \in Seq(Delivery)
  BY DEF RecordsInv, LedgerTypeOK, RecordsTypeOK
<1>2. records[i] \in Delivery
  BY <1>1, ElementOfSeq
<1> QED BY <1>2 DEF Delivery

\* Appending one message to a queue that has room keeps the queues' type.
LEMMA PutKeepsQueues ==
    ASSUME LedgerTypeOK, NEW g \in 1..generation, NEW m \in Message, HasRoom(g)
    PROVE  LET q == [queues EXCEPT ![g] = Append(queues[g], m)]
           IN  /\ q \in Seq(Seq(Message))
               /\ Len(q) = generation
               /\ \A h \in 1..generation : Len(q[h]) <= QueueMax
<1>1. queues[g] \in Seq(Message)
  BY ElementOfSeq DEF LedgerTypeOK, AttachmentsTypeOK
<1>2. /\ Append(queues[g], m) \in Seq(Message)
      /\ Len(Append(queues[g], m)) = Len(queues[g]) + 1
  BY SMTT(30), <1>1
<1>3. Len(queues[g]) + 1 <= QueueMax
  BY SMTT(30), <1>1 DEF HasRoom
<1> QED BY SMTT(30), <1>2, <1>3, ExceptSeq DEF LedgerTypeOK, AttachmentsTypeOK

\* The markers are messages.
LEMMA MarkersAreMessages == Fence \in Message /\ Failure \in Message
BY DEF Message

-----------------------------------------------------------------------------
\* Publishing keeps the retained deliveries consecutive and their samples
\* chained.
LEMMA PublishKeepsRecords ==
    ASSUME RecordsInv, NEW kind \in Kinds, NEW n \in Nat, LedgerPublish(kind, n)
    PROVE  RecordsInv'
<1> DEFINE d == [kind |-> kind, seq |-> next_delivery_seq,
                 start |-> next_audio_sample, end |-> next_audio_sample + n]
<1>1. d \in Delivery /\ d \in Message
  BY SMTT(30) DEF RecordsInv, LedgerTypeOK, RecordsTypeOK, Delivery, Message
<1>2. /\ records' = Append(records, d)
      /\ records' \in Seq(Delivery)
      /\ Len(records') = Len(records) + 1
      /\ records'[Len(records) + 1] = d
      /\ \A i \in 1..Len(records) : records'[i] = records[i]
      /\ Len(records) \in Nat
  <2>1. records \in Seq(Delivery)
    BY DEF RecordsInv, LedgerTypeOK, RecordsTypeOK
  <2>2. records' = Append(records, d)
    BY DEF LedgerPublish, Retain
  <2> HIDE DEF d
  <2> QED BY SMTT(30), <1>1, <2>1, <2>2, AppendProperties, LenProperties
<1>3. /\ d.seq = next_delivery_seq
      /\ d.start = next_audio_sample
      /\ d.end = next_audio_sample + n
  OBVIOUS
<1>4. /\ released' = released
      /\ retained' = retained + 1 /\ retained' <= BufferMax
      /\ next_delivery_seq' = next_delivery_seq + 1
      /\ next_audio_sample' = next_audio_sample + n
      /\ UNCHANGED <<trimmed_through_seq, trimmed_audio_sample,
                     acked_delivery_seq, acked_audio_sample, generation,
                     attachment, handlers, terminal_acked, failure>>
  BY SMTT(30) DEF LedgerPublish, PublishEnabled, ExceedsBuffer, Retain, cursorVars,
         RecordsInv, LedgerTypeOK, RecordsTypeOK
<1>5. LedgerTypeOK'
  <2>1. AttachmentsTypeOK'
    <3>1. CASE attachment # 0 /\ HasRoom(attachment)
      <4>1. attachment \in 1..generation
        BY SMTT(30), <3>1 DEF RecordsInv, LedgerTypeOK, AttachmentsTypeOK
      <4>2. queues' = [queues EXCEPT ![attachment] = Append(queues[attachment], d)]
        BY <3>1 DEF LedgerPublish
      <4> HIDE DEF d
      <4>3. /\ queues' \in Seq(Seq(Message)) /\ Len(queues') = generation
            /\ \A h \in 1..generation : Len(queues'[h]) <= QueueMax
        BY <1>1, <3>1, <4>1, <4>2, PutKeepsQueues DEF RecordsInv
      <4> QED BY <1>4, <4>3 DEF RecordsInv, LedgerTypeOK, AttachmentsTypeOK
    <3>2. CASE ~(attachment # 0 /\ HasRoom(attachment))
      <4>1. queues' = queues
        BY <3>2 DEF LedgerPublish
      <4> QED BY <1>4, <4>1 DEF RecordsInv, LedgerTypeOK, AttachmentsTypeOK
    <3> QED BY <3>1, <3>2
  <2>2. FlagsTypeOK'
    <3>1. publish_raised' \in BOOLEAN /\ terminal' \in BOOLEAN
      BY DEF LedgerPublish, PublishRaises, RecordsInv, LedgerTypeOK, FlagsTypeOK
    <3> QED BY <1>4, <3>1 DEF RecordsInv, LedgerTypeOK, FlagsTypeOK
  <2> HIDE DEF d
  <2>3. RecordsTypeOK'
    BY SMTT(30), <1>2, <1>4 DEF RecordsInv, LedgerTypeOK, RecordsTypeOK
  <2> QED BY <2>1, <2>2, <2>3 DEF LedgerTypeOK
<1> HIDE DEF d
<1>6. ASSUME ~released PROVE RecordsConsecutive'
  <2>1. Len(records') = next_delivery_seq' - 1 - trimmed_through_seq'
    <3>1. /\ Len(records) = next_delivery_seq - 1 - trimmed_through_seq
          /\ next_delivery_seq \in Nat /\ trimmed_through_seq \in Nat
      BY <1>4, <1>6 DEF RecordsInv, RecordsConsecutive, LedgerTypeOK, RecordsTypeOK
    <3> QED BY ONLY SMTT(30), <1>2, <1>4, <1>6, <3>1
  <2>2. ASSUME NEW i \in 1..Len(records')
        PROVE  records'[i].seq = trimmed_through_seq' + i
    <3>1. CASE i = Len(records) + 1
      BY SMTT(30), <1>2, <1>3, <1>4, <1>6, <3>1 DEF RecordsInv, RecordsConsecutive, LedgerTypeOK, RecordsTypeOK
    <3>2. CASE i # Len(records) + 1
      <4>1. i \in 1..Len(records)
        BY SMTT(30), <1>2, <3>2
      <4> QED BY <1>2, <1>4, <1>6, <4>1 DEF RecordsInv, RecordsConsecutive
    <3> QED BY <3>1, <3>2
  <2> QED BY <2>1, <2>2 DEF RecordsConsecutive
<1>7. ASSUME ~released PROVE SamplesChain'
  <2>1. ASSUME NEW i \in 1..Len(records')
        PROVE  /\ records'[i].start = IF i = 1 THEN trimmed_audio_sample'
                                                ELSE records'[i-1].end
               /\ records'[i].start <= records'[i].end
    <3>1. CASE i = Len(records) + 1
      BY SMTT(30), <1>2, <1>3, <1>4, <1>7, <3>1 DEF RecordsInv, SamplesChain, LedgerTypeOK, RecordsTypeOK
    <3>2. CASE i # Len(records) + 1
      <4>1. i \in 1..Len(records) /\ (i # 1 => i - 1 \in 1..Len(records))
        BY SMTT(30), <1>2, <3>2
      <4> QED BY <1>2, <1>4, <1>7, <4>1 DEF RecordsInv, SamplesChain
    <3> QED BY <3>1, <3>2
  <2>2. records' # <<>> /\ next_audio_sample' = records'[Len(records')].end
    BY SMTT(30), <1>2, <1>3, <1>4, <1>7
  <2> QED BY <2>1, <2>2 DEF SamplesChain
<1>8. ASSUME ~released PROVE EndsMonotone'
  <2>1. next_audio_sample >= trimmed_audio_sample
    BY SMTT(30), <1>2, <1>4, <1>8 DEF RecordsInv, SamplesChain, EndsMonotone, LedgerTypeOK, RecordsTypeOK
  <2>2. \A i \in 1..Len(records) : records[i].end <= next_audio_sample
    BY SMTT(30), <1>2, <1>4, <1>8 DEF RecordsInv, SamplesChain, EndsMonotone
  <2>3. ASSUME NEW i \in 1..Len(records'), NEW j \in 1..Len(records'), i <= j
        PROVE  records'[i].end <= records'[j].end
    <3>1. CASE j = Len(records) + 1
      <4>1. CASE i = j
        BY SMTT(30), <1>2, <1>3, <3>1, <4>1 DEF RecordsInv, LedgerTypeOK, RecordsTypeOK
      <4>2. CASE i # j
        <5>1. i \in 1..Len(records)
          BY SMTT(30), <1>2, <2>3, <3>1, <4>2
        <5>2. records[i].end \in Nat
          BY <5>1, RecordFields
        <5> QED BY SMTT(30), <1>2, <1>3, <2>2, <3>1, <5>1, <5>2 DEF RecordsInv, LedgerTypeOK, RecordsTypeOK
      <4> QED BY <4>1, <4>2
    <3>2. CASE j # Len(records) + 1
      <4>1. i \in 1..Len(records) /\ j \in 1..Len(records)
        BY SMTT(30), <1>2, <2>3, <3>2
      <4> QED BY <1>2, <1>4, <1>8, <2>3, <4>1 DEF RecordsInv, EndsMonotone
    <3> QED BY <3>1, <3>2
  <2>4. ASSUME NEW i \in 1..Len(records')
        PROVE  records'[i].end >= trimmed_audio_sample'
    BY SMTT(30), <1>2, <1>3, <1>4, <1>8, <2>1 DEF RecordsInv, EndsMonotone, LedgerTypeOK, RecordsTypeOK
  <2> QED BY <2>3, <2>4 DEF EndsMonotone
<1>9. TrimFollowsAck' /\ BufferAccounted' /\ ReleasedDetached'
  BY <1>2, <1>4 DEF RecordsInv, TrimFollowsAck, BufferAccounted,
                    ReleasedDetached, LedgerTypeOK, RecordsTypeOK
<1>10. ASSUME released PROVE RecordsConsecutive' /\ SamplesChain' /\ EndsMonotone'
  BY <1>4, <1>10 DEF RecordsConsecutive, SamplesChain, EndsMonotone
<1> QED BY <1>5, <1>6, <1>7, <1>8, <1>9, <1>10 DEF RecordsInv

\* Dropping the first k elements of a sequence shifts the others by k.
LEMMA DropPrefix ==
    ASSUME NEW S, NEW s \in Seq(S), NEW k \in 1..Len(s)
    PROVE  LET t == SubSeq(s, k + 1, Len(s))
           IN  /\ t \in Seq(S)
               /\ Len(t) = Len(s) - k
               /\ \A i \in 1..Len(t) : t[i] = s[k + i]
               /\ Len(s) \in Nat
<1>1. Len(s) \in Nat /\ k \in Nat
  BY SMTT(30), LenProperties
<1>2. \A i \in k+1..Len(s) : s[i] \in S
  BY SMTT(30), <1>1, ElementOfSeq
<1>3. SubSeq(s, k + 1, Len(s)) \in Seq(S)
  BY SMTT(30), <1>1, <1>2, SubSeqProperties
<1>4. Len(SubSeq(s, k + 1, Len(s))) = Len(s) - k
  BY SMTT(30), <1>1
<1>5. \A i \in 1..Len(s) - k : SubSeq(s, k + 1, Len(s))[i] = s[k + i]
  BY SMTT(30), <1>1
<1> QED BY <1>1, <1>3, <1>4, <1>5

\* Acknowledging drops a prefix of the retained deliveries and nothing else.
LEMMA AcknowledgeKeepsRecords ==
    ASSUME RecordsInv, NEW g, NEW seq \in Nat, NEW sample \in Nat,
           LedgerAcknowledge(g, seq, sample)
    PROVE  RecordsInv'
<1> DEFINE k == seq - trimmed_through_seq
<1>0. ~released
  BY DEF LedgerAcknowledge, IsCurrent, RecordsInv, ReleasedDetached
<1>1. /\ k \in 1..Len(records)
      /\ TrimCount(seq, sample) = k
      /\ records[k].seq = seq
      /\ records[k].end = sample
  BY <1>0, TrimCountExact DEF LedgerAcknowledge
<1> HIDE DEF k
<1>2. /\ records' = SubSeq(records, k + 1, Len(records))
      /\ retained' = retained - k
      /\ trimmed_through_seq' = seq
      /\ trimmed_audio_sample' = sample
  BY SMTT(30), <1>1 DEF LedgerAcknowledge, Trim
<1>3. /\ records' \in Seq(Delivery)
      /\ Len(records') = Len(records) - k
      /\ \A i \in 1..Len(records') : records'[i] = records[k + i]
      /\ Len(records) \in Nat
  <2>1. records \in Seq(Delivery)
    BY DEF RecordsInv, LedgerTypeOK, RecordsTypeOK
  <2> QED BY <1>1, <1>2, <2>1, DropPrefix
<1>10. /\ acked_delivery_seq' = seq /\ acked_audio_sample' = sample
       /\ UNCHANGED <<next_delivery_seq, next_audio_sample, terminal, generation,
                      attachment, queues, handlers, terminal_acked, failure,
                      publish_raised, released>>
  BY DEF LedgerAcknowledge, outputVars
<1>4. LedgerTypeOK'
  <2>1. RecordsTypeOK'
    <3>1. retained' \in Nat
      BY SMTT(30), <1>1, <1>2, <1>3 DEF RecordsInv, BufferAccounted
    <3> QED BY <1>2, <1>3, <1>10, <3>1 DEF RecordsInv, LedgerTypeOK, RecordsTypeOK
  <2>2. AttachmentsTypeOK'
    BY <1>10 DEF RecordsInv, LedgerTypeOK, AttachmentsTypeOK
  <2>3. FlagsTypeOK'
    BY <1>10 DEF RecordsInv, LedgerTypeOK, FlagsTypeOK
  <2> QED BY <2>1, <2>2, <2>3 DEF LedgerTypeOK
<1>5. RecordsConsecutive'
  <2>1. /\ Len(records) = next_delivery_seq - 1 - trimmed_through_seq
        /\ \A i \in 1..Len(records) : records[i].seq = trimmed_through_seq + i
        /\ next_delivery_seq \in Nat /\ trimmed_through_seq \in Nat
    BY <1>0 DEF RecordsInv, RecordsConsecutive, LedgerTypeOK, RecordsTypeOK
  <2>2. seq = trimmed_through_seq + k
    BY <1>1, <2>1
  <2>3. Len(records') = next_delivery_seq' - 1 - trimmed_through_seq'
    BY ONLY SMTT(30), <1>1, <1>2, <1>3, <1>10, <2>1, <2>2
  <2>4. ASSUME NEW i \in 1..Len(records') PROVE records'[i].seq = trimmed_through_seq' + i
    <3>1. records'[i] = records[k + i]
      BY <1>3, <2>4
    <3>2. k + i \in 1..Len(records)
      BY ONLY SMTT(30), <1>1, <1>3, <2>4
    <3>3. records[k + i].seq = trimmed_through_seq + (k + i)
      BY <2>1, <3>2
    <3>4. trimmed_through_seq + (k + i) = seq + i
      BY ONLY SMTT(30), <1>1, <1>3, <2>1, <2>2, <2>4
    <3> QED BY <1>2, <3>1, <3>3, <3>4
  <2> QED BY <2>3, <2>4 DEF RecordsConsecutive
<1>6. SamplesChain'
  <2>1. ASSUME NEW i \in 1..Len(records')
        PROVE  /\ records'[i].start = IF i = 1 THEN trimmed_audio_sample'
                                                ELSE records'[i-1].end
               /\ records'[i].start <= records'[i].end
    <3>1. k + i \in 1..Len(records) /\ k + i # 1 /\ records'[i] = records[k + i]
      BY SMTT(30), <1>1, <1>3
    <3>2. /\ records[k + i].start = records[(k + i) - 1].end
          /\ records[k + i].start <= records[k + i].end
      BY <1>0, <3>1 DEF RecordsInv, SamplesChain
    <3>3. CASE i = 1
      BY SMTT(30), <1>1, <1>2, <3>1, <3>2, <3>3
    <3>4. CASE i # 1
      <4>1. records'[i-1] = records[(k + i) - 1]
        <5>1. i - 1 \in 1..Len(records')
          BY SMTT(30), <1>1, <1>3, <3>4
        <5> QED BY SMTT(30), <1>1, <1>3, <5>1
      <4> QED BY <3>1, <3>2, <3>4, <4>1
    <3> QED BY <3>3, <3>4
  <2>2. next_audio_sample' = IF records' = <<>> THEN trimmed_audio_sample'
                                              ELSE records'[Len(records')].end
    <3>1. next_audio_sample = records[Len(records)].end
      BY SMTT(30), <1>0, <1>1 DEF RecordsInv, SamplesChain, LedgerTypeOK, RecordsTypeOK
    <3>2. CASE records' = <<>>
      <4>1. k = Len(records)
        BY SMTT(30), <1>1, <1>3, <3>2
      <4> QED BY <1>1, <1>2, <1>10, <3>1, <3>2, <4>1
    <3>3. CASE records' # <<>>
      <4>1. Len(records') \in 1..Len(records') /\ k + Len(records') = Len(records)
        BY SMTT(30), <1>1, <1>3, <3>3, EmptySeq
      <4> QED BY <1>3, <1>10, <3>1, <3>3, <4>1
    <3> QED BY <3>2, <3>3
  <2> QED BY <2>1, <2>2 DEF SamplesChain
<1>7. EndsMonotone'
  <2>1. \A i \in 1..Len(records') : k + i \in 1..Len(records)
    BY SMTT(30), <1>1, <1>3
  <2>2. ASSUME NEW i \in 1..Len(records'), NEW j \in 1..Len(records'), i <= j
        PROVE  records'[i].end <= records'[j].end
    <3>1. k + i <= k + j
      BY SMTT(30), <1>1, <1>3, <2>2
    <3> QED BY <1>0, <1>3, <2>1, <3>1 DEF RecordsInv, EndsMonotone
  <2>3. ASSUME NEW i \in 1..Len(records')
        PROVE  records'[i].end >= sample
    <3>1. k <= k + i
      BY SMTT(30), <1>1, <1>3
    <3>2. records[k].end <= records[k + i].end
      BY <1>0, <1>1, <2>1, <3>1 DEF RecordsInv, EndsMonotone
    <3>3. records[k + i].end \in Nat
      BY <2>1, RecordFields
    <3> QED BY <1>1, <1>3, <3>2, <3>3
  <2> QED BY <1>2, <2>2, <2>3 DEF EndsMonotone
<1>8. TrimFollowsAck' /\ BufferAccounted' /\ ReleasedDetached'
  BY SMTT(30), <1>1, <1>2, <1>3 DEF LedgerAcknowledge, RecordsInv, TrimFollowsAck,
              BufferAccounted, ReleasedDetached, LedgerTypeOK, RecordsTypeOK
<1> QED BY <1>4, <1>5, <1>6, <1>7, <1>8 DEF RecordsInv

-----------------------------------------------------------------------------
(* The steps that leave the retained deliveries alone.                     *)

\* A step that changes neither the deliveries nor the cursors keeps every part
\* of the invariant but the type of the queues and the attachment.
LEMMA RecordsUntouched ==
    ASSUME RecordsInv, LedgerTypeOK', ReleasedDetached',
           UNCHANGED <<records, retained, cursorVars, outputVars, released>>
    PROVE  RecordsInv'
BY DEF RecordsInv, RecordsConsecutive, SamplesChain, EndsMonotone, TrimFollowsAck,
       BufferAccounted, cursorVars, outputVars

\* The same for the types of the fields.
LEMMA PartsUntouched ==
    ASSUME RecordsInv, AttachmentsTypeOK',
           UNCHANGED <<records, retained, cursorVars, outputVars, terminal_acked,
                       failure, publish_raised, released>>
    PROVE  LedgerTypeOK'
<1>1. RecordsTypeOK'
  BY DEF RecordsInv, LedgerTypeOK, RecordsTypeOK, cursorVars, outputVars
<1>2. FlagsTypeOK'
  BY DEF RecordsInv, LedgerTypeOK, FlagsTypeOK, outputVars
<1> QED BY <1>1, <1>2 DEF LedgerTypeOK

\* Fencing keeps the queues' type.
LEMMA FenceKeepsQueues ==
    ASSUME LedgerTypeOK
    PROVE  /\ FenceQueue(attachment) \in Seq(Seq(Message))
           /\ Len(FenceQueue(attachment)) = generation
           /\ \A h \in 1..generation : Len(FenceQueue(attachment)[h]) <= QueueMax
<1>1. CASE attachment # 0 /\ HasRoom(attachment)
  <2>1. attachment \in 1..generation
    BY SMTT(30), <1>1 DEF LedgerTypeOK, AttachmentsTypeOK
  <2>2. FenceQueue(attachment) = [queues EXCEPT ![attachment] = Append(queues[attachment], Fence)]
    BY <1>1 DEF FenceQueue
  <2> QED BY SMTT(30), <1>1, <2>1, <2>2, PutKeepsQueues, MarkersAreMessages
<1>2. CASE ~(attachment # 0 /\ HasRoom(attachment))
  BY <1>2 DEF FenceQueue, LedgerTypeOK, AttachmentsTypeOK
<1> QED BY <1>1, <1>2

\* Attaching fences the old queue and fills the new one with the replay.
LEMMA AttachKeepsRecords ==
    ASSUME RecordsInv, ~released, NEW seq \in Nat, NEW sample \in Nat,
           LedgerAttach(seq, sample)
    PROVE  RecordsInv'
<1> DEFINE r == Replay(seq)
           fits == IF Len(r) <= QueueMax THEN Len(r) ELSE QueueMax
           new == IF attachment = 0 \/ HasRoom(attachment)
                  THEN SubSeq(r, 1, fits) ELSE <<>>
           f == FenceQueue(attachment)
<1>1. /\ records \in Seq(Delivery) /\ Len(records) \in Nat
      /\ seq - trimmed_through_seq + 1 \in Nat \ {0}
  BY SMTT(30), LenProperties DEF RecordsInv, LedgerTypeOK, RecordsTypeOK, LedgerAttach, ValidCursor
<1>2. r \in Seq(Delivery) /\ Len(r) \in Nat
  <2>1. seq - trimmed_through_seq + 1 \in 1..Len(records) + 1
    <3>1. ~released /\ seq <= next_delivery_seq - 1
      BY DEF LedgerAttach, ValidCursor
    <3>2. /\ Len(records) = next_delivery_seq - 1 - trimmed_through_seq
          /\ next_delivery_seq \in Nat /\ trimmed_through_seq \in Nat
      BY <3>1 DEF RecordsInv, RecordsConsecutive, LedgerTypeOK, RecordsTypeOK
    <3> QED BY SMTT(30), <1>1, <3>1, <3>2
  <2>2. \A i \in seq - trimmed_through_seq + 1 .. Len(records) : records[i] \in Delivery
    BY SMTT(30), <1>1, <2>1, ElementOfSeq
  <2> QED BY SMTT(30), <1>1, <2>1, <2>2, SubSeqProperties, LenProperties DEF Replay
<1>3. new \in Seq(Message) /\ Len(new) <= QueueMax
  <2>1. fits \in 0..Len(r) /\ fits <= QueueMax
    BY SMTT(30), <1>2
  <2> HIDE DEF r, fits
  <2>2. \A i \in 1..fits : r[i] \in Message
    BY SMTT(30), <1>2, <2>1, ElementOfSeq DEF Message
  <2>3. SubSeq(r, 1, fits) \in Seq(Message) /\ Len(SubSeq(r, 1, fits)) = fits
    BY SMTT(30), <1>2, <2>1, <2>2
  <2> QED BY SMTT(30), <2>1, <2>3
<1>4. /\ f \in Seq(Seq(Message)) /\ Len(f) = generation
      /\ \A h \in 1..generation : Len(f[h]) <= QueueMax
  BY FenceKeepsQueues DEF RecordsInv
<1>5. /\ queues' = Append(f, new)
      /\ generation' = generation + 1 /\ attachment' = generation + 1
      /\ handlers' \subseteq handlers \cup {generation + 1}
      /\ UNCHANGED <<records, retained, cursorVars, outputVars, terminal_acked,
                     failure, publish_raised, released>>
      /\ ~released
  BY DEF LedgerAttach
<1> HIDE DEF new, f
<1>6. /\ queues' \in Seq(Seq(Message)) /\ Len(queues') = generation + 1
      /\ \A h \in 1..generation + 1 : Len(queues'[h]) <= QueueMax
  <2>1. /\ queues' \in Seq(Seq(Message)) /\ Len(queues') = generation + 1
        /\ queues'[generation + 1] = new
        /\ \A h \in 1..generation : queues'[h] = f[h]
    BY SMTT(30), <1>3, <1>4, <1>5, AppendProperties
  <2>2. ASSUME NEW h \in 1..generation + 1 PROVE Len(queues'[h]) <= QueueMax
    <3>1. CASE h = generation + 1
      BY <1>3, <2>1, <3>1
    <3>2. CASE h # generation + 1
      <4>1. h \in 1..generation
        BY SMTT(30), <3>2 DEF RecordsInv, LedgerTypeOK, AttachmentsTypeOK
      <4> QED BY <1>4, <2>1, <4>1
    <3> QED BY <3>1, <3>2
  <2> QED BY <2>1, <2>2
<1>7. LedgerTypeOK'
  <2>1. AttachmentsTypeOK'
    BY SMTT(30), <1>5, <1>6 DEF RecordsInv, LedgerTypeOK, AttachmentsTypeOK
  <2> QED BY <1>5, <2>1, PartsUntouched
<1>8. ReleasedDetached'
  BY <1>5 DEF ReleasedDetached
<1> QED BY <1>5, <1>7, <1>8, RecordsUntouched

\* A buffer overflow only records the failure and tells the attachment.
LEMMA ExceedKeepsRecords ==
    ASSUME RecordsInv, PublishExceedsBuffer
    PROVE  RecordsInv'
<1>1. /\ queues' \in Seq(Seq(Message)) /\ Len(queues') = generation
      /\ \A h \in 1..generation : Len(queues'[h]) <= QueueMax
  <2>1. CASE attachment # 0 /\ HasRoom(attachment)
    <3>1. attachment \in 1..generation
      BY SMTT(30), <2>1 DEF RecordsInv, LedgerTypeOK, AttachmentsTypeOK
    <3>2. queues' = [queues EXCEPT ![attachment] = Append(queues[attachment], Failure)]
      BY <2>1 DEF PublishExceedsBuffer
    <3> QED BY <2>1, <3>1, <3>2, PutKeepsQueues, MarkersAreMessages DEF RecordsInv
  <2>2. CASE ~(attachment # 0 /\ HasRoom(attachment))
    BY <2>2 DEF PublishExceedsBuffer, RecordsInv, LedgerTypeOK, AttachmentsTypeOK
  <2> QED BY <2>1, <2>2
<1>2. LedgerTypeOK'
  <2>1. AttachmentsTypeOK'
    BY <1>1 DEF PublishExceedsBuffer, RecordsInv, LedgerTypeOK, AttachmentsTypeOK
  <2>2. RecordsTypeOK'
    BY DEF PublishExceedsBuffer, RecordsInv, LedgerTypeOK, RecordsTypeOK,
           cursorVars, outputVars
  <2>3. FlagsTypeOK'
    BY DEF PublishExceedsBuffer, RecordsInv, LedgerTypeOK, FlagsTypeOK, outputVars
  <2> QED BY <2>1, <2>2, <2>3 DEF LedgerTypeOK
<1>3. ReleasedDetached'
  BY DEF PublishExceedsBuffer, RecordsInv, ReleasedDetached
<1> QED BY <1>2, <1>3, RecordsUntouched DEF PublishExceedsBuffer

\* close() drops the deliveries and the attachment together.
LEMMA CloseKeepsRecords ==
    ASSUME RecordsInv, NEW fence \in BOOLEAN, LedgerClose(fence)
    PROVE  RecordsInv'
<1>1. /\ queues' \in Seq(Seq(Message)) /\ Len(queues') = generation
      /\ \A h \in 1..generation : Len(queues'[h]) <= QueueMax
  BY FenceKeepsQueues DEF LedgerClose, RecordsInv, LedgerTypeOK, AttachmentsTypeOK
<1>2. records' = <<>> /\ records' \in Seq(Delivery) /\ Len(records') = 0
  BY EmptySeq DEF LedgerClose
<1>3. LedgerTypeOK'
  <2>1. AttachmentsTypeOK'
    BY SMTT(30), <1>1 DEF LedgerClose, RecordsInv, LedgerTypeOK, AttachmentsTypeOK
  <2>2. RecordsTypeOK'
    BY <1>2 DEF LedgerClose, RecordsInv, LedgerTypeOK, RecordsTypeOK, cursorVars,
                outputVars
  <2>3. FlagsTypeOK'
    BY DEF LedgerClose, RecordsInv, LedgerTypeOK, FlagsTypeOK, outputVars
  <2> QED BY <2>1, <2>2, <2>3 DEF LedgerTypeOK
<1> QED BY SMTT(30), <1>2, <1>3 DEF LedgerClose, RecordsInv, RecordsConsecutive, SamplesChain,
           EndsMonotone, TrimFollowsAck, BufferAccounted, ReleasedDetached, cursorVars

\* Taking a message only shortens one queue.
LEMMA TakeKeepsRecords ==
    ASSUME RecordsInv, NEW g \in handlers, Take(g)
    PROVE  RecordsInv'
<1>1. g \in 1..generation /\ g \in 1..Len(queues) /\ queues[g] \in Seq(Message)
  BY ElementOfSeq DEF RecordsInv, LedgerTypeOK, AttachmentsTypeOK
<1>2. Tail(queues[g]) \in Seq(Message) /\ Len(Tail(queues[g])) = Len(queues[g]) - 1
  BY <1>1, HeadTailProperties DEF Take
<1>3. queues' = [queues EXCEPT ![g] = Tail(queues[g])]
  BY DEF Take
<1>4. Len(queues[g]) \in Nat /\ Len(queues[g]) <= QueueMax
  BY <1>1, LenProperties DEF RecordsInv, LedgerTypeOK, AttachmentsTypeOK
<1>5. /\ queues' \in Seq(Seq(Message)) /\ Len(queues') = generation
      /\ \A h \in 1..generation : Len(queues'[h]) <= QueueMax
  BY SMTT(30), <1>1, <1>2, <1>3, <1>4, ExceptSeq DEF RecordsInv, LedgerTypeOK, AttachmentsTypeOK
<1>6. LedgerTypeOK'
  <2>1. AttachmentsTypeOK'
    BY <1>5 DEF Take, RecordsInv, LedgerTypeOK, AttachmentsTypeOK
  <2> QED BY <2>1, PartsUntouched DEF Take
<1>7. ReleasedDetached'
  BY DEF Take, RecordsInv, ReleasedDetached
<1> QED BY <1>6, <1>7, RecordsUntouched DEF Take

-----------------------------------------------------------------------------
\* Every step of the ledger keeps the retained deliveries exact.
LEMMA RecordsStep == RecordsInv /\ [LedgerNext]_ledgerVars => RecordsInv'
<1> SUFFICES ASSUME RecordsInv, [LedgerNext]_ledgerVars PROVE RecordsInv'
  OBVIOUS
<1>1. CASE UNCHANGED ledgerVars
  <2>1. AttachmentsTypeOK' /\ ReleasedDetached'
    BY <1>1 DEF RecordsInv, LedgerTypeOK, AttachmentsTypeOK, ReleasedDetached,
                ledgerVars
  <2> QED BY <1>1, <2>1, RecordsUntouched, PartsUntouched DEF ledgerVars
<1>2. ASSUME NEW seq \in 0..MaxDeliveries, NEW sample \in 0..next_audio_sample,
             \/ ~released /\ LedgerAttach(seq, sample)
             \/ \E g \in handlers : LedgerAcknowledge(g, seq, sample)
      PROVE  RecordsInv'
  <2>1. seq \in Nat /\ sample \in Nat
    BY SMTT(30) DEF RecordsInv, LedgerTypeOK, AttachmentsTypeOK
  <2> QED BY <1>2, <2>1, AttachKeepsRecords, AcknowledgeKeepsRecords
<1>3. ASSUME NEW g \in handlers, LedgerDetach(g) PROVE RecordsInv'
  <2>1. AttachmentsTypeOK' /\ ReleasedDetached'
    BY SMTT(30), <1>3 DEF LedgerDetach, RecordsInv, LedgerTypeOK, AttachmentsTypeOK,
                ReleasedDetached
  <2> QED BY <1>3, <2>1, RecordsUntouched, PartsUntouched DEF LedgerDetach
<1>4. ASSUME NEW g \in handlers, LedgerTerminalAck(g) PROVE RecordsInv'
  <2>1. AttachmentsTypeOK' /\ ReleasedDetached'
    BY <1>4 DEF LedgerTerminalAck, RecordsInv, LedgerTypeOK, AttachmentsTypeOK,
                ReleasedDetached
  <2>2. RecordsTypeOK'
    BY <1>4 DEF LedgerTerminalAck, RecordsInv, LedgerTypeOK, RecordsTypeOK,
                cursorVars, outputVars
  <2>3. FlagsTypeOK'
    BY <1>4 DEF LedgerTerminalAck, RecordsInv, LedgerTypeOK, FlagsTypeOK, outputVars
  <2>4. LedgerTypeOK'
    BY <2>1, <2>2, <2>3 DEF LedgerTypeOK
  <2> QED BY <1>4, <2>1, <2>4, RecordsUntouched DEF LedgerTerminalAck
<1>5. ASSUME NEW g \in handlers, Take(g) PROVE RecordsInv'
  BY <1>5, TakeKeepsRecords
<1>6. CASE PublishExceedsBuffer
  BY <1>6, ExceedKeepsRecords
<1>7. ASSUME NEW n \in SampleCounts, LedgerPublish("audio", n) PROVE RecordsInv'
  BY <1>7, PublishKeepsRecords DEF Kinds
<1>8. ASSUME NEW kind \in {"event", "terminal"}, LedgerPublish(kind, 0)
      PROVE  RecordsInv'
  BY <1>8, PublishKeepsRecords DEF Kinds
<1>9. ASSUME NEW fence \in BOOLEAN, LedgerClose(fence) PROVE RecordsInv'
  BY <1>9, CloseKeepsRecords
<1> QED BY <1>1, <1>2, <1>3, <1>4, <1>5, <1>6, <1>7, <1>8, <1>9 DEF LedgerNext

\* A new ledger retains nothing.
LEMMA RecordsInit == LedgerInit => RecordsInv
<1> SUFFICES ASSUME LedgerInit PROVE RecordsInv
  OBVIOUS
<1>1. /\ records \in Seq(Delivery) /\ Len(records) = 0
      /\ queues \in Seq(Seq(Message)) /\ Len(queues) = 0
  BY EmptySeq DEF LedgerInit
<1>2. LedgerTypeOK
  <2>1. FlagsTypeOK
    BY DEF LedgerInit, FlagsTypeOK
  <2>2. AttachmentsTypeOK
    BY SMTT(30), <1>1 DEF LedgerInit, AttachmentsTypeOK
  <2>3. RecordsTypeOK
    BY SMTT(30), <1>1 DEF LedgerInit, RecordsTypeOK
  <2> QED BY <2>1, <2>2, <2>3 DEF LedgerTypeOK
<1> QED BY SMTT(30), <1>1, <1>2 DEF LedgerInit, RecordsInv, RecordsConsecutive,
   SamplesChain, EndsMonotone, TrimFollowsAck, BufferAccounted, ReleasedDetached

\* In every state the ledger can reach, the retained deliveries are consecutive
\* and chained, trimmed exactly to the acknowledged cursor, and within the
\* buffer.
THEOREM RecordsSafe == LedgerSpec => []RecordsInv
BY RecordsInit, RecordsStep, PTL DEF LedgerSpec

\* Every field of the ledger keeps its type and no queue outgrows its bound.
THEOREM LedgerTypes == LedgerSpec => []LedgerTypeOK
BY RecordsSafe, PTL DEF RecordsInv

\* The replay window is exact for every order of publish(), acknowledge(),
\* attach() and detach(), with queues and buffers of every size: a client can
\* be replayed what it has not acknowledged, no more and no less, without a gap
\* in deliveries or in samples, and the buffer never exceeds its limit.
THEOREM ReplayIsExact == LedgerSpec => []ReplayExact
BY RecordsSafe, PTL DEF RecordsInv, ReplayExact

-----------------------------------------------------------------------------
(* The queues of the attachments.                                          *)

\* A delivery anyone still holds is one the ledger published: it is numbered
\* below the next one, only the last one may be terminal, only audio has
\* samples, and while it is retained the ledger holds the same.
Genuine(m) ==
    m \in Delivery =>
        /\ m.seq \in 1..next_delivery_seq - 1
        /\ m.kind = "terminal" <=> terminal /\ m.seq = next_delivery_seq - 1
        /\ m.kind # "audio" => m.start = m.end
        /\ ~released /\ m.seq > trimmed_through_seq =>
              m = records[m.seq - trimmed_through_seq]

\* What a handler may find in the queue of attachment g.
MessageOK(g, m) ==
    /\ Genuine(m)
    /\ m = Failure => publish_raised
    /\ m = Fence => g # attachment

\* QueuesConsecutive, of one queue.
Consecutive(q) ==
    \A i \in 1..Len(q) - 1 :
        IsDelivery(q[i+1]) =>
            /\ q[i].kind \in Kinds \ {"terminal"}
            /\ q[i+1].seq = q[i].seq + 1
            /\ q[i+1].start = q[i].end

Elements(s) == {s[i] : i \in 1..Len(s)}

QueueOK(g) ==
    /\ Consecutive(queues[g])
    /\ \A m \in Elements(queues[g]) : MessageOK(g, m)

\* A queue that can still grow ends with the newest delivery.  The attachment a
\* raising attach() leaves may hold part of the replay, but then it is full and
\* has no handler to make room.
NewestLast ==
    /\ attachment # 0 /\ ~publish_raised
    /\ attachment \in handlers \/ HasRoom(attachment)
    /\ queues[attachment] # <<>>
    => LET m == queues[attachment][Len(queues[attachment])]
       IN  /\ m \in Delivery
           /\ m.seq = next_delivery_seq - 1
           /\ m.end = next_audio_sample

\* The inductive invariant of the queues.
QueuesInv ==
    /\ \A m \in Elements(records) : Genuine(m)
    /\ \A g \in 1..generation : QueueOK(g)
    /\ NewestLast

\* A message is a delivery exactly when its kind says so.
LEMMA MessageKinds ==
    ASSUME NEW m \in Message
    PROVE  /\ m \in Delivery <=> IsDelivery(m)
           /\ m = Fence <=> m.kind = "fence"
           /\ m = Failure <=> m.kind = "failure"
           /\ m \in Delivery => m.seq \in Nat /\ m.start \in Nat /\ m.end \in Nat /\ m.kind \in Kinds
BY SMTT(30) DEF Message, Delivery, IsDelivery, Kinds, Fence, Failure, NoDelivery

\* A step of the ledger never makes a published delivery another one.
LEMMA GenuineKept ==
    ASSUME RecordsInv, [LedgerNext]_ledgerVars, NEW m, Genuine(m)
    PROVE  Genuine(m)'
<1> SUFFICES ASSUME m \in Delivery PROVE Genuine(m)'
  BY DEF Genuine
<1>0. m.seq \in Nat /\ m.start \in Nat /\ m.end \in Nat /\ m.kind \in Kinds
  BY DEF Delivery
<1>1. CASE UNCHANGED <<records, outputVars, trimmed_through_seq, released>>
  BY <1>1 DEF Genuine, outputVars
<1>2. ASSUME NEW kind \in Kinds, NEW n \in Nat, LedgerPublish(kind, n)
      PROVE  Genuine(m)'
  <2>1. /\ ~released => Len(records) = next_delivery_seq - 1 - trimmed_through_seq
        /\ records \in Seq(Delivery)
        /\ next_delivery_seq \in Nat /\ trimmed_through_seq \in Nat
        /\ ~terminal
        /\ next_delivery_seq' = next_delivery_seq + 1
        /\ trimmed_through_seq' = trimmed_through_seq /\ released' = released
    BY <1>2 DEF LedgerPublish, PublishEnabled, RecordsInv, RecordsConsecutive,
                LedgerTypeOK, RecordsTypeOK, cursorVars
  <2>2. \A i \in 1..Len(records) : records'[i] = records[i]
    <3>1. PICK d : records' = Append(records, d)
      BY <1>2 DEF LedgerPublish, Retain
    <3> QED BY SMTT(30), <2>1, <3>1, AppendProperties
  <2>3. m.seq \in 1..next_delivery_seq - 1 /\ m.kind # "terminal"
    BY <2>1 DEF Genuine
  <2>4. ~released /\ m.seq > trimmed_through_seq =>
            m.seq - trimmed_through_seq \in 1..Len(records)
    BY SMTT(30), <1>0, <2>1, <2>3
  <2> QED BY SMTT(30), <1>0, <2>1, <2>2, <2>3, <2>4 DEF Genuine
<1>3. ASSUME NEW g, NEW seq \in Nat, NEW sample \in Nat,
             LedgerAcknowledge(g, seq, sample)
      PROVE  Genuine(m)'
  <2>1. ~released
    BY <1>3 DEF LedgerAcknowledge, IsCurrent, RecordsInv, ReleasedDetached
  <2> DEFINE k == seq - trimmed_through_seq
  <2>2. /\ k \in 1..Len(records)
        /\ TrimCount(seq, sample) = k
        /\ records[k].seq = seq
    BY <1>3, <2>1, TrimCountExact DEF LedgerAcknowledge
  <2>3. /\ records' = SubSeq(records, k + 1, Len(records))
        /\ trimmed_through_seq' = seq
        /\ UNCHANGED <<outputVars, released>>
    BY SMTT(30), <1>3, <2>2 DEF LedgerAcknowledge, Trim
  <2>4. /\ records \in Seq(Delivery) /\ Len(records) \in Nat
        /\ trimmed_through_seq \in Nat /\ next_delivery_seq \in Nat
        /\ Len(records) = next_delivery_seq - 1 - trimmed_through_seq
    BY <2>1, LenProperties DEF RecordsInv, RecordsConsecutive, LedgerTypeOK, RecordsTypeOK
  <2>5. /\ Len(records') = Len(records) - k
        /\ \A i \in 1..Len(records') : records'[i] = records[k + i]
    BY <2>2, <2>3, <2>4, DropPrefix
  <2>6. ASSUME m.seq > seq PROVE m = records'[m.seq - seq]
    <3>1. m.seq > trimmed_through_seq /\ m = records[m.seq - trimmed_through_seq]
      BY SMTT(30), <1>0, <2>1, <2>2, <2>4, <2>6 DEF Genuine
    <3>2. m.seq - seq \in 1..Len(records')
      <4>1. m.seq <= next_delivery_seq - 1
        BY SMTT(30) DEF Genuine
      <4>2. Len(records') = next_delivery_seq - 1 - seq
        BY SMTT(30), <2>4, <2>5
      <4> HIDE DEF k
      <4> QED BY SMTT(30), <1>0, <2>6, <4>1, <4>2 DEF RecordsInv, LedgerTypeOK, RecordsTypeOK
    <3>3. records'[m.seq - seq] = records[k + (m.seq - seq)]
      BY <2>5, <3>2
    <3>4. k + (m.seq - seq) = m.seq - trimmed_through_seq
      BY SMTT(30), <1>0, <2>4
    <3> QED BY <3>1, <3>3, <3>4
  <2> QED BY <2>3, <2>6 DEF Genuine, outputVars
<1>4. ASSUME NEW fence, LedgerClose(fence) PROVE Genuine(m)'
  BY <1>4 DEF LedgerClose, Genuine, outputVars
<1>5. CASE UNCHANGED ledgerVars
  BY <1>1, <1>5 DEF ledgerVars, cursorVars
<1>6. ASSUME NEW seq \in 0..MaxDeliveries, NEW sample \in 0..next_audio_sample,
             \/ ~released /\ LedgerAttach(seq, sample)
             \/ \E g \in handlers : LedgerAcknowledge(g, seq, sample)
      PROVE  Genuine(m)'
  <2>1. seq \in Nat /\ sample \in Nat
    BY SMTT(30) DEF RecordsInv, LedgerTypeOK, RecordsTypeOK
  <2>2. CASE LedgerAttach(seq, sample)
    BY <1>1, <2>2 DEF LedgerAttach, cursorVars
  <2> QED BY <1>3, <1>6, <2>1, <2>2
<1>7. ASSUME NEW g \in handlers, LedgerDetach(g) \/ LedgerTerminalAck(g) \/ Take(g)
      PROVE  Genuine(m)'
  BY <1>1, <1>7 DEF LedgerDetach, LedgerTerminalAck, Take, cursorVars
<1>8. CASE PublishExceedsBuffer
  BY <1>1, <1>8 DEF PublishExceedsBuffer, cursorVars
<1>9. CASE \E n \in SampleCounts : LedgerPublish("audio", n)
  BY <1>2, <1>9 DEF Kinds
<1>10. CASE \E kind \in {"event", "terminal"} : LedgerPublish(kind, 0)
  BY <1>2, <1>10 DEF Kinds
<1> QED BY <1>4, <1>5, <1>6, <1>7, <1>8, <1>9, <1>10 DEF LedgerNext

\* Nor does it change what an attachment's handler may find.
LEMMA MessageKept ==
    ASSUME RecordsInv, [LedgerNext]_ledgerVars, NEW g \in 1..generation, NEW m,
           MessageOK(g, m)
    PROVE  MessageOK(g, m)'
<1>1. Genuine(m)'
  BY GenuineKept DEF MessageOK
<1>2. publish_raised => publish_raised'
  BY DEF LedgerNext, ledgerVars, LedgerAttach, LedgerAcknowledge, LedgerDetach,
         LedgerTerminalAck, Take, PublishExceedsBuffer, LedgerPublish,
         PublishEnabled, LedgerClose
<1>3. attachment' \in {attachment, 0, generation + 1}
  BY DEF LedgerNext, ledgerVars, LedgerAttach, LedgerAcknowledge, LedgerDetach,
         LedgerTerminalAck, Take, PublishExceedsBuffer, LedgerPublish, LedgerClose
<1>4. g # attachment => g # attachment'
  BY SMTT(30), <1>3 DEF RecordsInv, LedgerTypeOK, AttachmentsTypeOK
<1> QED BY <1>1, <1>2, <1>4 DEF MessageOK, Fence, Failure, NoDelivery

\* A queue stays consecutive when a marker, or the successor of its last
\* delivery, is put at its end.
LEMMA PutConsecutive ==
    ASSUME NEW q \in Seq(Message), NEW m, Consecutive(q),
           IsDelivery(m) /\ q # <<>> =>
               /\ q[Len(q)].kind \in Kinds \ {"terminal"}
               /\ m.seq = q[Len(q)].seq + 1
               /\ m.start = q[Len(q)].end
    PROVE  Consecutive(Append(q, m))
<1>1. /\ Len(q) \in Nat /\ Len(Append(q, m)) = Len(q) + 1
      /\ \A i \in 1..Len(q) : Append(q, m)[i] = q[i]
      /\ Append(q, m)[Len(q) + 1] = m
  BY SMTT(30), AppendProperties, LenProperties
<1>2. q # <<>> <=> Len(q) # 0
  BY EmptySeq
<1> DEFINE a == Append(q, m)
<1> SUFFICES ASSUME NEW i \in 1..Len(a) - 1, IsDelivery(a[i+1])
             PROVE  /\ a[i].kind \in Kinds \ {"terminal"}
                    /\ a[i+1].seq = a[i].seq + 1
                    /\ a[i+1].start = a[i].end
  BY DEF Consecutive
<1>3. i \in 1..Len(q) /\ a[i] = q[i]
  BY SMTT(30), <1>1
<1>4. CASE i = Len(q)
  <2>1. a[i+1] = m /\ q # <<>>
    BY SMTT(30), <1>1, <1>2, <1>3, <1>4
  <2> QED BY <1>3, <1>4, <2>1
<1>5. CASE i # Len(q)
  <2>1. i \in 1..Len(q) - 1 /\ i + 1 \in 1..Len(q)
    BY SMTT(30), <1>1, <1>3, <1>5
  <2>2. a[i+1] = q[i+1]
    BY <1>1, <2>1
  <2> HIDE DEF a
  <2> QED BY <1>3, <2>1, <2>2 DEF Consecutive
<1> QED BY <1>4, <1>5

\* And when its first message is taken.
LEMMA TakeConsecutive ==
    ASSUME NEW q \in Seq(Message), q # <<>>, Consecutive(q)
    PROVE  Consecutive(Tail(q))
<1>1. /\ Len(q) \in Nat /\ Len(Tail(q)) = Len(q) - 1
      /\ \A i \in 1..Len(q) - 1 : Tail(q)[i] = q[i+1]
  BY HeadTailProperties, LenProperties
<1> SUFFICES ASSUME NEW i \in 1..Len(Tail(q)) - 1, IsDelivery(Tail(q)[i+1])
             PROVE  /\ Tail(q)[i].kind \in Kinds \ {"terminal"}
                    /\ Tail(q)[i+1].seq = Tail(q)[i].seq + 1
                    /\ Tail(q)[i+1].start = Tail(q)[i].end
  BY DEF Consecutive
<1>2. /\ i + 1 \in 1..Len(q) - 1 /\ i \in 1..Len(q) - 1
      /\ Tail(q)[i] = q[i+1] /\ Tail(q)[i+1] = q[(i+1)+1]
  BY SMTT(30), <1>1
<1> QED BY <1>2 DEF Consecutive

\* What is replayed to a new attachment is consecutive and ends, when it all
\* fits, with the newest delivery.
LEMMA ReplayConsecutive ==
    ASSUME RecordsInv, ~released, \A m \in Elements(records) : Genuine(m),
           NEW seq \in Nat, seq >= trimmed_through_seq, seq <= next_delivery_seq - 1,
           NEW n \in 0..Len(Replay(seq))
    PROVE  LET q == SubSeq(Replay(seq), 1, n)
           IN  /\ Len(Replay(seq)) = next_delivery_seq - 1 - seq
               /\ Len(q) = n
               /\ q \in Seq(Message)
               /\ Consecutive(q)
               /\ \A i \in 1..n : q[i] = records[seq - trimmed_through_seq + i]
               /\ \A i \in 1..n : seq - trimmed_through_seq + i \in 1..Len(records)
<1> DEFINE k == seq - trimmed_through_seq
           q == SubSeq(Replay(seq), 1, n)
<1>1. /\ records \in Seq(Delivery) /\ Len(records) \in Nat
      /\ Len(records) = next_delivery_seq - 1 - trimmed_through_seq
      /\ next_delivery_seq \in Nat /\ trimmed_through_seq \in Nat
      /\ k \in 0..Len(records)
  BY SMTT(30), LenProperties DEF RecordsInv, RecordsConsecutive, LedgerTypeOK, RecordsTypeOK
<1>2. /\ Replay(seq) = SubSeq(records, k + 1, Len(records))
      /\ Len(Replay(seq)) = Len(records) - k
      /\ \A i \in 1..Len(records) - k : Replay(seq)[i] = records[k + i]
      /\ Replay(seq) \in Seq(Delivery)
  <2>1. Replay(seq) = SubSeq(records, k + 1, Len(records))
    BY DEF Replay
  <2> HIDE DEF k
  <2>2. /\ Len(SubSeq(records, k + 1, Len(records))) = Len(records) - k
        /\ \A i \in 1..Len(records) - k : SubSeq(records, k + 1, Len(records))[i] = records[k + i]
    BY SMTT(30), <1>1
  <2>3. \A i \in k + 1 .. Len(records) : records[i] \in Delivery
    BY SMTT(30), <1>1, ElementOfSeq
  <2>4. SubSeq(records, k + 1, Len(records)) \in Seq(Delivery)
    BY SMTT(30), <1>1, <2>3, SubSeqProperties
  <2> QED BY <2>1, <2>2, <2>4
<1>3. Len(Replay(seq)) = next_delivery_seq - 1 - seq
  BY SMTT(30), <1>1, <1>2
<1> HIDE DEF k
<1>4. ASSUME NEW i \in 1..n
      PROVE  Replay(seq)[i] = records[k + i] /\ k + i \in 1..Len(records) /\ i \in 1..Len(Replay(seq))
  <2>1. Len(Replay(seq)) \in Nat
    BY SMTT(30), <1>1, <1>2
  <2>2. i \in 1..Len(Replay(seq))
    BY SMTT(30), <2>1
  <2>3. i \in 1..Len(records) - k
    BY <1>2, <2>2
  <2>4. k + i \in 1..Len(records)
    BY SMTT(30), <1>1, <2>3
  <2> QED BY <1>2, <2>2, <2>3, <2>4
<1>5. /\ Len(q) = n
      /\ \A i \in 1..n : q[i] = Replay(seq)[i]
      /\ q \in Seq(Message)
  <2>1. \A i \in 1..n : Replay(seq)[i] \in Message
    BY <1>2, <1>4, ElementOfSeq DEF Message
  <2>2. n \in Nat /\ n <= Len(Replay(seq)) /\ Len(Replay(seq)) \in Nat
    BY SMTT(30), <1>2, LenProperties
  <2> QED BY SMTT(30), <1>2, <2>1, <2>2, SubSeqProperties
<1> HIDE DEF q
<1>6. \A i \in 1..n : q[i] = records[k + i] /\ k + i \in 1..Len(records)
  BY <1>4, <1>5
<1>7. Consecutive(q)
  <2> SUFFICES ASSUME NEW i \in 1..Len(q) - 1
               PROVE  /\ q[i].kind \in Kinds \ {"terminal"}
                      /\ q[i+1].seq = q[i].seq + 1
                      /\ q[i+1].start = q[i].end
    BY DEF Consecutive
  <2> DEFINE j == k + i
  <2>1. /\ j \in 1..Len(records) /\ j + 1 \in 1..Len(records) /\ j + 1 # 1
        /\ q[i] = records[j] /\ q[i+1] = records[j+1]
    <3>1. i \in 1..n /\ i + 1 \in 1..n
      BY SMTT(30), <1>5
    <3>2. q[i+1] = records[k + (i+1)] /\ k + (i+1) \in 1..Len(records)
      BY <1>6, <3>1
    <3>3. k + (i+1) = j + 1 /\ k \in Nat
      BY SMTT(30), <1>1
    <3>4. q[i] = records[j] /\ j \in 1..Len(records)
      BY <1>6, <3>1
    <3>5. q[i+1] = records[j+1] /\ j + 1 \in 1..Len(records)
      BY <3>2, <3>3
    <3> QED BY SMTT(30), <3>4, <3>5
  <2> HIDE DEF j
  <2>2. /\ records[j].seq = trimmed_through_seq + j
        /\ records[j+1].seq = trimmed_through_seq + (j + 1)
    BY <2>1 DEF RecordsInv, RecordsConsecutive
  <2>3. records[j+1].start = records[j].end
    <3>1. records[j+1].start = records[(j+1)-1].end
      BY <2>1 DEF RecordsInv, SamplesChain
    <3> QED BY SMTT(30), <2>1, <3>1
  <2>4. records[j] \in Delivery /\ records[j].kind \in Kinds /\ records[j].seq \in Nat
    BY <2>1, RecordFields DEF Delivery
  <2>5. records[j].seq # next_delivery_seq - 1
    BY SMTT(30), <1>1, <2>1, <2>2
  <2>6. records[j].kind # "terminal"
    BY <2>1, <2>4, <2>5 DEF Genuine, Elements
  <2>7. q[i+1].seq = q[i].seq + 1
    <3>1. trimmed_through_seq \in Nat
      BY DEF RecordsInv, LedgerTypeOK, RecordsTypeOK
    <3>2. trimmed_through_seq + (j + 1) = (trimmed_through_seq + j) + 1
      BY ONLY SMTT(30), <2>1, <3>1
    <3> QED BY <2>1, <2>2, <3>2
  <2> QED BY <2>1, <2>3, <2>4, <2>6, <2>7
<1> QED BY <1>3, <1>5, <1>6, <1>7 DEF q, k

-----------------------------------------------------------------------------
(* What a step does to one queue: nothing, a put at its end, or a take.    *)

\* A queue the step leaves alone stays as it should be.
LEMMA SameKeepsQueue ==
    ASSUME RecordsInv, QueuesInv, [LedgerNext]_ledgerVars,
           NEW g \in 1..generation, queues'[g] = queues[g]
    PROVE  QueueOK(g)'
<1>1. \A x \in Elements(queues[g]) : MessageOK(g, x)'
  BY MessageKept DEF QueuesInv, QueueOK
<1> QED BY SMTT(30), <1>1 DEF QueuesInv, QueueOK, Consecutive, Elements

\* So does one that gets a marker, or the successor of its last delivery.
LEMMA PutKeepsQueue ==
    ASSUME RecordsInv, QueuesInv, [LedgerNext]_ledgerVars,
           NEW g \in 1..generation, NEW m \in Message, MessageOK(g, m)',
           queues'[g] = Append(queues[g], m),
           IsDelivery(m) /\ queues[g] # <<>> =>
               LET last == queues[g][Len(queues[g])]
               IN  /\ last.kind \in Kinds \ {"terminal"}
                   /\ m.seq = last.seq + 1
                   /\ m.start = last.end
    PROVE  QueueOK(g)'
<1>1. queues[g] \in Seq(Message) /\ Len(queues[g]) \in Nat
  BY ElementOfSeq, LenProperties DEF RecordsInv, LedgerTypeOK, AttachmentsTypeOK
<1>2. /\ Len(queues'[g]) = Len(queues[g]) + 1
      /\ \A i \in 1..Len(queues[g]) : queues'[g][i] = queues[g][i]
      /\ queues'[g][Len(queues[g]) + 1] = m
  BY SMTT(30), <1>1, AppendProperties
<1>3. Consecutive(queues[g]) /\ \A x \in Elements(queues[g]) : MessageOK(g, x)
  BY DEF QueuesInv, QueueOK
<1>4. Consecutive(queues'[g])
  BY <1>1, <1>3, PutConsecutive
<1>5. Elements(queues'[g]) \subseteq Elements(queues[g]) \cup {m}
  <2> SUFFICES ASSUME NEW i \in 1..Len(queues'[g]), i # Len(queues[g]) + 1
               PROVE  queues'[g][i] \in Elements(queues[g])
    BY <1>2 DEF Elements
  <2>1. i \in 1..Len(queues[g])
    BY SMTT(30), <1>1, <1>2
  <2> QED BY <1>2, <2>1 DEF Elements
<1>6. \A x \in Elements(queues'[g]) : MessageOK(g, x)'
  BY <1>3, <1>5, MessageKept
<1> QED BY <1>4, <1>6 DEF QueueOK, Consecutive, Elements

\* And one from which the first message is taken.
LEMMA TakeKeepsQueue ==
    ASSUME RecordsInv, QueuesInv, [LedgerNext]_ledgerVars,
           NEW g \in 1..generation, queues[g] # <<>>, queues'[g] = Tail(queues[g])
    PROVE  QueueOK(g)'
<1>1. queues[g] \in Seq(Message) /\ Len(queues[g]) \in Nat
  BY ElementOfSeq, LenProperties DEF RecordsInv, LedgerTypeOK, AttachmentsTypeOK
<1>2. /\ Len(queues'[g]) = Len(queues[g]) - 1
      /\ \A i \in 1..Len(queues[g]) - 1 : queues'[g][i] = queues[g][i+1]
  BY <1>1, HeadTailProperties
<1>3. Consecutive(queues[g]) /\ \A x \in Elements(queues[g]) : MessageOK(g, x)
  BY DEF QueuesInv, QueueOK
<1>4. Consecutive(queues'[g])
  BY <1>1, <1>3, TakeConsecutive
<1>5. Elements(queues'[g]) \subseteq Elements(queues[g])
  <2> SUFFICES ASSUME NEW i \in 1..Len(queues'[g])
               PROVE  queues'[g][i] \in Elements(queues[g])
    BY DEF Elements
  <2>1. i \in 1..Len(queues[g]) - 1 /\ i + 1 \in 1..Len(queues[g])
    BY SMTT(30), <1>1, <1>2
  <2> QED BY <1>2, <2>1 DEF Elements
<1>6. \A x \in Elements(queues'[g]) : MessageOK(g, x)'
  BY <1>3, <1>5, MessageKept
<1> QED BY <1>4, <1>6 DEF QueueOK, Consecutive, Elements

\* Fencing an attachment that has just been replaced or released.
LEMMA FenceKeepsQueue ==
    ASSUME RecordsInv, QueuesInv, [LedgerNext]_ledgerVars, NEW g \in 1..generation,
           queues'[g] = FenceQueue(attachment)[g], attachment' \in {0, generation + 1}
    PROVE  QueueOK(g)'
<1>1. CASE g = attachment /\ HasRoom(g)
  <2>1. queues'[g] = Append(queues[g], Fence)
    BY SMTT(30), <1>1, ExceptSeq DEF FenceQueue, RecordsInv, LedgerTypeOK, AttachmentsTypeOK
  <2>2. MessageOK(g, Fence)'
    <3>1. Fence \notin Delivery /\ Fence # Failure
      BY DEF Fence, Failure, NoDelivery, Delivery, Kinds
    <3>2. g # attachment'
      BY SMTT(30) DEF RecordsInv, LedgerTypeOK, AttachmentsTypeOK
    <3> QED BY <3>1, <3>2 DEF MessageOK, Genuine, Fence, Failure, NoDelivery
  <2>3. ~IsDelivery(Fence)
    BY DEF IsDelivery, Fence, NoDelivery, Kinds
  <2> QED BY <2>1, <2>2, <2>3, MarkersAreMessages, PutKeepsQueue
<1>2. CASE ~(g = attachment /\ HasRoom(g))
  <2>1. queues'[g] = queues[g]
    BY SMTT(30), <1>2, ExceptSeq DEF FenceQueue, RecordsInv, LedgerTypeOK, AttachmentsTypeOK
  <2> QED BY <2>1, SameKeepsQueue
<1> QED BY <1>1, <1>2

-----------------------------------------------------------------------------
\* A genuine delivery may be in any queue.
LEMMA MessageOKPrime ==
    ASSUME NEW g, NEW m, m # Fence, m # Failure, Genuine(m)'
    PROVE  MessageOK(g, m)'
BY DEF MessageOK, Fence, Failure, NoDelivery

\* A published delivery is genuine, and extends the queue of the attachment.
LEMMA PublishKeepsQueues ==
    ASSUME RecordsInv, QueuesInv, [LedgerNext]_ledgerVars, RecordsInv',
           NEW kind \in Kinds, NEW n \in Nat, kind # "audio" => n = 0,
           ~publish_raised, LedgerPublish(kind, n)
    PROVE  QueuesInv'
<1>0. PICK d : d = [kind |-> kind, seq |-> next_delivery_seq,
                    start |-> next_audio_sample, end |-> next_audio_sample + n]
  OBVIOUS
<1>1. /\ d \in Delivery /\ d \in Message /\ d # Fence /\ d # Failure
      /\ d.kind = kind /\ d.seq = next_delivery_seq
      /\ d.start = next_audio_sample /\ d.end = next_audio_sample + n
  <2>1. /\ d.kind = kind /\ d.seq = next_delivery_seq
        /\ d.start = next_audio_sample /\ d.end = next_audio_sample + n
    BY <1>0
  <2>2. d \in Delivery
    BY SMTT(30), <1>0 DEF RecordsInv, LedgerTypeOK, RecordsTypeOK, Delivery
  <2>3. d \in Message
    BY <2>2 DEF Message
  <2>4. kind # "fence" /\ kind # "failure"
    BY DEF Kinds
  <2> QED BY <2>1, <2>2, <2>3, <2>4, MessageKinds
<1>2. /\ records' = Append(records, d)
      /\ queues' = IF attachment # 0 /\ HasRoom(attachment)
                   THEN [queues EXCEPT ![attachment] = Append(queues[attachment], d)]
                   ELSE queues
  BY <1>0 DEF LedgerPublish, Retain
<1>3. /\ released' = released /\ ~terminal /\ ~publish_raised
      /\ terminal' = (kind = "terminal")
      /\ next_delivery_seq' = next_delivery_seq + 1
      /\ next_audio_sample' = next_audio_sample + n
      /\ publish_raised' = (attachment # 0 /\ ~HasRoom(attachment))
      /\ UNCHANGED <<trimmed_through_seq, generation, attachment, handlers>>
  BY DEF LedgerPublish, PublishEnabled, PublishRaises, cursorVars, RecordsInv,
         LedgerTypeOK, FlagsTypeOK
<1>4. /\ records \in Seq(Delivery) /\ Len(records) \in Nat
      /\ ~released => Len(records) = next_delivery_seq - 1 - trimmed_through_seq
      /\ next_delivery_seq \in Nat \ {0} /\ trimmed_through_seq \in Nat
      /\ next_audio_sample \in Nat
  BY <1>3, LenProperties DEF RecordsInv, RecordsConsecutive, LedgerTypeOK, RecordsTypeOK
<1>5. /\ Len(records') = Len(records) + 1
      /\ records'[Len(records) + 1] = d
      /\ \A i \in 1..Len(records) : records'[i] = records[i]
  BY SMTT(30), <1>2, <1>4, AppendProperties
<1>6. Genuine(d)'
  <2>1. ~released => d = records'[d.seq - trimmed_through_seq]
    BY SMTT(30), <1>1, <1>4, <1>5
  <2>2. d.seq \in 1..next_delivery_seq' - 1 /\ d.seq = next_delivery_seq' - 1
    BY SMTT(30), <1>1, <1>3, <1>4
  <2>3. d.kind = "terminal" <=> terminal'
    BY <1>1, <1>3
  <2>4. d.kind # "audio" => d.start = d.end
    BY SMTT(30), <1>1, <1>4
  <2> QED BY <1>3, <2>1, <2>2, <2>3, <2>4 DEF Genuine
<1>7. \A m \in Elements(records') : Genuine(m)'
  <2>1. Elements(records') \subseteq Elements(records) \cup {d}
    <3> SUFFICES ASSUME NEW i \in 1..Len(records'), i # Len(records) + 1
                 PROVE  records'[i] \in Elements(records)
      BY <1>5 DEF Elements
    <3>1. i \in 1..Len(records)
      BY SMTT(30), <1>4, <1>5
    <3> QED BY <1>5, <3>1 DEF Elements
  <2> QED BY <1>6, <2>1, GenuineKept DEF QueuesInv
<1>8. ASSUME NEW g \in 1..generation PROVE QueueOK(g)'
  <2>1. queues \in Seq(Seq(Message)) /\ g \in 1..Len(queues)
    BY DEF RecordsInv, LedgerTypeOK, AttachmentsTypeOK
  <2>2. CASE g = attachment /\ HasRoom(attachment)
    <3>1. queues'[g] = Append(queues[g], d)
      BY SMTT(30), <1>2, <2>1, <2>2, ExceptSeq
    <3>2. MessageOK(g, d)'
      BY <1>1, <1>6, MessageOKPrime
    <3>3. ASSUME queues[g] # <<>>
          PROVE  LET last == queues[g][Len(queues[g])]
                 IN  /\ last.kind \in Kinds \ {"terminal"}
                     /\ d.seq = last.seq + 1
                     /\ d.start = last.end
      <4> DEFINE last == queues[g][Len(queues[g])]
      <4>1. last \in Delivery /\ last.seq = next_delivery_seq - 1 /\ last.end = next_audio_sample
        BY SMTT(30), <1>3, <2>2, <3>3 DEF QueuesInv, NewestLast
      <4>2. last \in Elements(queues[g])
        <5>1. queues[g] \in Seq(Message)
          BY <2>1, ElementOfSeq
        <5>2. Len(queues[g]) \in 1..Len(queues[g])
          BY SMTT(30), <3>3, <5>1, EmptySeq, LenProperties
        <5> QED BY <5>2 DEF Elements
      <4>3. Genuine(last)
        BY <4>2 DEF QueuesInv, QueueOK, MessageOK
      <4> HIDE DEF last
      <4>4. last.kind \in Kinds \ {"terminal"}
        BY <1>3, <4>1, <4>3 DEF Genuine, Delivery
      <4>5. d.seq = last.seq + 1 /\ d.start = last.end
        BY SMTT(30), <1>1, <1>4, <4>1
      <4> QED BY <4>4, <4>5 DEF last
    <3> QED BY <1>1, <3>1, <3>2, <3>3, PutKeepsQueue
  <2>3. CASE ~(g = attachment /\ HasRoom(attachment))
    <3>1. queues'[g] = queues[g]
      BY SMTT(30), <1>2, <2>1, <2>3, ExceptSeq
    <3> QED BY <3>1, SameKeepsQueue
  <2> QED BY <2>2, <2>3
<1>9. NewestLast'
  <2> SUFFICES ASSUME attachment # 0, HasRoom(attachment)
               PROVE  LET m == queues'[attachment][Len(queues'[attachment])]
                      IN  /\ m \in Delivery
                          /\ m.seq = next_delivery_seq' - 1
                          /\ m.end = next_audio_sample'
    BY <1>3 DEF NewestLast
  <2>1. /\ attachment \in 1..Len(queues) /\ queues \in Seq(Seq(Message))
        /\ queues[attachment] \in Seq(Message)
    BY SMTT(30), ElementOfSeq DEF RecordsInv, LedgerTypeOK, AttachmentsTypeOK
  <2>2. queues'[attachment] = Append(queues[attachment], d)
    BY SMTT(30), <1>2, <2>1, ExceptSeq
  <2>3. queues'[attachment][Len(queues'[attachment])] = d
    BY SMTT(30), <2>1, <2>2, AppendProperties
  <2> QED BY SMTT(30), <1>1, <1>3, <1>4, <2>3
<1> QED BY <1>3, <1>7, <1>8, <1>9 DEF QueuesInv

\* A new attachment gets the replay, and the old one its fence.
LEMMA AttachKeepsQueues ==
    ASSUME RecordsInv, QueuesInv, [LedgerNext]_ledgerVars, RecordsInv',
           ~released, NEW seq \in Nat, NEW sample \in Nat, LedgerAttach(seq, sample)
    PROVE  QueuesInv'
<1> DEFINE r == Replay(seq)
           fits == IF Len(r) <= QueueMax THEN Len(r) ELSE QueueMax
           fenced == attachment = 0 \/ HasRoom(attachment)
           n == IF fenced THEN fits ELSE 0
           new == IF fenced THEN SubSeq(r, 1, fits) ELSE <<>>
           f == FenceQueue(attachment)
           k == seq - trimmed_through_seq
<1>1. /\ ~released /\ ~released'
      /\ seq >= trimmed_through_seq /\ seq <= next_delivery_seq - 1
      /\ queues' = Append(f, new)
      /\ generation' = generation + 1 /\ attachment' = generation + 1
      /\ handlers' = IF AttachRaises(seq) THEN handlers ELSE handlers \cup {generation + 1}
      /\ UNCHANGED <<records, next_delivery_seq, next_audio_sample, terminal,
                     trimmed_through_seq, publish_raised>>
  BY DEF LedgerAttach, ValidCursor, cursorVars, outputVars
<1>2. /\ f \in Seq(Seq(Message)) /\ Len(f) = generation
      /\ generation \in Nat /\ handlers \subseteq 1..generation
  BY FenceKeepsQueues DEF RecordsInv, LedgerTypeOK, AttachmentsTypeOK
<1>3. \A m \in Elements(records') : Genuine(m)'
  BY <1>1, GenuineKept DEF QueuesInv
<1>4. /\ queues'[generation + 1] = new
      /\ \A g \in 1..generation : queues'[g] = f[g]
  <2> HIDE DEF f, new
  <2> QED BY SMTT(30), <1>1, <1>2, AppendProperties
<1>5. /\ Len(r) \in Nat /\ Len(r) = next_delivery_seq - 1 - seq
      /\ n \in 0..Len(r) /\ n <= QueueMax
  <2>1. Len(r) = next_delivery_seq - 1 - seq
    <3>1. Len(SubSeq(records, seq - trimmed_through_seq + 1, Len(records)))
            = next_delivery_seq - 1 - seq
      <4>1. /\ Len(records) = next_delivery_seq - 1 - trimmed_through_seq
            /\ records \in Seq(Delivery)
            /\ next_delivery_seq \in Nat /\ trimmed_through_seq \in Nat
        BY <1>1 DEF RecordsInv, RecordsConsecutive, LedgerTypeOK, RecordsTypeOK
      <4> QED BY SMTT(30), <1>1, <4>1
    <3> QED BY <3>1 DEF Replay
  <2> HIDE DEF r
  <2> QED BY SMTT(30), <1>1, <2>1 DEF RecordsInv, LedgerTypeOK, RecordsTypeOK
<1>6. /\ Len(new) = n
      /\ new \in Seq(Message) /\ Consecutive(new)
      /\ \A i \in 1..n : new[i] = records[k + i] /\ k + i \in 1..Len(records)
  <2>1. CASE fenced
    <3>1. n \in 0..Len(Replay(seq)) /\ new = SubSeq(Replay(seq), 1, n)
      BY <1>5, <2>1
    <3> HIDE DEF r, n, new
    <3> QED BY <1>1, <3>1, ReplayConsecutive DEF QueuesInv
  <2>2. CASE ~fenced
    <3>1. n = 0 /\ new = <<>>
      BY <2>2
    <3> HIDE DEF n, new
    <3> QED BY SMTT(30), <3>1, EmptySeq DEF Consecutive
  <2> QED BY <2>1, <2>2
<1>7. PICK g1 : g1 = generation + 1
  OBVIOUS
<1>8. QueueOK(g1)'
  <2>1. ASSUME NEW m \in Elements(new) PROVE MessageOK(g1, m)'
    <3>1. m \in Elements(records') /\ m \in Delivery
      BY <1>1, <1>6, RecordFields DEF Elements
    <3>2. m # Fence /\ m # Failure
      BY <3>1, MessageKinds DEF Message, IsDelivery, Kinds
    <3> QED BY <1>3, <3>1, <3>2, MessageOKPrime
  <2> HIDE DEF new
  <2>2. queues'[g1] = new
    BY <1>4, <1>7
  <2>3. Consecutive(queues[g1])'
    BY <1>6, <2>2 DEF Consecutive
  <2>4. \A m \in Elements(queues'[g1]) : MessageOK(g1, m)'
    BY <2>1, <2>2
  <2> QED BY <2>3, <2>4 DEF QueueOK, Elements
<1>9. ASSUME NEW g \in 1..generation PROVE QueueOK(g)'
  BY <1>1, <1>4, FenceKeepsQueue
<1>10. \A g \in 1..generation' : QueueOK(g)'
  BY SMTT(30), <1>1, <1>2, <1>7, <1>8, <1>9
<1>11. NewestLast'
  <2> SUFFICES ASSUME g1 \in handlers' \/ Len(new) < QueueMax, new # <<>>
               PROVE  LET m == new[Len(new)]
                      IN  /\ m \in Delivery
                          /\ m.seq = next_delivery_seq - 1
                          /\ m.end = next_audio_sample
    BY <1>1, <1>4, <1>7 DEF NewestLast, HasRoom
  <2>1. n # 0 /\ fenced
    <3> HIDE DEF r
    <3> QED BY <1>6, EmptySeq
  <2>2. n = Len(r)
    <3> HIDE DEF r
    <3>1. CASE g1 \in handlers'
      <4>1. ~AttachRaises(seq)
        BY SMTT(30), <1>1, <1>2, <1>7, <3>1
      <4> QED BY SMTT(30), <1>5, <2>1, <4>1 DEF AttachRaises, r
    <3>2. CASE Len(new) < QueueMax
      <4>1. n < QueueMax
        BY <1>6, <3>2
      <4> QED BY SMTT(30), <1>5, <2>1, <4>1
    <3> QED BY <3>1, <3>2
  <2>3. /\ records \in Seq(Delivery) /\ Len(records) \in Nat
        /\ Len(records) = next_delivery_seq - 1 - trimmed_through_seq
        /\ next_delivery_seq \in Nat /\ trimmed_through_seq \in Nat
    BY <1>1, LenProperties DEF RecordsInv, RecordsConsecutive, LedgerTypeOK, RecordsTypeOK
  <2> HIDE DEF r, n, new, k
  <2>4. k + n = Len(records) /\ n \in 1..n
    BY SMTT(30), <1>5, <2>1, <2>2, <2>3 DEF k
  <2>5. new[n] = records[Len(records)] /\ Len(records) \in 1..Len(records)
    BY <1>6, <2>4
  <2>6. /\ records[Len(records)] \in Delivery
        /\ records[Len(records)].seq = trimmed_through_seq + Len(records)
        /\ records[Len(records)].end = next_audio_sample
    BY SMTT(30), <1>1, <2>3, <2>5, RecordFields, EmptySeq DEF RecordsInv, RecordsConsecutive, SamplesChain
  <2> QED BY SMTT(30), <1>6, <2>3, <2>5, <2>6
<1> QED BY <1>3, <1>10, <1>11 DEF QueuesInv

\* Every step of the ledger keeps the queues in order.
LEMMA QueuesStep ==
    RecordsInv /\ QueuesInv /\ [LedgerNext]_ledgerVars => QueuesInv'
<1> SUFFICES ASSUME RecordsInv, QueuesInv, [LedgerNext]_ledgerVars PROVE QueuesInv'
  OBVIOUS
<1>0. RecordsInv' /\ queues \in Seq(Seq(Message)) /\ Len(queues) = generation
  BY RecordsStep DEF RecordsInv, LedgerTypeOK, AttachmentsTypeOK
<1>1. ASSUME UNCHANGED <<records, generation, queues>>
      PROVE  /\ \A m \in Elements(records') : Genuine(m)'
             /\ \A g \in 1..generation' : QueueOK(g)'
  BY <1>1, GenuineKept, SameKeepsQueue DEF QueuesInv
<1>2. ASSUME UNCHANGED <<records, next_delivery_seq, next_audio_sample, generation, queues,
                         handlers, publish_raised>>,
             attachment' \in {attachment, 0}
      PROVE  QueuesInv'
  BY <1>1, <1>2 DEF QueuesInv, NewestLast, HasRoom
<1>3. CASE UNCHANGED ledgerVars
  BY <1>2, <1>3 DEF ledgerVars, outputVars
<1>4. ASSUME NEW seq \in 0..MaxDeliveries, NEW sample \in 0..next_audio_sample,
             ~released, LedgerAttach(seq, sample)
      PROVE  QueuesInv'
  <2>1. seq \in Nat /\ sample \in Nat
    BY SMTT(30) DEF RecordsInv, LedgerTypeOK, RecordsTypeOK
  <2> QED BY <1>0, <1>4, <2>1, AttachKeepsQueues
<1>5. ASSUME NEW seq \in 0..MaxDeliveries, NEW sample \in 0..next_audio_sample,
             NEW g \in handlers, LedgerAcknowledge(g, seq, sample)
      PROVE  QueuesInv'
  <2>1. seq \in Nat /\ sample \in Nat
    BY SMTT(30) DEF RecordsInv, LedgerTypeOK, RecordsTypeOK
  <2>2. ~released
    BY <1>5 DEF LedgerAcknowledge, IsCurrent, RecordsInv, ReleasedDetached
  <2>3. PICK k : k = seq - trimmed_through_seq
    OBVIOUS
  <2>4. k \in 1..Len(records) /\ records' = SubSeq(records, k + 1, Len(records))
    BY <1>5, <2>1, <2>2, <2>3, TrimCountExact DEF LedgerAcknowledge, Trim
  <2>5. Elements(records') \subseteq Elements(records)
    <3>1. /\ Len(records') = Len(records) - k /\ Len(records) \in Nat
          /\ \A i \in 1..Len(records') : records'[i] = records[k + i]
      BY <2>4, DropPrefix DEF RecordsInv, LedgerTypeOK, RecordsTypeOK
    <3>2. \A i \in 1..Len(records') : k + i \in 1..Len(records)
      BY SMTT(30), <2>4, <3>1
    <3> QED BY <3>1, <3>2 DEF Elements
  <2>6. UNCHANGED <<next_delivery_seq, next_audio_sample, generation, attachment,
                    queues, handlers, publish_raised>>
    BY <1>5 DEF LedgerAcknowledge, outputVars
  <2>7. \A m \in Elements(records') : Genuine(m)'
    BY <2>5, GenuineKept DEF QueuesInv
  <2>8. \A h \in 1..generation' : QueueOK(h)'
    BY <2>6, SameKeepsQueue
  <2> QED BY <2>6, <2>7, <2>8 DEF QueuesInv, NewestLast, HasRoom
<1>6. ASSUME NEW g \in handlers, LedgerDetach(g) \/ LedgerTerminalAck(g) PROVE QueuesInv'
  BY <1>2, <1>6 DEF LedgerDetach, LedgerTerminalAck, outputVars
<1>7. ASSUME NEW g \in handlers, Take(g) PROVE QueuesInv'
  <2>1. /\ g \in 1..generation /\ queues[g] # <<>>
        /\ queues' = [queues EXCEPT ![g] = Tail(queues[g])]
        /\ UNCHANGED <<records, next_delivery_seq, next_audio_sample, generation,
                       attachment, handlers, publish_raised>>
    BY <1>7 DEF Take, outputVars, RecordsInv, LedgerTypeOK, AttachmentsTypeOK
  <2>2. queues'[g] = Tail(queues[g]) /\ \A h \in 1..generation : h # g => queues'[h] = queues[h]
    BY SMTT(30), <1>0, <2>1, ExceptSeq
  <2>3. \A h \in 1..generation' : QueueOK(h)'
    BY <2>1, <2>2, TakeKeepsQueue, SameKeepsQueue
  <2>4. \A m \in Elements(records') : Genuine(m)'
    BY <2>1, GenuineKept DEF QueuesInv
  <2>5. NewestLast'
    <3>1. CASE attachment = g
      <4> SUFFICES ASSUME attachment # 0, ~publish_raised, queues'[g] # <<>>
                   PROVE  queues'[g][Len(queues'[g])] = queues[g][Len(queues[g])]
        BY <2>1, <3>1, <1>7 DEF QueuesInv, NewestLast
      <4>1. queues[g] \in Seq(Message)
        BY <1>0, <2>1, ElementOfSeq
      <4>2. /\ Len(queues[g]) \in Nat /\ Len(queues'[g]) = Len(queues[g]) - 1
            /\ \A i \in 1..Len(queues[g]) - 1 : queues'[g][i] = queues[g][i+1]
            /\ queues'[g] \in Seq(Message)
        <5>1. Tail(queues[g]) \in Seq(Message) /\ Len(queues[g]) \in Nat
          BY <2>1, <4>1, HeadTailProperties, LenProperties
        <5>2. /\ Len(Tail(queues[g])) = Len(queues[g]) - 1
              /\ \A i \in 1..Len(queues[g]) - 1 : Tail(queues[g])[i] = queues[g][i+1]
          BY <2>1, <4>1, HeadTailProperties
        <5> QED BY <2>2, <5>1, <5>2
      <4>3. Len(queues'[g]) # 0
        BY <4>2, EmptySeq
      <4>4. Len(queues'[g]) \in 1..Len(queues[g]) - 1 /\ Len(queues'[g]) + 1 = Len(queues[g])
        BY SMTT(30), <4>2, <4>3
      <4> QED BY <4>2, <4>4
    <3>2. CASE attachment # g
      <4>1. attachment # 0 => queues'[attachment] = queues[attachment]
        BY SMTT(30), <2>2, <3>2 DEF RecordsInv, LedgerTypeOK, AttachmentsTypeOK
      <4> QED BY <2>1, <4>1 DEF QueuesInv, NewestLast, HasRoom
    <3> QED BY <3>1, <3>2
  <2> QED BY <2>3, <2>4, <2>5 DEF QueuesInv
<1>8. CASE PublishExceedsBuffer
  <2>1. /\ queues' = IF attachment # 0 /\ HasRoom(attachment)
                     THEN [queues EXCEPT ![attachment] = Append(queues[attachment], Failure)]
                     ELSE queues
        /\ publish_raised' /\ UNCHANGED <<records, generation>>
    BY <1>8 DEF PublishExceedsBuffer
  <2>2. ASSUME NEW g \in 1..generation PROVE QueueOK(g)'
    <3>1. CASE g = attachment /\ HasRoom(attachment)
      <4>1. queues'[g] = Append(queues[g], Failure)
        BY SMTT(30), <1>0, <2>1, <3>1, ExceptSeq
      <4>2. ~IsDelivery(Failure) /\ Failure \notin Delivery /\ Failure # Fence
        <5>1. Failure.kind = "failure"
          BY DEF Failure, NoDelivery
        <5>2. ~IsDelivery(Failure)
          BY <5>1 DEF IsDelivery, Kinds
        <5> QED BY <5>1, <5>2, MarkersAreMessages, MessageKinds
      <4>3. MessageOK(g, Failure)'
        <5>1. PICK m : m = Failure
          OBVIOUS
        <5>2. MessageOK(g, m)'
          BY <2>1, <4>2, <5>1 DEF MessageOK, Genuine, Fence, NoDelivery
        <5> QED BY <5>1, <5>2 DEF Failure, NoDelivery
      <4> QED BY <4>1, <4>2, <4>3, MarkersAreMessages, PutKeepsQueue
    <3>2. CASE ~(g = attachment /\ HasRoom(attachment))
      <4>1. queues'[g] = queues[g]
        BY SMTT(30), <1>0, <2>1, <3>2, ExceptSeq
      <4> QED BY <4>1, SameKeepsQueue
    <3> QED BY <3>1, <3>2
  <2>3. \A m \in Elements(records') : Genuine(m)'
    BY <2>1, GenuineKept DEF QueuesInv
  <2> QED BY <2>1, <2>2, <2>3 DEF QueuesInv, NewestLast
<1>9. ASSUME NEW n \in SampleCounts, ~publish_raised, LedgerPublish("audio", n) PROVE QueuesInv'
  BY <1>0, <1>9, PublishKeepsQueues DEF Kinds
<1>10. ASSUME NEW kind \in {"event", "terminal"}, ~publish_raised, LedgerPublish(kind, 0)
       PROVE  QueuesInv'
  BY <1>0, <1>10, PublishKeepsQueues DEF Kinds
<1>11. ASSUME NEW fence \in BOOLEAN, LedgerClose(fence) PROVE QueuesInv'
  <2>1. /\ attachment' = 0 /\ generation' = generation /\ records' = <<>>
        /\ queues' = IF fence THEN FenceQueue(attachment) ELSE queues
    BY <1>11 DEF LedgerClose
  <2>2. ASSUME NEW g \in 1..generation PROVE QueueOK(g)'
    BY <2>1, FenceKeepsQueue, SameKeepsQueue
  <2>3. Elements(records') = {}
    BY SMTT(30), <2>1, EmptySeq DEF Elements
  <2> QED BY <2>1, <2>2, <2>3 DEF QueuesInv, NewestLast
<1> QED BY <1>3, <1>4, <1>5, <1>6, <1>7, <1>8, <1>9, <1>10, <1>11 DEF LedgerNext

\* The initial queues are in order: there are none.
LEMMA QueuesInit == LedgerInit => QueuesInv
BY SMTT(30), EmptySeq DEF LedgerInit, QueuesInv, NewestLast, Elements

\* No attachment is ever handed a delivery twice, out of order or after the
\* terminal one, and none is skipped, at any queue size: attach() may replay,
\* publish() append, and fences, failures and late takes of fenced handlers
\* interleave with both.
THEOREM QueuesInOrder == LedgerSpec => []QueuesConsecutive
<1>1. LedgerSpec => []QueuesInv
  BY RecordsSafe, QueuesInit, QueuesStep, PTL DEF LedgerSpec
<1>2. QueuesInv => QueuesConsecutive
  BY DEF QueuesInv, QueueOK, Consecutive, QueuesConsecutive
<1> QED BY <1>1, <1>2, PTL
=============================================================================
