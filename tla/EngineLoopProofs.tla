-------------------------- MODULE EngineLoopProofs --------------------------
(***************************************************************************)
(* Proofs about EngineLoop: no KV slot is leaked or shared, an active      *)
(* segment is fed exactly its text, it waits only for text, and a session  *)
(* leaves the engine with a terminal result, for any number of sessions,   *)
(* segments and slots and every limit.                                     *)
(***************************************************************************)
EXTENDS EngineLoop, SequenceTheorems, FiniteSetTheorems, TLAPS

-----------------------------------------------------------------------------
(* The inductive invariant.                                                *)

Phases == {"process", "drain", "admit", "prefill", "launch", "overlap", "housekeep"}

\* The phases in which no step is in flight or waits to be processed.
Between == {"drain", "admit", "prefill", "launch"}

\* Slots, segments and the free list agree.
Owned ==
    /\ \A s \in Slots : /\ free[s] = IF slots[s].is_free THEN 1 ELSE 0
                        /\ slots[s].is_free <=> seg_by_slot[s] = NoSegment
    /\ \A s \in Slots, k \in Keys : seg_by_slot[s] = k <=> segs[k].slot = s
    /\ \A k \in Keys : /\ segs[k].slot = NoSlot <=> segs[k].state # "active"
                       /\ k[1] \notin live => segs[k] = Absent

\* A slot of the step in flight has room for the step and was not allocated
\* since.
BatchInv ==
    /\ phase \in Between => batch = {}
    /\ \A s \in batch : \/ slots[s].is_free
                        \/ slots[s].launched /\ slots[s].past_len < MaxSeqLen

CountInv == \A x \in Sessions : ActiveSlotCount(x) <= MaxSlotsPerSession

\* Tokens wait for the end of a drain only while one is under way and the text
\* is not complete; an active segment has the end-of-text token once its text
\* is complete.
DeferredInv ==
    /\ ~Draining => \A k \in Keys : segs[k].deferred_token_ids = <<>>
    /\ \A k \in Keys : segs[k].input_complete => segs[k].deferred_token_ids = <<>>
    /\ \A k \in Active : segs[k].eos_trailing_added = segs[k].input_complete

\* A slot has an input for its next step, or is paused before text that has
\* not come yet.
Waits(sl, complete) ==
    sl.next_embed \/ (~complete /\ sl.last_codec_sum /\ ~HasUnread(sl))

\* Nothing is read that is not there.
ReadInv ==
    /\ \A s \in Slots : slots[s].text_idx <= Len(slots[s].trailing)
    /\ \A k \in Active : Waits(slots[segs[k].slot], segs[k].input_complete)

EngineInv ==
    /\ EngineTypeOK /\ Owned /\ BatchInv /\ CountInv /\ DeferredInv /\ ReadInv

-----------------------------------------------------------------------------
(* Segments and slots as records.                                          *)

\* The steps are first-order reasoning unless they say otherwise; a leaf that needs
\* arithmetic, records or function updates cites SMT.
USE ZenonT(30)

\* What a slot is after each of the ways to change it.
LEMMA SlotForms ==
    ASSUME NEW sl \in SlotState
    PROVE  /\ FreeSlot \in SlotState /\ FreeSlot.is_free
           /\ \A c \in BOOLEAN : sl.past_len < MaxSeqLen =>
                 /\ Stepped(sl, c) \in SlotState
                 /\ Stepped(sl, c).is_free = sl.is_free
                 /\ Stepped(sl, c).head = sl.head /\ Stepped(sl, c).trailing = sl.trailing
                 /\ Stepped(sl, c).launched = sl.launched
           /\ Ready(sl) \in SlotState /\ Ready(sl).is_free = sl.is_free
           /\ Ready(sl).head = sl.head /\ Ready(sl).trailing = sl.trailing
           /\ Ready(sl).past_len = sl.past_len
           /\ \A toks \in Seq(Tokens \cup {Eos, Pad}) :
                 /\ Fed(sl, toks) \in SlotState
                 /\ Fed(sl, toks).is_free = sl.is_free
                 /\ Fed(sl, toks).head = sl.head
                 /\ Fed(sl, toks).trailing = sl.trailing \o toks
                 /\ Fed(sl, toks).past_len = sl.past_len
                 /\ Fed(sl, toks).launched = sl.launched
<1> USE EngineAssumption
<1>1. FreeSlot \in SlotState /\ FreeSlot.is_free
  BY SMTT(30) DEF FreeSlot, SlotState
<1>2. ASSUME NEW c \in BOOLEAN, sl.past_len < MaxSeqLen
      PROVE  /\ Stepped(sl, c) \in SlotState
             /\ Stepped(sl, c).is_free = sl.is_free
             /\ Stepped(sl, c).head = sl.head /\ Stepped(sl, c).trailing = sl.trailing
             /\ Stepped(sl, c).launched = sl.launched
  <2>0. sl.past_len + 1 \in 0..MaxSeqLen /\ sl.text_idx + 1 \in Nat
    BY SMTT(30), <1>2 DEF SlotState
  <2>1. CASE HasUnread(sl)
    <3>1. Stepped(sl, c) = [sl EXCEPT !.past_len = @ + 1, !.text_idx = @ + 1,
                                      !.next_embed = TRUE, !.last_codec_sum = FALSE]
      BY <2>1 DEF Stepped
    <3> QED BY <2>0, <3>1 DEF SlotState
  <2>2. CASE ~HasUnread(sl)
    <3>1. Stepped(sl, c) = [sl EXCEPT !.past_len = @ + 1, !.next_embed = c,
                                      !.last_codec_sum = ~c]
      BY <2>2 DEF Stepped
    <3> QED BY <2>0, <3>1 DEF SlotState
  <2> QED BY <2>1, <2>2
<1>3. /\ Ready(sl) \in SlotState /\ Ready(sl).is_free = sl.is_free
      /\ Ready(sl).head = sl.head /\ Ready(sl).trailing = sl.trailing
      /\ Ready(sl).past_len = sl.past_len
  <2>0. sl.text_idx + 1 \in Nat
    BY SMTT(30) DEF SlotState
  <2>1. CASE Ready(sl) = [sl EXCEPT !.next_embed = TRUE, !.text_idx = @ + 1]
    BY <2>0, <2>1 DEF SlotState
  <2>2. CASE Ready(sl) = sl
    BY <2>2
  <2> QED BY <2>1, <2>2 DEF Ready
<1>4. ASSUME NEW toks \in Seq(Tokens \cup {Eos, Pad})
      PROVE  /\ Fed(sl, toks) \in SlotState
             /\ Fed(sl, toks).is_free = sl.is_free
             /\ Fed(sl, toks).head = sl.head
             /\ Fed(sl, toks).trailing = sl.trailing \o toks
             /\ Fed(sl, toks).past_len = sl.past_len
             /\ Fed(sl, toks).launched = sl.launched
  <2>1. PICK fed : fed = [sl EXCEPT !.trailing = @ \o toks]
    OBVIOUS
  <2>2. /\ fed \in SlotState /\ fed.is_free = sl.is_free /\ fed.head = sl.head
        /\ fed.trailing = sl.trailing \o toks /\ fed.past_len = sl.past_len
        /\ fed.launched = sl.launched
    BY <2>1, ConcatProperties DEF SlotState
  <2>3. Fed(sl, toks) = Resume(fed)
    BY <2>1 DEF Fed
  <2>4. /\ Resume(fed) \in SlotState
        /\ Resume(fed).is_free = fed.is_free
        /\ Resume(fed).head = fed.head
        /\ Resume(fed).trailing = fed.trailing
        /\ Resume(fed).past_len = fed.past_len
        /\ Resume(fed).launched = fed.launched
    <3>0. fed.text_idx + 1 \in Nat
      BY SMTT(30), <2>2 DEF SlotState
    <3>1. CASE Resume(fed) = [fed EXCEPT !.text_idx = @ + 1, !.next_embed = TRUE,
                                         !.last_codec_sum = FALSE]
      BY <2>2, <3>0, <3>1 DEF SlotState
    <3>2. CASE Resume(fed) = fed
      BY <2>2, <3>2
    <3> QED BY <3>1, <3>2 DEF Resume
  <2> QED BY <2>2, <2>3, <2>4
<1> QED BY <1>1, <1>2, <1>3, <1>4

\* No way to change a slot reads past its text, a paused slot that is fed has
\* an input again, and a step pauses only a slot whose text is not complete.
LEMMA SlotReads ==
    ASSUME NEW sl \in SlotState, sl.text_idx <= Len(sl.trailing), NEW c \in BOOLEAN
    PROVE  /\ /\ Stepped(sl, c).text_idx <= Len(Stepped(sl, c).trailing)
              /\ Waits(Stepped(sl, c), c)
           /\ /\ Ready(sl).text_idx <= Len(Ready(sl).trailing)
              /\ Waits(sl, c) => Waits(Ready(sl), c)
           /\ \A toks \in Seq(Tokens \cup {Eos, Pad}) :
                 /\ Fed(sl, toks).text_idx <= Len(Fed(sl, toks).trailing)
                 /\ Waits(sl, c) /\ toks # <<>> => Fed(sl, toks).next_embed
<1>0. /\ sl.text_idx \in Nat /\ sl.trailing \in Seq(Tokens \cup {Eos, Pad})
      /\ Len(sl.trailing) \in Nat
  BY SMTT(30) DEF SlotState
<1>1. /\ Stepped(sl, c).text_idx <= Len(Stepped(sl, c).trailing)
      /\ Waits(Stepped(sl, c), c)
  <2>1. CASE HasUnread(sl)
    <3>1. Stepped(sl, c) = [sl EXCEPT !.past_len = @ + 1, !.text_idx = @ + 1,
                                      !.next_embed = TRUE, !.last_codec_sum = FALSE]
      BY <2>1 DEF Stepped
    <3>2. /\ Stepped(sl, c).text_idx = sl.text_idx + 1
          /\ Stepped(sl, c).trailing = sl.trailing /\ Stepped(sl, c).next_embed
      BY <3>1 DEF SlotState
    <3> QED BY SMTT(30), <1>0, <2>1, <3>2 DEF Waits, HasUnread
  <2>2. CASE ~HasUnread(sl)
    <3>1. Stepped(sl, c) = [sl EXCEPT !.past_len = @ + 1, !.next_embed = c,
                                      !.last_codec_sum = ~c]
      BY <2>2 DEF Stepped
    <3>2. /\ Stepped(sl, c).text_idx = sl.text_idx
          /\ Stepped(sl, c).trailing = sl.trailing
          /\ Stepped(sl, c).next_embed = c /\ Stepped(sl, c).last_codec_sum = ~c
      BY <3>1 DEF SlotState
    <3> QED BY <2>2, <3>2 DEF Waits, HasUnread
  <2> QED BY <2>1, <2>2
<1>2. /\ Ready(sl).text_idx <= Len(Ready(sl).trailing)
      /\ Waits(sl, c) => Waits(Ready(sl), c)
  <2>1. CASE ~sl.next_embed /\ HasUnread(sl)
    <3>1. Ready(sl) = [sl EXCEPT !.next_embed = TRUE, !.text_idx = @ + 1]
      BY <2>1 DEF Ready
    <3>2. /\ Ready(sl).text_idx = sl.text_idx + 1 /\ Ready(sl).trailing = sl.trailing
          /\ Ready(sl).next_embed
      BY <3>1 DEF SlotState
    <3> QED BY SMTT(30), <1>0, <2>1, <3>2 DEF Waits, HasUnread
  <2>2. CASE ~(~sl.next_embed /\ HasUnread(sl))
    <3>1. Ready(sl) = sl
      BY <2>2 DEF Ready
    <3> QED BY <3>1
  <2> QED BY <2>1, <2>2
<1>3. ASSUME NEW toks \in Seq(Tokens \cup {Eos, Pad})
      PROVE  /\ Fed(sl, toks).text_idx <= Len(Fed(sl, toks).trailing)
             /\ Waits(sl, c) /\ toks # <<>> => Fed(sl, toks).next_embed
  <2>1. PICK fed : fed = [sl EXCEPT !.trailing = @ \o toks]
    OBVIOUS
  <2>2. /\ fed.trailing = sl.trailing \o toks /\ fed.text_idx = sl.text_idx
        /\ fed.next_embed = sl.next_embed /\ fed.last_codec_sum = sl.last_codec_sum
        /\ fed \in SlotState
    BY <2>1, ConcatProperties DEF SlotState
  <2>3. Fed(sl, toks) = Resume(fed)
    BY <2>1 DEF Fed
  <2>4. PICK n \in Nat, m \in Nat, i \in Nat :
          n = Len(sl.trailing) /\ m = Len(toks) /\ i = sl.text_idx /\ i <= n
    BY SMTT(30), <1>0
  <2>5. Len(fed.trailing) = n + m
    BY SMTT(30), <1>0, <2>2, <2>4, ConcatProperties
  <2>6. toks # <<>> => m > 0
    BY SMTT(30), <2>4, EmptySeq
  <2>7. CASE fed.last_codec_sum /\ ~fed.next_embed /\ HasUnread(fed)
    <3>1. Resume(fed) = [fed EXCEPT !.text_idx = @ + 1, !.next_embed = TRUE,
                                    !.last_codec_sum = FALSE]
      BY <2>7 DEF Resume
    <3>2. /\ Resume(fed).text_idx = i + 1 /\ Resume(fed).trailing = fed.trailing
          /\ Resume(fed).next_embed
      BY <2>2, <2>4, <3>1 DEF SlotState
    <3>3. i < n + m
      BY <2>2, <2>4, <2>5, <2>7 DEF HasUnread
    <3> QED BY SMTT(30), <2>3, <2>4, <2>5, <3>2, <3>3
  <2>8. CASE ~(fed.last_codec_sum /\ ~fed.next_embed /\ HasUnread(fed))
    <3>1. Resume(fed) = fed
      BY <2>8 DEF Resume
    <3>2. i <= n + m
      BY SMTT(30), <2>4
    <3>3. ASSUME Waits(sl, c), toks # <<>> PROVE fed.next_embed
      <4>1. HasUnread(fed)
        BY SMTT(30), <2>2, <2>4, <2>5, <2>6, <3>3 DEF HasUnread
      <4> QED BY <2>2, <2>8, <3>3, <4>1 DEF Waits
    <3> QED BY <2>2, <2>3, <2>4, <2>5, <3>1, <3>2, <3>3
  <2> QED BY <2>7, <2>8
<1> QED BY <1>1, <1>2, <1>3

-----------------------------------------------------------------------------
(* The steps of the engine, up to what they do to the sessions.            *)

Same == UNCHANGED <<live, input_complete_all, overflow, segs, slots, free, seg_by_slot>>

\* The loop goes on: no slot joins the batch, and a drain ends only in DrainEnd.
Onward ==
    /\ phase' \in Phases /\ prefills' \in Nat
    /\ batch' \subseteq batch
    /\ phase' \in Between => batch' = {}
    /\ Draining => phase' = phase

\* A segment ends, and the session goes on.
Ended(k) ==
    /\ segs' = [segs EXCEPT ![k].state = "done", ![k].slot = NoSlot]
    /\ Release({segs[k].slot} \ {NoSlot})
    /\ UNCHANGED <<live, input_complete_all, overflow>>

\* A segment starts over.
Rerun(k) ==
    /\ segs[k].retry_idx < MaxRetries
    /\ segs' = [segs EXCEPT ![k].state = "pending_prefill",
                            ![k].slot = NoSlot,
                            ![k].eos_trailing_added = FALSE,
                            ![k].retry_idx = @ + 1,
                            ![k].audible_frame_seen = FALSE]
    /\ Release({segs[k].slot} \ {NoSlot})
    /\ UNCHANGED <<live, input_complete_all, overflow>>

Working(k) == segs[k].state \in {"active", "pending_prefill"}

\* A segment ends or starts over, or its session is removed.
Leaves(k) == Ended(k) \/ Rerun(k) \/ RemoveSessions({k[1]})

\* A session is opened, or opened again.
Opened(x) ==
    /\ live' = live \cup {x}
    /\ segs' = [k \in Keys |-> IF k[1] = x THEN Absent ELSE segs[k]]
    /\ input_complete_all' = [input_complete_all EXCEPT ![x] = FALSE]
    /\ overflow' = [overflow EXCEPT ![x] = <<>>]
    /\ Release(SlotsOf(x))

\* The text of a session ends while some of it is still spoken.
AllIn(x) ==
    /\ input_complete_all' = [input_complete_all EXCEPT ![x] = TRUE]
    /\ UNCHANGED <<live, overflow, segs, slots, free, seg_by_slot>>

\* The text of a segment ends.
TextEnds(k) ==
    /\ ~segs[k].input_complete
    /\ segs' = IF segs[k].state = "absent" THEN segs
               ELSE [segs EXCEPT
                       ![k].input_complete = TRUE,
                       ![k].deferred_token_ids = <<>>,
                       ![k].eos_trailing_added =
                           segs[k].state = "active" /\ ~segs[k].eos_trailing_added]
    /\ slots' = IF segs[k].state = "active"
                THEN [slots EXCEPT ![segs[k].slot] = Fed(@, LastWords(segs[k]))]
                ELSE slots
    /\ UNCHANGED <<live, input_complete_all, overflow, free, seg_by_slot>>

\* What a prefill may leave in the slot of a segment.
Prefilled(seg) == {Primed(seg)} \cup FullyPrefilled(seg)

\* Every step is one of these.
StepKinds ==
    \/ Same /\ Onward
    \/ \E X \in SUBSET Sessions : RemoveSessions(X) /\ Onward
    \/ \E k \in Keys : Working(k) /\ ~Draining /\ Ended(k) /\ Onward
    \/ \E k \in Keys : Working(k) /\ ~Draining /\ Rerun(k) /\ Onward
    \/ \E x \in Sessions : Opened(x) /\ Onward
    \/ \E x \in Sessions : x \in live /\ AllIn(x) /\ Onward
    \/ \E k \in Keys : k[1] \in live /\ Draining /\ TextEnds(k) /\ Onward
    \/ \E x \in Sessions, i \in SegmentIds, p \in Priorities :
          /\ Len(overflow[x]) < MaxText
          /\ StartTokens(x, i, p, <<Len(overflow[x]) + 1>>)
          /\ Onward
    \/ \E x \in Sessions, i \in SegmentIds :
          /\ Room(x, i) /\ ~segs[<<x, i>>].input_complete
          /\ AppendTokens(x, i, <<NextToken(x, i)>>)
          /\ Onward
    \/ \E s \in Slots, k \in Keys, frame \in Frames :
          DecodeFrame(s, k, frame) /\ Onward
    \/ \E k \in Keys, t \in Slots : Migrate(k, t) /\ Onward
    \/ \E k \in Candidates, t \in Slots, frame \in Frames :
          /\ phase \in {"admit", "prefill"}
          /\ \E sl \in Prefilled(segs[k]) : Activate(k, t, sl, frame)
          /\ Onward
    \/ \E B \in SUBSET Runnable : Launch(B)
    \/ DrainEnd

USE EngineAssumption

\* An index of a session is a pair.
LEMMA KeyParts ==
    /\ \A k \in Keys : k[1] \in Sessions /\ k[2] \in SegmentIds /\ k = <<k[1], k[2]>>
    /\ \A x \in Sessions, i \in SegmentIds :
          <<x, i>> \in Keys /\ <<x, i>>[1] = x /\ <<x, i>>[2] = i
    /\ \A k \in Keys, x \in Sessions : k \in KeysOf(x) <=> k[1] = x
    /\ \A x \in Sessions : KeysOf(x) \subseteq Keys
BY SMTT(30) DEF Keys, KeysOf

\* The ways a segment leaves its slot.
LEMMA LeavingKinds ==
    ASSUME NEW k \in Keys, NEW reason, NEW heard, NEW before
    PROVE  /\ EndSegment(k, reason, before) => Ended(k) \/ RemoveSessions({k[1]})
           /\ MayRetry(k) /\ Retry(k, before) => Rerun(k)
           /\ ~Draining /\ RetryOrEnd(k, reason, before) => Leaves(k)
           /\ ~Draining /\ NaturalEos(k, heard, before) => Leaves(k)
<1>1. EndSegment(k, reason, before) => Ended(k) \/ RemoveSessions({k[1]})
  BY DEF EndSegment, Ended
<1>2. EndSegment(k, "codec_eos", before) => Ended(k) \/ RemoveSessions({k[1]})
  BY DEF EndSegment, Ended
<1>3. EndSegment(k, "discard", before) => Ended(k) \/ RemoveSessions({k[1]})
  BY DEF EndSegment, Ended
<1>4. MayRetry(k) /\ Retry(k, before) => Rerun(k)
  BY DEF MayRetry, Retry, Rerun
<1> QED BY <1>1, <1>2, <1>3, <1>4 DEF Leaves, RetryOrEnd, NaturalEos

\* A step of a segment that leaves its slot is one of the kinds.
LEMMA LeavingStep ==
    ASSUME NEW k \in Keys, Working(k), ~Draining, Leaves(k), Onward
    PROVE  StepKinds
BY SMTT(30), KeyParts DEF Leaves, StepKinds


\* A row of the step's output belongs to an active segment.
LEMMA RowIsActive ==
    ASSUME EngineTypeOK, Owned, NEW s \in Slots, NEW k \in Keys, Row(s, k)
    PROVE  Working(k) /\ ~Draining /\ Onward /\ segs[k].slot = s /\ segs[k].state = "active"
<1>1. segs[k].slot = s
  BY DEF Owned, Row
<1>2. segs[k].state = "active"
  BY SMTT(30), <1>1 DEF Owned
<1>3. Onward
  BY DEF Row, Onward, EngineTypeOK, Between, Draining, Phases
<1> QED BY <1>1, <1>2, <1>3 DEF Working, Draining, Row

\* A round of the serial prefill takes a segment that waits for one.
LEMMA SerialIsPending ==
    ASSUME EngineTypeOK, BatchInv, NEW k \in Keys, Serial(k)
    PROVE  Working(k) /\ ~Draining /\ Onward /\ k \in Candidates /\ phase = "prefill"
<1>1. k \in Candidates /\ phase = "prefill"
  BY DEF Serial, Best
<1>2. Onward
  BY SMTT(30) DEF Serial, Onward, EngineTypeOK, BatchInv, Between, Draining, Phases
<1> QED BY <1>1, <1>2 DEF Working, Draining, Candidates

\* What the loop does by itself is one of the kinds.
LEMMA LoopKinds ==
    ASSUME EngineTypeOK, Owned, BatchInv, LoopStep
    PROVE  StepKinds
<1>1. ASSUME NEW s \in Slots, SkipRow(s)
      PROVE  StepKinds
  <2>1. Same /\ Onward
    BY <1>1 DEF SkipRow, SlotsKept, Same, Onward, EngineTypeOK, Between, Draining, Phases
  <2> QED BY <2>1 DEF StepKinds
<1>2. ASSUME NEW s \in Slots, EvictIdle(s)
      PROVE  StepKinds
  <2>1. seg_by_slot[s][1] \in Sessions
    BY SMTT(30), <1>2, KeyParts DEF EvictIdle, EngineTypeOK
  <2>2. Onward
    BY <1>2 DEF EvictIdle, LoopKept, Onward, EngineTypeOK, Between, Draining, Phases
  <2>3. RemoveSessions({seg_by_slot[s][1]})
    BY <1>2 DEF EvictIdle
  <2>4. PICK X : X = {seg_by_slot[s][1]}
    OBVIOUS
  <2> QED BY <2>1, <2>2, <2>3, <2>4 DEF StepKinds
<1>3. ASSUME NEW s \in Slots, NEW k \in Keys, Row(s, k), Leaves(k)
      PROVE  StepKinds
  BY <1>3, RowIsActive, LeavingStep
<1>4. ASSUME NEW s \in Slots, NEW k \in Keys, DecodeEos(s, k)
      PROVE  StepKinds
  <2>1. Leaves(k)
    BY <1>4, RowIsActive, LeavingKinds DEF DecodeEos
  <2> QED BY <1>3, <1>4, <2>1 DEF DecodeEos
<1>5. ASSUME NEW s \in Slots, NEW k \in Keys, NEW frame \in Frames, DecodeFrame(s, k, frame)
      PROVE  StepKinds
  <2>1. Onward
    BY <1>5, RowIsActive DEF DecodeFrame
  <2> QED BY <1>5, <2>1 DEF StepKinds
<1>6. ASSUME NEW s \in Slots, NEW k \in Keys, DecodeInvalid(s, k)
      PROVE  StepKinds
  <2>1. Leaves(k)
    BY <1>6, RowIsActive, LeavingKinds DEF DecodeInvalid
  <2> QED BY <1>3, <1>6, <2>1 DEF DecodeInvalid
<1>7. ASSUME NEW s \in Slots, NEW k \in Keys, NEW frame \in Frames, DecodeLoop(s, k, frame)
      PROVE  StepKinds
  <2>1. Leaves(k)
    BY <1>7, RowIsActive, LeavingKinds DEF DecodeLoop, Leaves
  <2> QED BY <1>3, <1>7, <2>1 DEF DecodeLoop
<1>8. ASSUME NEW s \in Slots, NEW k \in Keys, DecodeSilence(s, k)
      PROVE  StepKinds
  <2>1. Leaves(k)
    BY <1>8, RowIsActive, LeavingKinds DEF DecodeSilence, Leaves
  <2> QED BY <1>3, <1>8, <2>1 DEF DecodeSilence
<1>9. ASSUME NEW s \in Slots, NEW k \in Keys, Migrate(k, s)
      PROVE  StepKinds
  <2>1. Onward
    BY <1>9 DEF Migrate, Onward, EngineTypeOK, Between, Draining, Phases
  <2> QED BY <1>9, <2>1 DEF StepKinds
<1>10. ASSUME NEW s \in Slots, NEW k \in Keys, AdmitHit(k, s)
       PROVE  StepKinds
  <2>1. Onward
    BY SMTT(30), <1>10 DEF AdmitHit, Onward, EngineTypeOK, BatchInv, Between, Draining, Phases
  <2>2. /\ k \in Candidates /\ phase \in {"admit", "prefill"}
        /\ Activate(k, s, Primed(segs[k]), "none")
    BY <1>10 DEF AdmitHit
  <2>3. Primed(segs[k]) \in Prefilled(segs[k]) /\ "none" \in Frames
    BY DEF Prefilled, Frames
  <2>4. \E sl \in Prefilled(segs[k]) : Activate(k, s, sl, "none")
    BY <2>2, <2>3
  <2> QED BY <2>1, <2>2, <2>3, <2>4 DEF StepKinds
<1>11. ASSUME NEW s \in Slots, NEW k \in Keys, AdmitPrefix(k, s)
       PROVE  StepKinds
  <2>1. Onward /\ k \in Candidates /\ phase \in {"admit", "prefill"}
    BY <1>11, SerialIsPending DEF AdmitPrefix
  <2>2. Activate(k, s, Primed(segs[k]), "none")
    BY <1>11 DEF AdmitPrefix
  <2>3. Primed(segs[k]) \in Prefilled(segs[k]) /\ "none" \in Frames
    BY DEF Prefilled, Frames
  <2>4. \E sl \in Prefilled(segs[k]) : Activate(k, s, sl, "none")
    BY <2>2, <2>3
  <2> QED BY <2>1, <2>3, <2>4 DEF StepKinds
<1>12. ASSUME NEW s \in Slots, NEW k \in Keys, NEW frame \in Frames, AdmitFull(k, s, frame)
       PROVE  StepKinds
  <2>1. Onward /\ k \in Candidates /\ phase \in {"admit", "prefill"}
    BY <1>12, SerialIsPending DEF AdmitFull
  <2>2. \E sl \in Prefilled(segs[k]) : Activate(k, s, sl, frame)
    BY <1>12 DEF AdmitFull, Prefilled
  <2> QED BY <2>1, <2>2 DEF StepKinds
<1>13. ASSUME NEW k \in Keys, PrefillInvalid(k)
       PROVE  StepKinds
  <2>1. Serial(k) /\ RetryOrEnd(k, "discard", <<Result("PREFILL_DONE", k[2])>>)
    BY <1>13 DEF PrefillInvalid
  <2>2. Leaves(k)
    BY <2>1, SerialIsPending, LeavingKinds
  <2> QED BY <2>1, <2>2, SerialIsPending, LeavingStep
<1>14. ASSUME NEW k \in Keys, NEW frame \in Frames, PrefillEos(k, frame)
       PROVE  StepKinds
  <2>1. Serial(k)
    BY <1>14 DEF PrefillEos
  <2>2. Leaves(k)
    BY <1>14, <2>1, SerialIsPending, LeavingKinds DEF PrefillEos
  <2> QED BY <2>1, <2>2, SerialIsPending, LeavingStep
<1>15. ASSUME NEW k \in Keys, NEW runaway \in BOOLEAN, Overrun(k, runaway)
       PROVE  StepKinds
  <2>1. Onward /\ ~Draining /\ Working(k)
    BY <1>15 DEF Overrun, LoopKept, Onward, EngineTypeOK, BatchInv, Between, Draining,
       Phases, Working, Active
  <2>2. Leaves(k)
    BY <1>15, <2>1, LeavingKinds DEF Overrun, Leaves
  <2> QED BY <2>1, <2>2, LeavingStep
<1>16. ASSUME NEW K \in SUBSET Candidates, PrefillFails(K)
       PROVE  StepKinds
  <2>1. PICK X : X = {k[1] : k \in K}
    OBVIOUS
  <2>2. X \in SUBSET Sessions
    BY SMTT(30), <2>1, KeyParts DEF Candidates
  <2>3. RemoveSessions(X)
    BY <1>16, <2>1 DEF PrefillFails
  <2>4. Onward
    BY <1>16 DEF PrefillFails, Onward, EngineTypeOK, BatchInv, Between, Draining, Phases
  <2> QED BY <2>2, <2>3, <2>4 DEF StepKinds
<1>17. ASSUME NEW B \in SUBSET Runnable, Launch(B)
       PROVE  StepKinds
  BY <1>17 DEF StepKinds
<1>18. ASSUME NEW x \in Sessions, TimeoutSession(x)
       PROVE  StepKinds
  <2>1. Onward
    BY <1>18 DEF TimeoutSession, LoopKept, Onward, EngineTypeOK, Between, Draining, Phases
  <2>2. RemoveSessions({x}) /\ {x} \in SUBSET Sessions
    BY <1>18 DEF TimeoutSession
  <2> QED BY <2>1, <2>2 DEF StepKinds
<1>19. ASSUME ProcessDone \/ AdmitEnd \/ PrefillEnd \/ HousekeepDone
       PROVE  StepKinds
  <2>1. Same
    BY <1>19 DEF ProcessDone, AdmitEnd, PrefillEnd, HousekeepDone, SlotsKept, Same
  <2>2. Onward
    BY SMTT(30), <1>19 DEF ProcessDone, AdmitEnd, PrefillEnd, HousekeepDone, Move, Onward,
       EngineTypeOK, BatchInv, Between, Draining, Phases
  <2> QED BY <2>1, <2>2 DEF StepKinds
<1>20. ASSUME DrainEnd
       PROVE  StepKinds
  BY <1>20 DEF StepKinds
<1> QED
  BY <1>1, <1>2, <1>4, <1>5, <1>6, <1>7, <1>8, <1>9, <1>10, <1>11, <1>12, <1>13, <1>14,
     <1>15, <1>16, <1>17, <1>18, <1>19, <1>20 DEF LoopStep

\* What a request does is one of the kinds.
LEMMA RequestKinds ==
    ASSUME EngineTypeOK, Owned, BatchInv, Request
    PROVE  StepKinds
<1>1. PICK x \in Sessions :
         \/ UnknownSession(x) \/ NewSession(x) \/ SessionTokensDone(x) \/ CancelSession(x)
         \/ \E i \in SegmentIds :
              \/ /\ Len(overflow[x]) < MaxText
                 /\ \E p \in Priorities : StartTokens(x, i, p, <<Len(overflow[x]) + 1>>)
              \/ /\ Room(x, i) /\ ~segs[<<x, i>>].input_complete
                 /\ AppendTokens(x, i, <<NextToken(x, i)>>)
              \/ ~segs[<<x, i>>].input_complete /\ SegmentTokensDone(x, i)
  BY DEF Request
<1>2. ASSUME LoopKept
      PROVE  Onward
  BY <1>2 DEF LoopKept, Onward, EngineTypeOK, BatchInv, Draining, Phases
<1>3. CASE UnknownSession(x)
  <2>1. Same /\ Onward
    BY <1>2, <1>3 DEF UnknownSession, SlotsKept, Same
  <2> QED BY <2>1 DEF StepKinds
<1>4. CASE NewSession(x)
  <2>1. Onward
    BY <1>2, <1>4 DEF NewSession
  <2>2. Same \/ Opened(x)
    BY <1>4 DEF NewSession, SlotsKept, Same, Opened
  <2> QED BY <2>1, <2>2 DEF StepKinds
<1>5. ASSUME NEW all, NEW f, CloseIfDone(x, all, f), Onward
      PROVE  \/ StepKinds
             \/ /\ segs' = f
                /\ input_complete_all' = [input_complete_all EXCEPT ![x] = all]
                /\ UNCHANGED <<live, overflow, slots, free, seg_by_slot>>
  <2>1. CASE RemoveSessions({x})
    BY <1>5, <2>1 DEF StepKinds
  <2>2. CASE /\ segs' = f
             /\ input_complete_all' = [input_complete_all EXCEPT ![x] = all]
             /\ SlotsKept
             /\ UNCHANGED <<live, overflow>>
    BY <2>2 DEF SlotsKept
  <2> QED BY <1>5, <2>1, <2>2 DEF CloseIfDone
<1>6. CASE SessionTokensDone(x)
  <2>1. Onward /\ x \in live /\ CloseIfDone(x, TRUE, segs)
    BY <1>2, <1>6 DEF SessionTokensDone
  <2>2. StepKinds \/ AllIn(x)
    BY <1>5, <2>1 DEF AllIn
  <2> QED BY <2>1, <2>2 DEF StepKinds
<1>7. CASE CancelSession(x)
  <2>1. Onward /\ RemoveSessions({x}) /\ {x} \in SUBSET Sessions
    BY <1>2, <1>7 DEF CancelSession
  <2> QED BY <2>1 DEF StepKinds
<1>8. ASSUME NEW i \in SegmentIds, NEW p \in Priorities, Len(overflow[x]) < MaxText,
             StartTokens(x, i, p, <<Len(overflow[x]) + 1>>)
      PROVE  StepKinds
  <2>1. Onward
    BY <1>2, <1>8 DEF StartTokens
  <2> QED BY <1>8, <2>1 DEF StepKinds
<1>9. ASSUME NEW i \in SegmentIds, Room(x, i), ~segs[<<x, i>>].input_complete,
             AppendTokens(x, i, <<NextToken(x, i)>>)
      PROVE  StepKinds
  <2>1. Onward
    BY <1>2, <1>9 DEF AppendTokens
  <2> QED BY <1>9, <2>1 DEF StepKinds
<1>10. ASSUME NEW i \in SegmentIds, ~segs[<<x, i>>].input_complete, SegmentTokensDone(x, i)
       PROVE  StepKinds
  <2>1. PICK k \in Keys : k = <<x, i>> /\ k[1] = x
    BY KeyParts
  <2>2. Onward /\ Draining /\ x \in live
    BY <1>2, <1>10 DEF SegmentTokensDone
  <2>3. PICK ended : ended = IF segs[k].state = "absent" THEN segs
                 ELSE [segs EXCEPT
                         ![k].input_complete = TRUE,
                         ![k].deferred_token_ids = <<>>,
                         ![k].eos_trailing_added =
                             segs[k].state = "active" /\ ~segs[k].eos_trailing_added]
    OBVIOUS
  <2>4. CASE segs[k].state = "done"
    <3>1. CloseIfDone(x, input_complete_all[x], ended)
      BY <1>10, <2>1, <2>3, <2>4 DEF SegmentTokensDone
    <3>2. \/ StepKinds
          \/ /\ segs' = ended
             /\ input_complete_all' = [input_complete_all EXCEPT ![x] = input_complete_all[x]]
             /\ UNCHANGED <<live, overflow, slots, free, seg_by_slot>>
      BY <1>5, <2>2, <3>1
    <3>3. [input_complete_all EXCEPT ![x] = input_complete_all[x]] = input_complete_all
      BY DEF EngineTypeOK
    <3>4. StepKinds \/ TextEnds(k)
      BY <1>10, <2>1, <2>3, <2>4, <3>2, <3>3 DEF TextEnds
    <3> QED BY <2>1, <2>2, <3>4 DEF StepKinds
  <2>5. CASE segs[k].state # "done"
    <3>1. TextEnds(k)
      BY <1>10, <2>1, <2>5 DEF SegmentTokensDone, TextEnds
    <3> QED BY <2>1, <2>2, <3>1 DEF StepKinds
  <2> QED BY <2>4, <2>5
<1> QED BY <1>1, <1>3, <1>4, <1>6, <1>7, <1>8, <1>9, <1>10


-----------------------------------------------------------------------------
(* Steps that take slots from segments: the segments K let go of theirs.   *)

Drops(K) ==
    /\ Release({segs[k].slot : k \in K} \ {NoSlot})
    /\ segs' \in [Keys -> Segment]
    /\ \A k \in Keys \ K : segs'[k] = segs[k]
    /\ \A k \in K : /\ segs'[k].slot = NoSlot /\ segs'[k].state # "active"
                    /\ segs'[k].deferred_token_ids = <<>>
    /\ live' \subseteq Sessions
    /\ \A k \in Keys : k[1] \notin live' => segs'[k] = Absent
    /\ input_complete_all' \in [Sessions -> BOOLEAN]
    /\ overflow' \in [Sessions -> Seq(Tokens)]

\* A new segment is one.
LEMMA NewSegments ==
    /\ Absent \in Segment
    /\ \A p \in Priorities, text \in Seq(Tokens) :
          /\ Pending(p, text) \in Segment
          /\ Pending(p, text).slot = NoSlot /\ Pending(p, text).state = "pending_prefill"
          /\ Pending(p, text).deferred_token_ids = <<>>
<1>1. Absent \in Segment
  BY SMTT(30) DEF Absent, Segment
<1> QED BY <1>1 DEF Pending, Absent, Segment

\* Sessions are removed.
LEMMA RemovedDrops ==
    ASSUME EngineTypeOK, Owned, NEW X \in SUBSET Sessions, RemoveSessions(X)
    PROVE  \E K \in SUBSET Keys : Drops(K)
<1>1. PICK K : K = {k \in Keys : k[1] \in X}
  OBVIOUS
<1>2. UNION {SlotsOf(x) : x \in X} = {segs[k].slot : k \in K} \ {NoSlot}
  BY SMTT(30), <1>1, KeyParts DEF SlotsOf
<1>3. Release({segs[k].slot : k \in K} \ {NoSlot})
  BY <1>2 DEF RemoveSessions
<1>4. /\ segs' \in [Keys -> Segment]
      /\ \A k \in Keys \ K : segs'[k] = segs[k]
      /\ \A k \in K : segs'[k] = Absent
  BY <1>1, NewSegments DEF RemoveSessions, EngineTypeOK
<1>5. /\ live' \subseteq Sessions
      /\ \A k \in Keys : k[1] \notin live' => segs'[k] = Absent
  BY <1>1, <1>4 DEF RemoveSessions, EngineTypeOK, Owned
<1>6. input_complete_all' \in [Sessions -> BOOLEAN]
  BY DEF RemoveSessions, EngineTypeOK
<1>7. overflow' \in [Sessions -> Seq(Tokens)]
  BY SMTT(30) DEF RemoveSessions, EngineTypeOK
<1>8. \A k \in K : /\ segs'[k].slot = NoSlot /\ segs'[k].state # "active"
                   /\ segs'[k].deferred_token_ids = <<>>
  BY SMTT(30), <1>4 DEF Absent
<1>9. Drops(K)
  BY <1>3, <1>4, <1>5, <1>6, <1>7, <1>8 DEF Drops
<1> QED BY <1>1, <1>9

\* A session is opened.
LEMMA OpenedDrops ==
    ASSUME EngineTypeOK, Owned, NEW x \in Sessions, Opened(x)
    PROVE  \E K \in SUBSET Keys : Drops(K)
<1>1. PICK K : K = {k \in Keys : k[1] = x}
  OBVIOUS
<1>2. SlotsOf(x) = {segs[k].slot : k \in K} \ {NoSlot}
  BY SMTT(30), <1>1, KeyParts DEF SlotsOf
<1>3. Release({segs[k].slot : k \in K} \ {NoSlot})
  BY <1>2 DEF Opened
<1>4. /\ segs' \in [Keys -> Segment]
      /\ \A k \in Keys \ K : segs'[k] = segs[k]
      /\ \A k \in K : segs'[k] = Absent
  BY <1>1, NewSegments DEF Opened, EngineTypeOK
<1>5. /\ live' \subseteq Sessions
      /\ \A k \in Keys : k[1] \notin live' => segs'[k] = Absent
  BY SMTT(30), <1>1, <1>4 DEF Opened, EngineTypeOK, Owned
<1>6. input_complete_all' \in [Sessions -> BOOLEAN]
  BY DEF Opened, EngineTypeOK
<1>7. overflow' \in [Sessions -> Seq(Tokens)]
  BY SMTT(30) DEF Opened, EngineTypeOK
<1>8. \A k \in K : /\ segs'[k].slot = NoSlot /\ segs'[k].state # "active"
                   /\ segs'[k].deferred_token_ids = <<>>
  BY SMTT(30), <1>4 DEF Absent
<1>9. Drops(K)
  BY <1>3, <1>4, <1>5, <1>6, <1>7, <1>8 DEF Drops
<1> QED BY <1>1, <1>9

\* A segment ends or starts over.
LEMMA LeftDrops ==
    ASSUME EngineTypeOK, Owned, DeferredInv, NEW k \in Keys, Working(k), ~Draining,
           Ended(k) \/ Rerun(k)
    PROVE  \E K \in SUBSET Keys : Drops(K)
<1>1. PICK K : K = {k}
  OBVIOUS
<1>2. Release({segs[j].slot : j \in K} \ {NoSlot})
  <2>1. {segs[j].slot : j \in K} = {segs[k].slot}
    BY <1>1
  <2> QED BY <2>1 DEF Ended, Rerun
<1>3. segs[k] \in Segment /\ segs[k].deferred_token_ids = <<>>
  BY DEF EngineTypeOK, DeferredInv
<1>4. /\ segs' \in [Keys -> Segment]
      /\ \A j \in Keys \ K : segs'[j] = segs[j]
      /\ segs'[k].slot = NoSlot /\ segs'[k].state # "active"
      /\ segs'[k].deferred_token_ids = <<>>
  <2>1. CASE Ended(k)
    <3>1. PICK seg : seg = [segs[k] EXCEPT !.state = "done", !.slot = NoSlot]
      OBVIOUS
    <3>2. segs' = [segs EXCEPT ![k] = seg]
      BY <2>1, <3>1 DEF Ended, EngineTypeOK
    <3>3. /\ seg \in Segment /\ seg.slot = NoSlot /\ seg.state = "done"
          /\ seg.deferred_token_ids = <<>>
      BY <1>3, <3>1 DEF Segment
    <3> QED BY <1>1, <3>2, <3>3 DEF EngineTypeOK
  <2>2. CASE Rerun(k)
    <3>1. PICK seg : seg = [segs[k] EXCEPT !.state = "pending_prefill", !.slot = NoSlot,
                               !.eos_trailing_added = FALSE, !.retry_idx = @ + 1,
                               !.audible_frame_seen = FALSE]
      OBVIOUS
    <3>2. segs' = [segs EXCEPT ![k] = seg]
      BY <2>2, <3>1 DEF Rerun, EngineTypeOK
    <3>3. segs[k].retry_idx + 1 \in 0 .. MaxRetries
      BY SMTT(30), <1>3, <2>2 DEF Rerun, Segment
    <3>4. /\ seg \in Segment /\ seg.slot = NoSlot /\ seg.state = "pending_prefill"
          /\ seg.deferred_token_ids = <<>>
      BY <1>3, <3>1, <3>3 DEF Segment
    <3> QED BY <1>1, <3>2, <3>4 DEF EngineTypeOK
  <2> QED BY <2>1, <2>2
<1>5. k[1] \in live
  BY SMTT(30) DEF Owned, Working, Absent
<1>6. /\ live' = live /\ live' \subseteq Sessions
      /\ input_complete_all' \in [Sessions -> BOOLEAN]
      /\ overflow' \in [Sessions -> Seq(Tokens)]
  BY DEF Ended, Rerun, EngineTypeOK
<1>7. \A j \in Keys : j[1] \notin live' => segs'[j] = Absent
  BY <1>1, <1>4, <1>5, <1>6 DEF Owned
<1>8. Drops(K)
  BY <1>1, <1>2, <1>4, <1>6, <1>7 DEF Drops
<1> QED BY <1>1, <1>8

\* A segment is started, or replaced by a new one.
LEMMA StartedDrops ==
    ASSUME EngineTypeOK, Owned, NEW x \in Sessions, NEW i \in SegmentIds, NEW p \in Priorities,
           Len(overflow[x]) < MaxText, StartTokens(x, i, p, <<Len(overflow[x]) + 1>>)
    PROVE  \E K \in SUBSET Keys : Drops(K)
<1>1. PICK k \in Keys : k = <<x, i>> /\ k[1] = x
  BY KeyParts
<1>2. PICK K : K = {k}
  OBVIOUS
<1>3. Release({segs[j].slot : j \in K} \ {NoSlot})
  <2>1. {segs[j].slot : j \in K} = {segs[k].slot}
    BY <1>2
  <2> QED BY <1>1, <2>1 DEF StartTokens
<1>4. PICK text : text = overflow[x] \o <<Len(overflow[x]) + 1>>
  OBVIOUS
<1>5. text \in Seq(Tokens)
  <2>1. overflow[x] \in Seq(Tokens)
    BY DEF EngineTypeOK
  <2>2. Len(overflow[x]) + 1 \in Tokens
    BY SMTT(30), <2>1 DEF Tokens
  <2>3. <<Len(overflow[x]) + 1>> \in Seq(Tokens)
    BY SMTT(30), <2>2
  <2> QED BY <1>4, <2>1, <2>3, ConcatProperties
<1>6. segs' = [segs EXCEPT ![k] = Pending(p, text)]
  BY <1>1, <1>4 DEF StartTokens
<1>7. /\ segs' \in [Keys -> Segment]
      /\ \A j \in Keys \ K : segs'[j] = segs[j]
      /\ segs'[k].slot = NoSlot /\ segs'[k].state # "active"
      /\ segs'[k].deferred_token_ids = <<>>
  BY <1>2, <1>5, <1>6, NewSegments DEF EngineTypeOK
<1>8. /\ live' = live /\ live' \subseteq Sessions /\ x \in live
      /\ input_complete_all' \in [Sessions -> BOOLEAN]
  BY DEF StartTokens, EngineTypeOK
<1>9. overflow' \in [Sessions -> Seq(Tokens)]
  BY SMTT(30) DEF StartTokens, EngineTypeOK
<1>10. \A j \in Keys : j[1] \notin live' => segs'[j] = Absent
  BY SMTT(30), <1>1, <1>2, <1>7, <1>8 DEF Owned
<1>11. Drops(K)
  BY <1>2, <1>3, <1>7, <1>8, <1>9, <1>10 DEF Drops
<1> QED BY <1>2, <1>11


\* The slots of the segments that let go are free, the others are what they were.
LEMMA DropsSlots ==
    ASSUME EngineTypeOK, Owned, NEW K \in SUBSET Keys, Drops(K)
    PROVE  /\ slots' \in [Slots -> SlotState] /\ free' \in [Slots -> Nat]
           /\ seg_by_slot' \in [Slots -> Keys \cup {NoSegment}]
           /\ \A s \in Slots : slots'[s] = slots[s] \/ slots'[s] = FreeSlot
           /\ \A k \in Keys : segs'[k].state = "active" =>
                 /\ k \notin K /\ segs'[k] = segs[k]
                 /\ slots'[segs'[k].slot] = slots[segs[k].slot]
           /\ Owned'
<1>0. PICK S : S = {segs[k].slot : k \in K} \ {NoSlot}
  OBVIOUS
<1>1. /\ slots' = [s \in Slots |-> IF s \in S /\ ~slots[s].is_free THEN FreeSlot ELSE slots[s]]
      /\ free' = [s \in Slots |-> IF s \in S /\ ~slots[s].is_free THEN free[s] + 1 ELSE free[s]]
      /\ seg_by_slot' = [s \in Slots |-> IF s \in S THEN NoSegment ELSE seg_by_slot[s]]
  BY <1>0 DEF Drops, Release
<1>2. \A k \in Keys : segs[k] \in Segment /\ segs'[k] \in Segment
  BY DEF EngineTypeOK, Drops
<1>3. \A k \in Keys : segs[k].slot \in Slots \cup {NoSlot}
  BY <1>2 DEF Segment
<1>4. S \subseteq Slots
  BY <1>0, <1>3
<1>5. \A s \in S : ~slots[s].is_free
  BY SMTT(30), <1>0, <1>4 DEF Owned
<1>6. \A s \in Slots : slots[s] \in SlotState /\ free[s] \in Nat
  BY DEF EngineTypeOK
<1>7. FreeSlot \in SlotState /\ FreeSlot.is_free
  BY SMTT(30), EngineAssumption DEF FreeSlot, SlotState
<1>8. /\ \A s \in S : slots'[s] = FreeSlot /\ free'[s] = 1 /\ seg_by_slot'[s] = NoSegment
      /\ \A s \in Slots \ S : /\ slots'[s] = slots[s] /\ free'[s] = free[s]
                              /\ seg_by_slot'[s] = seg_by_slot[s]
  BY SMTT(30), <1>1, <1>4, <1>5, <1>6 DEF Owned
<1>9. /\ slots' \in [Slots -> SlotState] /\ free' \in [Slots -> Nat]
      /\ seg_by_slot' \in [Slots -> Keys \cup {NoSegment}]
  BY SMTT(30), <1>1, <1>6, <1>7 DEF EngineTypeOK
<1>10. \A s \in Slots, k \in Keys : s \in S /\ segs[k].slot = s => k \in K
  BY SMTT(30), <1>0 DEF Owned
<1>11. \A k \in K : segs[k].slot = NoSlot \/ segs[k].slot \in S
  BY <1>0
<1>12. /\ \A k \in Keys \ K : segs'[k] = segs[k]
       /\ \A k \in K : segs'[k].slot = NoSlot /\ segs'[k].state # "active"
  BY DEF Drops
<1>13. \A k \in Keys : segs'[k].state = "active" =>
          /\ k \notin K /\ segs'[k] = segs[k]
          /\ slots'[segs'[k].slot] = slots[segs[k].slot]
  <2> SUFFICES ASSUME NEW k \in Keys, segs'[k].state = "active"
               PROVE  /\ k \notin K /\ segs'[k] = segs[k]
                      /\ slots'[segs'[k].slot] = slots[segs[k].slot]
    OBVIOUS
  <2>1. k \notin K /\ segs'[k] = segs[k]
    BY <1>12
  <2>2. segs[k].slot \in Slots \ S
    BY <1>3, <1>10, <2>1 DEF Owned
  <2> QED BY <1>8, <2>1, <2>2
<1>14. \A s \in Slots : /\ free'[s] = IF slots'[s].is_free THEN 1 ELSE 0
                        /\ slots'[s].is_free <=> seg_by_slot'[s] = NoSegment
  BY SMTT(30), <1>7, <1>8 DEF Owned
<1>15. \A s \in Slots, k \in Keys : seg_by_slot'[s] = k <=> segs'[k].slot = s
  BY SMTT(30), <1>8, <1>10, <1>11, <1>12 DEF Owned
<1>16. \A k \in Keys : segs'[k].slot = NoSlot <=> segs'[k].state # "active"
  BY <1>12 DEF Owned
<1>17. Owned'
  BY <1>14, <1>15, <1>16 DEF Owned, Drops
<1> QED BY <1>8, <1>9, <1>13, <1>17


\* The segments of a session that hold a slot.
Holding(x) ==
    {k \in KeysOf(x) : /\ segs[k].state \in {"pending_prefill", "active"}
                       /\ segs[k].slot # NoSlot}

\* They are finitely many, since no two of them hold the same slot.
LEMMA HoldingFinite ==
    ASSUME EngineTypeOK, Owned, NEW x \in Sessions
    PROVE  /\ IsFiniteSet(Holding(x))
           /\ ActiveSlotCount(x) = Cardinality(Holding(x))
           /\ Cardinality(Holding(x)) \in Nat
<1>1. PICK H : H = Holding(x)
  OBVIOUS
<1>2. H \subseteq Keys /\ \A k \in H : segs[k].slot \in Slots
  BY SMTT(30), <1>1, KeyParts DEF Holding, EngineTypeOK, Segment
<1>3. PICK f : f = [k \in H |-> segs[k].slot]
  OBVIOUS
<1>4. f \in [H -> Slots]
  BY <1>2, <1>3
<1>5. \A j, k \in H : f[j] = f[k] => j = k
  BY SMTT(30), <1>2, <1>3 DEF Owned
<1>6. f \in Injection(H, Slots)
  BY <1>4, <1>5 DEF Injection, IsInjective
<1>7. IsFiniteSet(H)
  BY <1>6, FS_Injection, EngineAssumption
<1>8. Cardinality(H) \in Nat
  BY <1>7, FS_CardinalityType
<1> QED BY <1>1, <1>7, <1>8 DEF Holding, ActiveSlotCount

\* A session whose segments take no slot holds no more of them.
LEMMA FewerSlots ==
    ASSUME EngineTypeOK, Owned, CountInv,
           \A k \in Keys : segs'[k].slot = NoSlot \/ segs[k].state = "active",
           Owned'
    PROVE  CountInv'
<1> SUFFICES ASSUME NEW x \in Sessions
             PROVE  (ActiveSlotCount(x) <= MaxSlotsPerSession)'
  BY DEF CountInv
<1>1. PICK H : H = Holding(x)
  OBVIOUS
<1>2. PICK T : T = {k \in KeysOf(x) : /\ segs'[k].state \in {"pending_prefill", "active"}
                                     /\ segs'[k].slot # NoSlot}
  OBVIOUS
<1>3. T \in SUBSET H
  BY SMTT(30), <1>1, <1>2, KeyParts DEF Holding, Owned
<1>4. IsFiniteSet(H) /\ Cardinality(H) \in Nat /\ Cardinality(H) <= MaxSlotsPerSession
  BY <1>1, HoldingFinite DEF CountInv
<1>5. IsFiniteSet(T) /\ Cardinality(T) <= Cardinality(H)
  BY <1>3, <1>4, FS_Subset
<1>6. Cardinality(T) \in Nat
  BY <1>5, FS_CardinalityType
<1>7. ActiveSlotCount(x)' = Cardinality(T)
  BY <1>2 DEF ActiveSlotCount
<1> QED BY SMTT(30), <1>4, <1>5, <1>6, <1>7, EngineAssumption

\* A step that takes slots from segments keeps the invariant.
LEMMA DropsStep ==
    ASSUME EngineInv, NEW K \in SUBSET Keys, Drops(K), Onward, UNCHANGED task
    PROVE  EngineInv'
<1>1. /\ EngineTypeOK /\ Owned /\ BatchInv /\ CountInv /\ DeferredInv /\ ReadInv
  BY DEF EngineInv
<1>2. /\ slots' \in [Slots -> SlotState] /\ free' \in [Slots -> Nat]
      /\ seg_by_slot' \in [Slots -> Keys \cup {NoSegment}]
      /\ \A s \in Slots : slots'[s] = slots[s] \/ slots'[s] = FreeSlot
      /\ \A k \in Keys : segs'[k].state = "active" =>
            /\ k \notin K /\ segs'[k] = segs[k]
            /\ slots'[segs'[k].slot] = slots[segs[k].slot]
      /\ Owned'
  BY <1>1, DropsSlots
<1>3. EngineTypeOK'
  BY <1>1, <1>2 DEF EngineTypeOK, Onward, Drops, Phases
<1>4. BatchInv'
  <2>1. \A s \in batch' : s \in batch /\ s \in Slots
    BY <1>1 DEF Onward, EngineTypeOK
  <2>2. FreeSlot.is_free
    BY DEF FreeSlot
  <2> QED BY <1>1, <1>2, <2>1, <2>2 DEF BatchInv, Onward
<1>5. CountInv'
  <2>1. \A k \in Keys : segs'[k].slot = NoSlot \/ segs[k].state = "active"
    BY <1>1, <1>2 DEF Drops, Owned
  <2> QED BY <1>1, <1>2, <2>1, FewerSlots
<1>6. DeferredInv'
  <2>1. \A k \in Keys : segs'[k] = segs[k] \/ segs'[k].deferred_token_ids = <<>>
    BY DEF Drops
  <2>2. ~Draining' => ~Draining
    BY DEF Onward, Draining
  <2> QED BY <1>1, <1>2, <2>1, <2>2 DEF DeferredInv, Active
<1>7. ReadInv'
  <2>1. FreeSlot.text_idx <= Len(FreeSlot.trailing)
    BY SMTT(30) DEF FreeSlot
  <2>2. \A s \in Slots : slots'[s].text_idx <= Len(slots'[s].trailing)
    BY <1>1, <1>2, <2>1 DEF ReadInv
  <2>3. \A k \in Active' : Waits(slots'[segs'[k].slot], segs'[k].input_complete)
    BY <1>1, <1>2 DEF ReadInv, Active
  <2> QED BY <2>2, <2>3 DEF ReadInv
<1> QED BY <1>2, <1>3, <1>4, <1>5, <1>6, <1>7 DEF EngineInv

-----------------------------------------------------------------------------
(* Steps in which every segment keeps its slot.                            *)

\* Slots keep their owners and segments their states.
Stays ==
    /\ live' = live /\ free' = free /\ seg_by_slot' = seg_by_slot
    /\ \A s \in Slots : slots'[s].is_free = slots[s].is_free
    /\ \A k \in Keys : /\ segs'[k].slot = segs[k].slot /\ segs'[k].state = segs[k].state
                       /\ segs[k] = Absent => segs'[k] = Absent

\* Then ownership and the number of slots of a session stay what they are.
LEMMA StaysOwned ==
    ASSUME EngineTypeOK, Owned, CountInv, Stays
    PROVE  Owned' /\ CountInv'
<1>1. Owned'
  <2>1. \A s \in Slots : /\ free'[s] = IF slots'[s].is_free THEN 1 ELSE 0
                         /\ slots'[s].is_free <=> seg_by_slot'[s] = NoSegment
    BY DEF Owned, Stays
  <2>2. \A s \in Slots, k \in Keys : seg_by_slot'[s] = k <=> segs'[k].slot = s
    BY SMTT(30) DEF Owned, Stays
  <2>3. \A k \in Keys : /\ segs'[k].slot = NoSlot <=> segs'[k].state # "active"
                        /\ k[1] \notin live' => segs'[k] = Absent
    BY DEF Owned, Stays
  <2> QED BY <2>1, <2>2, <2>3 DEF Owned
<1>2. \A k \in Keys : segs'[k].slot = NoSlot \/ segs[k].state = "active"
  BY DEF Owned, Stays
<1> QED BY <1>1, <1>2, FewerSlots

\* A step that changes nothing of the sessions, or ends the text of one, keeps
\* the invariant.
LEMMA SameStep ==
    ASSUME EngineInv, Onward, UNCHANGED task,
           \/ Same
           \/ \E x \in Sessions : x \in live /\ AllIn(x)
    PROVE  EngineInv'
<1>1. /\ EngineTypeOK /\ Owned /\ BatchInv /\ CountInv /\ DeferredInv /\ ReadInv
  BY DEF EngineInv
<1>2. /\ UNCHANGED <<live, overflow, segs, slots, free, seg_by_slot>>
      /\ input_complete_all' \in [Sessions -> BOOLEAN]
  BY <1>1 DEF Same, AllIn, EngineTypeOK
<1>3. EngineTypeOK'
  BY <1>1, <1>2 DEF EngineTypeOK, Onward, Phases
<1>4. Owned' /\ CountInv'
  BY <1>1, <1>2, StaysOwned DEF Stays
<1>5. BatchInv'
  BY <1>1, <1>2 DEF BatchInv, Onward
<1>6. DeferredInv'
  BY <1>1, <1>2 DEF DeferredInv, Onward, Draining, Active
<1>7. ReadInv'
  BY <1>1, <1>2 DEF ReadInv, Active
<1> QED BY <1>3, <1>4, <1>5, <1>6, <1>7 DEF EngineInv


\* The end of the text of a segment keeps the invariant: the tokens that wait and
\* the end-of-text token reach its slot, which then has an input.
LEMMA TextEndsStep ==
    ASSUME EngineInv, NEW k \in Keys, k[1] \in live, Draining, TextEnds(k), Onward,
           UNCHANGED task
    PROVE  EngineInv'
<1>1. /\ EngineTypeOK /\ Owned /\ BatchInv /\ CountInv /\ DeferredInv /\ ReadInv
  BY DEF EngineInv
<1>2. CASE segs[k].state = "absent"
  <2>1. Same
    BY <1>2 DEF TextEnds, Same
  <2> QED BY <2>1, SameStep
<1>3. CASE segs[k].state # "absent"
  <2>0. PICK b \in BOOLEAN : b = (segs[k].state = "active" /\ ~segs[k].eos_trailing_added)
    OBVIOUS
  <2>1. PICK seg : seg = [segs[k] EXCEPT
                            !.input_complete = TRUE, !.deferred_token_ids = <<>>,
                            !.eos_trailing_added = b]
    OBVIOUS
  <2>2. segs' = [segs EXCEPT ![k] = seg]
    BY <1>1, <1>3, <2>0, <2>1 DEF TextEnds, EngineTypeOK
  <2>3. segs[k] \in Segment
    BY <1>1 DEF EngineTypeOK
  <2>4. /\ seg \in Segment /\ seg.slot = segs[k].slot /\ seg.state = segs[k].state
        /\ seg.input_complete /\ seg.deferred_token_ids = <<>>
    <3>0. <<>> \in Seq(Tokens)
      BY SMTT(30)
    <3>1. PICK none \in Seq(Tokens) : none = <<>>
      BY <3>0
    <3>2. seg = [segs[k] EXCEPT !.input_complete = TRUE, !.deferred_token_ids = none,
                                !.eos_trailing_added = b]
      BY <2>1, <3>1
    <3>3. seg \in Segment
      BY <2>3, <3>2 DEF Segment
    <3>4. /\ seg.slot = segs[k].slot /\ seg.state = segs[k].state
          /\ seg.input_complete = TRUE /\ seg.deferred_token_ids = <<>>
      BY <2>1, <2>3 DEF Segment
    <3> QED BY <3>3, <3>4
  <2>5. segs[k].state = "active" => seg.eos_trailing_added
    <3>1. segs[k].state = "active" => segs[k].eos_trailing_added = FALSE
      BY <1>1, <2>3 DEF DeferredInv, Active, TextEnds, Segment
    <3>2. segs[k].state = "active" => (segs[k].state = "active" /\ ~segs[k].eos_trailing_added)
      BY <3>1
    <3>3. seg.eos_trailing_added = (segs[k].state = "active" /\ ~segs[k].eos_trailing_added)
      BY <2>0, <2>1, <2>3 DEF Segment
    <3> QED BY <3>2, <3>3
  <2>6. /\ segs' \in [Keys -> Segment] /\ segs'[k] = seg
        /\ \A j \in Keys \ {k} : segs'[j] = segs[j]
    BY <1>1, <2>2, <2>4 DEF EngineTypeOK
  <2>7. /\ LastWords(segs[k]) \in Seq(Tokens \cup {Eos, Pad})
        /\ segs[k].state = "active" => LastWords(segs[k]) # <<>>
    <3>1. segs[k].deferred_token_ids \in Seq(Tokens \cup {Eos, Pad})
      BY SMTT(30), <2>3 DEF Segment
    <3>2. Append(segs[k].deferred_token_ids, Eos) \in Seq(Tokens \cup {Eos, Pad})
      BY <3>1, AppendProperties
    <3>3. Append(segs[k].deferred_token_ids, Eos) # <<>>
      BY SMTT(30), <3>1, AppendProperties
    <3>4. segs[k].state = "active" => ~segs[k].eos_trailing_added
      BY <1>1, <2>3 DEF DeferredInv, Active, TextEnds, Segment
    <3> QED BY <3>1, <3>2, <3>3, <3>4 DEF LastWords
  <2>8. PICK s : s = segs[k].slot
    OBVIOUS
  <2>9. /\ \A r \in Slots : slots[r] \in SlotState
        /\ segs[k].state = "active" => s \in Slots
    BY SMTT(30), <1>1, <2>3, <2>8 DEF EngineTypeOK, Owned, Segment
  <2>10. PICK fed : fed = Fed(slots[s], LastWords(segs[k]))
    OBVIOUS
  <2>11. segs[k].state = "active" =>
            /\ fed \in SlotState /\ fed.is_free = slots[s].is_free
            /\ fed.past_len = slots[s].past_len /\ fed.launched = slots[s].launched
    <3> SUFFICES ASSUME segs[k].state = "active"
                 PROVE  /\ fed \in SlotState /\ fed.is_free = slots[s].is_free
                        /\ fed.past_len = slots[s].past_len
                        /\ fed.launched = slots[s].launched
      OBVIOUS
    <3>1. slots[s] \in SlotState
      BY <2>9
    <3>2. \A toks \in Seq(Tokens \cup {Eos, Pad}) :
             /\ Fed(slots[s], toks) \in SlotState
             /\ Fed(slots[s], toks).is_free = slots[s].is_free
             /\ Fed(slots[s], toks).past_len = slots[s].past_len
             /\ Fed(slots[s], toks).launched = slots[s].launched
      BY ONLY ZenonT(30), <3>1, SlotForms
    <3> QED BY <2>7, <2>10, <3>2
  <2>12. segs[k].state = "active" => fed.text_idx <= Len(fed.trailing) /\ fed.next_embed
    <3>1. segs[k].state = "active" =>
             /\ slots[s].text_idx <= Len(slots[s].trailing)
             /\ Waits(slots[s], segs[k].input_complete)
      BY <1>1, <2>8, <2>9 DEF ReadInv, Active
    <3>2. segs[k].input_complete \in BOOLEAN
      BY <2>3 DEF Segment
    <3> QED BY <2>7, <2>9, <2>10, <3>1, <3>2, SlotReads
  <2>13. IF segs[k].state = "active"
         THEN slots' = [slots EXCEPT ![s] = fed] ELSE slots' = slots
    BY <2>8, <2>10 DEF TextEnds
  <2>14. /\ slots' \in [Slots -> SlotState]
         /\ \A r \in Slots : /\ slots'[r].is_free = slots[r].is_free
                             /\ slots'[r].past_len = slots[r].past_len
                             /\ slots'[r].launched = slots[r].launched
                             /\ slots'[r].text_idx <= Len(slots'[r].trailing)
    BY <1>1, <2>9, <2>11, <2>12, <2>13 DEF EngineTypeOK, ReadInv
  <2>15. EngineTypeOK'
    BY <1>1, <2>6, <2>14 DEF EngineTypeOK, Onward, Phases, TextEnds
  <2>16. Owned' /\ CountInv'
    <3>1. segs[k] # Absent
      BY SMTT(30), <1>3 DEF Absent
    <3>2. Stays
      BY <2>4, <2>6, <2>14, <3>1 DEF Stays, TextEnds
    <3> QED BY <1>1, <3>2, StaysOwned
  <2>17. BatchInv'
    <3>1. \A r \in batch' : r \in batch /\ r \in Slots
      BY <1>1 DEF Onward, EngineTypeOK
    <3> QED BY <1>1, <2>14, <3>1 DEF BatchInv, Onward
  <2>18. DeferredInv'
    <3>1. Draining'
      BY DEF Onward, Draining
    <3>2. \A j \in Keys : segs'[j].input_complete => segs'[j].deferred_token_ids = <<>>
      BY <1>1, <2>4, <2>6 DEF DeferredInv
    <3>3. \A j \in Active' : segs'[j].eos_trailing_added = segs'[j].input_complete
      <4> SUFFICES ASSUME NEW j \in Active'
                   PROVE  segs'[j].eos_trailing_added = segs'[j].input_complete
        OBVIOUS
      <4>1. CASE j = k
        <5>1. seg.eos_trailing_added /\ seg.input_complete
          BY <2>4, <2>5, <2>6, <4>1 DEF Active
        <5>2. seg.eos_trailing_added = TRUE /\ seg.input_complete = TRUE
          BY <2>4, <5>1 DEF Segment
        <5> QED BY <2>6, <4>1, <5>2
      <4>2. CASE j # k
        BY <1>1, <2>6, <4>2 DEF DeferredInv, Active
      <4> QED BY <4>1, <4>2
    <3> QED BY <3>1, <3>2, <3>3 DEF DeferredInv
  <2>19. ReadInv'
    <3>1. \A j \in Active' : Waits(slots'[segs'[j].slot], segs'[j].input_complete)
      <4> SUFFICES ASSUME NEW j \in Active'
                   PROVE  Waits(slots'[segs'[j].slot], segs'[j].input_complete)
        OBVIOUS
      <4>0. j \in Keys
        BY DEF Active
      <4>1. CASE j = k
        <5>1. segs[k].state = "active" /\ segs'[k].slot = s
          BY <2>4, <2>6, <2>8, <4>1 DEF Active
        <5>2. slots'[s] = fed
          BY <1>1, <2>9, <2>13, <5>1 DEF EngineTypeOK
        <5> QED BY <2>12, <4>1, <5>1, <5>2 DEF Waits
      <4>2. CASE j # k
        <5>1. segs'[j] = segs[j] /\ j \in Active
          BY <2>6, <4>0, <4>2 DEF Active
        <5>2. segs[j].slot \in Slots /\ (segs[k].state = "active" => segs[j].slot # s)
          BY SMTT(30), <1>1, <2>8, <2>9, <4>0, <4>2, <5>1 DEF Owned, Active, EngineTypeOK, Segment
        <5>3. slots'[segs[j].slot] = slots[segs[j].slot]
          BY <1>1, <2>9, <2>13, <5>2 DEF EngineTypeOK
        <5> QED BY <1>1, <5>1, <5>3 DEF ReadInv
      <4> QED BY <4>1, <4>2
    <3> QED BY <2>14, <3>1 DEF ReadInv
  <2> QED BY <2>15, <2>16, <2>17, <2>18, <2>19 DEF EngineInv
<1> QED BY <1>2, <1>3

\* So does an append.
LEMMA AppendStep ==
    ASSUME EngineInv, NEW x \in Sessions, NEW i \in SegmentIds, Room(x, i),
           ~segs[<<x, i>>].input_complete, AppendTokens(x, i, <<NextToken(x, i)>>),
           Onward, UNCHANGED task
    PROVE  EngineInv'
<1>1. /\ EngineTypeOK /\ Owned /\ BatchInv /\ CountInv /\ DeferredInv /\ ReadInv
  BY DEF EngineInv
<1>2. PICK k \in Keys : k = <<x, i>>
  BY KeyParts
<1>3. PICK toks : toks = <<NextToken(x, i)>>
  OBVIOUS
<1>4. segs[k] \in Segment /\ overflow[x] \in Seq(Tokens)
  BY <1>1 DEF EngineTypeOK
<1>5. toks \in Seq(Tokens)
  <2>1. PICK n \in Nat, m \in Nat :
           n = Len(overflow[x]) /\ m = Len(segs[k].pending_token_ids)
    BY <1>4, LenProperties DEF Segment
  <2>2. n + m < MaxText
    BY <1>2, <2>1 DEF Room
  <2>3. NextToken(x, i) = n + 1 \/ NextToken(x, i) = m + 1
    BY SMTT(30), <1>2, <2>1 DEF NextToken
  <2>4. NextToken(x, i) \in Tokens
    BY SMTT(30), <2>2, <2>3, EngineAssumption DEF Tokens
  <2> QED BY SMTT(30), <1>3, <2>4
<1>6. /\ live' = live /\ free' = free /\ seg_by_slot' = seg_by_slot /\ slots' = slots
      /\ input_complete_all' = input_complete_all
  BY DEF AppendTokens, SlotsKept
<1>7. /\ segs' \in [Keys -> Segment] /\ overflow' \in [Sessions -> Seq(Tokens)]
      /\ \A j \in Keys \ {k} : segs'[j] = segs[j]
      /\ segs'[k].slot = segs[k].slot /\ segs'[k].state = segs[k].state
      /\ segs'[k].input_complete = segs[k].input_complete
      /\ segs'[k].eos_trailing_added = segs[k].eos_trailing_added
      /\ segs[k] = Absent => segs'[k] = Absent
  <2>1. CASE segs[k].state \in {"absent", "done"}
    <3>1. overflow' = [overflow EXCEPT ![x] = @ \o toks] /\ segs' = segs
      BY <1>2, <1>3, <2>1 DEF AppendTokens
    <3>2. overflow[x] \o toks \in Seq(Tokens)
      BY <1>4, <1>5, ConcatProperties
    <3> QED BY <1>1, <3>1, <3>2 DEF EngineTypeOK
  <2>2. CASE segs[k].state \notin {"absent", "done"}
    <3>1. PICK d : d = IF segs[k].state = "active" THEN segs[k].deferred_token_ids \o toks
                       ELSE segs[k].deferred_token_ids
      OBVIOUS
    <3>2. PICK seg : seg = [segs[k] EXCEPT !.pending_token_ids = @ \o toks,
                                           !.deferred_token_ids = d]
      OBVIOUS
    <3>3. segs' = [segs EXCEPT ![k] = seg] /\ overflow' = overflow
      BY <1>1, <1>2, <1>3, <2>2, <3>1, <3>2 DEF AppendTokens, EngineTypeOK
    <3>4. d \in Seq(Tokens) /\ segs[k].pending_token_ids \o toks \in Seq(Tokens)
      BY <1>4, <1>5, <3>1, ConcatProperties DEF Segment
    <3>5. /\ seg \in Segment /\ seg.slot = segs[k].slot /\ seg.state = segs[k].state
          /\ seg.input_complete = segs[k].input_complete
          /\ seg.eos_trailing_added = segs[k].eos_trailing_added
      BY <1>4, <3>2, <3>4 DEF Segment
    <3>6. segs[k] # Absent
      BY SMTT(30), <2>2 DEF Absent
    <3> QED BY <1>1, <3>3, <3>5, <3>6 DEF EngineTypeOK
  <2> QED BY <2>1, <2>2
<1>8. EngineTypeOK'
  BY <1>1, <1>6, <1>7 DEF EngineTypeOK, Onward, Phases
<1>9. Owned' /\ CountInv'
  <2>1. Stays
    BY <1>6, <1>7 DEF Stays
  <2> QED BY <1>1, <2>1, StaysOwned
<1>10. BatchInv'
  BY <1>1, <1>6 DEF BatchInv, Onward
<1>11. DeferredInv'
  <2>1. Draining'
    BY DEF Onward, AppendTokens, Draining
  <2>2. \A j \in Keys : segs'[j].input_complete => j # k
    BY <1>2, <1>7
  <2>3. \A j \in Keys : segs'[j].input_complete => segs'[j].deferred_token_ids = <<>>
    BY <1>1, <1>7, <2>2 DEF DeferredInv
  <2>4. \A j \in Keys : /\ segs'[j].state = segs[j].state
                        /\ segs'[j].input_complete = segs[j].input_complete
                        /\ segs'[j].eos_trailing_added = segs[j].eos_trailing_added
    BY <1>7
  <2>5. \A j \in Active' : segs'[j].eos_trailing_added = segs'[j].input_complete
    BY <1>1, <2>4 DEF DeferredInv, Active
  <2> QED BY <2>1, <2>3, <2>5 DEF DeferredInv
<1>12. ReadInv'
  <2>1. \A j \in Keys : /\ segs'[j].state = segs[j].state /\ segs'[j].slot = segs[j].slot
                        /\ segs'[j].input_complete = segs[j].input_complete
    BY <1>7
  <2> QED BY <1>1, <1>6, <2>1 DEF ReadInv, Active
<1> QED BY <1>8, <1>9, <1>10, <1>11, <1>12 DEF EngineInv


\* A decoded frame keeps the invariant: its slot had room for the step, and
\* pauses only if its text is not complete.
LEMMA FrameStep ==
    ASSUME EngineInv, NEW s \in Slots, NEW k \in Keys, NEW frame \in Frames,
           DecodeFrame(s, k, frame), Onward, UNCHANGED task
    PROVE  EngineInv'
<1>1. /\ EngineTypeOK /\ Owned /\ BatchInv /\ CountInv /\ DeferredInv /\ ReadInv
  BY DEF EngineInv
<1>2. Row(s, k)
  BY DEF DecodeFrame
<1>3. segs[k].slot = s /\ segs[k].state = "active" /\ ~Draining
  BY <1>1, <1>2, RowIsActive
<1>4. segs[k] \in Segment /\ slots[s] \in SlotState
  BY <1>1 DEF EngineTypeOK
<1>5. ~slots[s].is_free /\ slots[s].past_len < MaxSeqLen
  <2>1. ~slots[s].is_free
    BY SMTT(30), <1>1, <1>2, EngineAssumption DEF Owned, Row
  <2> QED BY <1>1, <1>2, <2>1 DEF BatchInv, Row
<1>6. PICK c \in BOOLEAN : c = segs[k].input_complete
  BY <1>4 DEF Segment
<1>7. PICK sl : sl = Stepped(slots[s], c)
  OBVIOUS
<1>8. /\ sl \in SlotState /\ sl.is_free = slots[s].is_free
      /\ sl.launched = slots[s].launched
  BY SMTT(30), <1>4, <1>5, <1>7, SlotForms
<1>9. sl.text_idx <= Len(sl.trailing) /\ Waits(sl, c)
  BY <1>1, <1>4, <1>7, SlotReads DEF ReadInv
<1>10. slots' = [slots EXCEPT ![s] = sl]
  BY <1>1, <1>6, <1>7 DEF DecodeFrame, EngineTypeOK
<1>11. PICK h \in BOOLEAN : h = Heard(k, frame)
  BY <1>4 DEF Heard, Segment
<1>12. PICK seg : seg = [segs[k] EXCEPT !.audible_frame_seen = h]
  OBVIOUS
<1>13. segs' = [segs EXCEPT ![k] = seg]
  BY <1>1, <1>11, <1>12 DEF DecodeFrame, EngineTypeOK
<1>14. /\ seg \in Segment /\ seg.slot = s /\ seg.state = "active"
       /\ seg.input_complete = c /\ seg.deferred_token_ids = segs[k].deferred_token_ids
       /\ seg.eos_trailing_added = segs[k].eos_trailing_added
  BY <1>3, <1>4, <1>6, <1>12 DEF Segment
<1>15. /\ segs' \in [Keys -> Segment] /\ segs'[k] = seg
       /\ \A j \in Keys \ {k} : segs'[j] = segs[j]
       /\ slots' \in [Slots -> SlotState] /\ slots'[s] = sl
       /\ \A r \in Slots \ {s} : slots'[r] = slots[r]
  BY <1>1, <1>8, <1>10, <1>13, <1>14 DEF EngineTypeOK
<1>16. /\ phase' = phase /\ prefills' = prefills /\ batch' = batch \ {s}
       /\ UNCHANGED <<live, input_complete_all, overflow, free, seg_by_slot>>
  BY <1>2 DEF DecodeFrame, Row
<1>17. EngineTypeOK'
  BY <1>1, <1>15, <1>16 DEF EngineTypeOK
<1>18. Owned' /\ CountInv'
  <2>1. segs[k] # Absent
    BY SMTT(30), <1>3 DEF Absent
  <2>2. Stays
    BY <1>3, <1>8, <1>14, <1>15, <1>16, <2>1 DEF Stays
  <2> QED BY <1>1, <2>2, StaysOwned
<1>19. BatchInv'
  BY <1>1, <1>2, <1>15, <1>16 DEF BatchInv, Row, Between, EngineTypeOK
<1>20. DeferredInv'
  <2>1. \A j \in Keys : /\ segs'[j].state = segs[j].state
                        /\ segs'[j].input_complete = segs[j].input_complete
                        /\ segs'[j].deferred_token_ids = segs[j].deferred_token_ids
                        /\ segs'[j].eos_trailing_added = segs[j].eos_trailing_added
    BY <1>3, <1>6, <1>14, <1>15
  <2>2. \A j \in Active' : segs'[j].eos_trailing_added = segs'[j].input_complete
    BY <1>1, <2>1 DEF DeferredInv, Active
  <2>3. \A j \in Keys : segs'[j].deferred_token_ids = <<>>
    BY <1>1, <1>3, <2>1 DEF DeferredInv
  <2> QED BY <2>2, <2>3 DEF DeferredInv
<1>21. ReadInv'
  <2>1. \A r \in Slots : slots'[r].text_idx <= Len(slots'[r].trailing)
    BY <1>1, <1>9, <1>15 DEF ReadInv
  <2>2. ASSUME NEW j \in Active'
        PROVE  Waits(slots'[segs'[j].slot], segs'[j].input_complete)
    <3>1. CASE j = k
      BY <1>9, <1>14, <1>15, <3>1
    <3>2. CASE j # k
      <4>1. j \in Active /\ segs'[j] = segs[j] /\ j \in Keys
        BY <1>15, <3>2 DEF Active
      <4>2. segs[j].slot \in Slots \ {s}
        BY SMTT(30), <1>1, <1>3, <3>2, <4>1 DEF Owned, Active, EngineTypeOK, Segment
      <4> QED BY <1>1, <1>15, <4>1, <4>2 DEF ReadInv
    <3> QED BY <3>1, <3>2
  <2> QED BY <2>1, <2>2 DEF ReadInv
<1> QED BY <1>17, <1>18, <1>19, <1>20, <1>21 DEF EngineInv

\* A launch keeps the invariant: the slots it takes have room for the step.
LEMMA LaunchStep ==
    ASSUME EngineInv, NEW B \in SUBSET Runnable, Launch(B), UNCHANGED task
    PROVE  EngineInv'
<1>1. /\ EngineTypeOK /\ Owned /\ BatchInv /\ CountInv /\ DeferredInv /\ ReadInv
  BY DEF EngineInv
<1>2. PICK S, A : S = {segs[k].slot : k \in B} /\ A = {segs[k].slot : k \in Active}
  OBVIOUS
<1>3. /\ batch' = S /\ phase = "launch" /\ phase' = "overlap"
      /\ slots' = [s \in Slots |->
            IF s \in A THEN [Ready(slots[s]) EXCEPT !.launched = @ \/ s \in S] ELSE slots[s]]
      /\ UNCHANGED <<live, input_complete_all, overflow, segs, free, seg_by_slot, prefills>>
  BY <1>2 DEF Launch, Move
<1>4. \A k \in Active : /\ segs[k].slot \in Slots /\ k \in Keys
                        /\ slots[segs[k].slot].past_len < MaxSeqLen
  <2> SUFFICES ASSUME NEW k \in Active
               PROVE  /\ segs[k].slot \in Slots /\ k \in Keys
                      /\ slots[segs[k].slot].past_len < MaxSeqLen
    OBVIOUS
  <2>1. k \in Keys /\ segs[k].slot \in Slots
    BY SMTT(30), <1>1 DEF Active, Owned, EngineTypeOK, Segment
  <2>2. slots[segs[k].slot] \in SlotState
    BY <1>1, <2>1 DEF EngineTypeOK
  <2>3. ~Full(k)
    BY DEF Launch
  <2> QED BY SMTT(30), <2>1, <2>2, <2>3, EngineAssumption DEF Full, SlotState
<1>5. /\ S \subseteq A /\ A \subseteq Slots
      /\ \A s \in S : slots[s].past_len < MaxSeqLen
  BY <1>2, <1>4 DEF Runnable
<1>6. ASSUME NEW s \in A
      PROVE  /\ slots'[s] \in SlotState /\ slots'[s].is_free = slots[s].is_free
             /\ slots'[s].past_len = slots[s].past_len
             /\ s \in S => slots'[s].launched
             /\ slots'[s].text_idx <= Len(slots'[s].trailing)
             /\ \A c \in BOOLEAN : Waits(slots[s], c) => Waits(slots'[s], c)
  <2>1. s \in Slots /\ slots[s] \in SlotState /\ slots[s].text_idx <= Len(slots[s].trailing)
    BY <1>1, <1>5, <1>6 DEF EngineTypeOK, ReadInv
  <2>2. PICK r : r = Ready(slots[s])
    OBVIOUS
  <2>3. /\ r \in SlotState /\ r.is_free = slots[s].is_free
        /\ r.past_len = slots[s].past_len
    BY <2>1, <2>2, SlotForms
  <2>4. /\ r.text_idx <= Len(r.trailing)
        /\ \A c \in BOOLEAN : Waits(slots[s], c) => Waits(r, c)
    BY <2>1, <2>2, SlotReads
  <2>5. PICK b \in BOOLEAN : b = (r.launched \/ s \in S)
    OBVIOUS
  <2>6. slots'[s] = [r EXCEPT !.launched = b]
    BY <1>3, <1>6, <2>1, <2>2, <2>3, <2>5 DEF SlotState
  <2>7. /\ slots'[s] \in SlotState /\ slots'[s].is_free = r.is_free
        /\ slots'[s].past_len = r.past_len /\ slots'[s].launched = b
        /\ slots'[s].text_idx = r.text_idx /\ slots'[s].trailing = r.trailing
        /\ slots'[s].next_embed = r.next_embed
        /\ slots'[s].last_codec_sum = r.last_codec_sum
    BY <2>3, <2>6 DEF SlotState
  <2>8. \A c \in BOOLEAN : Waits(r, c) => Waits(slots'[s], c)
    BY <2>7 DEF Waits, HasUnread
  <2>9. s \in S => slots'[s].launched
    BY <2>5, <2>7
  <2> QED BY <2>3, <2>4, <2>7, <2>8, <2>9
<1>7. \A s \in Slots \ A : slots'[s] = slots[s]
  BY <1>3
<1>8. /\ \A s \in Slots : /\ slots'[s] \in SlotState /\ slots'[s].is_free = slots[s].is_free
                          /\ slots'[s].text_idx <= Len(slots'[s].trailing)
      /\ slots' \in [Slots -> SlotState]
  <2>1. \A s \in Slots : slots'[s] \in SlotState
    BY <1>1, <1>6, <1>7 DEF EngineTypeOK
  <2> QED BY <1>1, <1>3, <1>6, <1>7, <2>1 DEF ReadInv
<1>9. EngineTypeOK'
  BY <1>1, <1>3, <1>5, <1>8 DEF EngineTypeOK
<1>10. Owned' /\ CountInv'
  BY <1>1, <1>3, <1>8, StaysOwned DEF Stays
<1>11. BatchInv'
  BY <1>3, <1>5, <1>6 DEF BatchInv, Between
<1>12. DeferredInv'
  BY <1>1, <1>3 DEF DeferredInv, Active, Draining
<1>13. ReadInv'
  <2>1. ASSUME NEW k \in Active'
        PROVE  Waits(slots'[segs'[k].slot], segs'[k].input_complete)
    <3>1. k \in Active /\ k \in Keys /\ segs'[k] = segs[k]
      BY <1>3 DEF Active
    <3>2. segs[k].slot \in A
      BY <1>2, <3>1
    <3>3. segs[k].input_complete \in BOOLEAN
      BY <1>1, <3>1 DEF EngineTypeOK, Segment
    <3> QED BY <1>1, <1>6, <3>1, <3>2, <3>3 DEF ReadInv
  <2> QED BY <1>8, <2>1 DEF ReadInv
<1> QED BY <1>9, <1>10, <1>11, <1>12, <1>13 DEF EngineInv


\* The end of a drain keeps the invariant: the tokens that waited wake the slots
\* that are paused.
LEMMA DrainEndStep ==
    ASSUME EngineInv, DrainEnd, UNCHANGED task
    PROVE  EngineInv'
<1>1. /\ EngineTypeOK /\ Owned /\ BatchInv /\ CountInv /\ DeferredInv /\ ReadInv
  BY DEF EngineInv
<1>2. /\ (phase = "drain" /\ phase' = "admit") \/ (phase = "overlap" /\ phase' = "housekeep")
      /\ UNCHANGED <<live, input_complete_all, overflow, free, seg_by_slot, batch, prefills>>
  BY DEF DrainEnd, Move, Draining
<1>3. ASSUME NEW k \in Keys
      PROVE  /\ segs'[k] \in Segment /\ segs'[k].slot = segs[k].slot
             /\ segs'[k].state = segs[k].state
             /\ segs'[k].input_complete = segs[k].input_complete
             /\ segs'[k].eos_trailing_added = segs[k].eos_trailing_added
             /\ segs'[k].deferred_token_ids = <<>>
             /\ segs[k] = Absent => segs'[k] = Absent
  <2>1. segs[k] \in Segment /\ segs'[k] = [segs[k] EXCEPT !.deferred_token_ids = <<>>]
    BY <1>1 DEF EngineTypeOK, DrainEnd
  <2>2. <<>> \in Seq(Tokens)
    BY SMTT(30)
  <2>3. /\ segs'[k] \in Segment /\ segs'[k].slot = segs[k].slot
        /\ segs'[k].state = segs[k].state
        /\ segs'[k].input_complete = segs[k].input_complete
        /\ segs'[k].eos_trailing_added = segs[k].eos_trailing_added
        /\ segs'[k].deferred_token_ids = <<>>
    BY <2>1, <2>2 DEF Segment
  <2>4. [Absent EXCEPT !.deferred_token_ids = <<>>] = Absent
    <3>1. PICK e : e = [Absent EXCEPT !.deferred_token_ids = <<>>]
      OBVIOUS
    <3>2. /\ DOMAIN e = DOMAIN Absent
          /\ \A f \in DOMAIN Absent : e[f] = Absent[f]
      BY <3>1 DEF Absent
    <3>3. e = Absent
      BY <3>1, <3>2 DEF Absent
    <3> QED BY <3>1, <3>3
  <2> QED BY <2>1, <2>3, <2>4
<1>4. segs' \in [Keys -> Segment]
  BY <1>3 DEF DrainEnd
<1>5. ASSUME NEW s \in Slots
      PROVE  \/ slots'[s] = slots[s]
             \/ \E k \in Keys : /\ seg_by_slot[s] = k /\ segs[k].deferred_token_ids # <<>>
                                /\ slots'[s] = Fed(slots[s], segs[k].deferred_token_ids)
  BY <1>1 DEF DrainEnd, EngineTypeOK
<1>6. ASSUME NEW s \in Slots
      PROVE  /\ slots'[s] \in SlotState /\ slots'[s].is_free = slots[s].is_free
             /\ slots'[s].past_len = slots[s].past_len
             /\ slots'[s].launched = slots[s].launched
             /\ slots'[s].text_idx <= Len(slots'[s].trailing)
             /\ \A c \in BOOLEAN : Waits(slots[s], c) => Waits(slots'[s], c)
  <2>1. slots[s] \in SlotState /\ slots[s].text_idx <= Len(slots[s].trailing)
    BY <1>1 DEF EngineTypeOK, ReadInv
  <2>2. CASE slots'[s] = slots[s]
    BY <2>1, <2>2
  <2>3. CASE \E k \in Keys : /\ seg_by_slot[s] = k /\ segs[k].deferred_token_ids # <<>>
                             /\ slots'[s] = Fed(slots[s], segs[k].deferred_token_ids)
    <3>1. PICK k \in Keys : /\ segs[k].deferred_token_ids # <<>>
                            /\ slots'[s] = Fed(slots[s], segs[k].deferred_token_ids)
      BY <2>3
    <3>2. PICK toks : toks = segs[k].deferred_token_ids
      OBVIOUS
    <3>3. toks \in Seq(Tokens) /\ toks # <<>>
      BY <1>1, <3>1, <3>2 DEF EngineTypeOK, Segment
    <3>4. toks \in Seq(Tokens \cup {Eos, Pad})
      BY SMTT(30), <3>3
    <3>5. slots'[s] = Fed(slots[s], toks)
      BY <3>1, <3>2
    <3>6. /\ slots'[s] \in SlotState /\ slots'[s].is_free = slots[s].is_free
          /\ slots'[s].past_len = slots[s].past_len
          /\ slots'[s].launched = slots[s].launched
      <4>1. PICK sl \in SlotState : sl = slots[s]
        BY <2>1
      <4>2. PICK fed : fed = Fed(sl, toks)
        OBVIOUS
      <4>3. /\ fed \in SlotState /\ fed.is_free = sl.is_free
            /\ fed.past_len = sl.past_len /\ fed.launched = sl.launched
        BY <3>4, <4>2, SlotForms
      <4> QED BY <3>5, <4>1, <4>2, <4>3
    <3>7. /\ slots'[s].text_idx <= Len(slots'[s].trailing)
          /\ \A c \in BOOLEAN : Waits(slots[s], c) => slots'[s].next_embed
      BY <2>1, <3>3, <3>4, <3>5, SlotReads
    <3> QED BY <3>6, <3>7 DEF Waits
  <2> QED BY <1>5, <2>2, <2>3
<1>7. slots' \in [Slots -> SlotState]
  BY <1>6 DEF DrainEnd
<1>8. EngineTypeOK'
  BY <1>1, <1>2, <1>4, <1>7 DEF EngineTypeOK
<1>9. Owned' /\ CountInv'
  <2>1. Stays
    BY <1>2, <1>3, <1>6 DEF Stays
  <2> QED BY <1>1, <2>1, StaysOwned
<1>10. BatchInv'
  <2>1. batch \subseteq Slots
    BY <1>1 DEF EngineTypeOK
  <2> QED BY <1>1, <1>2, <1>6, <2>1 DEF BatchInv, Between
<1>11. DeferredInv'
  BY <1>1, <1>3 DEF DeferredInv, Active
<1>12. ReadInv'
  <2>1. ASSUME NEW k \in Active'
        PROVE  Waits(slots'[segs'[k].slot], segs'[k].input_complete)
    <3>1. k \in Active /\ k \in Keys
      BY <1>3 DEF Active
    <3>2. segs[k].slot \in Slots /\ segs[k].input_complete \in BOOLEAN
      BY SMTT(30), <1>1, <3>1 DEF Active, Owned, EngineTypeOK, Segment
    <3> QED BY <1>1, <1>3, <1>6, <3>1, <3>2 DEF ReadInv
  <2> QED BY <1>6, <2>1 DEF ReadInv
<1> QED BY <1>8, <1>9, <1>10, <1>11, <1>12 DEF EngineInv

-----------------------------------------------------------------------------
(* Steps that take a slot from the free list.                              *)

\* A slot of the free list belongs to nobody.
LEMMA FreeIsFree ==
    ASSUME EngineTypeOK, Owned, NEW t \in Slots, free[t] > 0
    PROVE  /\ slots[t].is_free /\ free[t] = 1 /\ seg_by_slot[t] = NoSegment
           /\ \A k \in Keys : segs[k].slot # t
<1>1. slots[t].is_free /\ free[t] = 1
  BY SMTT(30) DEF Owned
<1>2. seg_by_slot[t] = NoSegment
  BY <1>1 DEF Owned
<1> QED BY SMTT(30), <1>1, <1>2, EngineAssumption DEF Owned

\* A migration keeps the invariant: the slot that is left goes back to the list.
LEMMA MigrateStep ==
    ASSUME EngineInv, NEW k \in Keys, NEW t \in Slots, Migrate(k, t), Onward, UNCHANGED task
    PROVE  EngineInv'
<1>1. /\ EngineTypeOK /\ Owned /\ BatchInv /\ CountInv /\ DeferredInv /\ ReadInv
  BY DEF EngineInv
<1>2. PICK s : s = segs[k].slot
  OBVIOUS
<1>3. /\ phase = "process" /\ batch = {} /\ segs[k].state = "active" /\ free[t] > 0
      /\ slots' = [slots EXCEPT ![t] = [slots[s] EXCEPT !.launched = FALSE], ![s] = FreeSlot]
      /\ free' = [free EXCEPT ![t] = @ - 1, ![s] = @ + 1]
      /\ seg_by_slot' = [seg_by_slot EXCEPT ![s] = NoSegment, ![t] = k]
      /\ segs' = [segs EXCEPT ![k].slot = t]
      /\ UNCHANGED <<phase, live, input_complete_all, overflow, batch, prefills>>
  BY <1>2 DEF Migrate
<1>4. segs[k] \in Segment /\ s \in Slots
  BY SMTT(30), <1>1, <1>2, <1>3 DEF EngineTypeOK, Owned, Segment
<1>5. /\ slots[t].is_free /\ free[t] = 1 /\ seg_by_slot[t] = NoSegment
      /\ \A j \in Keys : segs[j].slot # t
  BY <1>1, <1>3, FreeIsFree
<1>6. s # t /\ seg_by_slot[s] = k /\ ~slots[s].is_free /\ free[s] = 0
  BY SMTT(30), <1>1, <1>2, <1>4, <1>5, EngineAssumption DEF Owned
<1>7. PICK moved : moved = [slots[s] EXCEPT !.launched = FALSE]
  OBVIOUS
<1>8. slots[s] \in SlotState
  BY <1>1, <1>4 DEF EngineTypeOK
<1>9. /\ moved \in SlotState /\ moved.is_free = FALSE
      /\ moved.text_idx = slots[s].text_idx /\ moved.trailing = slots[s].trailing
      /\ moved.next_embed = slots[s].next_embed
      /\ moved.last_codec_sum = slots[s].last_codec_sum
  BY <1>6, <1>7, <1>8 DEF SlotState
<1>10. /\ FreeSlot \in SlotState /\ FreeSlot.is_free
       /\ FreeSlot.text_idx <= Len(FreeSlot.trailing)
  BY SMTT(30), EngineAssumption DEF FreeSlot, SlotState
<1>11. /\ slots' \in [Slots -> SlotState] /\ slots'[t] = moved /\ slots'[s] = FreeSlot
       /\ \A r \in Slots \ {s, t} : slots'[r] = slots[r]
  BY <1>1, <1>3, <1>4, <1>6, <1>7, <1>9, <1>10 DEF EngineTypeOK
<1>12. /\ free' \in [Slots -> Nat] /\ free'[t] = 0 /\ free'[s] = 1
       /\ \A r \in Slots \ {s, t} : free'[r] = free[r]
  BY SMTT(30), <1>1, <1>3, <1>4, <1>5, <1>6 DEF EngineTypeOK
<1>13. /\ seg_by_slot' \in [Slots -> Keys \cup {NoSegment}]
       /\ seg_by_slot'[t] = k /\ seg_by_slot'[s] = NoSegment
       /\ \A r \in Slots \ {s, t} : seg_by_slot'[r] = seg_by_slot[r]
  BY <1>1, <1>3, <1>4, <1>6 DEF EngineTypeOK
<1>14. PICK seg : seg = [segs[k] EXCEPT !.slot = t]
  OBVIOUS
<1>15. /\ seg \in Segment /\ seg.slot = t /\ seg.state = "active"
       /\ seg.input_complete = segs[k].input_complete
       /\ seg.deferred_token_ids = segs[k].deferred_token_ids
       /\ seg.eos_trailing_added = segs[k].eos_trailing_added
  BY <1>3, <1>4, <1>14 DEF Segment
<1>16. /\ segs' \in [Keys -> Segment] /\ segs'[k] = seg
       /\ \A j \in Keys \ {k} : segs'[j] = segs[j]
  BY <1>1, <1>3, <1>14, <1>15 DEF EngineTypeOK
<1>17. EngineTypeOK'
  BY <1>1, <1>3, <1>11, <1>12, <1>13, <1>16 DEF EngineTypeOK
<1>18. Owned'
  <2>1. \A r \in Slots : /\ free'[r] = IF slots'[r].is_free THEN 1 ELSE 0
                         /\ slots'[r].is_free <=> seg_by_slot'[r] = NoSegment
    <3>1. ASSUME NEW r \in Slots \ {s, t}
          PROVE  /\ free'[r] = IF slots'[r].is_free THEN 1 ELSE 0
                 /\ slots'[r].is_free <=> seg_by_slot'[r] = NoSegment
      BY SMTT(30), <1>1, <1>11, <1>12, <1>13, <3>1 DEF Owned
    <3>2. /\ free'[t] = IF slots'[t].is_free THEN 1 ELSE 0
          /\ slots'[t].is_free <=> seg_by_slot'[t] = NoSegment
      BY <1>9, <1>11, <1>12, <1>13, EngineAssumption
    <3>3. /\ free'[s] = IF slots'[s].is_free THEN 1 ELSE 0
          /\ slots'[s].is_free <=> seg_by_slot'[s] = NoSegment
      BY <1>10, <1>11, <1>12, <1>13
    <3> QED BY <3>1, <3>2, <3>3
  <2>2. \A r \in Slots, j \in Keys : seg_by_slot'[r] = j <=> segs'[j].slot = r
    BY SMTT(30), <1>1, <1>2, <1>5, <1>6, <1>13, <1>15, <1>16, EngineAssumption DEF Owned
  <2>3. \A j \in Keys : /\ segs'[j].slot = NoSlot <=> segs'[j].state # "active"
                        /\ j[1] \notin live' => segs'[j] = Absent
    <3>1. k[1] \in live
      BY SMTT(30), <1>1, <1>3 DEF Owned, Absent
    <3> QED BY SMTT(30), <1>1, <1>3, <1>15, <1>16, <3>1, EngineAssumption DEF Owned
  <2> QED BY <2>1, <2>2, <2>3 DEF Owned
<1>19. CountInv'
  <2>1. \A j \in Keys : segs'[j].slot = NoSlot \/ segs[j].state = "active"
    BY SMTT(30), <1>1, <1>3, <1>16 DEF Owned
  <2> QED BY <1>1, <1>18, <2>1, FewerSlots
<1>20. BatchInv'
  BY <1>3 DEF BatchInv
<1>21. DeferredInv'
  <2>1. \A j \in Keys : /\ segs'[j].state = segs[j].state
                        /\ segs'[j].input_complete = segs[j].input_complete
                        /\ segs'[j].deferred_token_ids = segs[j].deferred_token_ids
                        /\ segs'[j].eos_trailing_added = segs[j].eos_trailing_added
    BY <1>3, <1>15, <1>16
  <2>2. \A j \in Active' : segs'[j].eos_trailing_added = segs'[j].input_complete
    BY <1>1, <2>1 DEF DeferredInv, Active
  <2>3. \A j \in Keys : segs'[j].deferred_token_ids = <<>>
    BY <1>1, <1>3, <2>1 DEF DeferredInv, Draining
  <2> QED BY <2>2, <2>3 DEF DeferredInv
<1>22. ReadInv'
  <2>1. \A r \in Slots : slots'[r].text_idx <= Len(slots'[r].trailing)
    BY <1>1, <1>4, <1>9, <1>10, <1>11 DEF ReadInv
  <2>2. ASSUME NEW j \in Active'
        PROVE  Waits(slots'[segs'[j].slot], segs'[j].input_complete)
    <3>1. CASE j = k
      <4>1. Waits(slots[s], segs[k].input_complete)
        BY <1>1, <1>2, <1>3 DEF ReadInv, Active
      <4> QED BY <1>9, <1>11, <1>15, <1>16, <3>1, <4>1 DEF Waits, HasUnread
    <3>2. CASE j # k
      <4>1. j \in Active /\ segs'[j] = segs[j] /\ j \in Keys
        BY <1>16, <3>2 DEF Active
      <4>2. segs[j].slot \in Slots \ {s, t}
        BY SMTT(30), <1>1, <1>5, <1>6, <3>2, <4>1 DEF Owned, Active, EngineTypeOK, Segment
      <4> QED BY <1>1, <1>11, <4>1, <4>2 DEF ReadInv
    <3> QED BY <3>1, <3>2
  <2> QED BY <2>1, <2>2 DEF ReadInv
<1> QED BY <1>17, <1>18, <1>19, <1>20, <1>21, <1>22 DEF EngineInv


\* Text without padding.
Plain == Seq(Tokens \cup {Eos})

\* What a slot may be fed.
Inputs == Seq(Tokens \cup {Eos, Pad})

\* A slot holds its text, and padding only behind a complete one.
Padded(sl, complete) == sl.trailing \in Plain \/ (sl.trailing = <<Pad>> /\ complete)

\* A slot that has just been taken.
LEMMA AllocatedForms ==
    /\ Allocated \in SlotState /\ Allocated.is_free = FALSE /\ Allocated.next_embed = TRUE
    /\ Allocated.text_idx = 0
<1>1. FreeSlot \in SlotState /\ FreeSlot.text_idx = 0
  BY SMTT(30), EngineAssumption DEF FreeSlot, SlotState
<1> QED BY <1>1 DEF Allocated, SlotState

\* The slot sl is in use and holds this text.
Holds(sl, head, trailing) ==
    /\ sl \in SlotState /\ sl.is_free = FALSE /\ sl.next_embed = TRUE
    /\ sl.text_idx <= Len(sl.trailing)
    /\ sl.head = head /\ sl.trailing = trailing

\* What a slot is when text has been attached to it.
LEMMA AttachedForms ==
    ASSUME NEW head \in Inputs, NEW trailing \in Inputs
    PROVE  Holds(Attached(head, trailing), head, trailing)
<1>0. PICK sl : sl = Attached(head, trailing)
  OBVIOUS
<1>1. PICK n \in Nat : n = IF trailing = <<>> THEN 0 ELSE 1
  OBVIOUS
<1>2. n <= Len(trailing)
  BY SMTT(30), <1>1 DEF Inputs
<1>3. Allocated \in SlotState /\ Allocated.is_free = FALSE /\ Allocated.next_embed = TRUE
  BY AllocatedForms
<1>5. sl = [Allocated EXCEPT !.head = head, !.trailing = trailing, !.text_idx = n]
  BY <1>0, <1>1 DEF Attached
<1>6. /\ sl \in SlotState /\ sl.is_free = FALSE /\ sl.next_embed = TRUE
      /\ sl.text_idx = n /\ sl.head = head /\ sl.trailing = trailing
  BY <1>3, <1>5 DEF SlotState, Inputs
<1>7. Holds(sl, head, trailing)
  BY <1>2, <1>6 DEF Holds
<1> QED BY <1>0, <1>7

\* What a slot is when its prefix has been prefilled.
LEMMA PrimedForms ==
    ASSUME NEW seg \in Segment, seg.pending_token_ids # <<>>
    PROVE  LET sl == Primed(seg)
           IN  /\ sl \in SlotState /\ sl.is_free = FALSE /\ sl.next_embed = TRUE
               /\ sl.text_idx <= Len(sl.trailing)
               /\ TextOf(sl) = seg.pending_token_ids \o EosIf(seg.input_complete)
               /\ sl.trailing \in Plain
<1>1. PICK text : text = seg.pending_token_ids
  OBVIOUS
<1>2. PICK end : end = EosIf(seg.input_complete)
  OBVIOUS
<1>3. text \in Plain /\ text # <<>> /\ end \in Plain
  <2>1. text \in Seq(Tokens) /\ text # <<>>
    BY <1>1 DEF Segment
  <2>2. text \in Plain
    BY SMTT(30), <2>1 DEF Plain
  <2>3. <<Eos>> \in Plain /\ <<>> \in Plain
    BY SMTT(30) DEF Plain
  <2> QED BY <1>2, <2>1, <2>2, <2>3 DEF EosIf
<1>4. /\ <<Head(text)>> \in Plain /\ Tail(text) \in Plain /\ <<Head(text)>> \o Tail(text) = text
  BY SMTT(30), <1>3, HeadTailProperties DEF Plain
<1>5. PICK head, trailing : head = <<Head(text)>> /\ trailing = Tail(text) \o end
  OBVIOUS
<1>6. head \in Plain /\ trailing \in Plain
  BY <1>3, <1>4, <1>5, ConcatProperties DEF Plain
<1>7. head \o trailing = text \o end
  <2>1. (<<Head(text)>> \o Tail(text)) \o end = <<Head(text)>> \o (Tail(text) \o end)
    BY SMTT(30), <1>3, <1>4, ConcatAssociative DEF Plain
  <2> QED BY <1>4, <1>5, <2>1
<1>8. head \in Seq(Tokens \cup {Eos, Pad}) /\ trailing \in Seq(Tokens \cup {Eos, Pad})
  BY SMTT(30), <1>6 DEF Plain
<1>9. Allocated \in SlotState /\ Allocated.is_free = FALSE /\ Allocated.next_embed = TRUE
      /\ Allocated.text_idx = 0
  BY AllocatedForms
<1>10. PICK sl : sl = [Allocated EXCEPT !.head = head, !.trailing = trailing]
  OBVIOUS
<1>11. Primed(seg) = sl
  BY <1>1, <1>2, <1>5, <1>10 DEF Primed
<1>12. /\ sl \in SlotState /\ sl.is_free = FALSE /\ sl.next_embed = TRUE
       /\ sl.text_idx = 0 /\ sl.head = head /\ sl.trailing = trailing
  BY <1>8, <1>9, <1>10 DEF SlotState
<1>13. trailing # <<Pad>>
  <2>1. Pad \notin Tokens \cup {Eos}
    BY SMTT(30), EngineAssumption DEF Pad, Eos, Tokens
  <2>2. trailing = <<Pad>> => trailing[1] = Pad /\ 1 \in DOMAIN trailing
    BY SMTT(30)
  <2>3. \A n \in DOMAIN trailing : trailing[n] \in Tokens \cup {Eos}
    BY SMTT(30), <1>6, ElementOfSeq DEF Plain
  <2> QED BY <2>1, <2>2, <2>3
<1>14. TextOf(sl) = text \o end
  BY <1>7, <1>12, <1>13 DEF TextOf
<1>15. 0 <= Len(trailing)
  BY SMTT(30), <1>8, LenProperties
<1> QED BY <1>1, <1>2, <1>6, <1>11, <1>12, <1>14, <1>15


\* What a prefill may leave in a slot: the text of its segment, all of it, with
\* the end-of-text token if the text is complete.
LEMMA PrefilledForms ==
    ASSUME NEW seg \in Segment, seg.pending_token_ids # <<>>, NEW sl \in Prefilled(seg)
    PROVE  /\ sl \in SlotState /\ sl.is_free = FALSE /\ sl.next_embed = TRUE
           /\ sl.text_idx <= Len(sl.trailing)
           /\ task # "voice_design" =>
                 /\ TextOf(sl) = seg.pending_token_ids \o EosIf(seg.input_complete)
                 /\ Padded(sl, seg.input_complete)
<1>1. CASE sl = Primed(seg)
  BY <1>1, PrimedForms DEF Padded
<1>2. CASE sl \in FullyPrefilled(seg)
  <2>1. PICK text : text = seg.pending_token_ids
    OBVIOUS
  <2>2. PICK end : end = EosIf(seg.input_complete)
    OBVIOUS
  <2>3. PICK all : all = text \o end
    OBVIOUS
  <2>4. text \in Plain /\ end \in Plain /\ all \in Plain
    <3>1. text \in Seq(Tokens)
      BY <2>1 DEF Segment
    <3>2. text \in Plain
      BY SMTT(30), <3>1 DEF Plain
    <3>3. <<Eos>> \in Plain /\ <<>> \in Plain
      BY SMTT(30) DEF Plain
    <3>4. end \in Plain
      BY <2>2, <3>3 DEF EosIf
    <3> QED BY <2>3, <3>2, <3>4, ConcatProperties DEF Plain
  <2>5. ASSUME NEW q \in Plain
        PROVE  q \in Inputs /\ q # <<Pad>>
    <3>1. q \in Inputs
      BY SMTT(30), <2>5 DEF Plain, Inputs
    <3>2. Pad \notin Tokens \cup {Eos}
      BY SMTT(30), EngineAssumption DEF Pad, Eos, Tokens
    <3>3. q = <<Pad>> => q[1] = Pad /\ 1 \in DOMAIN q
      BY SMTT(30)
    <3>4. \A n \in DOMAIN q : q[n] \in Tokens \cup {Eos}
      BY SMTT(30), <2>5, ElementOfSeq DEF Plain
    <3> QED BY <3>1, <3>2, <3>3, <3>4
  <2>6. <<Pad>> \in Inputs /\ <<>> \in Inputs
        /\ <<>> \in Plain
    BY SMTT(30) DEF Plain, Inputs
  <2>7. CASE task = "voice_design"
    <3>1. PICK head : head = Append(text, Eos)
      OBVIOUS
    <3>2. sl = Attached(head, <<Pad>>)
      BY <1>2, <2>1, <2>7, <3>1 DEF FullyPrefilled
    <3>3. head \in Inputs
      BY <2>4, <2>5, <3>1, AppendProperties DEF Inputs
    <3>4. Holds(sl, head, <<Pad>>)
      BY <2>6, <3>2, <3>3, AttachedForms
    <3> QED BY <2>7, <3>4 DEF Holds
  <2>8. CASE task # "voice_design"
    <3>1. \/ \E n \in 1 .. Len(all) - 1 :
               sl = Attached(SubSeq(all, 1, n), SubSeq(all, n + 1, Len(all)))
          \/ sl = Attached(all, IF seg.input_complete THEN <<Pad>> ELSE <<>>)
      BY <1>2, <2>1, <2>2, <2>3, <2>8 DEF FullyPrefilled
    <3>2. ASSUME NEW n \in 1 .. Len(all) - 1,
                 sl = Attached(SubSeq(all, 1, n), SubSeq(all, n + 1, Len(all)))
          PROVE  /\ sl \in SlotState /\ sl.is_free = FALSE /\ sl.next_embed = TRUE
                 /\ sl.text_idx <= Len(sl.trailing)
                 /\ TextOf(sl) = all /\ Padded(sl, seg.input_complete)
      <4>1. PICK len \in Nat : len = Len(all)
        BY <2>4, LenProperties DEF Plain
      <4>2. PICK head, trailing : head = SubSeq(all, 1, n) /\ trailing = SubSeq(all, n + 1, len)
        OBVIOUS
      <4>3. \A m \in 1 .. len : all[m] \in Tokens \cup {Eos}
        BY <2>4, <4>1, ElementOfSeq DEF Plain
      <4>4. head \in Plain
        BY SMTT(30), <3>2, <4>1, <4>2, <4>3, SubSeqProperties DEF Plain
      <4>5. trailing \in Plain
        BY SMTT(30), <3>2, <4>1, <4>2, <4>3, SubSeqProperties DEF Plain
      <4>6. SubSeq(all, 1, n) \o SubSeq(all, n + 1, len) = SubSeq(all, 1, len)
        <5>1. /\ 1 \in 1 .. Len(all) + 1 /\ n \in 1 - 1 .. Len(all) /\ len \in n .. Len(all)
          BY SMTT(30), <3>2, <4>1
        <5> QED BY <2>4, <5>1, ConcatAdjacentSubSeq DEF Plain
      <4>7. SubSeq(all, 1, len) = all
        BY <2>4, <4>1, SubSeqFull DEF Plain
      <4>8. sl = Attached(head, trailing)
        BY <3>2, <4>1, <4>2
      <4>9. /\ sl \in SlotState /\ sl.is_free = FALSE /\ sl.next_embed = TRUE
            /\ sl.text_idx <= Len(sl.trailing)
            /\ sl.head = head /\ sl.trailing = trailing
        <5>1. head \in Inputs /\ trailing \in Inputs
          BY <2>5, <4>4, <4>5
        <5>2. Holds(sl, head, trailing)
          BY <4>8, <5>1, AttachedForms
        <5> QED BY <5>2 DEF Holds
      <4>10. TextOf(sl) = all
        BY <2>5, <4>2, <4>5, <4>6, <4>7, <4>9 DEF TextOf
      <4> QED BY <4>5, <4>9, <4>10 DEF Padded
    <3>3. ASSUME sl = Attached(all, IF seg.input_complete THEN <<Pad>> ELSE <<>>)
          PROVE  /\ sl \in SlotState /\ sl.is_free = FALSE /\ sl.next_embed = TRUE
                 /\ sl.text_idx <= Len(sl.trailing)
                 /\ TextOf(sl) = all /\ Padded(sl, seg.input_complete)
      <4>1. PICK trailing : trailing = IF seg.input_complete THEN <<Pad>> ELSE <<>>
        OBVIOUS
      <4>2. /\ sl \in SlotState /\ sl.is_free = FALSE /\ sl.next_embed = TRUE
            /\ sl.text_idx <= Len(sl.trailing)
            /\ sl.head = all /\ sl.trailing = trailing
        <5>1. all \in Inputs /\ trailing \in Inputs
          BY <2>4, <2>5, <2>6, <4>1
        <5>2. sl = Attached(all, trailing)
          BY <3>3, <4>1
        <5>3. Holds(sl, all, trailing)
          BY <5>1, <5>2, AttachedForms
        <5> QED BY <5>3 DEF Holds
      <4>3. all \o <<>> = all
        BY <2>4, ConcatEmptySeq DEF Plain
      <4>4. TextOf(sl) = all
        BY <4>1, <4>2, <4>3 DEF TextOf
      <4>5. Padded(sl, seg.input_complete)
        BY <2>6, <4>1, <4>2 DEF Padded
      <4> QED BY <4>2, <4>4, <4>5
    <3> QED BY <2>1, <2>2, <2>3, <3>1, <3>2, <3>3
  <2> QED BY <2>7, <2>8
<1> QED BY <1>1, <1>2 DEF Prefilled


\* Admitting a segment keeps the invariant: the slot was free, and the session
\* held fewer slots than it may.
LEMMA ActivateStep ==
    ASSUME EngineInv, NEW k \in Candidates, NEW t \in Slots, NEW frame \in Frames,
           NEW sl \in Prefilled(segs[k]), phase \in {"admit", "prefill"},
           Activate(k, t, sl, frame), Onward, UNCHANGED task
    PROVE  EngineInv'
<1>1. /\ EngineTypeOK /\ Owned /\ BatchInv /\ CountInv /\ DeferredInv /\ ReadInv
  BY DEF EngineInv
<1>2. /\ k \in Keys /\ segs[k] \in Segment /\ segs[k].state = "pending_prefill"
      /\ segs[k].pending_token_ids # <<>>
      /\ ActiveSlotCount(k[1]) < MaxSlotsPerSession
  BY <1>1 DEF Candidates, EngineTypeOK
<1>3. /\ sl \in SlotState /\ sl.is_free = FALSE /\ sl.next_embed = TRUE
      /\ sl.text_idx <= Len(sl.trailing)
  BY <1>2, PrefilledForms
<1>4. free[t] > 0
  BY DEF Activate
<1>5. /\ slots[t].is_free /\ free[t] = 1 /\ seg_by_slot[t] = NoSegment
      /\ \A j \in Keys : segs[j].slot # t
  BY <1>1, <1>4, FreeIsFree
<1>6. PICK h \in BOOLEAN : h = Heard(k, frame)
  BY <1>2 DEF Heard, Segment
<1>7. PICK c \in BOOLEAN : c = segs[k].input_complete
  BY <1>2 DEF Segment
<1>8. PICK seg : seg = [segs[k] EXCEPT !.state = "active", !.slot = t,
                            !.eos_trailing_added = c, !.audible_frame_seen = h]
  OBVIOUS
<1>9. segs' = [segs EXCEPT ![k] = seg]
  BY <1>1, <1>2, <1>6, <1>7, <1>8 DEF Activate, EngineTypeOK
<1>10. /\ seg \in Segment /\ seg.slot = t /\ seg.state = "active"
       /\ seg.input_complete = c /\ seg.eos_trailing_added = c
       /\ seg.deferred_token_ids = segs[k].deferred_token_ids
  BY <1>2, <1>7, <1>8 DEF Segment
<1>11. /\ segs' \in [Keys -> Segment] /\ segs'[k] = seg
       /\ \A j \in Keys \ {k} : segs'[j] = segs[j]
  BY <1>1, <1>2, <1>9, <1>10 DEF EngineTypeOK
<1>12. /\ slots' \in [Slots -> SlotState] /\ slots'[t] = sl
       /\ \A r \in Slots \ {t} : slots'[r] = slots[r]
  BY <1>1, <1>3 DEF Activate, EngineTypeOK
<1>13. /\ free' \in [Slots -> Nat] /\ free'[t] = 0
       /\ \A r \in Slots \ {t} : free'[r] = free[r]
  BY SMTT(30), <1>1, <1>5 DEF Activate, EngineTypeOK
<1>14. /\ seg_by_slot' \in [Slots -> Keys \cup {NoSegment}] /\ seg_by_slot'[t] = k
       /\ \A r \in Slots \ {t} : seg_by_slot'[r] = seg_by_slot[r]
  BY <1>1, <1>2 DEF Activate, EngineTypeOK
<1>15. UNCHANGED <<live, input_complete_all, overflow>>
  BY DEF Activate
<1>16. EngineTypeOK'
  BY <1>1, <1>11, <1>12, <1>13, <1>14, <1>15 DEF EngineTypeOK, Onward, Phases
<1>17. Owned'
  <2>1. \A r \in Slots : /\ free'[r] = IF slots'[r].is_free THEN 1 ELSE 0
                         /\ slots'[r].is_free <=> seg_by_slot'[r] = NoSegment
    <3>1. ASSUME NEW r \in Slots \ {t}
          PROVE  /\ free'[r] = IF slots'[r].is_free THEN 1 ELSE 0
                 /\ slots'[r].is_free <=> seg_by_slot'[r] = NoSegment
      BY SMTT(30), <1>1, <1>12, <1>13, <1>14, <3>1 DEF Owned
    <3>2. /\ free'[t] = IF slots'[t].is_free THEN 1 ELSE 0
          /\ slots'[t].is_free <=> seg_by_slot'[t] = NoSegment
      BY <1>2, <1>3, <1>12, <1>13, <1>14, EngineAssumption
    <3> QED BY <3>1, <3>2
  <2>2. \A r \in Slots, j \in Keys : seg_by_slot'[r] = j <=> segs'[j].slot = r
    <3>1. segs[k].slot = NoSlot
      BY <1>1, <1>2 DEF Owned
    <3>2. \A r \in Slots, j \in Keys : seg_by_slot[r] = j <=> segs[j].slot = r
      BY <1>1 DEF Owned
    <3>3. NoSlot \notin Slots
      BY EngineAssumption
    <3>4. ASSUME NEW r \in Slots PROVE seg_by_slot[r] # k
      <4>1. seg_by_slot[r] = k => segs[k].slot = r
        BY <1>2, <3>2
      <4> QED BY <3>1, <3>3, <4>1
    <3>5. ASSUME NEW r \in Slots, NEW j \in Keys
          PROVE  seg_by_slot'[r] = j <=> segs'[j].slot = r
      <4>1. CASE r = t /\ j = k
        BY <1>10, <1>11, <1>14, <4>1
      <4>2. CASE r = t /\ j # k
        BY <1>5, <1>11, <1>14, <4>2
      <4>3. CASE r # t /\ j = k
        BY <1>10, <1>11, <1>14, <3>4, <4>3
      <4>4. CASE r # t /\ j # k
        <5>1. seg_by_slot'[r] = seg_by_slot[r] /\ segs'[j] = segs[j]
          BY <1>11, <1>14, <4>4
        <5>2. seg_by_slot[r] = j <=> segs[j].slot = r
          BY <3>2
        <5> QED BY <5>1, <5>2
      <4> QED BY <4>1, <4>2, <4>3, <4>4
    <3> QED BY <3>5
  <2>3. \A j \in Keys : /\ segs'[j].slot = NoSlot <=> segs'[j].state # "active"
                        /\ j[1] \notin live' => segs'[j] = Absent
    <3>1. \A j \in Keys : /\ segs[j].slot = NoSlot <=> segs[j].state # "active"
                          /\ j[1] \notin live => segs[j] = Absent
      BY <1>1 DEF Owned
    <3>2. Absent.state # "pending_prefill"
      BY DEF Absent
    <3>3. k[1] \in live
      BY <1>2, <3>1, <3>2
    <3>4. t # NoSlot
      BY EngineAssumption
    <3>5. ASSUME NEW j \in Keys
          PROVE  /\ segs'[j].slot = NoSlot <=> segs'[j].state # "active"
                 /\ j[1] \notin live' => segs'[j] = Absent
      <4>1. CASE j = k
        BY <1>10, <1>11, <1>15, <3>3, <3>4, <4>1
      <4>2. CASE j # k
        BY <1>11, <1>15, <3>1, <4>2
      <4> QED BY <4>1, <4>2
    <3> QED BY <3>5
  <2> QED BY <2>1, <2>2, <2>3 DEF Owned
<1>18. CountInv'
  <2> SUFFICES ASSUME NEW x \in Sessions
               PROVE  (ActiveSlotCount(x) <= MaxSlotsPerSession)'
    BY DEF CountInv
  <2>1. PICK H : H = Holding(x)
    OBVIOUS
  <2>2. PICK T : T = {j \in KeysOf(x) : /\ segs'[j].state \in {"pending_prefill", "active"}
                                       /\ segs'[j].slot # NoSlot}
    OBVIOUS
  <2>3. /\ IsFiniteSet(H) /\ Cardinality(H) \in Nat
        /\ ActiveSlotCount(x) = Cardinality(H)
    BY <1>1, <2>1, HoldingFinite
  <2>4. ActiveSlotCount(x)' = Cardinality(T)
    BY <2>2 DEF ActiveSlotCount
  <2>5. CASE k[1] = x
    <3>1. T \in SUBSET (H \cup {k})
      BY <1>11, <2>1, <2>2, KeyParts DEF Holding
    <3>2. IsFiniteSet(H \cup {k}) /\ Cardinality(H \cup {k}) <= Cardinality(H) + 1
      <4>1. /\ IsFiniteSet(H \cup {k})
            /\ Cardinality(H \cup {k}) = IF k \in H THEN Cardinality(H) ELSE Cardinality(H) + 1
        BY <2>3, FS_AddElement
      <4>2. PICK n \in Nat : n = Cardinality(H)
        BY <2>3
      <4> QED BY SMTT(30), <4>1, <4>2
    <3>3. IsFiniteSet(T) /\ Cardinality(T) <= Cardinality(H \cup {k})
      BY <3>1, <3>2, FS_Subset
    <3>4. Cardinality(T) \in Nat /\ Cardinality(H \cup {k}) \in Nat
      BY <3>2, <3>3, FS_CardinalityType
    <3>5. Cardinality(H) < MaxSlotsPerSession
      BY <1>2, <2>3, <2>5
    <3> QED BY SMTT(30), <2>3, <2>4, <3>2, <3>3, <3>4, <3>5, EngineAssumption
  <2>6. CASE k[1] # x
    <3>1. T = H
      <4>1. ASSUME NEW j \in KeysOf(x) PROVE segs'[j] = segs[j]
        <5>1. j \in Keys /\ j[1] = x
          BY KeyParts
        <5> QED BY <1>11, <2>6, <5>1
      <4> QED BY <2>1, <2>2, <4>1 DEF Holding
    <3> QED BY <1>1, <2>3, <2>4, <3>1 DEF CountInv
  <2> QED BY <2>5, <2>6
<1>19. BatchInv'
  <2>1. batch = {}
    BY <1>1 DEF BatchInv, Between
  <2>2. batch' = {}
    BY <2>1 DEF Onward
  <2> QED BY <2>2 DEF BatchInv
<1>20. DeferredInv'
  <2>1. \A j \in Keys : segs[j].deferred_token_ids = <<>>
    BY <1>1 DEF DeferredInv, Draining
  <2>2. \A j \in Keys : segs'[j].deferred_token_ids = <<>>
    BY <1>2, <1>10, <1>11, <2>1
  <2>3. \A j \in Active' : segs'[j].eos_trailing_added = segs'[j].input_complete
    BY <1>1, <1>10, <1>11 DEF DeferredInv, Active
  <2> QED BY <2>2, <2>3 DEF DeferredInv
<1>21. ReadInv'
  <2>1. \A r \in Slots : slots'[r].text_idx <= Len(slots'[r].trailing)
    BY <1>1, <1>3, <1>12 DEF ReadInv
  <2>2. ASSUME NEW j \in Active'
        PROVE  Waits(slots'[segs'[j].slot], segs'[j].input_complete)
    <3>1. CASE j = k
      BY <1>3, <1>10, <1>11, <1>12, <3>1 DEF Waits
    <3>2. CASE j # k
      <4>1. j \in Active /\ segs'[j] = segs[j] /\ j \in Keys
        BY <1>11, <3>2 DEF Active
      <4>2. segs[j].slot \in Slots \ {t}
        BY SMTT(30), <1>1, <1>5, <4>1 DEF Owned, Active, EngineTypeOK, Segment
      <4> QED BY <1>1, <1>12, <4>1, <4>2 DEF ReadInv
    <3> QED BY <3>1, <3>2
  <2> QED BY <2>1, <2>2 DEF ReadInv
<1> QED BY <1>16, <1>17, <1>18, <1>19, <1>20, <1>21 DEF EngineInv

-----------------------------------------------------------------------------
(* The invariant holds.                                                    *)

\* At the start nothing is held.
LEMMA EngineStarts == EngineInit => EngineInv
<1> SUFFICES ASSUME EngineInit
             PROVE  EngineInv
  OBVIOUS
<1>1. FreeSlot \in SlotState /\ FreeSlot.is_free /\ FreeSlot.text_idx <= Len(FreeSlot.trailing)
  BY SMTT(30), EngineAssumption DEF FreeSlot, SlotState
<1>2. /\ Absent \in Segment /\ Absent.state = "absent" /\ Absent.slot = NoSlot
      /\ Absent.deferred_token_ids = <<>>
  BY NewSegments DEF Absent
<1>3. \A k \in Keys : segs[k] = Absent
  BY DEF EngineInit
<1>4. EngineTypeOK
  BY SMTT(30), <1>1, <1>2 DEF EngineInit, EngineTypeOK
<1>5. Owned
  BY <1>1, <1>2, EngineAssumption DEF EngineInit, Owned
<1>6. BatchInv
  BY DEF EngineInit, BatchInv
<1>7. CountInv
  <2> SUFFICES ASSUME NEW x \in Sessions
               PROVE  ActiveSlotCount(x) <= MaxSlotsPerSession
    BY DEF CountInv
  <2>1. {k \in KeysOf(x) : /\ segs[k].state \in {"pending_prefill", "active"}
                           /\ segs[k].slot # NoSlot} = {}
    BY <1>2, <1>3, KeyParts
  <2> QED BY SMTT(30), <2>1, FS_EmptySet, EngineAssumption DEF ActiveSlotCount
<1>8. DeferredInv
  BY <1>2, <1>3 DEF DeferredInv, Active
<1>9. ReadInv
  BY <1>1, <1>2, <1>3 DEF EngineInit, ReadInv, Active
<1> QED BY <1>4, <1>5, <1>6, <1>7, <1>8, <1>9 DEF EngineInv

\* Every step keeps the invariant.
LEMMA EngineSteps == EngineInv /\ [EngineNext]_engineVars => EngineInv'
<1> SUFFICES ASSUME EngineInv, [EngineNext]_engineVars
             PROVE  EngineInv'
  OBVIOUS
<1>1. CASE UNCHANGED engineVars
  <2>1. UNCHANGED <<phase, live, input_complete_all, overflow, segs, slots, free,
                    seg_by_slot, batch, prefills, task>>
    BY <1>1 DEF engineVars
  <2>2. Same /\ Onward
    BY <2>1 DEF Same, Onward, EngineInv, EngineTypeOK, BatchInv, Phases
  <2> QED BY <2>1, <2>2, SameStep
<1>2. CASE EngineNext
  <2>1. StepKinds /\ UNCHANGED task
    BY <1>2, LoopKinds, RequestKinds DEF EngineNext, EngineInv
  <2>2. EngineTypeOK /\ Owned /\ DeferredInv
    BY DEF EngineInv
  <2>3. ASSUME NEW K \in SUBSET Keys, Drops(K), Onward
        PROVE  EngineInv'
    BY <2>1, <2>3, DropsStep
  <2>4. CASE \/ Same /\ Onward
             \/ \E x \in Sessions : x \in live /\ AllIn(x) /\ Onward
    BY <2>1, <2>4, SameStep
  <2>5. CASE \E X \in SUBSET Sessions : RemoveSessions(X) /\ Onward
    BY <2>2, <2>3, <2>5, RemovedDrops
  <2>6. CASE \/ \E k \in Keys : Working(k) /\ ~Draining /\ Ended(k) /\ Onward
             \/ \E k \in Keys : Working(k) /\ ~Draining /\ Rerun(k) /\ Onward
    BY <2>2, <2>3, <2>6, LeftDrops
  <2>7. CASE \E x \in Sessions : Opened(x) /\ Onward
    BY <2>2, <2>3, <2>7, OpenedDrops
  <2>8. CASE \E k \in Keys : k[1] \in live /\ Draining /\ TextEnds(k) /\ Onward
    BY <2>1, <2>8, TextEndsStep
  <2>9. CASE \E x \in Sessions, i \in SegmentIds, p \in Priorities :
                /\ Len(overflow[x]) < MaxText
                /\ StartTokens(x, i, p, <<Len(overflow[x]) + 1>>)
                /\ Onward
    BY <2>2, <2>3, <2>9, StartedDrops
  <2>10. CASE \E x \in Sessions, i \in SegmentIds :
                 /\ Room(x, i) /\ ~segs[<<x, i>>].input_complete
                 /\ AppendTokens(x, i, <<NextToken(x, i)>>)
                 /\ Onward
    BY <2>1, <2>10, AppendStep
  <2>11. CASE \E s \in Slots, k \in Keys, frame \in Frames : DecodeFrame(s, k, frame) /\ Onward
    BY <2>1, <2>11, FrameStep
  <2>12. CASE \E k \in Keys, t \in Slots : Migrate(k, t) /\ Onward
    BY <2>1, <2>12, MigrateStep
  <2>13. CASE \E k \in Candidates, t \in Slots, frame \in Frames :
                 /\ phase \in {"admit", "prefill"}
                 /\ \E sl \in Prefilled(segs[k]) : Activate(k, t, sl, frame)
                 /\ Onward
    BY <2>1, <2>13, ActivateStep
  <2>14. CASE \E B \in SUBSET Runnable : Launch(B)
    BY <2>1, <2>14, LaunchStep
  <2>15. CASE DrainEnd
    BY <2>1, <2>15, DrainEndStep
  <2> QED
    BY <2>1, <2>4, <2>5, <2>6, <2>7, <2>8, <2>9, <2>10, <2>11, <2>12, <2>13, <2>14, <2>15
       DEF StepKinds
<1> QED BY <1>1, <1>2

\* The invariant holds in every state the engine reaches.
THEOREM EngineSafe == EngineSpec => []EngineInv
BY EngineStarts, EngineSteps, PTL DEF EngineSpec


-----------------------------------------------------------------------------
(* What a slot is fed.                                                     *)

\* The slot sl has been given the text of seg, up to the tokens that wait.
Tells(sl, seg) ==
    /\ TextOf(sl) \o seg.deferred_token_ids
          = seg.pending_token_ids \o EosIf(seg.input_complete)
    /\ Padded(sl, seg.input_complete)

FedInv == task # "voice_design" => \A k \in Active : Tells(slots[segs[k].slot], segs[k])

\* A slot tells the same as another with the same text.
LEMMA SameText ==
    ASSUME NEW sl, NEW seg, Tells(sl, seg), NEW sl2, NEW seg2,
           sl2.head = sl.head, sl2.trailing = sl.trailing,
           seg2.pending_token_ids = seg.pending_token_ids,
           seg2.deferred_token_ids = seg.deferred_token_ids,
           seg2.input_complete = seg.input_complete
    PROVE  Tells(sl2, seg2)
<1>1. TextOf(sl2) = TextOf(sl)
  BY DEF TextOf
<1> QED BY <1>1 DEF Tells, Padded

\* Plain text is no padding.
LEMMA PlainText ==
    ASSUME NEW q \in Plain
    PROVE  q \in Inputs /\ q # <<Pad>>
<1>1. q \in Inputs
  BY SMTT(30) DEF Plain, Inputs
<1>2. Pad \notin Tokens \cup {Eos}
  BY SMTT(30), EngineAssumption DEF Pad, Eos, Tokens
<1>3. q = <<Pad>> => q[1] = Pad /\ 1 \in DOMAIN q
  BY SMTT(30)
<1>4. \A n \in DOMAIN q : q[n] \in Tokens \cup {Eos}
  BY SMTT(30), ElementOfSeq DEF Plain
<1> QED BY <1>1, <1>2, <1>3, <1>4

\* What a slot with plain text is fed goes behind its text.
LEMMA FedMore ==
    ASSUME NEW sl \in SlotState, sl.trailing \in Plain, NEW toks \in Plain
    PROVE  /\ TextOf(Fed(sl, toks)) = TextOf(sl) \o toks
           /\ Fed(sl, toks).trailing \in Plain
           /\ TextOf(sl) \in Inputs
<1>1. PICK head, trailing : head = sl.head /\ trailing = sl.trailing
  OBVIOUS
<1>2. head \in Inputs /\ trailing \in Inputs /\ toks \in Inputs /\ trailing # <<Pad>>
  BY <1>1, PlainText DEF SlotState, Inputs
<1>3. PICK fed : fed = Fed(sl, toks)
  OBVIOUS
<1>4. fed.head = head /\ fed.trailing = trailing \o toks
  <2>1. toks \in Seq(Tokens \cup {Eos, Pad})
    BY <1>2 DEF Inputs
  <2> QED BY <1>1, <1>3, <2>1, SlotForms
<1>5. trailing \o toks \in Plain
  BY <1>1, ConcatProperties DEF Plain
<1>6. trailing \o toks # <<Pad>>
  BY <1>5, PlainText
<1>7. TextOf(sl) = head \o trailing /\ TextOf(fed) = head \o (trailing \o toks)
  BY <1>1, <1>2, <1>4, <1>6 DEF TextOf
<1>8. (head \o trailing) \o toks = head \o (trailing \o toks)
  BY SMTT(30), <1>2, ConcatAssociative DEF Inputs
<1>9. head \o trailing \in Inputs
  BY <1>2, ConcatProperties DEF Inputs
<1> QED BY <1>3, <1>4, <1>5, <1>7, <1>8, <1>9

\* Feeding the tokens that wait, and the end of the text if it has come.
LEMMA FedTells ==
    ASSUME NEW sl \in SlotState, NEW seg \in Segment, ~seg.input_complete, Tells(sl, seg),
           NEW end \in Plain, NEW seg2,
           seg2.pending_token_ids = seg.pending_token_ids,
           seg2.deferred_token_ids = <<>>,
           EosIf(seg2.input_complete) = end
    PROVE  Tells(Fed(sl, seg.deferred_token_ids \o end), seg2)
<1>1. PICK text, wait, told :
         text = seg.pending_token_ids /\ wait = seg.deferred_token_ids /\ told = TextOf(sl)
  OBVIOUS
<1>2. text \in Plain /\ wait \in Plain
  <2>1. text \in Seq(Tokens) /\ wait \in Seq(Tokens)
    BY <1>1 DEF Segment
  <2> QED BY SMTT(30), <2>1 DEF Plain
<1>3. sl.trailing \in Plain
  BY DEF Tells, Padded
<1>4. PICK toks : toks = wait \o end
  OBVIOUS
<1>5. toks \in Plain
  BY <1>2, <1>4, ConcatProperties DEF Plain
<1>6. PICK fed : fed = Fed(sl, toks)
  OBVIOUS
<1>7. TextOf(fed) = told \o toks /\ fed.trailing \in Plain /\ told \in Inputs
  BY <1>1, <1>3, <1>5, <1>6, FedMore
<1>8. told \o wait = text
  <2>1. told \o wait = text \o <<>>
    BY <1>1 DEF Tells, EosIf
  <2>2. text \o <<>> = text
    BY <1>2, ConcatEmptySeq DEF Plain
  <2> QED BY <2>1, <2>2
<1>9. told \o toks = text \o end
  <2>1. wait \in Inputs /\ end \in Inputs
    BY <1>2, PlainText
  <2>2. (told \o wait) \o end = told \o (wait \o end)
    BY SMTT(30), <1>7, <2>1, ConcatAssociative DEF Inputs
  <2> QED BY <1>4, <1>8, <2>2
<1>10. TextOf(fed) \o <<>> = TextOf(fed)
  <2>1. toks \in Inputs
    BY <1>5, PlainText
  <2>2. told \o toks \in Inputs
    BY <1>7, <2>1, ConcatProperties DEF Inputs
  <2> QED BY <1>7, <2>2, ConcatEmptySeq DEF Inputs
<1>11. Tells(fed, seg2)
  BY <1>1, <1>7, <1>9, <1>10 DEF Tells, Padded
<1> QED BY <1>1, <1>4, <1>6, <1>11


\* An active segment has a slot of its own.
LEMMA ActiveSlots ==
    ASSUME EngineTypeOK, Owned
    PROVE  /\ \A k \in Active : /\ k \in Keys /\ segs[k] \in Segment
                                /\ segs[k].slot \in Slots /\ slots[segs[k].slot] \in SlotState
           /\ \A j, k \in Active : segs[j].slot = segs[k].slot => j = k
<1>1. \A k \in Active : k \in Keys /\ segs[k] \in Segment
  BY DEF Active, EngineTypeOK
<1>2. \A k \in Active : segs[k].slot \in Slots
  BY <1>1 DEF Active, Owned, Segment
<1>3. \A k \in Active : slots[segs[k].slot] \in SlotState
  BY <1>2 DEF EngineTypeOK
<1>4. \A j, k \in Active : segs[j].slot = segs[k].slot => j = k
  BY SMTT(30), <1>1, <1>2 DEF Owned
<1> QED BY <1>1, <1>2, <1>3, <1>4

\* The end of a text feeds the tokens that wait, then the end-of-text token.
LEMMA TextEndsFed ==
    ASSUME EngineInv, FedInv, NEW k \in Keys, TextEnds(k), UNCHANGED task
    PROVE  FedInv'
<1> SUFFICES ASSUME task # "voice_design", NEW j \in Active'
             PROVE  Tells(slots'[segs'[j].slot], segs'[j])
  BY DEF FedInv
<1>1. EngineTypeOK /\ Owned /\ DeferredInv
  BY DEF EngineInv
<1>2. segs[k] \in Segment /\ j \in Keys
  BY <1>1 DEF EngineTypeOK, Active
<1>3. PICK seg : seg = [segs[k] EXCEPT
                   !.input_complete = TRUE, !.deferred_token_ids = <<>>,
                   !.eos_trailing_added = segs[k].state = "active" /\ ~segs[k].eos_trailing_added]
  OBVIOUS
<1>4. /\ seg.slot = segs[k].slot /\ seg.state = segs[k].state
      /\ seg.pending_token_ids = segs[k].pending_token_ids
      /\ seg.deferred_token_ids = <<>> /\ seg.input_complete = TRUE
  BY <1>2, <1>3 DEF Segment
<1>5. segs' = segs \/ segs' = [segs EXCEPT ![k] = seg]
  BY <1>1, <1>3 DEF TextEnds, EngineTypeOK
<1>6. \A i \in Keys : segs'[i].slot = segs[i].slot /\ segs'[i].state = segs[i].state
  BY <1>1, <1>4, <1>5 DEF EngineTypeOK
<1>7. j \in Active /\ Tells(slots[segs[j].slot], segs[j])
  BY <1>2, <1>6 DEF FedInv, Active
<1>8. CASE j = k
  <2>1. segs[k].state = "active" /\ segs'[k] = seg
    BY <1>1, <1>3, <1>7, <1>8 DEF Active, TextEnds, EngineTypeOK
  <2>2. PICK sl : sl = slots[segs[k].slot]
    OBVIOUS
  <2>3. sl \in SlotState /\ segs[k].slot \in Slots /\ Tells(sl, segs[k])
    BY <1>1, <1>7, <1>8, <2>2, ActiveSlots
  <2>4. ~segs[k].input_complete /\ ~segs[k].eos_trailing_added
    BY <1>1, <1>7, <1>8 DEF TextEnds, DeferredInv
  <2>5. LastWords(segs[k]) = segs[k].deferred_token_ids \o <<Eos>>
    <3>1. segs[k].deferred_token_ids \in Seq(Tokens)
      BY <1>2 DEF Segment
    <3>2. segs[k].deferred_token_ids \in Plain
      BY SMTT(30), <3>1 DEF Plain
    <3>3. Append(segs[k].deferred_token_ids, Eos) = segs[k].deferred_token_ids \o <<Eos>>
      <4>1. PICK S, w, e : S = Tokens \cup {Eos} /\ w = segs[k].deferred_token_ids /\ e = Eos
        OBVIOUS
      <4>2. w \in Seq(S) /\ e \in S
        BY <3>2, <4>1 DEF Plain
      <4>3. Append(w, e) = w \o <<e>>
        BY ONLY <4>2, AppendIsConcat
      <4> QED BY <4>1, <4>3
    <3> QED BY <2>4, <3>3 DEF LastWords
  <2>6. slots'[segs[k].slot] = Fed(sl, LastWords(segs[k]))
    BY <1>1, <2>1, <2>2, <2>3 DEF TextEnds, EngineTypeOK
  <2>7. <<Eos>> \in Plain /\ EosIf(seg.input_complete) = <<Eos>>
    BY SMTT(30), <1>4 DEF Plain, EosIf
  <2>8. Tells(Fed(sl, segs[k].deferred_token_ids \o <<Eos>>), seg)
    BY <1>2, <1>4, <2>3, <2>4, <2>7, FedTells
  <2> QED BY <1>4, <1>8, <2>1, <2>5, <2>6, <2>8
<1>9. CASE j # k
  <2>1. segs'[j] = segs[j]
    BY <1>1, <1>2, <1>5, <1>9 DEF EngineTypeOK
  <2>2. segs[j].slot \in Slots
    BY <1>1, <1>7, ActiveSlots
  <2>3. segs[k].state = "active" => segs[j].slot # segs[k].slot
    BY <1>1, <1>7, <1>9, ActiveSlots DEF Active
  <2>4. slots'[segs[j].slot] = slots[segs[j].slot]
    BY <1>1, <2>2, <2>3 DEF TextEnds, EngineTypeOK
  <2> QED BY <1>7, <2>1, <2>4
<1> QED BY <1>8, <1>9

\* An append to an active segment waits for the end of the drain.
LEMMA AppendFed ==
    ASSUME EngineInv, EngineInv', FedInv, NEW x \in Sessions, NEW i \in SegmentIds,
           Room(x, i), ~segs[<<x, i>>].input_complete,
           AppendTokens(x, i, <<NextToken(x, i)>>), UNCHANGED task
    PROVE  FedInv'
<1> SUFFICES ASSUME task # "voice_design", NEW j \in Active'
             PROVE  Tells(slots'[segs'[j].slot], segs'[j])
  BY DEF FedInv
<1>1. EngineTypeOK /\ Owned /\ EngineTypeOK'
  BY DEF EngineInv
<1>2. PICK k \in Keys : k = <<x, i>>
  BY KeyParts
<1>3. PICK toks : toks = <<NextToken(x, i)>>
  OBVIOUS
<1>4. j \in Keys /\ segs[k] \in Segment /\ slots' = slots
  BY <1>1 DEF Active, AppendTokens, SlotsKept, EngineTypeOK
<1>5. CASE segs' = segs
  BY <1>4, <1>5 DEF FedInv, Active
<1>6. CASE segs' # segs
  <2>1. /\ segs[k].state \notin {"absent", "done"}
        /\ segs' = [segs EXCEPT ![k].pending_token_ids = @ \o toks,
                                ![k].deferred_token_ids =
                                    IF segs[k].state = "active" THEN @ \o toks ELSE @]
    BY <1>2, <1>3, <1>6 DEF AppendTokens
  <2>2. CASE j # k
    <3>1. segs'[j] = segs[j] /\ j \in Active
      BY <1>1, <1>4, <2>1, <2>2 DEF Active, EngineTypeOK
    <3> QED BY <1>4, <3>1 DEF FedInv
  <2>3. CASE j = k
    <3>0. PICK d : d = IF segs[k].state = "active" THEN segs[k].deferred_token_ids \o toks
                       ELSE segs[k].deferred_token_ids
      OBVIOUS
    <3>1. PICK seg : seg = [segs[k] EXCEPT !.pending_token_ids = @ \o toks,
                                           !.deferred_token_ids = d]
      OBVIOUS
    <3>2. segs'[k] = seg
      BY <1>1, <2>1, <3>0, <3>1 DEF EngineTypeOK
    <3>3. /\ seg.state = segs[k].state /\ seg.slot = segs[k].slot
          /\ seg.pending_token_ids = segs[k].pending_token_ids \o toks
          /\ seg.deferred_token_ids = d /\ seg.input_complete = segs[k].input_complete
      BY <1>4, <3>1 DEF Segment
    <3>4. k \in Active
      BY <1>4, <2>3, <3>2, <3>3 DEF Active
    <3>5. d = segs[k].deferred_token_ids \o toks
      BY <3>0, <3>4 DEF Active
    <3>6. PICK sl, text, wait, told :
             /\ sl = slots[segs[k].slot] /\ told = TextOf(sl)
             /\ text = segs[k].pending_token_ids /\ wait = segs[k].deferred_token_ids
      OBVIOUS
    <3>7. Tells(sl, segs[k]) /\ sl \in SlotState
      BY <1>1, <3>4, <3>6, ActiveSlots DEF FedInv
    <3>8. ~segs[k].input_complete
      BY <1>2
    <3>9. sl.trailing \in Plain
      BY <3>7, <3>8 DEF Tells, Padded
    <3>10. text \in Seq(Tokens) /\ wait \in Seq(Tokens)
      BY <1>4, <3>6 DEF Segment
    <3>11. wait \in Inputs /\ text \in Inputs /\ <<>> \in Plain
      BY SMTT(30), <3>10 DEF Inputs, Plain
    <3>12. told \in Inputs
      BY <3>6, <3>7, <3>9, <3>11, FedMore
    <3>13. toks \in Inputs
      <4>1. PICK n \in Nat, m \in Nat : n = Len(overflow[x]) /\ m = Len(text)
        BY <1>1, <3>10, LenProperties DEF EngineTypeOK
      <4>2. n + m < MaxText
        BY <1>2, <3>6, <4>1 DEF Room
      <4>3. NextToken(x, i) = n + 1 \/ NextToken(x, i) = m + 1
        BY SMTT(30), <1>2, <3>6, <4>1 DEF NextToken
      <4>4. NextToken(x, i) \in Tokens
        BY SMTT(30), <4>2, <4>3, EngineAssumption DEF Tokens
      <4> QED BY SMTT(30), <1>3, <4>4 DEF Inputs
    <3>14. told \o wait = text
      <4>1. told \o wait = text \o <<>>
        BY <3>6, <3>7, <3>8 DEF Tells, EosIf
      <4>2. text \o <<>> = text
        BY <3>10, ConcatEmptySeq
      <4> QED BY <4>1, <4>2
    <3>15. told \o (wait \o toks) = (told \o wait) \o toks
      <4>1. PICK S : S = Tokens \cup {Eos, Pad}
        OBVIOUS
      <4>2. told \in Seq(S) /\ wait \in Seq(S) /\ toks \in Seq(S)
        BY <3>11, <3>12, <3>13, <4>1 DEF Inputs
      <4>3. (told \o wait) \o toks = told \o (wait \o toks)
        BY ONLY <4>2, ConcatAssociative
      <4> QED BY <4>3
    <3>16. (text \o toks) \o <<>> = text \o toks
      <4>1. text \o toks \in Inputs
        BY <3>11, <3>13, ConcatProperties DEF Inputs
      <4> QED BY <4>1, ConcatEmptySeq DEF Inputs
    <3>17. EosIf(seg.input_complete) = <<>>
      BY <3>3, <3>8 DEF EosIf
    <3>18. Tells(sl, seg)
      BY <3>3, <3>5, <3>6, <3>9, <3>14, <3>15, <3>16, <3>17 DEF Tells, Padded
    <3> QED BY <1>4, <2>3, <3>2, <3>3, <3>6, <3>18
  <2> QED BY <2>2, <2>3
<1> QED BY <1>5, <1>6

\* The end of a drain feeds the tokens that waited.
LEMMA DrainEndFed ==
    ASSUME EngineInv, FedInv, DrainEnd, UNCHANGED task
    PROVE  FedInv'
<1> SUFFICES ASSUME task # "voice_design", NEW j \in Active'
             PROVE  Tells(slots'[segs'[j].slot], segs'[j])
  BY DEF FedInv
<1>1. EngineTypeOK /\ Owned /\ DeferredInv
  BY DEF EngineInv
<1>2. j \in Keys /\ segs[j] \in Segment
  BY <1>1 DEF Active, EngineTypeOK
<1>3. segs'[j] = [segs[j] EXCEPT !.deferred_token_ids = <<>>]
  BY <1>2 DEF DrainEnd
<1>4. /\ segs'[j].slot = segs[j].slot /\ segs'[j].state = segs[j].state
      /\ segs'[j].pending_token_ids = segs[j].pending_token_ids
      /\ segs'[j].input_complete = segs[j].input_complete
      /\ segs'[j].deferred_token_ids = <<>>
  BY <1>2, <1>3 DEF Segment
<1>5. j \in Active
  BY <1>2, <1>4 DEF Active
<1>6. PICK s, sl : s = segs[j].slot /\ sl = slots[s]
  OBVIOUS
<1>7. s \in Slots /\ sl \in SlotState /\ Tells(sl, segs[j])
  BY <1>1, <1>5, <1>6, ActiveSlots DEF FedInv
<1>8. seg_by_slot[s] = j /\ j # NoSegment
  BY SMTT(30), <1>1, <1>2, <1>6, <1>7, EngineAssumption DEF Owned
<1>9. CASE segs[j].deferred_token_ids = <<>>
  <2>1. slots'[s] = sl
    BY <1>6, <1>7, <1>8, <1>9 DEF DrainEnd
  <2>2. Tells(sl, segs'[j])
    BY <1>4, <1>7, <1>9, SameText
  <2> QED BY <1>4, <1>6, <2>1, <2>2
<1>10. CASE segs[j].deferred_token_ids # <<>>
  <2>1. slots'[s] = Fed(sl, segs[j].deferred_token_ids)
    BY <1>6, <1>7, <1>8, <1>10 DEF DrainEnd
  <2>2. ~segs[j].input_complete
    BY <1>1, <1>2, <1>10 DEF DeferredInv
  <2>3. segs[j].deferred_token_ids \o <<>> = segs[j].deferred_token_ids
    <3>1. segs[j].deferred_token_ids \in Seq(Tokens)
      BY <1>2 DEF Segment
    <3> QED BY <3>1, ConcatEmptySeq
  <2>4. <<>> \in Plain /\ EosIf(segs'[j].input_complete) = <<>>
    BY SMTT(30), <1>4, <2>2 DEF Plain, EosIf
  <2>5. PICK seg2 : seg2 = segs'[j]
    OBVIOUS
  <2>6. Tells(Fed(sl, segs[j].deferred_token_ids \o <<>>), seg2)
    BY <1>2, <1>4, <1>7, <2>2, <2>4, <2>5, FedTells
  <2> QED BY <1>4, <1>6, <2>1, <2>3, <2>5, <2>6
<1> QED BY <1>9, <1>10

\* A step that changes neither the text of a segment nor that of its slot.
TextKept ==
    \A j \in Active' :
        /\ j \in Active
        /\ segs'[j].pending_token_ids = segs[j].pending_token_ids
        /\ segs'[j].deferred_token_ids = segs[j].deferred_token_ids
        /\ segs'[j].input_complete = segs[j].input_complete
        /\ slots'[segs'[j].slot].head = slots[segs[j].slot].head
        /\ slots'[segs'[j].slot].trailing = slots[segs[j].slot].trailing

\* A slot goes on telling the text of its segment when neither changes.
LEMMA KeptFed ==
    ASSUME FedInv, TextKept, UNCHANGED task
    PROVE  FedInv'
<1> SUFFICES ASSUME task # "voice_design", NEW j \in Active'
             PROVE  Tells(slots'[segs'[j].slot], segs'[j])
  BY DEF FedInv
<1>1. PICK sl, seg, sl2, seg2 : /\ seg = segs[j] /\ sl = slots[segs[j].slot]
                                /\ seg2 = segs'[j] /\ sl2 = slots'[segs'[j].slot]
  OBVIOUS
<1>2. Tells(sl, seg)
  BY <1>1 DEF FedInv, TextKept
<1>3. /\ sl2.head = sl.head /\ sl2.trailing = sl.trailing
      /\ seg2.pending_token_ids = seg.pending_token_ids
      /\ seg2.deferred_token_ids = seg.deferred_token_ids
      /\ seg2.input_complete = seg.input_complete
  BY <1>1 DEF TextKept
<1>4. Tells(sl2, seg2)
  BY <1>2, <1>3, SameText
<1> QED BY <1>1, <1>4

\* A step that only gives up segments.
LEMMA DropsFed ==
    ASSUME EngineInv, FedInv, NEW K \in SUBSET Keys, Drops(K), UNCHANGED task
    PROVE  FedInv'
<1>1. \A k \in Keys : segs'[k].state = "active" =>
            /\ segs'[k] = segs[k] /\ slots'[segs'[k].slot] = slots[segs[k].slot]
  BY DropsSlots DEF EngineInv
<1>2. TextKept
  BY <1>1 DEF TextKept, Active
<1> QED BY <1>2, KeptFed

\* A frame.
LEMMA FrameFed ==
    ASSUME EngineInv, FedInv, NEW s \in Slots, NEW k \in Keys, NEW frame \in Frames,
           DecodeFrame(s, k, frame), UNCHANGED task
    PROVE  FedInv'
<1>1. EngineTypeOK /\ Owned /\ BatchInv
  BY DEF EngineInv
<1>2. Row(s, k) /\ segs[k].slot = s /\ segs[k].state = "active"
  BY <1>1, RowIsActive DEF DecodeFrame
<1>3. segs[k] \in Segment /\ slots[s] \in SlotState
  BY <1>1 DEF EngineTypeOK
<1>4. slots[s].past_len < MaxSeqLen
  <2>1. ~slots[s].is_free
    BY SMTT(30), <1>1, <1>2, EngineAssumption DEF Owned, Row
  <2> QED BY <1>1, <1>2, <2>1 DEF BatchInv, Row
<1>5. PICK c \in BOOLEAN : c = segs[k].input_complete
  BY <1>3 DEF Segment
<1>6. PICK sl : sl = Stepped(slots[s], c)
  OBVIOUS
<1>7. sl.head = slots[s].head /\ sl.trailing = slots[s].trailing
  BY <1>3, <1>4, <1>6, SlotForms
<1>8. slots' = [slots EXCEPT ![s] = sl]
  BY <1>1, <1>5, <1>6 DEF DecodeFrame, EngineTypeOK
<1>9. PICK seg : seg = [segs[k] EXCEPT !.audible_frame_seen = Heard(k, frame)]
  OBVIOUS
<1>10. segs' = [segs EXCEPT ![k] = seg]
  BY <1>1, <1>9 DEF DecodeFrame, EngineTypeOK
<1>11. /\ seg.slot = s /\ seg.state = "active"
       /\ seg.pending_token_ids = segs[k].pending_token_ids
       /\ seg.deferred_token_ids = segs[k].deferred_token_ids
       /\ seg.input_complete = segs[k].input_complete
  BY <1>2, <1>3, <1>9 DEF Segment
<1>12. TextKept
  <2> SUFFICES ASSUME NEW j \in Active'
               PROVE  /\ j \in Active
                      /\ segs'[j].pending_token_ids = segs[j].pending_token_ids
                      /\ segs'[j].deferred_token_ids = segs[j].deferred_token_ids
                      /\ segs'[j].input_complete = segs[j].input_complete
                      /\ slots'[segs'[j].slot].head = slots[segs[j].slot].head
                      /\ slots'[segs'[j].slot].trailing = slots[segs[j].slot].trailing
    BY DEF TextKept
  <2>1. j \in Keys /\ segs'[j].state = "active"
    BY DEF Active
  <2>2. CASE j = k
    BY SMTT(30), <1>1, <1>2, <1>7, <1>8, <1>10, <1>11, <2>1, <2>2 DEF EngineTypeOK, Active
  <2>3. CASE j # k
    <3>1. segs'[j] = segs[j] /\ j \in Active
      BY <1>1, <1>10, <2>1, <2>3 DEF EngineTypeOK, Active
    <3>2. k \in Active
      BY <1>2 DEF Active
    <3>3. segs[j].slot \in Slots /\ segs[j].slot # s
      BY <1>1, <1>2, <2>3, <3>1, <3>2, ActiveSlots
    <3>4. slots'[segs[j].slot] = slots[segs[j].slot]
      BY <1>1, <1>8, <3>3 DEF EngineTypeOK
    <3> QED BY <3>1, <3>4
  <2> QED BY <2>2, <2>3
<1> QED BY <1>12, KeptFed

\* A launch.
LEMMA LaunchFed ==
    ASSUME EngineInv, FedInv, NEW B \in SUBSET Runnable, Launch(B), UNCHANGED task
    PROVE  FedInv'
<1>1. EngineTypeOK /\ Owned
  BY DEF EngineInv
<1>2. PICK S, A : S = {segs[k].slot : k \in B} /\ A = {segs[k].slot : k \in Active}
  OBVIOUS
<1>3. /\ slots' = [s \in Slots |->
            IF s \in A THEN [Ready(slots[s]) EXCEPT !.launched = @ \/ s \in S] ELSE slots[s]]
      /\ segs' = segs
  BY <1>2 DEF Launch
<1>4. ASSUME NEW s \in Slots
      PROVE  slots'[s].head = slots[s].head /\ slots'[s].trailing = slots[s].trailing
  <2>1. slots[s] \in SlotState
    BY <1>1 DEF EngineTypeOK
  <2>2. PICK r : r = Ready(slots[s])
    OBVIOUS
  <2>3. r \in SlotState /\ r.head = slots[s].head /\ r.trailing = slots[s].trailing
    BY <2>1, <2>2, SlotForms
  <2>4. PICK b : b = (r.launched \/ s \in S)
    OBVIOUS
  <2>5. slots'[s] = IF s \in A THEN [r EXCEPT !.launched = b] ELSE slots[s]
    BY <1>3, <2>2, <2>3, <2>4 DEF SlotState
  <2> QED BY <2>3, <2>5 DEF SlotState
<1>5. TextKept
  BY <1>1, <1>3, <1>4, ActiveSlots DEF TextKept, Active
<1> QED BY <1>5, KeptFed

\* A migration.
LEMMA MigrateFed ==
    ASSUME EngineInv, FedInv, NEW k \in Keys, NEW t \in Slots, Migrate(k, t), UNCHANGED task
    PROVE  FedInv'
<1>1. EngineTypeOK /\ Owned
  BY DEF EngineInv
<1>2. PICK s : s = segs[k].slot
  OBVIOUS
<1>3. /\ segs[k].state = "active" /\ free[t] > 0
      /\ slots' = [slots EXCEPT ![t] = [slots[s] EXCEPT !.launched = FALSE], ![s] = FreeSlot]
      /\ segs' = [segs EXCEPT ![k].slot = t]
  BY <1>2 DEF Migrate
<1>4. k \in Active /\ segs[k] \in Segment /\ s \in Slots /\ slots[s] \in SlotState
  BY <1>1, <1>2, <1>3, ActiveSlots DEF Active
<1>5. \A j \in Keys : segs[j].slot # t
  BY <1>1, <1>3, FreeIsFree
<1>6. PICK moved : moved = [slots[s] EXCEPT !.launched = FALSE]
  OBVIOUS
<1>7. moved.head = slots[s].head /\ moved.trailing = slots[s].trailing
  BY <1>4, <1>6 DEF SlotState
<1>8. slots'[t] = moved /\ \A r \in Slots \ {s, t} : slots'[r] = slots[r]
  BY <1>1, <1>2, <1>3, <1>4, <1>5, <1>6 DEF EngineTypeOK
<1>9. PICK seg : seg = [segs[k] EXCEPT !.slot = t]
  OBVIOUS
<1>10. /\ seg.slot = t /\ seg.state = segs[k].state
       /\ seg.pending_token_ids = segs[k].pending_token_ids
       /\ seg.deferred_token_ids = segs[k].deferred_token_ids
       /\ seg.input_complete = segs[k].input_complete
  BY <1>4, <1>9 DEF Segment
<1>11. segs'[k] = seg /\ \A j \in Keys \ {k} : segs'[j] = segs[j]
  BY <1>1, <1>3, <1>9 DEF EngineTypeOK
<1>12. TextKept
  <2> SUFFICES ASSUME NEW j \in Active'
               PROVE  /\ j \in Active
                      /\ segs'[j].pending_token_ids = segs[j].pending_token_ids
                      /\ segs'[j].deferred_token_ids = segs[j].deferred_token_ids
                      /\ segs'[j].input_complete = segs[j].input_complete
                      /\ slots'[segs'[j].slot].head = slots[segs[j].slot].head
                      /\ slots'[segs'[j].slot].trailing = slots[segs[j].slot].trailing
    BY DEF TextKept
  <2>1. j \in Keys /\ segs'[j].state = "active"
    BY DEF Active
  <2>2. CASE j = k
    BY <1>2, <1>4, <1>7, <1>8, <1>10, <1>11, <2>2
  <2>3. CASE j # k
    <3>1. segs'[j] = segs[j] /\ j \in Active
      BY <1>11, <2>1, <2>3 DEF Active
    <3>2. segs[j].slot \in Slots /\ segs[j].slot # s /\ segs[j].slot # t
      BY <1>1, <1>2, <1>4, <1>5, <2>1, <2>3, <3>1, ActiveSlots
    <3> QED BY <1>8, <3>1, <3>2
  <2> QED BY <2>2, <2>3
<1> QED BY <1>12, KeptFed

\* A prefill puts the whole text of the segment into the slot.
LEMMA ActivateFed ==
    ASSUME EngineInv, FedInv, NEW k \in Candidates, NEW t \in Slots, NEW frame \in Frames,
           NEW sl \in Prefilled(segs[k]), phase \in {"admit", "prefill"},
           Activate(k, t, sl, frame), UNCHANGED task
    PROVE  FedInv'
<1> SUFFICES ASSUME task # "voice_design", NEW j \in Active'
             PROVE  Tells(slots'[segs'[j].slot], segs'[j])
  BY DEF FedInv
<1>1. EngineTypeOK /\ Owned /\ DeferredInv
  BY DEF EngineInv
<1>2. /\ k \in Keys /\ segs[k] \in Segment /\ segs[k].pending_token_ids # <<>>
      /\ free[t] > 0 /\ j \in Keys /\ segs'[j].state = "active"
  BY <1>1 DEF Candidates, EngineTypeOK, Activate, Active
<1>3. PICK seg : seg = [segs[k] EXCEPT !.state = "active", !.slot = t,
                            !.eos_trailing_added = segs[k].input_complete,
                            !.audible_frame_seen = Heard(k, frame)]
  OBVIOUS
<1>4. segs'[k] = seg /\ \A i \in Keys \ {k} : segs'[i] = segs[i]
  BY <1>1, <1>2, <1>3 DEF Activate, EngineTypeOK
<1>5. /\ seg.slot = t /\ seg.pending_token_ids = segs[k].pending_token_ids
      /\ seg.deferred_token_ids = segs[k].deferred_token_ids
      /\ seg.input_complete = segs[k].input_complete
  BY <1>2, <1>3 DEF Segment
<1>6. slots'[t] = sl /\ \A r \in Slots \ {t} : slots'[r] = slots[r]
  BY <1>1 DEF Activate, EngineTypeOK
<1>7. CASE j = k
  <2>1. seg.deferred_token_ids = <<>>
    BY <1>1, <1>2, <1>5 DEF DeferredInv, Draining
  <2>2. TextOf(sl) = seg.pending_token_ids \o EosIf(seg.input_complete)
    BY <1>2, <1>5, PrefilledForms
  <2>3. Padded(sl, seg.input_complete)
    BY <1>2, <1>5, PrefilledForms
  <2>4. seg.pending_token_ids \in Plain /\ EosIf(seg.input_complete) \in Plain
    <3>1. segs[k].pending_token_ids \in Seq(Tokens)
      BY <1>2 DEF Segment
    <3>2. seg.pending_token_ids \in Plain
      BY SMTT(30), <1>5, <3>1 DEF Plain
    <3>3. <<Eos>> \in Plain /\ <<>> \in Plain
      BY SMTT(30) DEF Plain
    <3> QED BY <3>2, <3>3 DEF EosIf
  <2>5. TextOf(sl) \in Plain
    BY SMTT(30), <2>2, <2>4, ConcatProperties DEF Plain
  <2>6. TextOf(sl) \o <<>> = TextOf(sl)
    BY <2>5, ConcatEmptySeq DEF Plain
  <2>7. Tells(sl, seg)
    BY <2>1, <2>2, <2>3, <2>6 DEF Tells
  <2> QED BY <1>4, <1>5, <1>6, <1>7, <2>7
<1>8. CASE j # k
  <2>1. segs'[j] = segs[j] /\ j \in Active
    BY <1>2, <1>4, <1>8 DEF Active
  <2>2. \A i \in Keys : segs[i].slot # t
    BY <1>1, <1>2, FreeIsFree
  <2>3. segs[j].slot \in Slots \ {t}
    BY <1>1, <1>2, <2>1, <2>2, ActiveSlots
  <2> QED BY <1>6, <2>1, <2>3 DEF FedInv
<1> QED BY <1>7, <1>8

\* The first states have no segment at all.
LEMMA FedStarts == EngineInit => FedInv
BY SMTT(30) DEF EngineInit, Absent, FedInv, Active

\* Every step feeds what it must.
LEMMA FedSteps == EngineInv /\ EngineInv' /\ FedInv /\ [EngineNext]_engineVars => FedInv'
<1> SUFFICES ASSUME EngineInv, EngineInv', FedInv, [EngineNext]_engineVars
             PROVE  FedInv'
  OBVIOUS
<1>1. CASE UNCHANGED engineVars
  BY <1>1 DEF engineVars, FedInv, Active
<1>2. CASE EngineNext
  <2>1. StepKinds /\ UNCHANGED task
    BY <1>2, LoopKinds, RequestKinds DEF EngineNext, EngineInv
  <2>2. EngineTypeOK /\ Owned /\ DeferredInv
    BY DEF EngineInv
  <2>3. ASSUME NEW K \in SUBSET Keys, Drops(K)
        PROVE  FedInv'
    BY <2>1, <2>3, DropsFed
  <2>4. CASE \/ Same /\ Onward
             \/ \E x \in Sessions : x \in live /\ AllIn(x) /\ Onward
    <3>1. UNCHANGED <<segs, slots, task>>
      BY <2>1, <2>4 DEF Same, AllIn
    <3> QED BY <3>1 DEF FedInv, Active
  <2>5. CASE \E X \in SUBSET Sessions : RemoveSessions(X) /\ Onward
    BY <2>2, <2>3, <2>5, RemovedDrops
  <2>6. CASE \/ \E k \in Keys : Working(k) /\ ~Draining /\ Ended(k) /\ Onward
             \/ \E k \in Keys : Working(k) /\ ~Draining /\ Rerun(k) /\ Onward
    BY <2>2, <2>3, <2>6, LeftDrops
  <2>7. CASE \E x \in Sessions : Opened(x) /\ Onward
    BY <2>2, <2>3, <2>7, OpenedDrops
  <2>8. CASE \E k \in Keys : k[1] \in live /\ Draining /\ TextEnds(k) /\ Onward
    BY <2>1, <2>8, TextEndsFed
  <2>9. CASE \E x \in Sessions, i \in SegmentIds, p \in Priorities :
                /\ Len(overflow[x]) < MaxText
                /\ StartTokens(x, i, p, <<Len(overflow[x]) + 1>>)
                /\ Onward
    BY <2>2, <2>3, <2>9, StartedDrops
  <2>10. CASE \E x \in Sessions, i \in SegmentIds :
                 /\ Room(x, i) /\ ~segs[<<x, i>>].input_complete
                 /\ AppendTokens(x, i, <<NextToken(x, i)>>)
                 /\ Onward
    BY <2>1, <2>10, AppendFed
  <2>11. CASE \E s \in Slots, k \in Keys, frame \in Frames : DecodeFrame(s, k, frame) /\ Onward
    BY <2>1, <2>11, FrameFed
  <2>12. CASE \E k \in Keys, t \in Slots : Migrate(k, t) /\ Onward
    BY <2>1, <2>12, MigrateFed
  <2>13. CASE \E k \in Candidates, t \in Slots, frame \in Frames :
                 /\ phase \in {"admit", "prefill"}
                 /\ \E sl \in Prefilled(segs[k]) : Activate(k, t, sl, frame)
                 /\ Onward
    BY <2>1, <2>13, ActivateFed
  <2>14. CASE \E B \in SUBSET Runnable : Launch(B)
    BY <2>1, <2>14, LaunchFed
  <2>15. CASE DrainEnd
    BY <2>1, <2>15, DrainEndFed
  <2> QED
    BY <2>1, <2>4, <2>5, <2>6, <2>7, <2>8, <2>9, <2>10, <2>11, <2>12, <2>13, <2>14, <2>15
       DEF StepKinds
<1> QED BY <1>1, <1>2

-----------------------------------------------------------------------------
(* The last result of a session.                                           *)

LastTerminal(out) == \E n \in DOMAIN out : out[n].type \in Terminals /\ n = Len(out)

Exits == \A x \in live : (x \notin live') <=> LastTerminal(sent'[x])

\* The last result of a sequence is the one behind it.
LEMMA LastOf ==
    ASSUME NEW S, NEW out \in Seq(S), NEW r
    PROVE  /\ LastTerminal(Append(out, r)) <=> r.type \in Terminals
           /\ ~LastTerminal(<<>>)
           /\ LastTerminal(<<r>>) <=> r.type \in Terminals
<1>1. PICK T : T = S \cup {r}
  OBVIOUS
<1>2. out \in Seq(T) /\ r \in T
  BY SMTT(30), <1>1
<1>3. PICK n \in Nat : n = Len(out)
  BY LenProperties
<1>4. PICK more : more = Append(out, r)
  OBVIOUS
<1>5. Len(more) = n + 1 /\ more[n + 1] = r /\ more \in Seq(T)
  BY SMTT(30), <1>2, <1>3, <1>4, AppendProperties
<1>6. n + 1 \in DOMAIN more
  BY SMTT(30), <1>5, LenProperties
<1>7. LastTerminal(more) <=> r.type \in Terminals
  BY <1>5, <1>6 DEF LastTerminal
<1>8. ~LastTerminal(<<>>) /\ (LastTerminal(<<r>>) <=> r.type \in Terminals)
  BY SMTT(30) DEF LastTerminal
<1> QED BY <1>4, <1>7, <1>8

\* A step that says nothing and removes nobody.
LEMMA QuietExits ==
    ASSUME EngineTypeOK, sent' = Quiet, live \subseteq live'
    PROVE  Exits
<1>1. \A x \in live : sent'[x] = <<>> /\ x \in live'
  BY DEF EngineTypeOK, Quiet
<1>2. <<>> \in Seq({})
  BY SMTT(30)
<1>3. ~LastTerminal(<<>>)
  BY <1>2, LastOf
<1> QED BY <1>1, <1>3 DEF Exits

\* A step that speaks to one session.
LEMMA SayExits ==
    ASSUME EngineTypeOK, NEW y \in Sessions, NEW out, sent' = Say(y, out),
           live' = IF LastTerminal(out) THEN live \ {y} ELSE live
    PROVE  Exits
<1>1. <<>> \in Seq({})
  BY SMTT(30)
<1>2. ~LastTerminal(<<>>)
  BY <1>1, LastOf
<1>3. \A x \in live : sent'[x] = IF x = y THEN out ELSE <<>>
  BY DEF EngineTypeOK, Say, Quiet
<1> QED BY <1>2, <1>3 DEF Exits

\* The one result of a removal.
LEMMA OneResult ==
    ASSUME EngineTypeOK, NEW y \in Sessions, NEW r, r.type \in Terminals,
           sent' = Say(y, <<r>>), live' = live \ {y}
    PROVE  Exits
<1>1. <<>> \in Seq({})
  BY SMTT(30)
<1>2. LastTerminal(<<r>>)
  BY <1>1, LastOf
<1> QED BY <1>2, SayExits

\* The ends of a segment: the session is told SESSION_DONE exactly when it
\* goes with its last segment.
LEMMA LeavingExits ==
    ASSUME EngineTypeOK, NEW k \in Keys, NEW reason, NEW heard, NEW S, NEW before \in Seq(S)
    PROVE  /\ EndSegment(k, reason, before) => Exits
           /\ Retry(k, before) => Exits
           /\ RetryOrEnd(k, reason, before) => Exits
           /\ NaturalEos(k, heard, before) => Exits
<1>1. k[1] \in Sessions
  BY KeyParts
<1>2. ASSUME NEW why, EndSegment(k, why, before)
      PROVE  Exits
  <2>1. PICK end, done, out : /\ end = SegmentEnd(k[2], why)
                              /\ done = Result("SESSION_DONE", -1)
                              /\ out = Append(before, end)
    OBVIOUS
  <2>2. end.type \notin Terminals /\ done.type \in Terminals
    BY <2>1 DEF SegmentEnd, Result, Terminals
  <2>3. PICK T : T = S \cup {end}
    OBVIOUS
  <2>4. before \in Seq(T) /\ end \in T
    BY SMTT(30), <2>3
  <2>5. out \in Seq(T)
    BY <2>1, <2>4, AppendProperties
  <2>6. ~LastTerminal(out) /\ LastTerminal(Append(out, done))
    BY <2>1, <2>2, <2>4, <2>5, LastOf
  <2>7. \/ live' = live \ {k[1]} /\ sent' = Say(k[1], Append(out, done))
        \/ live' = live /\ sent' = Say(k[1], out)
    BY <1>2, <2>1 DEF EndSegment, RemoveSessions
  <2> QED BY <1>1, <2>6, <2>7, SayExits
<1>3. ASSUME Retry(k, before)
      PROVE  Exits
  <2>1. PICK r : r = Result("SEGMENT_RETRY", k[2])
    OBVIOUS
  <2>2. r.type \notin Terminals
    BY <2>1 DEF Result, Terminals
  <2>3. ~LastTerminal(Append(before, r))
    BY <2>2, LastOf
  <2>4. live' = live /\ sent' = Say(k[1], Append(before, r))
    BY <1>3, <2>1 DEF Retry
  <2> QED BY <1>1, <2>3, <2>4, SayExits
<1>4. RetryOrEnd(k, reason, before) => Exits
  BY <1>2, <1>3 DEF RetryOrEnd
<1>5. NaturalEos(k, heard, before) => Exits
  BY <1>2, <1>3 DEF NaturalEos, RetryOrEnd
<1> QED BY <1>2, <1>3, <1>4, <1>5

\* What a prefill or a frame sends is no terminal result.
LEMMA FrameResults ==
    ASSUME NEW k \in Keys, NEW frame \in Frames
    PROVE  /\ \E S : FrameOut(k, frame) \in Seq(S)
           /\ ~LastTerminal(FrameOut(k, frame))
           /\ \E S : <<Result("PREFILL_DONE", k[2])>> \o FrameOut(k, frame) \in Seq(S)
           /\ ~LastTerminal(<<Result("PREFILL_DONE", k[2])>> \o FrameOut(k, frame))
<1>1. PICK p, a : p = Result("PREFILL_DONE", k[2]) /\ a = Result("AUDIO_CHUNK", k[2])
  OBVIOUS
<1>2. p.type \notin Terminals /\ a.type \notin Terminals
  BY <1>1 DEF Result, Terminals
<1>3. PICK S : S = {p, a}
  OBVIOUS
<1>4. <<p>> \in Seq(S) /\ <<a>> \in Seq(S) /\ <<>> \in Seq(S) /\ a \in S
  BY SMTT(30), <1>3
<1>5. <<p>> \o <<a>> = Append(<<p>>, a) /\ <<p>> \o <<>> = <<p>>
  BY <1>4, AppendIsConcat, ConcatEmptySeq
<1>6. <<p>> \o <<a>> \in Seq(S) /\ <<p>> \o <<>> \in Seq(S)
  BY <1>4, ConcatProperties
<1>7. FrameOut(k, frame) = <<>> \/ FrameOut(k, frame) = <<a>>
  BY <1>1 DEF FrameOut
<1>8. ~LastTerminal(<<>>) /\ ~LastTerminal(<<a>>) /\ ~LastTerminal(<<p>>)
  BY <1>2, <1>4, LastOf
<1>9. ~LastTerminal(Append(<<p>>, a))
  BY <1>2, <1>4, LastOf
<1>10. ~LastTerminal(<<p>> \o <<a>>) /\ ~LastTerminal(<<p>> \o <<>>)
  BY <1>5, <1>8, <1>9
<1> QED BY <1>1, <1>4, <1>6, <1>7, <1>8, <1>10

\* The steps of the loop.
LEMMA LoopExits ==
    ASSUME EngineTypeOK, LoopStep
    PROVE  Exits
<1>0. <<>> \in Seq({})
  BY SMTT(30)
<1>1. ASSUME NEW s \in Slots, SkipRow(s)
      PROVE  Exits
  BY <1>1, QuietExits DEF SkipRow
<1>2. ASSUME NEW s \in Slots, EvictIdle(s)
      PROVE  Exits
  <2>1. seg_by_slot[s] \in Keys
    BY <1>2 DEF EvictIdle, EngineTypeOK
  <2>2. PICK y \in Sessions : y = seg_by_slot[s][1]
    BY <2>1, KeyParts
  <2>3. PICK r : r = Result("ERROR", seg_by_slot[s][2])
    OBVIOUS
  <2>4. r.type \in Terminals
    BY <2>3 DEF Result, Terminals
  <2>5. live' = live \ {y} /\ sent' = Say(y, <<r>>)
    BY <1>2, <2>2, <2>3 DEF EvictIdle, RemoveSessions
  <2> QED BY <2>4, <2>5, OneResult
<1>3. ASSUME NEW s \in Slots, NEW k \in Keys,
             DecodeEos(s, k) \/ DecodeInvalid(s, k) \/ DecodeSilence(s, k)
      PROVE  Exits
  BY <1>0, <1>3, LeavingExits DEF DecodeEos, DecodeInvalid, DecodeSilence
<1>4. ASSUME NEW s \in Slots, NEW k \in Keys, NEW frame \in Frames, DecodeFrame(s, k, frame)
      PROVE  Exits
  <2>1. k[1] \in Sessions /\ ~LastTerminal(FrameOut(k, frame))
    BY KeyParts, FrameResults
  <2>2. live' = live /\ sent' = Say(k[1], FrameOut(k, frame))
    BY <1>4 DEF DecodeFrame
  <2> QED BY <2>1, <2>2, SayExits
<1>5. ASSUME NEW s \in Slots, NEW k \in Keys, NEW frame \in Frames, DecodeLoop(s, k, frame)
      PROVE  Exits
  <2>1. PICK S : FrameOut(k, frame) \in Seq(S)
    BY FrameResults
  <2>2. PICK out, why : out = FrameOut(k, frame) /\ why = AbortReason(Heard(k, frame))
    OBVIOUS
  <2>3. Retry(k, <<>>) \/ EndSegment(k, why, out)
    BY <1>5, <2>2 DEF DecodeLoop
  <2>4. Retry(k, <<>>) => Exits
    BY <1>0, LeavingExits
  <2>5. EndSegment(k, why, out) => Exits
    BY <2>1, <2>2, LeavingExits
  <2> QED BY <2>3, <2>4, <2>5
<1>6. ASSUME NEW s \in Slots, NEW k \in Keys, Migrate(k, s)
      PROVE  Exits
  BY <1>6, QuietExits DEF Migrate
<1>7. ASSUME NEW s \in Slots, NEW k \in Keys, NEW sl, NEW frame \in Frames,
             Activate(k, s, sl, frame)
      PROVE  Exits
  <2>1. PICK out : out = <<Result("PREFILL_DONE", k[2])>> \o FrameOut(k, frame)
    OBVIOUS
  <2>2. k[1] \in Sessions /\ ~LastTerminal(out)
    BY <2>1, KeyParts, FrameResults
  <2>3. live' = live /\ sent' = Say(k[1], out)
    BY <1>7, <2>1 DEF Activate
  <2> QED BY <2>2, <2>3, SayExits
<1>8. ASSUME NEW s \in Slots, NEW k \in Keys,
             \/ AdmitHit(k, s) \/ AdmitPrefix(k, s)
             \/ \E frame \in Frames : AdmitFull(k, s, frame)
      PROVE  Exits
  BY <1>7, <1>8 DEF AdmitHit, AdmitPrefix, AdmitFull, Frames
<1>9. ASSUME NEW k \in Keys, PrefillInvalid(k)
      PROVE  Exits
  <2>1. PICK r : r = Result("PREFILL_DONE", k[2])
    OBVIOUS
  <2>2. RetryOrEnd(k, "discard", <<r>>)
    BY <1>9, <2>1 DEF PrefillInvalid
  <2>3. <<r>> \in Seq({r})
    BY SMTT(30)
  <2> QED BY <2>2, <2>3, LeavingExits
<1>10. ASSUME NEW k \in Keys, NEW frame \in Frames, PrefillEos(k, frame)
       PROVE  Exits
  <2>1. PICK out, heard : /\ out = <<Result("PREFILL_DONE", k[2])>> \o FrameOut(k, frame)
                          /\ heard = (frame = "audible")
    OBVIOUS
  <2>2. PICK S : out \in Seq(S)
    BY <2>1, FrameResults
  <2>3. NaturalEos(k, heard, out)
    BY <1>10, <2>1 DEF PrefillEos
  <2> QED BY <2>2, <2>3, LeavingExits
<1>11. ASSUME NEW k \in Keys, NEW runaway \in BOOLEAN, Overrun(k, runaway)
       PROVE  Exits
  <2>1. PICK why : why = AbortReason(segs[k].audible_frame_seen)
    OBVIOUS
  <2>2. RetryOrEnd(k, why, <<>>) \/ EndSegment(k, "kv_overflow", <<>>)
    BY <1>11, <2>1 DEF Overrun
  <2> QED BY <1>0, <2>2, LeavingExits
<1>12. ASSUME NEW K \in SUBSET Candidates, PrefillFails(K)
       PROVE  Exits
  <2>1. PICK X : X = {k[1] : k \in K}
    OBVIOUS
  <2>2. PICK r : r = Result("ERROR", -1)
    OBVIOUS
  <2>3. /\ live' = live \ X
        /\ sent' = [x \in Sessions |-> IF x \in X THEN <<r>> ELSE <<>>]
    BY <1>12, <2>1, <2>2 DEF PrefillFails, RemoveSessions
  <2>4. r.type \in Terminals
    BY <2>2 DEF Result, Terminals
  <2>5. LastTerminal(<<r>>) /\ ~LastTerminal(<<>>)
    BY <1>0, <2>4, LastOf
  <2>6. live \subseteq Sessions
    BY DEF EngineTypeOK
  <2> QED BY <2>3, <2>5, <2>6 DEF Exits
<1>13. ASSUME NEW x \in Sessions, TimeoutSession(x)
       PROVE  Exits
  <2>1. PICK r : r = Result("ERROR", -1)
    OBVIOUS
  <2>2. r.type \in Terminals
    BY <2>1 DEF Result, Terminals
  <2>3. live' = live \ {x} /\ sent' = Say(x, <<r>>)
    BY <1>13, <2>1 DEF TimeoutSession, RemoveSessions
  <2> QED BY <2>2, <2>3, OneResult
<1>14. ASSUME \/ \E B \in SUBSET Runnable : Launch(B)
              \/ ProcessDone \/ DrainEnd \/ AdmitEnd \/ PrefillEnd \/ HousekeepDone
       PROVE  Exits
  <2>1. sent' = Quiet /\ live' = live
    BY <1>14 DEF Launch, ProcessDone, DrainEnd, AdmitEnd, PrefillEnd, HousekeepDone, Move
  <2> QED BY <2>1, QuietExits
<1> QED
  BY SMTT(30), <1>1, <1>2, <1>3, <1>4, <1>5, <1>6, <1>8, <1>9, <1>10, <1>11, <1>12, <1>13, <1>14
     DEF LoopStep

\* The requests: a refused session was not there, a replaced one stays.
LEMMA RequestExits ==
    ASSUME EngineTypeOK, Request
    PROVE  Exits
<1>0. <<>> \in Seq({})
  BY SMTT(30)
<1>1. PICK x \in Sessions :
         \/ UnknownSession(x) \/ NewSession(x) \/ SessionTokensDone(x) \/ CancelSession(x)
         \/ \E i \in SegmentIds :
              \/ \E p \in Priorities : StartTokens(x, i, p, <<Len(overflow[x]) + 1>>)
              \/ AppendTokens(x, i, <<NextToken(x, i)>>)
              \/ SegmentTokensDone(x, i)
  BY DEF Request
<1>2. ASSUME NEW all, NEW f, CloseIfDone(x, all, f)
      PROVE  Exits
  <2>1. PICK r : r = Result("SESSION_DONE", -1)
    OBVIOUS
  <2>2. r.type \in Terminals
    BY <2>1 DEF Result, Terminals
  <2>3. \/ live' = live \ {x} /\ sent' = Say(x, <<r>>)
        \/ live' = live /\ sent' = Quiet
    BY <1>2, <2>1 DEF CloseIfDone, RemoveSessions
  <2> QED BY <2>2, <2>3, OneResult, QuietExits
<1>3. CASE UnknownSession(x)
  BY <1>3, QuietExits DEF UnknownSession
<1>4. CASE NewSession(x)
  <2>1. CASE x \notin live /\ Cardinality(live) >= MaxQueueSize
    <3>1. live' = live /\ sent' = Say(x, <<Result("ERROR", -1)>>)
      BY <1>4, <2>1 DEF NewSession
    <3>2. \A y \in live : sent'[y] = <<>>
      BY <2>1, <3>1 DEF Say, Quiet, EngineTypeOK
    <3>3. ~LastTerminal(<<>>)
      BY <1>0, LastOf
    <3> QED BY <3>1, <3>2, <3>3 DEF Exits
  <2>2. CASE ~(x \notin live /\ Cardinality(live) >= MaxQueueSize)
    <3>1. live' = live \cup {x} /\ sent' = Quiet
      BY <1>4, <2>2 DEF NewSession
    <3> QED BY <3>1, QuietExits
  <2> QED BY <2>1, <2>2
<1>5. CASE SessionTokensDone(x)
  BY <1>2, <1>5 DEF SessionTokensDone
<1>6. CASE CancelSession(x)
  <2>1. PICK r : r = Result("CANCELLED", -1)
    OBVIOUS
  <2>2. r.type \in Terminals
    BY <2>1 DEF Result, Terminals
  <2>3. live' = live \ {x} /\ sent' = Say(x, <<r>>)
    BY <1>6, <2>1 DEF CancelSession, RemoveSessions
  <2> QED BY <2>2, <2>3, OneResult
<1>7. ASSUME NEW i \in SegmentIds,
             \/ \E p \in Priorities : StartTokens(x, i, p, <<Len(overflow[x]) + 1>>)
             \/ AppendTokens(x, i, <<NextToken(x, i)>>)
      PROVE  Exits
  <2>1. sent' = Quiet /\ live' = live
    BY <1>7 DEF StartTokens, AppendTokens
  <2> QED BY <2>1, QuietExits
<1>8. ASSUME NEW i \in SegmentIds, SegmentTokensDone(x, i)
      PROVE  Exits
  <2>1. (\E f : CloseIfDone(x, input_complete_all[x], f)) \/ (sent' = Quiet /\ live' = live)
    BY <1>8 DEF SegmentTokensDone
  <2> QED BY <1>2, <2>1, QuietExits
<1> QED BY <1>1, <1>3, <1>4, <1>5, <1>6, <1>7, <1>8

-----------------------------------------------------------------------------
(* The theorems.                                                           *)

\* Every slot is free or owned by exactly one active segment of a live session,
\* and a session never holds more than max_slots_per_session of them.
THEOREM SlotsAreOwned == EngineSpec => []SlotsOwned
<1>1. EngineInv => SlotsOwned
  BY DEF EngineInv, Owned, CountInv, BatchInv, SlotsOwned
<1> QED BY <1>1, EngineSafe, PTL

\* A slot without an input for its next step waits for text of the client and
\* for nothing else: the launch never meets a slot it can neither run nor feed.
THEOREM WaitsForTextOnly == EngineSpec => []WaitsOnlyForText
<1>1. EngineInv => WaitsOnlyForText
  BY DEF EngineInv, ReadInv, Waits, WaitsOnlyForText, WaitingForText, Active
<1> QED BY <1>1, EngineSafe, PTL

\* In the tasks whose prompts hold no text of their own, a slot is fed every
\* token of its segment once, in order, and the end-of-text token behind the
\* last: the tokens a drain defers are fed when it ends.
THEOREM TextIsFedExactly == EngineSpec => [](task # "voice_design" => FedExactly)
<1>1. EngineInit => FedInv
  BY FedStarts
<1>2. EngineInv /\ EngineInv' /\ FedInv /\ [EngineNext]_engineVars => FedInv'
  BY FedSteps
<1>3. EngineInv /\ FedInv => (task # "voice_design" => FedExactly)
  BY DEF EngineInv, FedInv, Tells, FedExactly, Active
<1> QED BY <1>1, <1>2, <1>3, EngineSafe, PTL DEF EngineSpec

\* A session leaves the engine in exactly the step in which the last result it
\* is sent is SESSION_DONE, CANCELLED or ERROR.
THEOREM ExitIsTerminal == EngineSpec => ExitsWithTerminal
<1>1. EngineInv /\ [EngineNext]_engineVars =>
         [\A x \in live :
             (x \notin live') <=> (\E n \in DOMAIN sent'[x] :
                                       /\ sent'[x][n].type \in Terminals
                                       /\ n = Len(sent'[x]))]_engineVars
  <2> SUFFICES ASSUME EngineInv, EngineNext
               PROVE  \A x \in live :
                         (x \notin live') <=> (\E n \in DOMAIN sent'[x] :
                                                   /\ sent'[x][n].type \in Terminals
                                                   /\ n = Len(sent'[x]))
    OBVIOUS
  <2>1. Exits
    BY LoopExits, RequestExits DEF EngineInv, EngineNext
  <2> QED BY <2>1 DEF Exits, LastTerminal
<1> QED BY <1>1, EngineSafe, PTL DEF EngineSpec, ExitsWithTerminal

=============================================================================
