------------------------------ MODULE EngineLoop ------------------------------
(***************************************************************************)
(* The engine thread (backend/engine_loop.py) with the KV slot pool it     *)
(* allocates from (backend/kv_cache_pool.py).  One thread runs the loop:   *)
(* apply the previous step's output, drain a slice of the inbox, admit     *)
(* pending segments, launch one decode step over the active slots, and     *)
(* while the GPU computes drain the inbox again, evict idle slots and time *)
(* sessions out.  The variable phase is the place in that loop.            *)
(*                                                                         *)
(* The event-loop side is the environment: any request the dispatcher may  *)
(* send can be dequeued at any point of a drain.                           *)
(*                                                                         *)
(* Time is abstracted: an occupied slot may be found idle, and a session   *)
(* may be found too old, whenever housekeeping looks.  What the model      *)
(* computes is a choice among the outcomes the loop tells apart: a codec   *)
(* EOS, an audible, silent or missing frame, an invalid frame, a confirmed *)
(* token loop, a silent pad run.  past_len counts the decode steps of the  *)
(* current allocation.                                                     *)
(***************************************************************************)
EXTENDS Integers, Sequences, FiniteSets

CONSTANTS
    Sessions,            \* session ids
    SegmentIds,          \* segment indices, naturals in playback order
    Slots,               \* slot ids of the KV pool
    MaxBatch,            \* max_batch_size
    MaxSlotsPerSession,  \* max_slots_per_session
    MaxQueueSize,        \* max_queue_size: sessions admitted at once
    MaxRetries,          \* token_loop_max_retries
    MaxSeqLen,           \* decode steps a slot has room for
    Tasks,               \* task types, up to how they prefill
    TimeoutEnabled,      \* session_timeout_sec > 0
    Priorities,          \* values of Priority, the smallest first
    MaxText,             \* bound: tokens a segment or an overflow may hold
    NoSlot,              \* seg.slot is None
    NoSegment            \* no entry in _seg_by_slot

Keys == Sessions \X SegmentIds

\* Token ids are only compared, so the n-th token of a text is n.
Tokens == 1 .. MaxText

ASSUME EngineAssumption ==
    /\ SegmentIds \subseteq Nat
    /\ MaxBatch \in Nat \ {0}
    /\ MaxSlotsPerSession \in Nat \ {0}
    /\ MaxQueueSize \in Nat
    /\ MaxRetries \in Nat
    /\ MaxSeqLen \in Nat
    /\ Tasks \subseteq {"streaming", "voice_design", "voice_clone_icl"}
    /\ TimeoutEnabled \in BOOLEAN
    /\ Priorities \subseteq Nat
    /\ MaxText \in Nat
    /\ IsFiniteSet(Slots) /\ NoSlot \notin Slots
    /\ NoSegment \notin Keys

VARIABLES
    phase,               \* where _run_inner is
    live,                \* sessions with an EngineSessionGroup
    input_complete_all,  \* [Sessions -> BOOLEAN]
    overflow,            \* overflow_token_ids of each session
    segs,                \* [Keys -> EngineSegment]
    slots,               \* [Slots -> SlotKVState]
    free,                \* how often each slot is in the pool's free list
    seg_by_slot,         \* _seg_by_slot
    batch,               \* slots of the step in flight or not yet processed
    prefills,            \* serial prefills of this admission pass
    sent,                \* results each session was sent by the last step
    task                 \* the task type of the sessions

engineVars == <<phase, live, input_complete_all, overflow, segs, slots, free,
                seg_by_slot, batch, prefills, sent, task>>

Eos == 0                 \* tts_eos_embed
Pad == -1                \* tts_pad_embed

Terminals == {"SESSION_DONE", "CANCELLED", "ERROR"}

ResultTypes == {"PREFILL_DONE", "AUDIO_CHUNK", "SEGMENT_RETRY",
                "SEGMENT_END"} \cup Terminals

\* eos_reason of a SEGMENT_END, up to what the front end does with it: the
\* segment ended by itself, lost a condemned tail, or lost all its audio.
Result(type, i) == [type |-> type, segment_idx |-> i, eos_reason |-> ""]

SegmentEnd(i, reason) ==
    [type |-> "SEGMENT_END", segment_idx |-> i, eos_reason |-> reason]

Quiet == [x \in Sessions |-> <<>>]

Say(x, results) == [Quiet EXCEPT ![x] = results]

-----------------------------------------------------------------------------
(* Segments and slots *)

Absent ==
    [state |-> "absent", slot |-> NoSlot, priority |-> 0,
     input_complete |-> FALSE, pending_token_ids |-> <<>>,
     deferred_token_ids |-> <<>>, eos_trailing_added |-> FALSE,
     retry_idx |-> 0, audible_frame_seen |-> FALSE]

Pending(p, text) ==
    [Absent EXCEPT !.state = "pending_prefill", !.priority = p,
                   !.pending_token_ids = text]

\* head is the text the prefill has covered; launched says that the current
\* allocation has been in a decode batch.
FreeSlot ==
    [is_free |-> TRUE, past_len |-> 0, head |-> <<>>, trailing |-> <<>>,
     text_idx |-> 0, next_embed |-> FALSE, last_codec_sum |-> FALSE,
     launched |-> FALSE]

KeysOf(x) == {x} \X SegmentIds

SlotsOf(x) == {segs[k].slot : k \in KeysOf(x)} \ {NoSlot}

HasUnread(sl) == sl.text_idx < Len(sl.trailing)

\* active_slot_count
ActiveSlotCount(x) ==
    Cardinality({k \in KeysOf(x) :
                    /\ segs[k].state \in {"pending_prefill", "active"}
                    /\ segs[k].slot # NoSlot})

FreeCount == Cardinality({s \in Slots : free[s] > 0})

\* KVCachePool.release of every slot of S and its removal from _seg_by_slot.
\* A slot that is already free is left alone; the allocation epoch the callers
\* pass is read from the slot itself, so it never refuses the release.
Release(S) ==
    LET R == {s \in S : ~slots[s].is_free}
    IN  /\ slots' = [s \in Slots |-> IF s \in R THEN FreeSlot ELSE slots[s]]
        /\ free' = [s \in Slots |-> IF s \in R THEN free[s] + 1 ELSE free[s]]
        /\ seg_by_slot' = [s \in Slots |-> IF s \in S THEN NoSegment
                                                      ELSE seg_by_slot[s]]

SlotsKept == UNCHANGED <<slots, free, seg_by_slot>>

-----------------------------------------------------------------------------
(* Ending a session, ending or rerunning a segment *)

\* A removal that forgets the slots the session still holds.
RemoveSessionsOnly(X) ==
    /\ live' = live \ X
    /\ segs' = [k \in Keys |-> IF k[1] \in X THEN Absent ELSE segs[k]]
    /\ input_complete_all' = [x \in Sessions |-> x \notin X /\ input_complete_all[x]]
    /\ overflow' = [x \in Sessions |-> IF x \in X THEN <<>> ELSE overflow[x]]
    /\ SlotsKept

\* _remove_session, for each session of X: the group goes with its segments
\* and every slot they hold is released.
RemoveSessions(X) ==
    /\ live' = live \ X
    /\ segs' = [k \in Keys |-> IF k[1] \in X THEN Absent ELSE segs[k]]
    /\ input_complete_all' = [x \in Sessions |-> x \notin X /\ input_complete_all[x]]
    /\ overflow' = [x \in Sessions |-> IF x \in X THEN <<>> ELSE overflow[x]]
    /\ Release(UNION {SlotsOf(x) : x \in X})

\* _check_session_done: the session's text is complete (all), none of it
\* waits for a segment, and every segment of f is done.
SessionComplete(x, all, f) ==
    /\ all
    /\ overflow[x] = <<>>
    /\ \A k \in KeysOf(x) : f[k].state \in {"done", "absent"}

\* _handle_segment_eos: release the slot, report the end, and close the
\* session when this was its last open segment.  before is what the caller
\* has sent in the same step.
EndSegment(k, reason, before) ==
    LET x     == k[1]
        ended == [segs EXCEPT ![k].state = "done", ![k].slot = NoSlot]
        out   == Append(before, SegmentEnd(k[2], reason))
    IN  IF SessionComplete(x, input_complete_all[x], ended)
        THEN /\ RemoveSessions({x})
             /\ sent' = Say(x, Append(out, Result("SESSION_DONE", -1)))
        ELSE /\ segs' = ended
             /\ Release({segs[k].slot} \ {NoSlot})
             /\ sent' = Say(x, out)
             /\ UNCHANGED <<live, input_complete_all, overflow>>

\* The gate of _try_segment_retry: an attempt left, and an earlier segment of
\* the session that is not done, so that nothing of this one was played.
MayRetry(k) ==
    /\ segs[k].retry_idx < MaxRetries
    /\ \E j \in KeysOf(k[1]) :
          j[2] < k[2] /\ segs[j].state \notin {"done", "absent"}

\* The rest of _try_segment_retry: back to pending_prefill with the same text.
Retry(k, before) ==
    /\ segs' = [segs EXCEPT ![k].state = "pending_prefill",
                            ![k].slot = NoSlot,
                            ![k].eos_trailing_added = FALSE,
                            ![k].retry_idx = @ + 1,
                            ![k].audible_frame_seen = FALSE]
    /\ Release({segs[k].slot} \ {NoSlot})
    /\ sent' = Say(k[1], Append(before, Result("SEGMENT_RETRY", k[2])))
    /\ UNCHANGED <<live, input_complete_all, overflow>>

\* Every guard ends this way: rerun the segment if that is still allowed,
\* abort it otherwise.
RetryOrEnd(k, reason, before) ==
    IF MayRetry(k) THEN Retry(k, before) ELSE EndSegment(k, reason, before)

\* An abort drops the condemned tail, or everything when the attempt has
\* never been audible (discard_all_audio).
AbortReason(heard) == IF heard THEN "abort" ELSE "discard"

\* _handle_natural_eos: a codec EOS without one audible frame is a failure.
NaturalEos(k, heard, before) ==
    IF heard THEN EndSegment(k, "codec_eos", before)
             ELSE RetryOrEnd(k, "discard", before)

-----------------------------------------------------------------------------
(* Phase 1: apply the output of the step that has finished *)

InPad(k) == segs[k].input_complete /\ ~HasUnread(slots[segs[k].slot])

\* The slot after a step that did not sample EOS: the next text token is
\* added to the codec sum; without one the slot pauses, or runs on padding
\* once its text is complete.
Stepped(sl, complete) ==
    IF HasUnread(sl)
    THEN [sl EXCEPT !.past_len = @ + 1, !.text_idx = @ + 1,
                    !.next_embed = TRUE, !.last_codec_sum = FALSE]
    ELSE [sl EXCEPT !.past_len = @ + 1, !.next_embed = complete,
                    !.last_codec_sum = ~complete]

Frames == {"none", "silent", "audible"}

FrameOut(k, frame) ==
    IF frame = "none" THEN <<>> ELSE <<Result("AUDIO_CHUNK", k[2])>>

Heard(k, frame) == segs[k].audible_frame_seen \/ frame = "audible"

\* The row of slot s in the step's output is applied to segment k.
Row(s, k) ==
    /\ phase = "process"
    /\ s \in batch
    /\ seg_by_slot[s] = k
    /\ batch' = batch \ {s}
    /\ UNCHANGED <<phase, prefills>>

\* The slot was released while the step ran: its row is skipped.
SkipRow(s) ==
    /\ phase = "process"
    /\ s \in batch
    /\ seg_by_slot[s] = NoSegment
    /\ batch' = batch \ {s}
    /\ sent' = Quiet
    /\ SlotsKept
    /\ UNCHANGED <<phase, live, input_complete_all, overflow, segs, prefills>>

DecodeEos(s, k) ==
    /\ Row(s, k)
    /\ NaturalEos(k, segs[k].audible_frame_seen, <<>>)

DecodeFrame(s, k, frame) ==
    /\ Row(s, k)
    /\ slots' = [slots EXCEPT ![s] = Stepped(@, segs[k].input_complete)]
    /\ segs' = [segs EXCEPT ![k].audible_frame_seen = Heard(k, frame)]
    /\ sent' = Say(k[1], FrameOut(k, frame))
    /\ UNCHANGED <<live, input_complete_all, overflow, free, seg_by_slot>>

\* Non-finite PCM: the frame itself is never sent.
DecodeInvalid(s, k) ==
    /\ Row(s, k)
    /\ RetryOrEnd(k, AbortReason(segs[k].audible_frame_seen), <<>>)

\* A confirmed token loop: an abort sends the frame faded out, a rerun does not.
DecodeLoop(s, k, frame) ==
    /\ Row(s, k)
    /\ IF MayRetry(k)
       THEN Retry(k, <<>>)
       ELSE EndSegment(k, AbortReason(Heard(k, frame)), FrameOut(k, frame))

\* Too long a silence in the padding; once something was heard it is the
\* ordinary tail and is only cut.
DecodeSilence(s, k) ==
    /\ Row(s, k)
    /\ InPad(k)
    /\ IF segs[k].audible_frame_seen
       THEN EndSegment(k, "abort", <<>>)
       ELSE RetryOrEnd(k, "discard", <<>>)

\* _migrate_speech_state: between two steps an active segment moves to a spare
\* slot.  A failure releases the spare and changes nothing.
Migrate(k, t) ==
    LET s == segs[k].slot
    IN  /\ phase = "process"
        /\ batch = {}
        /\ segs[k].state = "active"
        /\ free[t] > 0
        /\ slots' = [slots EXCEPT ![t] = [slots[s] EXCEPT !.launched = FALSE],
                                  ![s] = FreeSlot]
        /\ free' = [free EXCEPT ![t] = @ - 1, ![s] = @ + 1]
        /\ seg_by_slot' = [seg_by_slot EXCEPT ![s] = NoSegment, ![t] = k]
        /\ segs' = [segs EXCEPT ![k].slot = t]
        /\ sent' = Quiet
        /\ UNCHANGED <<phase, live, input_complete_all, overflow, batch, prefills>>

Move(from, to) ==
    /\ phase = from
    /\ phase' = to
    /\ sent' = Quiet

ProcessDone ==
    /\ Move("process", "drain")
    /\ batch = {}
    /\ SlotsKept
    /\ UNCHANGED <<live, input_complete_all, overflow, segs, batch, prefills>>

-----------------------------------------------------------------------------
(* Phases 1.5 and 4: one request taken from the inbox *)

Draining == phase \in {"drain", "overlap"}

LoopKept == UNCHANGED <<phase, batch, prefills>>

\* A paused slot takes the text that has arrived.
Resume(sl) ==
    IF sl.last_codec_sum /\ ~sl.next_embed /\ HasUnread(sl)
    THEN [sl EXCEPT !.text_idx = @ + 1, !.next_embed = TRUE,
                    !.last_codec_sum = FALSE]
    ELSE sl

\* Text that does not wake the paused slot.
FedOnly(sl, toks) == [sl EXCEPT !.trailing = @ \o toks]

\* _append_trailing_tokens and _resume_streaming_segment_if_ready.
Fed(sl, toks) == Resume([sl EXCEPT !.trailing = @ \o toks])

\* A request of a session the engine does not know is dropped.
UnknownSession(x) ==
    /\ Draining
    /\ x \notin live
    /\ sent' = Quiet
    /\ SlotsKept
    /\ LoopKept
    /\ UNCHANGED <<live, input_complete_all, overflow, segs>>

\* Backpressure refuses a new session; a known id replaces the session, whose
\* result queue hears nothing more (the frontend cancels the session of an id
\* it still has first, so that queue has no reader any more).
NewSession(x) ==
    /\ Draining
    /\ LoopKept
    /\ IF x \notin live /\ Cardinality(live) >= MaxQueueSize
       THEN /\ sent' = Say(x, <<Result("ERROR", -1)>>)
            /\ SlotsKept
            /\ UNCHANGED <<live, input_complete_all, overflow, segs>>
       ELSE /\ live' = live \cup {x}
            /\ segs' = [k \in Keys |-> IF k[1] = x THEN Absent ELSE segs[k]]
            /\ input_complete_all' = [input_complete_all EXCEPT ![x] = FALSE]
            /\ overflow' = [overflow EXCEPT ![x] = <<>>]
            /\ Release(SlotsOf(x))
            /\ sent' = Quiet

\* The overflow of the session goes in front of the new segment's text; a
\* segment of the same index is replaced.
StartTokens(x, i, p, toks) ==
    /\ Draining
    /\ x \in live
    /\ segs' = [segs EXCEPT ![<<x, i>>] = Pending(p, overflow[x] \o toks)]
    /\ overflow' = [overflow EXCEPT ![x] = <<>>]
    /\ Release({segs[<<x, i>>].slot} \ {NoSlot})
    /\ sent' = Quiet
    /\ LoopKept
    /\ UNCHANGED <<live, input_complete_all>>

\* Tokens for a segment that is gone overflow; an active segment gets them
\* when the drain ends.
AppendTokens(x, i, toks) ==
    LET k == <<x, i>>
    IN  /\ Draining
        /\ x \in live
        /\ IF segs[k].state \in {"absent", "done"}
           THEN /\ overflow' = [overflow EXCEPT ![x] = @ \o toks]
                /\ UNCHANGED segs
           ELSE /\ segs' = [segs EXCEPT
                      ![k].pending_token_ids = @ \o toks,
                      ![k].deferred_token_ids =
                          IF segs[k].state = "active" THEN @ \o toks ELSE @]
                /\ UNCHANGED overflow
        /\ sent' = Quiet
        /\ SlotsKept
        /\ LoopKept
        /\ UNCHANGED <<live, input_complete_all>>

CloseIfDone(x, all, f) ==
    IF SessionComplete(x, all, f)
    THEN /\ RemoveSessions({x})
         /\ sent' = Say(x, <<Result("SESSION_DONE", -1)>>)
    ELSE /\ segs' = f
         /\ input_complete_all' = [input_complete_all EXCEPT ![x] = all]
         /\ SlotsKept
         /\ sent' = Quiet
         /\ UNCHANGED <<live, overflow>>

\* The end of the text overtakes the tokens that wait for the end of the drain.
LastWordsLate(seg) == IF seg.eos_trailing_added THEN <<>> ELSE <<Eos>>

\* What an active segment is fed when its text ends: the tokens that wait,
\* then the end-of-text token unless it has it.
LastWords(seg) ==
    IF seg.eos_trailing_added THEN seg.deferred_token_ids
                              ELSE Append(seg.deferred_token_ids, Eos)

\* A segment that is not prefilled gets the end-of-text token with its prefill.
SegmentTokensDone(x, i) ==
    LET k     == <<x, i>>
        seg   == segs[k]
        ended == IF seg.state = "absent" THEN segs
                 ELSE [segs EXCEPT
                         ![k].input_complete = TRUE,
                         ![k].deferred_token_ids = <<>>,
                         ![k].eos_trailing_added =
                             seg.state = "active" /\ ~seg.eos_trailing_added]
    IN  /\ Draining
        /\ x \in live
        /\ IF seg.state = "done"
           THEN CloseIfDone(x, input_complete_all[x], ended)
           ELSE /\ segs' = ended
                /\ slots' = IF seg.state = "active"
                            THEN [slots EXCEPT ![seg.slot] = Fed(@, LastWords(seg))]
                            ELSE slots
                /\ sent' = Quiet
                /\ UNCHANGED <<live, input_complete_all, overflow, free, seg_by_slot>>
        /\ LoopKept

SessionTokensDone(x) ==
    /\ Draining
    /\ x \in live
    /\ CloseIfDone(x, TRUE, segs)
    /\ LoopKept

\* A cancel that does not answer the session it removes.
CancelSilently(x) ==
    /\ Draining
    /\ x \in live
    /\ RemoveSessions({x})
    /\ sent' = Quiet
    /\ LoopKept

CancelSession(x) ==
    /\ Draining
    /\ x \in live
    /\ RemoveSessions({x})
    /\ sent' = Say(x, <<Result("CANCELLED", -1)>>)
    /\ LoopKept

\* _flush_deferred_appends, in the finally of _drain_inbox.
DrainEnd ==
    /\ Draining
    /\ Move(phase, IF phase = "drain" THEN "admit" ELSE "housekeep")
    /\ slots' = [s \in Slots |->
          LET k == seg_by_slot[s]
          IN  IF k = NoSegment \/ segs[k].deferred_token_ids = <<>> THEN slots[s]
              ELSE Fed(slots[s], segs[k].deferred_token_ids)]
    /\ segs' = [k \in Keys |-> [segs[k] EXCEPT !.deferred_token_ids = <<>>]]
    /\ UNCHANGED <<live, input_complete_all, overflow, free, seg_by_slot, batch,
                   prefills>>

-----------------------------------------------------------------------------
(* Phase 2: admit pending segments *)

\* A session without an extension policy is never held back from admission.
Candidates ==
    {k \in Keys : /\ segs[k].state = "pending_prefill"
                  /\ segs[k].pending_token_ids # <<>>
                  /\ ActiveSlotCount(k[1]) < MaxSlotsPerSession}

\* The candidates that come before k in the walk over the priorities.
Before(k) == {j \in Candidates : segs[j].priority < segs[k].priority}

Best(k) == k \in Candidates /\ Before(k) = {}

EosIf(complete) == IF complete THEN <<Eos>> ELSE <<>>

Allocated == [FreeSlot EXCEPT !.is_free = FALSE, !.next_embed = TRUE]

\* The prefix is in the KV cache and the first decode step takes the first
\* text token (_prime_decode_after_prefix_prefill).
Primed(seg) ==
    [Allocated EXCEPT
        !.head = <<Head(seg.pending_token_ids)>>,
        !.trailing = Tail(seg.pending_token_ids) \o EosIf(seg.input_complete)]

\* _attach_trailing_after_prefill
Attached(head, trailing) ==
    [Allocated EXCEPT !.head = head, !.trailing = trailing,
                      !.text_idx = IF trailing = <<>> THEN 0 ELSE 1]

\* What a prefill that includes the text may leave in the slot.  Voice design
\* closes the text it finds with the end-of-text token whether or not more
\* text will come; a cloned voice lays n text tokens over its reference frames.
FullyPrefilled(seg) ==
    LET text == seg.pending_token_ids \o EosIf(seg.input_complete)
    IN  IF task = "voice_design"
        THEN {Attached(Append(seg.pending_token_ids, Eos), <<Pad>>)}
        ELSE {Attached(SubSeq(text, 1, n), SubSeq(text, n + 1, Len(text))) :
                  n \in 1 .. Len(text) - 1}
             \cup {Attached(text, IF seg.input_complete THEN <<Pad>> ELSE <<>>)}

\* Segment k becomes active in slot t, whose state is sl.
Activate(k, t, sl, frame) ==
    /\ free[t] > 0
    /\ free' = [free EXCEPT ![t] = @ - 1]
    /\ slots' = [slots EXCEPT ![t] = sl]
    /\ seg_by_slot' = [seg_by_slot EXCEPT ![t] = k]
    /\ segs' = [segs EXCEPT ![k].state = "active",
                            ![k].slot = t,
                            ![k].eos_trailing_added = segs[k].input_complete,
                            ![k].audible_frame_seen = Heard(k, frame)]
    /\ sent' = Say(k[1], <<Result("PREFILL_DONE", k[2])>> \o FrameOut(k, frame))
    /\ UNCHANGED <<live, input_complete_all, overflow>>

\* The walk of _admit_cache_hit_batch: every candidate visited takes one unit
\* of the budget, also one that misses the cache and is left for the serial pass.
AdmitHit(k, t) ==
    /\ phase = "admit"
    /\ task # "voice_clone_icl"
    /\ k \in Candidates
    /\ Cardinality(Before(k)) < FreeCount
    /\ prefills + Cardinality(Before(k)) < MaxBatch
    /\ Activate(k, t, Primed(segs[k]), "none")
    /\ prefills' = prefills + 1
    /\ UNCHANGED <<phase, batch>>

AdmitEnd ==
    /\ Move("admit", "prefill")
    /\ prefills' = 0
    /\ SlotsKept
    /\ UNCHANGED <<live, input_complete_all, overflow, segs, batch>>

\* One round of _try_prefill_one.
Serial(k) ==
    /\ phase = "prefill"
    /\ prefills < MaxBatch
    /\ FreeCount > 0
    /\ Best(k)
    /\ prefills' = prefills + 1
    /\ UNCHANGED <<phase, batch>>

\* A prefix that is cached, or prefilled on its own.
AdmitPrefix(k, t) ==
    /\ Serial(k)
    /\ task # "voice_clone_icl"
    /\ Activate(k, t, Primed(segs[k]), "none")

\* A prefill of the text itself, which may already yield a frame.
AdmitFull(k, t, frame) ==
    /\ Serial(k)
    /\ task # "streaming"
    /\ \E sl \in FullyPrefilled(segs[k]) : Activate(k, t, sl, frame)

\* That frame is invalid: the slot is released as soon as it was taken.
PrefillInvalid(k) ==
    /\ Serial(k)
    /\ task # "streaming"
    /\ RetryOrEnd(k, "discard", <<Result("PREFILL_DONE", k[2])>>)

\* The prefill itself samples EOS.
PrefillEos(k, frame) ==
    /\ Serial(k)
    /\ task # "streaming"
    /\ NaturalEos(k, frame = "audible",
                  <<Result("PREFILL_DONE", k[2])>> \o FrameOut(k, frame))

\* A prefill raises, or its task type is invalid: the sessions of the segments
\* that had a slot but were not active are failed (_cleanup_failed_prefills),
\* and the pass ends.
PrefillFails(K) ==
    LET X == {k[1] : k \in K}
    IN  /\ \/ /\ phase = "admit"
              /\ Cardinality(K) <= FreeCount
              /\ prefills + Cardinality(K) <= MaxBatch
           \/ /\ phase = "prefill"
              /\ \E k \in K : K = {k} /\ Best(k)
              /\ FreeCount > 0
              /\ prefills < MaxBatch
        /\ K # {}
        /\ K \subseteq Candidates
        /\ phase' = "launch"
        /\ RemoveSessions(X)
        /\ sent' = [x \in Sessions |-> IF x \in X THEN <<Result("ERROR", -1)>>
                                                   ELSE <<>>]
        /\ prefills' = 0
        /\ UNCHANGED batch

PrefillEnd ==
    /\ Move("prefill", "launch")
    /\ prefills = MaxBatch \/ FreeCount = 0 \/ Candidates = {}
    /\ prefills' = 0
    /\ SlotsKept
    /\ UNCHANGED <<live, input_complete_all, overflow, segs, batch>>

-----------------------------------------------------------------------------
(* Phase 3: launch a decode step *)

Active == {k \in Keys : segs[k].state = "active"}

Full(k) == slots[segs[k].slot].past_len >= MaxSeqLen

\* A slot without room is ended before the launch: as a length runaway, or as
\* an ordinary overflow.
Overrun(k, runaway) ==
    /\ phase = "launch"
    /\ k \in Active
    /\ Full(k)
    /\ IF runaway
       THEN RetryOrEnd(k, AbortReason(segs[k].audible_frame_seen), <<>>)
       ELSE EndSegment(k, "kv_overflow", <<>>)
    /\ LoopKept

\* A slot without an input takes the next text token as it is.
Ready(sl) ==
    IF ~sl.next_embed /\ HasUnread(sl)
    THEN [sl EXCEPT !.next_embed = TRUE, !.text_idx = @ + 1]
    ELSE sl

Runnable == {k \in Active : Ready(slots[segs[k].slot]).next_embed}

\* _get_active_slots_mlfq and launch_decode_step: a batch as large as allowed;
\* which segments it holds is the business of the MLFQ scheduler.
Launch(B) ==
    LET S == {segs[k].slot : k \in B}
        A == {segs[k].slot : k \in Active}
    IN  /\ Move("launch", "overlap")
        /\ \A k \in Active : ~Full(k)
        /\ B \subseteq Runnable
        /\ \/ B = Runnable /\ Cardinality(B) <= MaxBatch
           \/ B # Runnable /\ Cardinality(B) = MaxBatch
        /\ batch' = S
        /\ slots' = [s \in Slots |->
              IF s \in A THEN [Ready(slots[s]) EXCEPT !.launched = @ \/ s \in S]
                         ELSE slots[s]]
        /\ UNCHANGED <<live, input_complete_all, overflow, segs, free,
                       seg_by_slot, prefills>>

-----------------------------------------------------------------------------
(* Phase 4: housekeeping while the step runs *)

\* _is_waiting_for_text
WaitingForText(k) ==
    LET sl == slots[segs[k].slot]
    IN  /\ segs[k].state = "active"
        /\ ~segs[k].input_complete
        /\ sl.last_codec_sum
        /\ ~sl.next_embed
        /\ ~HasUnread(sl)

\* A slot that has not stepped for max_idle_sec fails its session, unless it is
\* the upstream that is slow.
EvictIdle(s) ==
    /\ phase = "housekeep"
    /\ ~slots[s].is_free
    /\ seg_by_slot[s] # NoSegment
    /\ ~WaitingForText(seg_by_slot[s])
    /\ RemoveSessions({seg_by_slot[s][1]})
    /\ sent' = Say(seg_by_slot[s][1], <<Result("ERROR", seg_by_slot[s][2])>>)
    /\ LoopKept

TimeoutSession(x) ==
    /\ phase = "housekeep"
    /\ TimeoutEnabled
    /\ x \in live
    /\ RemoveSessions({x})
    /\ sent' = Say(x, <<Result("ERROR", -1)>>)
    /\ LoopKept

\* gpu_future.wait(): the step's output is there.
HousekeepDone ==
    /\ Move("housekeep", "process")
    /\ SlotsKept
    /\ UNCHANGED <<live, input_complete_all, overflow, segs, batch, prefills>>

-----------------------------------------------------------------------------
(* The loop, and the requests the dispatcher may send it *)

EngineInit ==
    /\ phase = "process"
    /\ live = {}
    /\ input_complete_all = [x \in Sessions |-> FALSE]
    /\ overflow = [x \in Sessions |-> <<>>]
    /\ segs = [k \in Keys |-> Absent]
    /\ slots = [s \in Slots |-> FreeSlot]
    /\ free = [s \in Slots |-> 1]
    /\ seg_by_slot = [s \in Slots |-> NoSegment]
    /\ batch = {}
    /\ prefills = 0
    /\ sent = Quiet
    /\ task \in Tasks

\* What the loop does by itself.
LoopStep ==
    \/ \E s \in Slots :
         \/ SkipRow(s)
         \/ EvictIdle(s)
         \/ \E k \in Keys :
              \/ DecodeEos(s, k)
              \/ \E frame \in Frames : DecodeFrame(s, k, frame)
              \/ DecodeInvalid(s, k)
              \/ \E frame \in Frames : DecodeLoop(s, k, frame)
              \/ DecodeSilence(s, k)
              \/ Migrate(k, s)
              \/ AdmitHit(k, s)
              \/ AdmitPrefix(k, s)
              \/ \E frame \in Frames : AdmitFull(k, s, frame)
    \/ \E k \in Keys :
         \/ PrefillInvalid(k)
         \/ \E frame \in Frames : PrefillEos(k, frame)
         \/ \E runaway \in BOOLEAN : Overrun(k, runaway)
    \/ \E K \in SUBSET Candidates : PrefillFails(K)
    \/ \E B \in SUBSET Runnable : Launch(B)
    \/ \E x \in Sessions : TimeoutSession(x)
    \/ ProcessDone
    \/ DrainEnd
    \/ AdmitEnd
    \/ PrefillEnd
    \/ HousekeepDone

Room(x, i) == Len(overflow[x]) + Len(segs[<<x, i>>].pending_token_ids) < MaxText

\* The token that goes behind the text of a segment, or behind the overflow.
NextToken(x, i) ==
    1 + IF segs[<<x, i>>].state \in {"absent", "done"}
        THEN Len(overflow[x]) ELSE Len(segs[<<x, i>>].pending_token_ids)

\* What the inbox may hold: any request of any session, except that the
\* dispatcher ends the text of a segment once and sends none after it.
Request ==
    \E x \in Sessions :
      \/ UnknownSession(x)
      \/ NewSession(x)
      \/ SessionTokensDone(x)
      \/ CancelSession(x)
      \/ \E i \in SegmentIds :
           \/ /\ Len(overflow[x]) < MaxText
              /\ \E p \in Priorities :
                    StartTokens(x, i, p, <<Len(overflow[x]) + 1>>)
           \/ /\ Room(x, i)
              /\ ~segs[<<x, i>>].input_complete
              /\ AppendTokens(x, i, <<NextToken(x, i)>>)
           \/ /\ ~segs[<<x, i>>].input_complete
              /\ SegmentTokensDone(x, i)

EngineNext == (LoopStep \/ Request) /\ UNCHANGED task

EngineSpec == EngineInit /\ [][EngineNext]_engineVars

-----------------------------------------------------------------------------
(* Properties *)

Segment ==
    [state : {"absent", "pending_prefill", "active", "done"},
     slot : Slots \cup {NoSlot}, priority : Nat, input_complete : BOOLEAN,
     pending_token_ids : Seq(Tokens), deferred_token_ids : Seq(Tokens),
     eos_trailing_added : BOOLEAN, retry_idx : 0 .. MaxRetries,
     audible_frame_seen : BOOLEAN]

SlotState ==
    [is_free : BOOLEAN, past_len : 0 .. MaxSeqLen,
     head : Seq(Tokens \cup {Eos, Pad}), trailing : Seq(Tokens \cup {Eos, Pad}),
     text_idx : Nat, next_embed : BOOLEAN, last_codec_sum : BOOLEAN,
     launched : BOOLEAN]

\* Every variable of the loop, the pool and the groups keeps its type; a
\* segment is retried at most MaxRetries times and never steps past the end
\* of its slot.
EngineTypeOK ==
    /\ phase \in {"process", "drain", "admit", "prefill", "launch", "overlap",
                  "housekeep"}
    /\ live \subseteq Sessions
    /\ input_complete_all \in [Sessions -> BOOLEAN]
    /\ overflow \in [Sessions -> Seq(Tokens)]
    /\ segs \in [Keys -> Segment]
    /\ slots \in [Slots -> SlotState]
    /\ free \in [Slots -> Nat]
    /\ seg_by_slot \in [Slots -> Keys \cup {NoSegment}]
    /\ batch \subseteq Slots
    /\ prefills \in Nat
    /\ task \in Tasks

\* A KV slot is in the free list once or belongs to exactly one active segment
\* of a live session: _seg_by_slot, seg.slot and is_free agree, nothing leaks
\* when a session is removed by any of the paths that remove it, and no slot is
\* handed out twice.  No session holds more of them than
\* max_slots_per_session, whichever of the two passes admits its segments.  And
\* a row of the step in flight is applied to the allocation it was computed for:
\* a slot released while the GPU runs (cancel, replacement, eviction, timeout)
\* is not allocated again before the output has been processed.
SlotsOwned ==
    /\ \A s \in Slots : /\ free[s] = IF slots[s].is_free THEN 1 ELSE 0
                        /\ slots[s].is_free <=> seg_by_slot[s] = NoSegment
    /\ \A s \in Slots, k \in Keys : seg_by_slot[s] = k <=> segs[k].slot = s
    /\ \A k \in Keys : /\ segs[k].slot = NoSlot <=> segs[k].state # "active"
                       /\ k[1] \notin live => segs[k] = Absent
    /\ \A x \in Sessions : ActiveSlotCount(x) <= MaxSlotsPerSession
    /\ \A s \in batch : slots[s].is_free \/ slots[s].launched

\* The tokens a slot is fed; padding only stands for the end of the text.
TextOf(sl) == IF sl.trailing = <<Pad>> THEN sl.head ELSE sl.head \o sl.trailing

\* Whatever the order of appends, end of text, prefill, retries and
\* migrations, an active segment's slot is fed exactly the segment's tokens in
\* order, then the end-of-text token once its text is complete.  (Every field has
\* its type, too.)
FedExactly ==
    /\ EngineTypeOK
    /\ \A k \in Keys :
        segs[k].state = "active" =>
            TextOf(slots[segs[k].slot]) \o segs[k].deferred_token_ids
                = segs[k].pending_token_ids \o EosIf(segs[k].input_complete)

\* No text follows the end-of-text token in what a slot is fed: text that
\* comes later finds the slot paused before it, not closed by it.
EosIsLast ==
    \A k \in Active :
        LET sl   == slots[segs[k].slot]
            text == sl.head \o sl.trailing
        IN  \A m, n \in DOMAIN text : m < n /\ text[m] = Eos => text[n] \notin Tokens

\* A segment that ends because its slot is full leaves the text it has not read
\* to the follow-up segment (overflow_token_ids), as _settle_hold in the front
\* end and the segmentation design say.
OverflowCarried ==
    [][\A k \in Active :
          LET sl     == slots[segs[k].slot]
              unread == SelectSeq(SubSeq(sl.trailing, sl.text_idx + 1, Len(sl.trailing)),
                                  LAMBDA t : t \in Tokens)
              full   == \E n \in DOMAIN sent'[k[1]] :
                           sent'[k[1]][n] = SegmentEnd(k[2], "kv_overflow")
          IN  full => overflow'[k[1]] = overflow[k[1]] \o unread]_engineVars

\* An active segment that has nothing to decode is one that waits for text
\* (_is_waiting_for_text): it cannot stall with unread text or after its text
\* ended, so idle eviction never hits it and the launch never has to feed a
\* token without its codec sum.
WaitsOnlyForText ==
    \A k \in Active : slots[segs[k].slot].next_embed \/ WaitingForText(k)

\* A session id leaves the engine exactly when its last result is a terminal one
\* (SESSION_DONE, cancelled or ERROR): no path removes it silently and none goes
\* on after the terminal result.  (An id that is started again stays: nobody is
\* told of the session it replaces.)
ExitsWithTerminal ==
    [][\A x \in live :
          (x \notin live') <=> (\E n \in DOMAIN sent'[x] :
                                    /\ sent'[x][n].type \in Terminals
                                    /\ n = Len(sent'[x]))]_engineVars

=============================================================================
