------------------------------- MODULE Playback -------------------------------
(***************************************************************************)
(* How the audio of a session's segments reaches the client in text order: *)
(* the result consumer (_consume_results in frontend/interface.py) with    *)
(* the reorder buffer (frontend/spliter/reorder.py), the guarded-delivery  *)
(* window (frontend/hold_window.py), its ticker and the stall watchdog.    *)
(*                                                                         *)
(* Segments are numbered in text order.  Coord gives them the coordinates  *)
(* of the splitter, whose chain is the property PlayheadChain of Spliter.  *)
(* The engine is abstract: it decodes the open segments in any order,      *)
(* reruns one under the gate of _try_segment_retry, and ends each with a   *)
(* verdict.  Its results reach the consumer in order.                      *)
(*                                                                         *)
(* The consumer suspends where it takes the hold lock and where it hands   *)
(* audio or an event over; what it still has to do is the sequence work.   *)
(* While it holds the lock nobody else delivers, so a locked section is    *)
(* one step.  The ticker keeps the lock while it sends chunk after chunk.  *)
(*                                                                         *)
(* Time is abstracted: the window may release any prefix of what it holds. *)
(* The semantic start gate and the prefix VAD, both optional, are left out.*)
(***************************************************************************)
EXTENDS Integers, Sequences, FiniteSets, SequencesExt

CONSTANTS
    NumSegments,    \* bound: segments of the session
    Groupings,      \* sets of segments that may end their group (group_final)
    MaxFrames,      \* bound: audio frames of one attempt
    MaxRetries,     \* token_loop_max_retries
    MaxConcurrent,  \* max_concurrent of the splitter
    Deliveries      \* delivery modes: "guarded", "firehose"

Segs == 1..NumSegments

ASSUME PlaybackAssumption ==
    /\ NumSegments \in Nat
    /\ Groupings \subseteq SUBSET Segs
    /\ MaxFrames \in Nat
    /\ MaxRetries \in Nat
    /\ MaxConcurrent \in Nat \ {0}
    /\ Deliveries \subseteq {"guarded", "firehose"}

VARIABLES
    delivery,       \* the session's output_policy.config.delivery
    final,          \* the segments that end their group
    opened,         \* segments opened so far
    closed,         \* segments reported to on_segment_done
    decode,         \* [Segs -> the engine's segment]
    engine,         \* "live", "cancelling" or "gone"
    results,        \* result_queue
    next,           \* the playhead (_next_group, _next_local)
    buffers,        \* [coordinates -> chunks]
    done,           \* _done
    final_local,    \* _final_locals: [groups -> local, or Unknown]
    hold,           \* chunks in the hold window
    verdicts,       \* hold_verdicts, by coordinate
    ends,           \* pending_segment_end_events: coordinates
    lock,           \* hold_lock
    sending,        \* chunks the ticker has taken and not yet sent
    work,           \* what the consumer still does for the current result
    watch,          \* the watchdog: "on", "warned" or "over"
    out             \* what was handed to the client

readerVars == <<next, buffers, done, final_local, hold, verdicts, ends>>

tickVars == <<lock, sending, watch>>

engineSide == <<opened, decode, engine>>

sessionVars == <<delivery, final>>

vars == <<sessionVars, engineSide, closed, results, readerVars, tickVars, work, out>>

Unknown == -1

Guarded == delivery = "guarded"

Coord(i) ==
    LET before == {j \in final : j < i}
    IN  <<Cardinality(before), i - 1 - (IF before = {} THEN 0 ELSE Max(before))>>

Coords == {Coord(i) : i \in Segs}

SegAt(c) == CHOOSE i \in Segs : Coord(i) = c

Chunk(i, att, n) == [kind |-> "audio", seg |-> i, att |-> att, n |-> n]

Event(kind, i) == [kind |-> kind, seg |-> i, att |-> 0, n |-> 0]

-----------------------------------------------------------------------------
(* The splitter and the engine *)

\* A new segment is opened when the splitter has a place for it.
Open ==
    /\ engine # "gone"
    /\ opened < NumSegments
    /\ opened - Cardinality(closed) < MaxConcurrent
    /\ opened' = opened + 1
    /\ decode' = [decode EXCEPT ![opened + 1].state = "run"]
    /\ UNCHANGED <<closed, engine, results, readerVars, tickVars, work, out>>

Emit(r) ==
    /\ results' = Append(results, r)
    /\ UNCHANGED <<closed, readerVars, tickVars, work, out>>

Running(i) == engine # "gone" /\ decode[i].state = "run"

\* AUDIO_CHUNK
Frame(i) ==
    /\ Running(i)
    /\ decode[i].n < MaxFrames
    /\ decode' = [decode EXCEPT ![i].n = @ + 1]
    /\ Emit(Chunk(i, decode[i].att, decode[i].n + 1))
    /\ UNCHANGED <<opened, engine>>

\* Mutant: a predecessor that has ended also allows a rerun.
MayRetryAfterEnd(i) ==
    /\ decode[i].att < MaxRetries
    /\ \E j \in Segs : j < i

\* The gate of _try_segment_retry.
MayRetry(i) ==
    /\ decode[i].att < MaxRetries
    /\ \E j \in Segs : j < i /\ decode[j].state = "run"

\* SEGMENT_RETRY
Retry(i) ==
    /\ Running(i)
    /\ MayRetry(i)
    /\ decode' = [decode EXCEPT ![i].att = @ + 1, ![i].n = 0]
    /\ Emit(Event("retry", i))
    /\ UNCHANGED <<opened, engine>>

\* The drop of a verdict that condemns the whole attempt (discard_all_audio).
All == NumSegments * MaxFrames

\* SEGMENT_END: the verdict drops nothing (codec_eos, kv_overflow), the
\* condemned tail, or all the audio that can still be dropped.  Firehose
\* delivery has no use for it.
End(i, drop) ==
    /\ Running(i)
    /\ IF Guarded THEN drop <= decode[i].n \/ drop = All ELSE drop = 0
    /\ decode' = [decode EXCEPT ![i].state = "done", ![i].drop = drop]
    /\ Emit([Event("end", i) EXCEPT !.n = drop])
    /\ UNCHANGED <<opened, engine>>

\* SESSION_DONE, after the end of the last segment; a cancel; an ERROR.
EngineDone(kind) ==
    /\ \/ /\ kind = "done"
          /\ engine # "gone"
          /\ opened = NumSegments
          /\ \A i \in Segs : decode[i].state = "done"
       \/ kind = "cancelled" /\ engine = "cancelling"
       \/ kind = "error" /\ engine # "gone"
    /\ engine' = "gone"
    /\ Emit(Event(kind, 0))
    /\ UNCHANGED <<opened, decode>>

-----------------------------------------------------------------------------
(* AudioReorder *)

Advance(c, f) ==
    IF f[c[1]] # Unknown /\ c[2] >= f[c[1]] THEN <<c[1] + 1, 0>>
                                            ELSE <<c[1], c[2] + 1>>

\* The playhead after n rounds of the loop of _try_drain_ex.
Playhead(d, f) ==
    LET at[n \in 0..NumSegments] ==
            IF n = 0 THEN next
            ELSE IF at[n - 1] \in d THEN Advance(at[n - 1], f) ELSE at[n - 1]
    IN  at

Buffered(c) == IF c \in Coords THEN buffers[c] ELSE <<>>

\* _try_drain_ex with done set d and final locals f.  What it touched, in
\* order, is passed and then the segment where the playhead has stopped.
Drained(d, f) ==
    LET at == Playhead(d, f)
        n  == Cardinality({m \in 0..(NumSegments - 1) : at[m] \in d})
    IN  [passed |-> [m \in 1..n |-> at[m - 1]], head |-> at[n]]

Drain(d, f) ==
    LET p == Drained(d, f)
    IN  /\ next' = p.head
        /\ done' = d \ Range(p.passed)
        /\ final_local' = [g \in DOMAIN f |->
              IF g < p.head[1] THEN Unknown ELSE f[g]]
        /\ buffers' = [c \in Coords |->
              IF c = p.head \/ c \in Range(p.passed) THEN <<>> ELSE buffers[c]]

\* check_stall may find this true for longer than the timeout.
Blocked ==
    \E c \in Coords : /\ buffers[c] # <<>>
                      /\ c[1] > next[1] \/ (c[1] = next[1] /\ c[2] > next[2])

-----------------------------------------------------------------------------
(* The consumer *)

Op(op, item) == [op |-> op, item |-> item]

\* _deliver: to the client, or into the window, which then releases what is due.
Deliver(c) ==
    IF Guarded THEN <<Op("push", c), Op("release", c)>> ELSE <<Op("send", c)>>

DeliverAll(chunks) == FlattenSeq([n \in DOMAIN chunks |-> Deliver(chunks[n])])

Has(kind) == \E n \in DOMAIN out : out[n].kind = kind

Terminals == {"done", "cancelled", "error"}

\* The consumer has left its loop and cancelled the ticker and the watchdog.
Stopped == work # <<>> /\ Head(work).op = "left"

\* The next result is taken from the queue.
Receive(kind) ==
    /\ work = <<>>
    /\ results # <<>>
    /\ Head(results).kind = kind
    /\ results' = Tail(results)
    /\ UNCHANGED <<engineSide, closed, tickVars, out>>

\* AudioReorder.push: the playhead's chunks pass straight through.
OnAudio ==
    LET c == Head(results)
        at == Coord(c.seg)
    IN  /\ Receive("audio")
        /\ IF at = next
           THEN /\ work' = DeliverAll(Append(buffers[at], c))
                /\ buffers' = [buffers EXCEPT ![at] = <<>>]
           ELSE /\ buffers' = [buffers EXCEPT ![at] = Append(@, c)]
                /\ UNCHANGED work
        /\ UNCHANGED <<next, done, final_local, hold, verdicts, ends>>

\* AudioReorder.discard of the attempt that is rerun.
OnRetry ==
    /\ Receive("retry")
    /\ buffers' = [buffers EXCEPT ![Coord(Head(results).seg)] = <<>>]
    /\ UNCHANGED <<next, done, final_local, hold, verdicts, ends, work>>

\* Mutant: the end is published when it arrives.
OnEndPublished ==
    LET r == Head(results)
        at == Coord(r.seg)
        now == Guarded /\ at = next
    IN  /\ Receive("end")
        /\ verdicts' = IF Guarded /\ ~now THEN [verdicts EXCEPT ![at] = r.n]
                                          ELSE verdicts
        /\ ends' = ends \cup {at}
        /\ work' = (IF now THEN <<Op("settle", r)>> ELSE <<>>)
                      \o <<Op("publish", Event("segment_end", r.seg)),
                           Op("mark", r), Op("closed", r)>>
        /\ UNCHANGED <<next, buffers, done, final_local, hold>>

\* The playhead's verdict is applied now; that of a later segment waits for
\* its audio.
OnEnd ==
    LET r == Head(results)
        at == Coord(r.seg)
        now == Guarded /\ at = next
    IN  /\ Receive("end")
        /\ verdicts' = IF Guarded /\ ~now THEN [verdicts EXCEPT ![at] = r.n]
                                          ELSE verdicts
        /\ ends' = ends \cup {at}
        /\ work' = (IF now THEN <<Op("settle", r)>> ELSE <<>>)
                      \o <<Op("mark", r), Op("closed", r)>>
        /\ UNCHANGED <<next, buffers, done, final_local, hold>>

OnTerminal ==
    /\ \E kind \in Terminals : Receive(kind)
    /\ work' = <<Op("finish", Head(results))>>
    /\ UNCHANGED readerVars

\* One step of the work at hand.
Do(op) ==
    /\ work # <<>>
    /\ Head(work).op = op
    /\ UNCHANGED <<engineSide, results, tickVars>>

Item == Head(work).item

Send ==
    /\ Do("send")
    /\ out' = Append(out, Item)
    /\ work' = Tail(work)
    /\ UNCHANGED <<closed, readerVars>>

Push ==
    /\ Do("push")
    /\ hold' = Append(hold, Item)
    /\ work' = Tail(work)
    /\ UNCHANGED <<closed, next, buffers, done, final_local, verdicts, ends, out>>

\* DeliveryHoldWindow.release_due may release n chunks; the first one of the
\* session is released at once.
MayRelease(n) == n \in 0..Len(hold) /\ (Has("audio") \/ hold = <<>> \/ n > 0)

Release(n) ==
    /\ Do("release")
    /\ lock = "free"
    /\ MayRelease(n)
    /\ out' = out \o SubSeq(hold, 1, n)
    /\ hold' = SubSeq(hold, n + 1, Len(hold))
    /\ work' = Tail(work)
    /\ UNCHANGED <<closed, next, buffers, done, final_local, verdicts, ends>>

\* Mutant: a condemned tail takes everything that is held with it.
SettleAll ==
    /\ Do("settle")
    /\ lock = "free"
    /\ out' = IF Item.n = 0 THEN out \o hold ELSE out
    /\ hold' = <<>>
    /\ work' = Tail(work)
    /\ UNCHANGED <<closed, next, buffers, done, final_local, verdicts, ends>>

\* _settle_hold: discard or discard_tail, then flush.
Settle ==
    /\ Do("settle")
    /\ lock = "free"
    /\ out' = out \o SubSeq(hold, 1, Len(hold) - Item.n)
    /\ hold' = <<>>
    /\ work' = Tail(work)
    /\ UNCHANGED <<closed, next, buffers, done, final_local, verdicts, ends>>

\* What the drain leaves to do for a segment it has passed: deliver its audio,
\* publish its end, and apply a verdict that has waited for this.
PassedWork(c) ==
    DeliverAll(buffers[c])
        \o <<Op("publish", Event("segment_end", SegAt(c)))>>
        \o (IF verdicts[c] = Unknown THEN <<>>
            ELSE <<Op("settle", [Event("end", SegAt(c)) EXCEPT !.n = verdicts[c]])>>)

\* mark_done_ex and the loop over what it returns.
Mark ==
    LET at == Coord(Item.seg)
        d == done \cup {at}
        f == IF Item.seg \in final THEN [final_local EXCEPT ![at[1]] = at[2]]
                                   ELSE final_local
        p == Drained(d, f)
    IN  /\ Do("mark")
        /\ Drain(d, f)
        /\ work' = FlattenSeq([n \in DOMAIN p.passed |-> PassedWork(p.passed[n])])
                      \o DeliverAll(Buffered(p.head)) \o Tail(work)
        /\ verdicts' = [c \in Coords |->
              IF c \in Range(p.passed) THEN Unknown ELSE verdicts[c]]
        /\ UNCHANGED <<closed, hold, ends, out>>

\* _publish_segment_end_event.  The frame count that _publish_ready_segment_end
\* compares holds an end back only while chunks of its segment are outstanding:
\* audio_steps leaves out the frame of the prefill, so that the frames received
\* reach it even when the last frame of an aborted segment was never sent.
Publish ==
    /\ Do("publish")
    /\ ends' = ends \ {Coord(Item.seg)}
    /\ out' = IF Coord(Item.seg) \in ends THEN Append(out, Item) ELSE out
    /\ work' = Tail(work)
    /\ UNCHANGED <<closed, next, buffers, done, final_local, hold, verdicts>>

\* on_segment_done
Closed ==
    /\ Do("closed")
    /\ closed' = closed \cup {Item.seg}
    /\ work' = Tail(work)
    /\ UNCHANGED <<readerVars, out>>

\* Mutant: an empty window needs no lock.
FinishUnlocked ==
    /\ Do("finish")
    /\ lock = "free" \/ hold = <<>>
    /\ out' = Append(out \o hold, Item)
    /\ hold' = <<>>
    /\ work' = <<Op("leave", Item)>>
    /\ UNCHANGED <<closed, next, buffers, done, final_local, verdicts, ends>>

\* SESSION_DONE and ERROR flush the window behind the lock and end the stream.
Finish ==
    /\ Do("finish")
    /\ lock = "free"
    /\ out' = Append(out \o hold, Item)
    /\ hold' = <<>>
    /\ work' = <<Op("leave", Item)>>
    /\ UNCHANGED <<closed, next, buffers, done, final_local, verdicts, ends>>

\* on_done has returned: the finally clause.
Leave ==
    /\ Do("leave")
    /\ work' = <<Op("left", Item)>>
    /\ UNCHANGED <<closed, readerVars, out>>

Consume ==
    \/ OnAudio \/ OnRetry \/ OnEnd \/ OnTerminal
    \/ Send \/ Push \/ Settle \/ Mark \/ Publish \/ Closed \/ Finish \/ Leave
    \/ \E n \in 0..Len(hold) : Release(n)

-----------------------------------------------------------------------------
(* The ticker and the watchdog *)

\* _hold_tick takes the chunks that are due.
Tick(n) ==
    /\ Guarded
    /\ ~Stopped
    /\ lock = "free"
    /\ n > 0
    /\ MayRelease(n)
    /\ lock' = "ticker"
    /\ sending' = SubSeq(hold, 1, n)
    /\ hold' = SubSeq(hold, n + 1, Len(hold))
    /\ UNCHANGED <<engineSide, closed, results, next, buffers, done,
                   final_local, verdicts, ends, watch, work, out>>

TickSend ==
    /\ lock = "ticker"
    /\ out' = Append(out, Head(sending))
    /\ sending' = Tail(sending)
    /\ lock' = IF Len(sending) = 1 THEN "free" ELSE "ticker"
    /\ UNCHANGED <<engineSide, closed, results, readerVars, watch, work>>

\* _reorder_watch: a warning, and when it is delivered a cancel request, even
\* if the playhead has moved on meanwhile.
Stall ==
    /\ ~Stopped
    /\ watch = "on"
    /\ Blocked
    /\ watch' = "warned"
    /\ out' = Append(out, Event("warning", 0))
    /\ UNCHANGED <<engineSide, closed, results, readerVars, lock, sending, work>>

StallCancels ==
    /\ ~Stopped
    /\ watch = "warned"
    /\ watch' = "over"
    /\ engine' = IF engine = "live" THEN "cancelling" ELSE engine
    /\ UNCHANGED <<opened, decode, closed, results, readerVars, lock, sending,
                   work, out>>

PlaybackInit ==
    /\ delivery \in Deliveries
    /\ final \in Groupings
    /\ opened = 0
    /\ closed = {}
    /\ decode = [i \in Segs |-> [state |-> "new", att |-> 0, n |-> 0, drop |-> 0]]
    /\ engine = "live"
    /\ results = <<>>
    /\ next = <<0, 0>>
    /\ buffers = [c \in Coords |-> <<>>]
    /\ done = {}
    /\ final_local = [g \in 0..NumSegments |-> Unknown]
    /\ hold = <<>>
    /\ verdicts = [c \in Coords |-> Unknown]
    /\ ends = {}
    /\ lock = "free"
    /\ sending = <<>>
    /\ watch = "on"
    /\ work = <<>>
    /\ out = <<>>

Decode ==
    \/ Open
    \/ \E i \in Segs :
         \/ Frame(i)
         \/ Retry(i)
         \/ \E drop \in 0..MaxFrames \cup {All} : End(i, drop)
    \/ \E kind \in Terminals : EngineDone(kind)

\* Only a consumer that has left has nothing to do.
Ended ==
    /\ Stopped
    /\ UNCHANGED <<engineSide, closed, results, readerVars, tickVars, work, out>>

PlaybackNext ==
    /\ \/ Decode
       \/ Consume
       \/ \E n \in 1..Len(hold) : Tick(n)
       \/ TickSend
       \/ Stall \/ StallCancels
       \/ Ended
    /\ UNCHANGED sessionVars

PlaybackSpec == PlaybackInit /\ [][PlaybackNext]_vars

-----------------------------------------------------------------------------
(* Properties *)

Positions(i) == {n \in DOMAIN out : out[n].kind = "audio" /\ out[n].seg = i}

Played(i) == [n \in 1..Cardinality(Positions(i)) |->
                 out[CHOOSE m \in Positions(i) :
                        Cardinality({k \in Positions(i) : k < m}) = n - 1]]

\* The client hears the segments in text order, and of each one a prefix of
\* the frames of one attempt: a rerun is inaudible although the first attempt
\* may have been decoded in part, and no chunk is lost, doubled or reordered
\* between the consumer and the ticker (AudioReorder, SEGMENT_RETRY, hold_lock).
AudioInOrder ==
    /\ \A i, j \in Segs : \A m \in Positions(i), n \in Positions(j) : i < j => m < n
    /\ \A i \in Segs : \A n \in DOMAIN Played(i) :
          Played(i)[n] = Chunk(i, Played(i)[1].att, n)

\* What a verdict lets through arrives: when the session is done, all audio of
\* a segment but the tail its own verdict condemned has been delivered, though
\* verdicts come out of order (hold_verdicts).  Without the window nothing can
\* be dropped.  When a verdict arrives the window holds audio of its segment
\* only, so that it never drops another one's.
NothingLost ==
    /\ Has("done") =>
          \A i \in Segs : Len(Played(i)) >= decode[i].n - decode[i].drop
    /\ work # <<>> /\ Head(work).op = "settle" =>
          \A n \in DOMAIN hold : hold[n].seg = Item.seg

\* A segment's end is published after all its audio
\* (_build_segment_end_events).
EndAfterAudio ==
    \A i \in Segs : \A m \in Positions(i), n \in DOMAIN out :
        out[n] = Event("segment_end", i) => m < n

\* A segment's end is published before the audio and the end of any later one,
\* so the text cursor the client follows never moves backwards
\* (_build_segment_end_events), and no end is missing when the session is done.
\* Without the window it also comes after the segment's own audio, that which
\* waited in the reorder buffer included.
EndsInOrder ==
    /\ \A n \in DOMAIN out : out[n].kind = "segment_end" =>
          \A m \in DOMAIN out : m < n => out[m].seg <= out[n].seg
    /\ Has("done") => \A i \in Segs :
          Cardinality({n \in DOMAIN out : out[n] = Event("segment_end", i)}) = 1
    /\ ~Guarded => EndAfterAudio

\* No audio and no segment's end follows the terminal event, not even audio
\* the ticker had taken out of the window before (the lock at SESSION_DONE),
\* and nothing stays behind.  The engine's last result ends the stream: once the
\* engine is gone the consumer has work left or has left itself, and never waits
\* for a result that cannot come (SESSION_DONE and ERROR break the loop).
DoneIsLast ==
    /\ \A n \in DOMAIN out : out[n].kind \in Terminals =>
          /\ \A m \in DOMAIN out : m > n => out[m].kind = "warning"
          /\ hold = <<>> /\ sending = <<>>
    /\ engine = "gone" => results # <<>> \/ work # <<>>
=============================================================================
