-------------------------------- MODULE Spliter --------------------------------
(***************************************************************************)
(* The text splitter of one session (frontend/spliter/spliter.py) with the *)
(* drivers it creates (driver.py) and the dispatcher's decision that all   *)
(* text has been handed over (frontend/dispatcher.py).                     *)
(*                                                                         *)
(* Text is the sequence of tokens 1, 2, 3, ...; level gives each token its *)
(* punctuation level.  Packets of tokens wait in pending until a driver    *)
(* takes them; a driver is one segment of the session.  A packet that does *)
(* not fit is planned: cut into groups with foresight, each with the       *)
(* capacity it was cut for.  The engine reports the end of a segment, and  *)
(* may report that the capacity was too optimistic.                        *)
(*                                                                         *)
(* Every public operation ends with _drive_events.  It runs without an     *)
(* await, so while driving is set only its own steps are taken.            *)
(***************************************************************************)
EXTENDS Integers, Sequences, FiniteSets, SequencesExt

CONSTANTS
    NumTokens,      \* bound: tokens of the session's text
    MaxPacket,      \* bound: tokens of one packet
    Levels,         \* punctuation levels that occur, 0 for none
    MaxCapacity,    \* force_split_at under the initial safety ratio
    CapTenths,      \* [1..3 -> 1..10]: l1, l2 and l3_split_cap_ratio
    MaxConcurrent,  \* max_concurrent
    Modes,          \* input modes that occur
    Marked          \* bound: tokens where a text commit may force a boundary

ASSUME SpliterAssumption ==
    /\ NumTokens \in Nat
    /\ MaxPacket \in Nat
    /\ Levels \subseteq 0..3
    /\ MaxCapacity \in Nat \ {0}
    /\ CapTenths \in [1..3 -> 1..10]
    /\ CapTenths[1] <= CapTenths[2] /\ CapTenths[2] <= CapTenths[3]
    /\ MaxConcurrent \in Nat \ {0}
    /\ Modes \subseteq {"auto", "token", "long", "full"}
    /\ Marked \subseteq 1..NumTokens

VARIABLES
    level,          \* the text received: a punctuation level for each token
    mode,           \* the session's input_mode
    pending,        \* _pending
    capacity,       \* force_split_at under the live safety ratio
    next_key,       \* _next_group_key
    next_group,     \* _next_output_group_idx
    exposed,        \* _group_output_idx and _group_next_local by group key
    drivers,        \* every segment opened so far, in order
    complete,       \* the session's input is complete
    driving,        \* inside _drive_events
    tokens_done     \* engine_tokens_done_sent

spliterVars == <<level, mode, pending, capacity, next_key, next_group, exposed,
                 drivers, complete, driving, tokens_done>>

NoKey == -1         \* group_key of a streaming token

-----------------------------------------------------------------------------
(* Capacity planning *)

\* compute_thresholds: ceil(cap * ratio).
MinTokens(cap, l) == (cap * CapTenths[l] + 9) \div 10

LevelIn(text, lo, hi, l) == {t \in lo..hi : text[t] = l}

\* Where pre_split ends the group that starts with token lo of lo..hi: when
\* the text fills the capacity, at the latest boundary of the strongest kind.
GroupEnd(text, lo, hi, cap) ==
    LET full == lo + cap - 1
        at == {l \in 1..3 : LevelIn(text, lo, full, l) # {}}
    IN  IF full > hi THEN hi
        ELSE IF at = {} THEN full
        ELSE Max(LevelIn(text, lo, full, Min(at)))

\* pre_split: the last tokens of the groups of lo..hi.
PreSplit(text, lo, hi, cap) ==
    LET ends[t \in lo..(hi + 1)] ==
            IF t > hi THEN {}
            ELSE LET e == GroupEnd(text, t, hi, cap) IN {e} \cup ends[e + 1]
    IN  ends[lo]

\* Tokens lo..hi as _PendingToken of a stream.
Stream(lo, hi, forced, before) ==
    [n \in 1..(hi - lo + 1) |->
        LET t == lo + n - 1
        IN  [tok |-> t, key |-> NoKey, boundary |-> t \in forced,
             before |-> t \in before, forced |-> t \in forced,
             packet |-> 0, cap |-> 0]]

\* _build_planned_pending: the tokens of text from lo on as groups with keys
\* from key on.  The plan object is the packet, known by its first token, with
\* its capacity.
Planned(text, lo, cap, key, forced, before) ==
    LET ends == PreSplit(text, lo, Len(text), cap)
    IN  [n \in 1..(Len(text) - lo + 1) |->
            LET t == lo + n - 1
            IN  [tok |-> t,
                 key |-> key + Cardinality({e \in ends : e < t}),
                 boundary |-> t \in ends \/ t \in forced,
                 before |-> t \in before, forced |-> t \in forced,
                 packet |-> lo, cap |-> cap]]

Groups(text, lo, cap) == Cardinality(PreSplit(text, lo, Len(text), cap))

-----------------------------------------------------------------------------
(* Drivers *)

OpenDrivers == {i \in DOMAIN drivers : drivers[i].state # "done"}

ActiveDrivers == {i \in DOMAIN drivers : drivers[i].state = "active"}

\* _get_active_driver_idx
Active == Max(ActiveDrivers)

\* Mutant: no obey mode, the driver cuts a planned group at its punctuation.
SplitAtPunctuation(d, l) == MinTokens(d.cap, l)

\* A planned group keeps to its plan: its driver splits at capacity only.
SplitAt(d, l) == IF d.key = NoKey THEN MinTokens(d.cap, l) ELSE d.cap

\* Does token t flush driver d?  The same test for the first token (PREFILL)
\* and the later ones (DECODE).
Splits(d, t) ==
    LET n == Len(d.text) + 1
    IN  n >= d.cap \/ (level[t] > 0 /\ n >= SplitAt(d, level[t]))

-----------------------------------------------------------------------------
(* _drive_events *)

\* _open_segment
Open ==
    LET h == Head(pending)
        old == h.key \in DOMAIN exposed
        place == IF old THEN exposed[h.key] ELSE [group |-> next_group, local |-> 0]
    IN  /\ driving
        /\ ActiveDrivers = {}
        /\ pending # <<>>
        /\ Cardinality(OpenDrivers) < MaxConcurrent
        /\ drivers' = Append(drivers,
              [state |-> "active", key |-> h.key, group |-> place.group,
               local |-> place.local, final |-> h.key = NoKey, text |-> <<>>,
               cap |-> IF h.key = NoKey THEN capacity ELSE h.cap])
        /\ next_group' = IF old THEN next_group ELSE next_group + 1
        /\ exposed' = IF h.key = NoKey THEN exposed
                      ELSE h.key :> place @@ exposed
        /\ UNCHANGED <<level, mode, pending, capacity, next_key, complete,
                       driving, tokens_done>>

\* _finalize_segment of driver i, with its text: its group goes on in the next
\* segment unless it is exhausted.
Finalize(i, text, exhausted) ==
    LET d == drivers[i]
    IN  /\ drivers' = [drivers EXCEPT
              ![i] = [d EXCEPT !.state = "flushing", !.text = text,
                               !.final = d.key = NoKey \/ exhausted]]
        /\ exposed' =
              IF d.key = NoKey THEN exposed
              ELSE IF exhausted
                   THEN [k \in DOMAIN exposed \ {d.key} |-> exposed[k]]
                   ELSE [exposed EXCEPT ![d.key].local = d.local + 1]

\* The head of the queue begins another group or another segment.
BreaksBefore(d, h) == h.key # d.key \/ (h.before /\ d.text # <<>>)

\* The active driver takes one token, which may flush it.
Take ==
    LET i == Active
        h == Head(pending)
        text == Append(drivers[i].text, h.tok)
    IN  /\ driving
        /\ ActiveDrivers # {}
        /\ pending # <<>>
        /\ ~BreaksBefore(drivers[i], h)
        /\ pending' = Tail(pending)
        /\ IF Splits(drivers[i], h.tok) \/ h.boundary
           THEN Finalize(i, text, h.boundary)
           ELSE /\ drivers' = [drivers EXCEPT ![i].text = text]
                /\ UNCHANGED exposed
        /\ UNCHANGED <<level, mode, capacity, next_key, next_group, complete,
                       driving, tokens_done>>

\* END: a boundary before the next token, the handoff to another group, or the
\* end of the input.
Close ==
    /\ driving
    /\ ActiveDrivers # {}
    /\ IF pending = <<>> THEN complete /\ mode # "long"
                         ELSE BreaksBefore(drivers[Active], Head(pending))
    /\ Finalize(Active, drivers[Active].text, TRUE)
    /\ UNCHANGED <<level, mode, pending, capacity, next_key, next_group,
                   complete, driving, tokens_done>>

\* Mutant: the text that waits for a free segment is forgotten.
DispatchedDrivers == ActiveDrivers = {}

\* _spliter_has_dispatched_all_input
DispatchedAll == pending = <<>> /\ ActiveDrivers = {}

\* No progress is possible.  After the end of a segment or of the input the
\* caller then tells the engine, once, that no more text will come.
DriveEnd ==
    /\ driving
    /\ IF ActiveDrivers = {}
       THEN pending = <<>> \/ Cardinality(OpenDrivers) >= MaxConcurrent
       ELSE pending = <<>> /\ ~(complete /\ mode # "long")
    /\ driving' = FALSE
    /\ tokens_done' = (tokens_done \/ (complete /\ DispatchedAll))
    /\ UNCHANGED <<level, mode, pending, capacity, next_key, next_group,
                   exposed, drivers, complete>>

Drive == Open \/ Take \/ Close \/ DriveEnd

-----------------------------------------------------------------------------
(* The public operations *)

Room == IF ActiveDrivers = {} THEN capacity
        ELSE drivers[Active].cap - Len(drivers[Active].text)

\* feed_tokens, push_group_tokens and feed_auto: queue the tokens of a packet,
\* given by their levels, with the boundaries forced after and before them.
Feed(packet, forced, before) ==
    LET lo == Len(level) + 1
        hi == Len(level) + Len(packet)
        plan == mode = "long" \/ (mode = "auto" /\ Len(packet) > Room)
    IN  /\ ~driving
        /\ ~complete
        /\ mode # "full"
        /\ hi <= NumTokens
        /\ level' = level \o packet
        /\ pending' = pending \o
              (IF plan THEN Planned(level', lo, capacity, next_key, forced, before)
                       ELSE Stream(lo, hi, forced, before))
        /\ next_key' = IF plan THEN next_key + Groups(level', lo, capacity)
                               ELSE next_key
        /\ driving' = TRUE
        /\ UNCHANGED <<mode, capacity, next_group, exposed, drivers, complete,
                       tokens_done>>

\* set_full_text: the whole text at once.
SetFullText(packet, forced, before) ==
    /\ ~driving
    /\ ~complete
    /\ mode = "full"
    /\ level' = packet
    /\ pending' = Planned(packet, 1, capacity, 0, forced, before)
    /\ next_key' = Groups(packet, 1, capacity)
    /\ complete' = TRUE
    /\ driving' = TRUE
    /\ UNCHANGED <<mode, capacity, next_group, exposed, drivers, tokens_done>>

\* _mark_input_complete_locked with input_done.
InputDone ==
    /\ ~driving
    /\ ~complete
    /\ mode # "full"
    /\ complete' = TRUE
    /\ driving' = TRUE
    /\ UNCHANGED <<level, mode, pending, capacity, next_key, next_group,
                   exposed, drivers, tokens_done>>

\* Mutant: the end of a segment does not drive the text that waits for it.
SegmentDoneQuietly(i) ==
    /\ ~driving
    /\ i \in OpenDrivers
    /\ drivers' = [drivers EXCEPT ![i].state = "done"]
    /\ UNCHANGED <<level, mode, pending, capacity, next_key, next_group,
                   exposed, complete, driving, tokens_done>>

\* on_segment_done: the engine may end a segment before its text has ended.
SegmentDone(i) ==
    /\ ~driving
    /\ i \in OpenDrivers
    /\ drivers' = [drivers EXCEPT ![i].state = "done"]
    /\ driving' = TRUE
    /\ UNCHANGED <<level, mode, pending, capacity, next_key, next_group,
                   exposed, complete, tokens_done>>

\* Mutant: the queue is rebuilt from the planned tokens only.
ReplannedOnly(c) ==
    LET planned == SelectSeq(pending, LAMBDA p : p.key # NoKey)
    IN  [queue |-> [n \in DOMAIN planned |-> [planned[n] EXCEPT !.cap = c]],
         next |-> next_key]

\* _tighten_pending_presplit_plans under the new capacity c: the waiting
\* tokens of a packet that was cut for a larger capacity are cut again, all
\* of them together; the other groups are only renumbered.
Replanned(c) ==
    LET planned == {n \in DOMAIN pending : pending[n].key # NoKey}
        first == Min({pending[n].key : n \in planned})
        Tight(n) == pending[n].cap > c
        Packet(n) == {pending[m].tok : m \in {m \in planned :
                                       pending[m].packet = pending[n].packet}}
        EndsGroup(n) ==
            IF Tight(n)
            THEN pending[n].tok \in PreSplit(level, Min(Packet(n)), Max(Packet(n)), c)
            ELSE pending[n].boundary
        ends == {n \in planned : EndsGroup(n)}
    IN  [queue |-> [n \in DOMAIN pending |->
            IF n \notin planned THEN pending[n]
            ELSE [pending[n] EXCEPT
                     !.key = first + Cardinality({m \in ends : m < n}),
                     !.boundary = n \in ends \/ pending[n].forced,
                     !.cap = IF Tight(n) THEN c ELSE @]],
         next |-> first + Cardinality(ends)]

\* An exposed group whose continuation still waits must not be renumbered.
Protected == {k \in DOMAIN exposed : exposed[k].local > 0}

\* observe_segment or set_duration_ratio raised the safety ratio.
Tighten(c) ==
    LET keys == {pending[n].key : n \in DOMAIN pending} \ {NoKey}
    IN  /\ ~driving
        /\ c < capacity
        /\ capacity' = c
        /\ IF /\ \E n \in DOMAIN pending : pending[n].cap > c
              /\ keys \cap Protected = {}
           THEN /\ pending' = Replanned(c).queue
                /\ next_key' = Max({next_key, Replanned(c).next})
           ELSE UNCHANGED <<pending, next_key>>
        /\ UNCHANGED <<level, mode, next_group, exposed, drivers, complete,
                       driving, tokens_done>>

SpliterInit ==
    /\ level = <<>>
    /\ mode \in Modes
    /\ pending = <<>>
    /\ capacity = MaxCapacity
    /\ next_key = 0
    /\ next_group = 0
    /\ exposed = <<>>
    /\ drivers = <<>>
    /\ complete = FALSE
    /\ driving = FALSE
    /\ tokens_done = FALSE

\* The boundaries the text commits force in a packet lo..hi: after a token or
\* before one.
Marks(lo, hi) ==
    LET one == {{t} : t \in (lo..hi) \cap Marked}
    IN  ({{}} \X {{}}) \cup (one \X {{}}) \cup ({{}} \X one)

Packets(n) == UNION {[1..k -> Levels] : k \in 1..n}

Input ==
    \/ \E p \in Packets(MaxPacket) :
         \E m \in Marks(Len(level) + 1, Len(level) + Len(p)) : Feed(p, m[1], m[2])
    \/ \E p \in Packets(NumTokens) :
         \E m \in Marks(1, Len(p)) : SetFullText(p, m[1], m[2])
    \/ InputDone

SpliterNext ==
    \/ Drive
    \/ Input
    \/ \E i \in DOMAIN drivers : SegmentDone(i)
    \/ \E c \in 1..MaxCapacity : Tighten(c)

\* The drive is a synchronous loop, and the engine ends every segment whose
\* text has ended.
SpliterFairness ==
    /\ WF_spliterVars(Drive)
    /\ \A i \in 1..NumTokens :
          WF_spliterVars(i \in DOMAIN drivers /\ drivers[i].state = "flushing"
                            /\ SegmentDone(i))

SpliterSpec == SpliterInit /\ [][SpliterNext]_spliterVars /\ SpliterFairness

-----------------------------------------------------------------------------
(* Properties *)

\* The splitter's fields keep their types and it never has more open segments
\* than max_concurrent (_open_segment).
SpliterTypeOK ==
    /\ level \in Seq(Levels) /\ Len(level) <= NumTokens
    /\ mode \in Modes
    /\ pending \in Seq([tok : 1..NumTokens, key : Nat \cup {NoKey},
                        boundary : BOOLEAN, before : BOOLEAN,
                        forced : BOOLEAN, packet : Nat, cap : Nat])
    /\ capacity \in 1..MaxCapacity
    /\ next_key \in Nat
    /\ next_group \in Nat
    /\ \A k \in DOMAIN exposed : exposed[k] \in [group : Nat, local : Nat]
    /\ drivers \in Seq([state : {"active", "flushing", "done"},
                        key : Nat \cup {NoKey}, group : Nat, local : Nat,
                        final : BOOLEAN, text : Seq(1..NumTokens),
                        cap : 1..MaxCapacity])
    /\ Cardinality(OpenDrivers) <= MaxConcurrent
    /\ {complete, driving, tokens_done} \subseteq BOOLEAN

\* Nothing is lost, doubled or reordered on the way to the engine: the texts
\* of the segments in the order they were opened, then what still waits, are
\* the text received, also after a replan or an early end of a segment.  (Every
\* field has its type, too, and no more than max_concurrent segments are open.)
TextInOrder ==
    /\ SpliterTypeOK
    /\ FlattenSeq([i \in DOMAIN drivers |-> drivers[i].text])
          \o [n \in DOMAIN pending |-> pending[n].tok]
       = [t \in DOMAIN level |-> t]

\* Stage 2 never cuts what Stage 1 planned: a planned group is one segment, or
\* is divided only where a forced boundary asks for it, and it is never longer
\* than the capacity it was planned for (_open_segment, obey mode).  A tightened
\* safety ratio reaches all text that has not been opened.  So the coordinates
\* handed to the audio reorder buffer are a chain its playhead walks without a
\* gap: behind a group's last segment comes the next group.
PlanObeyed ==
    /\ \A i \in DOMAIN drivers : /\ drivers[i].local = 0
                                 /\ Len(drivers[i].text) <= drivers[i].cap
    /\ \A n \in DOMAIN pending : pending[n].cap <= capacity
    /\ \A i \in DOMAIN drivers :
          LET d == drivers[i]
              at == <<d.group, d.local>>
              prev == drivers[i - 1]
          IN  IF i = 1 THEN at = <<0, 0>>
              ELSE at = IF prev.final THEN <<prev.group + 1, 0>>
                                      ELSE <<prev.group, prev.local + 1>>

\* maybe_send_session_tokens_done is final: once the engine has been told that
\* no more text comes, no segment is opened and none gets another token.
HandoverFinal ==
    [][tokens_done => /\ Len(drivers') = Len(drivers)
                      /\ \A i \in DOMAIN drivers : drivers'[i].text = drivers[i].text
      ]_spliterVars

\* Once the input is complete the engine is told so, however little
\* concurrency there is: a full pipeline drains as segments end.
CompletionAnnounced == complete ~> tokens_done
===============================================================================
