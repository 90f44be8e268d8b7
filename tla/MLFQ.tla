--------------------------------- MODULE MLFQ ---------------------------------
(***************************************************************************)
(* The multi-level feedback queue that picks the decode batch              *)
(* (core/mlfq.py), driven as the engine loop drives it: on_step_done for   *)
(* the rows of the last batch, select_batch over the segments that have    *)
(* input, tick after the step.  Segments are numbered in the order in      *)
(* which the loop walks its sessions, which is the FIFO order of a level.  *)
(*                                                                         *)
(* decode_steps is only compared with the thresholds and stops counting at *)
(* the larger one; global_step is only used modulo aging_interval and is   *)
(* kept so; last_scheduled_at is never read.  steps_since_schedule stops   *)
(* at WaitCap, beyond every value it is compared with.                     *)
(***************************************************************************)
EXTENDS Integers, FiniteSets

CONSTANTS
    NumSegments,     \* segments that may be decoding at once
    MaxBatch,        \* max_batch_size
    Q1Threshold,     \* q1_threshold
    Q2Threshold,     \* q2_threshold
    AgingInterval,   \* aging_interval
    StarvationLimit, \* starvation_limit
    MaxArrivals      \* bound: segments that start decoding

ASSUME MLFQAssumption ==
    /\ NumSegments \in Nat
    /\ MaxBatch \in Nat \ {0}
    /\ Q1Threshold \in Nat \ {0}
    /\ Q2Threshold \in Nat
    /\ Q1Threshold <= Q2Threshold
    /\ AgingInterval \in Nat \ {0}
    /\ StarvationLimit \in Nat \ {0}
    /\ MaxArrivals \in Nat

Segments == 1..NumSegments

VARIABLES
    meta,            \* [Segments -> MLFQMeta]
    active,          \* segments whose state is "active"
    ready,           \* active segments with an input for the next step
    batch,           \* rows of the last step, not yet processed
    scheduled,       \* _scheduled_this_step
    step,            \* what the loop does next
    clock,           \* global_step % aging_interval
    arrivals         \* segments started so far

mlfqVars == <<meta, active, ready, batch, scheduled, step, clock, arrivals>>

-----------------------------------------------------------------------------
(* The scheduler's methods *)

\* MLFQMeta.reset
Fresh == [level |-> 0, decode_steps |-> 0, steps_since_schedule |-> 0]

\* on_step_done
StepDone(m) ==
    LET n == IF m.decode_steps < Q2Threshold THEN m.decode_steps + 1
                                             ELSE Q2Threshold
    IN  [m EXCEPT !.decode_steps = n,
                  !.level = IF @ = 0 /\ n >= Q1Threshold THEN 1
                            ELSE IF @ = 1 /\ n >= Q2Threshold THEN 2
                            ELSE @]

\* on_scheduled
Scheduled(m) == [m EXCEPT !.steps_since_schedule = 0]

\* A mutant: one queue for all levels.
AheadOneQueue(s, t) == s < t

Ahead(s, t) ==
    \/ meta[s].level < meta[t].level
    \/ meta[s].level = meta[t].level /\ s < t

\* select_batch
SelectBatch(C) == {t \in C : Cardinality({s \in C : Ahead(s, t)}) < MaxBatch}

WaitCap == StarvationLimit + AgingInterval

Aged(m) ==
    [m EXCEPT !.steps_since_schedule = IF @ < WaitCap THEN @ + 1 ELSE @]

\* A mutant: there is no lowest level to boost from.
StarvedNever(m) == m.level > 2 /\ m.steps_since_schedule >= StarvationLimit

\* Starvation counts only for the lowest level.
Starved(m) == m.level >= 2 /\ m.steps_since_schedule >= StarvationLimit

Boosted(m) == [m EXCEPT !.level = 0, !.steps_since_schedule = 0]

\* tick
Ticked(s) ==
    LET m == IF s \in scheduled THEN meta[s] ELSE Aged(meta[s])
    IN  IF clock + 1 = AgingInterval /\ Starved(m) THEN Boosted(m) ELSE m

-----------------------------------------------------------------------------
(* The loop *)

\* Apply the last step's output: a row whose segment is gone is skipped, a row
\* with a segment counts a step, and its segment may have run out of text.
Process ==
    /\ step = "process"
    /\ step' = "select"
    /\ meta' = [s \in Segments |-> IF s \in batch \cap active
                                   THEN StepDone(meta[s]) ELSE meta[s]]
    /\ \E P \in SUBSET (batch \cap active) : ready' = ready \ P
    /\ batch' = {}
    /\ UNCHANGED <<active, scheduled, clock, arrivals>>

\* _get_active_slots_mlfq: no candidate, no step and no tick.
Select ==
    /\ step = "select"
    /\ IF ready = {}
       THEN /\ step' = "process"
            /\ UNCHANGED <<meta, batch, scheduled>>
       ELSE /\ step' = "tick"
            /\ batch' = SelectBatch(ready)
            /\ scheduled' = batch'
            /\ meta' = [s \in Segments |-> IF s \in batch'
                                           THEN Scheduled(meta[s]) ELSE meta[s]]
    /\ UNCHANGED <<active, ready, clock, arrivals>>

Tick ==
    /\ step = "tick"
    /\ step' = "process"
    /\ meta' = [s \in Segments |-> IF s \in active THEN Ticked(s) ELSE meta[s]]
    /\ clock' = (clock + 1) % AgingInterval
    /\ scheduled' = {}
    /\ UNCHANGED <<active, ready, batch, arrivals>>

\* on_segment_created: a segment is admitted at the step boundary.
Arrive(s) ==
    /\ step = "select"
    /\ s \notin active
    /\ arrivals < MaxArrivals
    /\ arrivals' = arrivals + 1
    /\ active' = active \cup {s}
    /\ ready' = ready \cup {s}
    /\ meta' = [meta EXCEPT ![s] = Fresh]
    /\ UNCHANGED <<batch, scheduled, step, clock>>

\* A segment ends or is cancelled and its meta goes with it;
\* _process_step_output then skips its row.
Leave(s) ==
    /\ s \in active
    /\ active' = active \ {s}
    /\ ready' = ready \ {s}
    /\ meta' = [meta EXCEPT ![s] = Fresh]
    /\ UNCHANGED <<batch, scheduled, step, clock, arrivals>>

\* APPEND_TOKENS gives a paused segment input again.
Wake(s) ==
    /\ s \in active \ ready
    /\ s \notin batch
    /\ ready' = ready \cup {s}
    /\ UNCHANGED <<meta, active, batch, scheduled, step, clock, arrivals>>

MLFQInit ==
    /\ meta = [s \in Segments |-> Fresh]
    /\ active = {}
    /\ ready = {}
    /\ batch = {}
    /\ scheduled = {}
    /\ step = "process"
    /\ clock = 0
    /\ arrivals = 0

MLFQLoop == Process \/ Select \/ Tick

MLFQNext ==
    \/ MLFQLoop
    \/ \E s \in Segments : Arrive(s) \/ Leave(s) \/ Wake(s)

\* The engine thread keeps looping; nothing else is promised.
MLFQSpec == MLFQInit /\ [][MLFQNext]_mlfqVars /\ WF_mlfqVars(MLFQLoop)

-----------------------------------------------------------------------------
(* Properties *)

\* Levels, counters and the batch of the scheduler keep their types; a paused
\* segment is never ready.
MLFQTypeOK ==
    /\ meta \in [Segments -> [level : 0..2, decode_steps : 0..Q2Threshold,
                              steps_since_schedule : 0..WaitCap]]
    /\ active \subseteq Segments
    /\ ready \subseteq active
    /\ batch \subseteq Segments
    /\ scheduled \subseteq Segments
    /\ step \in {"process", "select", "tick"}
    /\ clock \in 0..(AgingInterval - 1)
    /\ arrivals \in 0..MaxArrivals

\* What BoundedWait rests on: the rows of a batch have not waited, a batch is
\* what was scheduled until the tick, and it is applied before the next one is
\* selected.
BatchFresh ==
    /\ \A s \in batch : meta[s].steps_since_schedule = 0
    /\ step = "tick" => batch = scheduled
    /\ step = "select" => batch = {}

\* The aging pass really bounds the wait at the lowest level: a segment at Q2
\* has been passed over for fewer than starvation_limit steps plus the steps
\* since the last aging pass (tick, mlfq.py).
BoundedWait ==
    \A s \in active :
        meta[s].level = 2 => meta[s].steps_since_schedule
                                < StarvationLimit + clock

\* Once no more segments arrive nobody is starved: a segment that keeps having
\* input is scheduled again and again, whatever the others do (select_batch,
\* tick).
Served ==
    \A s \in Segments : []<>(s \in batch \/ s \notin ready)
===============================================================================
