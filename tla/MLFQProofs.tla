------------------------------ MODULE MLFQProofs ------------------------------
(***************************************************************************)
(* BoundedWait for every batch size, number of segments, thresholds, aging *)
(* interval and starvation limit.  The wait of a segment that has just     *)
(* been demoted to Q2 is bounded because it was in the last batch: the     *)
(* inductive invariant adds BatchFresh.                                    *)
(***************************************************************************)
EXTENDS MLFQ, TLAPS

MLFQInv == MLFQTypeOK /\ BatchFresh /\ BoundedWait

Metas == [level : 0..2, decode_steps : 0..Q2Threshold,
          steps_since_schedule : 0..WaitCap]

\* on_step_done leaves the wait alone and keeps the level in its range.
LEMMA StepDoneMeta ==
    ASSUME NEW m \in Metas
    PROVE  /\ StepDone(m) \in Metas
           /\ StepDone(m).steps_since_schedule = m.steps_since_schedule
<1> DEFINE n == IF m.decode_steps < Q2Threshold THEN m.decode_steps + 1
                                                 ELSE Q2Threshold
           l == IF m.level = 0 /\ n >= Q1Threshold THEN 1
                ELSE IF m.level = 1 /\ n >= Q2Threshold THEN 2
                ELSE m.level
<1>1. n \in 0..Q2Threshold /\ l \in 0..2
  BY MLFQAssumption DEF Metas
<1>2. StepDone(m) = [m EXCEPT !.decode_steps = n, !.level = l]
  BY DEF StepDone
<1> HIDE DEF n, l
<1> QED
  BY <1>1, <1>2 DEF Metas

\* tick adds at most one to the wait; the aging pass leaves nobody at Q2 with
\* a wait of starvation_limit or more.
LEMMA TickedMeta ==
    ASSUME NEW s, meta[s] \in Metas, clock \in 0..(AgingInterval - 1)
    PROVE  /\ Ticked(s) \in Metas
           /\ s \in scheduled => \/ Ticked(s) = meta[s]
                                 \/ Ticked(s).steps_since_schedule = 0
           /\ Ticked(s).level = 2 =>
                 /\ meta[s].level = 2
                 /\ Ticked(s).steps_since_schedule
                       <= meta[s].steps_since_schedule + 1
                 /\ clock + 1 = AgingInterval =>
                       Ticked(s).steps_since_schedule < StarvationLimit
<1> DEFINE m == IF s \in scheduled THEN meta[s] ELSE Aged(meta[s])
<1>1. /\ m \in Metas
      /\ m.level = meta[s].level
      /\ m.steps_since_schedule <= meta[s].steps_since_schedule + 1
      /\ s \in scheduled => m = meta[s]
  BY MLFQAssumption DEF Metas, Aged, WaitCap
<1> HIDE DEF m
<1>2. CASE clock + 1 = AgingInterval /\ Starved(m)
  <2>1. Ticked(s) = Boosted(m)
    BY <1>2 DEF Ticked, m
  <2>2. Boosted(m) \in Metas /\ Boosted(m).level = 0
        /\ Boosted(m).steps_since_schedule = 0
    <3>1. 0 \in 0..2 /\ 0 \in 0..WaitCap
      BY MLFQAssumption DEF WaitCap
    <3> QED
      BY <1>1, <3>1 DEF Metas, Boosted
  <2> QED
    BY <2>1, <2>2
<1>3. CASE ~(clock + 1 = AgingInterval /\ Starved(m))
  <2>1. Ticked(s) = m
    BY <1>3 DEF Ticked, m
  <2>2. clock + 1 = AgingInterval /\ m.level = 2
           => m.steps_since_schedule < StarvationLimit
    BY <1>1, <1>3, MLFQAssumption DEF Starved, Metas, WaitCap
  <2> QED
    BY <1>1, <2>1, <2>2
<1> QED
  BY <1>2, <1>3

\* Every step of the loop and of the sessions around it keeps the invariant.
LEMMA MLFQStep ==
    MLFQInv /\ [MLFQNext]_mlfqVars => MLFQInv'
<1> SUFFICES ASSUME MLFQInv, [MLFQNext]_mlfqVars
             PROVE  MLFQInv'
  OBVIOUS
<1> USE MLFQAssumption
<1>t. /\ meta \in [Segments -> Metas]
      /\ clock \in 0..(AgingInterval - 1)
  BY DEF MLFQInv, MLFQTypeOK, Metas
<1>f. Fresh \in Metas /\ Fresh.level = 0 /\ Fresh.steps_since_schedule = 0
  BY DEF Fresh, Metas, WaitCap
<1>1. CASE Process
  <2>1. meta' \in [Segments -> Metas]
    BY <1>1, <1>t, StepDoneMeta DEF Process
  <2>2. MLFQTypeOK'
    BY <1>1, <2>1 DEF Process, MLFQInv, MLFQTypeOK, Metas
  <2>3. BatchFresh'
    BY <1>1 DEF Process, BatchFresh
  <2>4. ASSUME NEW s \in active', meta'[s].level = 2
        PROVE  meta'[s].steps_since_schedule < StarvationLimit + clock'
    <3>1. s \in Segments /\ s \in active /\ clock' = clock
      BY <1>1 DEF Process, MLFQInv, MLFQTypeOK
    <3>2. CASE s \in batch
      <4>1. meta'[s].steps_since_schedule = 0
        BY <1>1, <1>t, <3>1, <3>2, StepDoneMeta
           DEF Process, MLFQInv, BatchFresh
      <4> QED
        BY <4>1, <3>1, <1>t
    <3>3. CASE s \notin batch
      BY <1>1, <3>1, <3>3, <2>4 DEF Process, MLFQInv, BoundedWait
    <3> QED
      BY <3>2, <3>3
  <2> QED
    BY <2>2, <2>3, <2>4 DEF MLFQInv, BoundedWait
<1>2. CASE Select
  <2>1. CASE ready = {}
    BY <1>2, <2>1 DEF Select, MLFQInv, MLFQTypeOK, BatchFresh, BoundedWait
  <2>2. CASE ready # {}
    <3>1. /\ batch' \subseteq ready
          /\ ready \subseteq Segments
          /\ scheduled' = batch'
          /\ step' = "tick"
          /\ UNCHANGED <<active, ready, clock, arrivals>>
          /\ meta' = [s \in Segments |-> IF s \in batch'
                                         THEN Scheduled(meta[s]) ELSE meta[s]]
      BY <1>2, <2>2 DEF Select, SelectBatch, MLFQInv, MLFQTypeOK
    <3>2. \A s \in Segments : /\ Scheduled(meta[s]) \in Metas
                              /\ Scheduled(meta[s]).steps_since_schedule = 0
      BY <1>t DEF Scheduled, Metas, WaitCap
    <3>3. meta' \in [Segments -> Metas]
      BY <1>t, <3>1, <3>2
    <3>4. MLFQTypeOK'
      BY <3>1, <3>3 DEF MLFQInv, MLFQTypeOK, Metas
    <3>5. BatchFresh'
      BY <3>1, <3>2 DEF BatchFresh
    <3>6. ASSUME NEW s \in active', meta'[s].level = 2
          PROVE  meta'[s].steps_since_schedule < StarvationLimit + clock'
      <4>1. s \in Segments /\ s \in active /\ clock' = clock
        BY <3>1 DEF MLFQInv, MLFQTypeOK
      <4>2. CASE s \in batch'
        BY <1>t, <3>1, <3>2, <4>1, <4>2
      <4>3. CASE s \notin batch'
        BY <3>1, <3>6, <4>1, <4>3 DEF MLFQInv, BoundedWait
      <4> QED
        BY <4>2, <4>3
    <3> QED
      BY <3>4, <3>5, <3>6 DEF MLFQInv, BoundedWait
  <2> QED
    BY <2>1, <2>2
<1>3. CASE Tick
  <2>1. \A s \in Segments : Ticked(s) \in Metas
    BY <1>t, TickedMeta
  <2>2. meta' \in [Segments -> Metas]
    BY <1>3, <1>t, <2>1 DEF Tick
  <2>3. /\ clock + 1 = AgingInterval => clock' = 0
        /\ clock + 1 # AgingInterval => clock' = clock + 1
    BY <1>3, <1>t DEF Tick
  <2>4. clock' \in 0..(AgingInterval - 1)
    BY <1>t, <2>3
  <2>5. MLFQTypeOK'
    BY <1>3, <2>2, <2>4 DEF Tick, MLFQInv, MLFQTypeOK, Metas
  <2>6. BatchFresh'
    <3>1. ASSUME NEW s \in batch'
          PROVE  meta'[s].steps_since_schedule = 0
      <4>1. s \in batch /\ s \in scheduled /\ s \in Segments
            /\ meta[s].steps_since_schedule = 0
        BY <1>3 DEF Tick, MLFQInv, MLFQTypeOK, BatchFresh
      <4>2. \/ Ticked(s) = meta[s]
            \/ Ticked(s).steps_since_schedule = 0
        BY <4>1, <1>t, TickedMeta
      <4> QED
        BY <1>3, <4>1, <4>2 DEF Tick
    <3> QED
      BY <1>3, <3>1 DEF Tick, BatchFresh
  <2>7. ASSUME NEW s \in active', meta'[s].level = 2
        PROVE  meta'[s].steps_since_schedule < StarvationLimit + clock'
    <3>1. s \in Segments /\ s \in active /\ meta'[s] = Ticked(s)
      BY <1>3 DEF Tick, MLFQInv, MLFQTypeOK
    <3>2. /\ meta[s].level = 2
          /\ Ticked(s).steps_since_schedule
                <= meta[s].steps_since_schedule + 1
          /\ clock + 1 = AgingInterval =>
                Ticked(s).steps_since_schedule < StarvationLimit
      BY <1>t, <2>7, <3>1, TickedMeta
    <3>3. meta[s].steps_since_schedule < StarvationLimit + clock
      BY <3>1, <3>2 DEF MLFQInv, BoundedWait
    <3>4. meta[s].steps_since_schedule \in Nat
          /\ Ticked(s).steps_since_schedule \in Nat
      BY <1>t, <2>1, <3>1 DEF Metas, WaitCap
    <3> QED
      BY <1>t, <2>3, <3>1, <3>2, <3>3, <3>4
  <2> QED
    BY <2>5, <2>6, <2>7 DEF MLFQInv, BoundedWait
<1>4. ASSUME NEW s \in Segments, Arrive(s)
      PROVE  MLFQInv'
  <2>1. meta' \in [Segments -> Metas]
    BY <1>4, <1>t, <1>f DEF Arrive
  <2>2. MLFQTypeOK'
    BY <1>4, <2>1 DEF Arrive, MLFQInv, MLFQTypeOK, Metas
  <2>3. BatchFresh'
    BY <1>4 DEF Arrive, MLFQInv, BatchFresh
  <2>4. BoundedWait'
    BY <1>4, <1>t, <1>f DEF Arrive, MLFQInv, MLFQTypeOK, BoundedWait
  <2> QED
    BY <2>2, <2>3, <2>4 DEF MLFQInv
<1>5. ASSUME NEW s \in Segments, Leave(s)
      PROVE  MLFQInv'
  <2>1. meta' \in [Segments -> Metas]
    BY <1>5, <1>t, <1>f DEF Leave
  <2>2. MLFQTypeOK'
    BY <1>5, <2>1 DEF Leave, MLFQInv, MLFQTypeOK, Metas
  <2>3. BatchFresh'
    BY <1>5, <1>t, <1>f DEF Leave, MLFQInv, BatchFresh
  <2>4. BoundedWait'
    BY <1>5, <1>t DEF Leave, MLFQInv, MLFQTypeOK, BoundedWait
  <2> QED
    BY <2>2, <2>3, <2>4 DEF MLFQInv
<1>6. ASSUME NEW s \in Segments, Wake(s)
      PROVE  MLFQInv'
  BY <1>6 DEF Wake, MLFQInv, MLFQTypeOK, BatchFresh, BoundedWait
<1>7. CASE UNCHANGED mlfqVars
  BY <1>7 DEF mlfqVars, MLFQInv, MLFQTypeOK, BatchFresh, BoundedWait
<1> QED
  BY <1>1, <1>2, <1>3, <1>4, <1>5, <1>6, <1>7 DEF MLFQNext, MLFQLoop

\* The wait of a segment at Q2 is bounded by starvation_limit plus the steps
\* since the last aging pass (MLFQScheduler.tick), whatever arrives and leaves.
THEOREM WaitIsBounded == MLFQSpec => []BoundedWait
<1>1. MLFQInit => MLFQInv
  BY MLFQAssumption
     DEF MLFQInit, MLFQInv, MLFQTypeOK, BatchFresh, BoundedWait, Fresh, WaitCap
<1>2. MLFQInv => BoundedWait
  BY DEF MLFQInv
<1> QED
  BY <1>1, <1>2, MLFQStep, PTL DEF MLFQSpec
===============================================================================
