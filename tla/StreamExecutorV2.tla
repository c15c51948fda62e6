-------------------------- MODULE StreamExecutorV2 --------------------------
(***************************************************************************)
(* The version 2 trajectory stream executor: stream_executor_v2.c with the *)
(* session of stream_session_v2.c it owns.  A host opens a stream, admits  *)
(* batches of timed setpoints, and the control loop starts it and steps it *)
(* once per control tick; every step yields the joint positions to send to *)
(* the servos or ends the stream.                                          *)
(*                                                                         *)
(* Each operation takes the tick its caller passes: here the caller reads  *)
(* the clock `now' when it makes the call.                                 *)
(*                                                                         *)
(* A refused call leaves all the state modelled here alone (it only writes *)
(* a reason code).                                                         *)
(***************************************************************************)
EXTENDS StreamContractV2

CONSTANTS
    JointLimit,         \* [Joint -> [minimum_urad, maximum_urad]]
    OfferedPolicy(_),   \* stream policies a host may send at a tick
    OfferedBatch(_),    \* batches a host may send at a tick
    AnchorPosition,     \* measured postures a stream may be started from
    Reading,            \* single-joint positions feedback may report
    NoEpoch,            \* no batch has established an arbiter epoch yet
    MaxAccepted,        \* bound on samples accepted per stream (uint32_t)
    MaxSilence          \* bound on the time between two control steps

ASSUME ExecutorAssumption ==
    /\ JointLimit \in [Joint -> [minimum_urad : Int, maximum_urad : Int]]
    /\ \A j \in Joint : JointLimit[j].minimum_urad <= JointLimit[j].maximum_urad
    /\ \A t \in Tick : OfferedPolicy(t) \subseteq Policy
    /\ \A t \in Tick : OfferedBatch(t) \subseteq Batch
    /\ AnchorPosition \subseteq Position
    /\ Reading \subseteq Int
    /\ NoEpoch \notin Epoch
    /\ MaxAccepted \in Nat
    /\ MaxSilence \in 1 .. HalfTurn - 1

\* How long past its apply tick a sample may still be queued: the wait for the
\* control grid, a late apply and the time to the next step.
Slack == ControlTickMs - 1 + HardCaps.maximum_apply_lateness_ms + MaxSilence

\* Ticks that are compared are less than half a turn apart: the caps are short
\* against the clock (400 ms, 500 ms and 5 ms of 49.7 days), and so is every
\* batch of the host (a batch that goes round the clock is not refused).
ASSUME ClockAssumption ==
    /\ HardCaps.maximum_lead_ms + HardCaps.maximum_command_timeout_ms + MaxSilence + Slack
         < HalfTurn
    /\ HardCaps.maximum_lead_ms + 2 * Slack < HalfTurn
    /\ \A t \in Tick : \A b \in OfferedBatch(t) : \A i \in 1 .. Len(b.samples) :
         Elapsed(b.samples[i].apply_tick, b.samples[1].apply_tick) < HalfTurn

VARIABLES
    now,           \* the caller's millisecond clock
    state,         \* diagnostics.state
    reason,        \* diagnostics.terminal_reason
    safeStop,      \* diagnostics.safe_stop_required
    policy,        \* session.policy
    epoch,         \* session.arbiter_epoch, NoEpoch until established
    horizon,       \* session.horizon_end_tick
    queue,         \* session.validated_samples
    anchor,        \* the last applied setpoint, or the start posture
    controlEpoch,  \* control_epoch_tick, origin of the control grid
    lastStep,      \* last_step_tick
    lastCommand,   \* diagnostics.last_command_tick
    output,        \* last_output_urad
    outputValid,   \* output_valid
    accepted,      \* diagnostics.accepted_samples
    applied,       \* diagnostics.applied_samples
    splices        \* diagnostics.splice_count

session == <<policy, epoch, horizon, queue>>
ending == <<state, reason, safeStop>>
motion == <<anchor, controlEpoch, output, outputValid>>
counters == <<accepted, applied, splices>>
vars == <<now, ending, session, motion, lastStep, lastCommand, counters>>

Reason == {"NONE", "PLANNED_HORIZON", "QUEUE_UNDERFLOW", "COMMAND_TIMEOUT",
           "MISSED_APPLY_TICK", "TRACKING_ERROR", "INVALID_TIMELINE"}

ZeroPosition == [j \in Joint |-> 0]
ZeroPolicy ==
    [minimum_start_samples |-> 0, arm_mask |-> {},
     minimum_lead_ms |-> 0, maximum_lead_ms |-> 0,
     horizon_end_tick |-> NoTick, command_timeout_ms |-> 0,
     maximum_apply_lateness_ms |-> 0,
     tracking_error_limit_urad |-> ZeroPosition,
     maximum_step_urad_per_tick |-> ZeroPosition]

WithinLimits(pos) ==
    \A j \in Joint : /\ JointLimit[j].minimum_urad <= pos[j]
                     /\ pos[j] <= JointLimit[j].maximum_urad

\* Mutant of GridTick: the last tick of the control grid at or before t.
GridTickBefore(t) ==
    Plus(controlEpoch,
         (Elapsed(t, controlEpoch) \div ControlTickMs) * ControlTickMs)

\* The first tick of the control grid at or after t.
GridTick(t) ==
    Plus(controlEpoch,
         (((Elapsed(t, controlEpoch) + ControlTickMs - 1) % TickModulus)
              \div ControlTickMs) * ControlTickMs)

\* A posture part of the way from one to another, truncated as C does.
Between(from, to, elapsed, span) ==
    [j \in Joint |-> from[j] + CDiv((to[j] - from[j]) * elapsed, span)]

-----------------------------------------------------------------------------
Init ==
    /\ now \in Tick
    /\ state = "CLOSED" /\ reason = "NONE" /\ safeStop = FALSE
    /\ policy = ZeroPolicy /\ epoch = NoEpoch
    /\ horizon = NoTick /\ queue = <<>>
    /\ anchor = [apply_tick |-> 0, position_urad |-> ZeroPosition]
    /\ controlEpoch = 0 /\ lastStep = 0 /\ lastCommand = 0
    /\ output = ZeroPosition /\ outputValid = FALSE
    /\ accepted = 0 /\ applied = 0 /\ splices = 0

-----------------------------------------------------------------------------
(***************************************************************************)
(* Opening a stream.  A valid policy replaces the session; an invalid one  *)
(* leaves the previous session in place.                                   *)
(***************************************************************************)
\* Mutant of OpenAllowed: a running stream may be replaced.
OpenAnytime(p, tick) == PolicyAcceptable(p, tick)

OpenAllowed(p, tick) == state # "RUNNING" /\ PolicyAcceptable(p, tick)

Open(p, tick) ==
    /\ OpenAllowed(p, tick)
    /\ state' = "PRIMING" /\ reason' = "NONE" /\ safeStop' = FALSE
    /\ policy' = p /\ epoch' = NoEpoch
    /\ horizon' = p.horizon_end_tick /\ queue' = <<>>
    /\ anchor' = [apply_tick |-> 0, position_urad |-> ZeroPosition]
    /\ outputValid' = FALSE
    /\ lastCommand' = 0
    /\ accepted' = 0 /\ applied' = 0 /\ splices' = 0
    /\ UNCHANGED <<now, controlEpoch, lastStep, output>>

-----------------------------------------------------------------------------
(***************************************************************************)
(* Admitting a batch.                                                      *)
(***************************************************************************)
\* Mutant of BoundaryAcceptable: the seam is held to the grid, not the limit.
BoundaryOnGrid(b) ==
    b.kind = "APPEND" /\ queue # <<>> =>
        Elapsed(b.samples[1].apply_tick, queue[Len(queue)].apply_tick)
            % ControlTickMs = 0

\* actuator_v2_stream_executor_admit's own check of the seam between the last
\* queued sample and an appended batch: made only when something is queued.
BoundaryAcceptable(b) ==
    b.kind = "APPEND" /\ queue # <<>> =>
        LET tail == queue[Len(queue)]
            gap == Elapsed(b.samples[1].apply_tick, tail.apply_tick)
        IN  IsAfter(b.samples[1].apply_tick, tail.apply_tick) =>
              /\ gap % ControlTickMs = 0
              /\ WithinSteps(policy, tail.position_urad,
                             b.samples[1].position_urad,
                             gap \div ControlTickMs)

\* Whether the queue has a position for a tick, and which (interpolate_position).
Brackets(i, tick) ==
    \/ queue[i].apply_tick = tick
    \/ /\ i < Len(queue)
       /\ IsAfter(tick, queue[i].apply_tick)
       /\ IsBefore(tick, queue[i + 1].apply_tick)

PlannedPosition(tick) ==
    LET i == CHOOSE k \in 1 .. Len(queue) :
               Brackets(k, tick) /\ \A m \in 1 .. k - 1 : ~Brackets(m, tick)
    IN  IF queue[i].apply_tick = tick
          THEN queue[i].position_urad
          ELSE Between(queue[i].position_urad, queue[i + 1].position_urad,
                       Elapsed(tick, queue[i].apply_tick),
                       Elapsed(queue[i + 1].apply_tick, queue[i].apply_tick))

\* The queued samples a batch leaves in place: all of them, or the longest
\* prefix that lies before the splice.
Retained(b) ==
    LET Kept(n) == \A i \in 1 .. n :
                     IsBefore(queue[i].apply_tick, b.splice_at_tick)
    IN  IF b.kind = "APPEND"
          THEN queue
          ELSE SubSeq(queue, 1, Cardinality({n \in 1 .. Len(queue) : Kept(n)}))

LastTick(tick) ==
    IF queue = <<>> THEN tick ELSE queue[Len(queue)].apply_tick

\* Mutant of SamplesWithinLimits: only the first sample is checked.
FirstSampleWithinLimits(b) == WithinLimits(b.samples[1].position_urad)

SamplesWithinLimits(b) ==
    \A i \in 1 .. Len(b.samples) : WithinLimits(b.samples[i].position_urad)

Admissible(b, tick) ==
    /\ state \in {"PRIMING", "RUNNING"}
    /\ Decodes(b)
    /\ SamplesWithinLimits(b)
    /\ BoundaryAcceptable(b)
    /\ b.kind = "SPLICE" =>
           \E i \in 1 .. Len(queue) : Brackets(i, b.splice_at_tick)
    /\ TransitionAcceptable(
           b, policy, tick,
           IF epoch = NoEpoch THEN b.arbiter_epoch ELSE epoch,
           horizon, LastTick(tick),
           IF b.kind = "SPLICE" THEN PlannedPosition(b.splice_at_tick)
                                ELSE ZeroPosition)
    /\ Len(Retained(b)) + Len(b.samples) <= QueueCapacity

Admit(b, tick) ==
    /\ Admissible(b, tick)
    /\ accepted + Len(b.samples) <= MaxAccepted
    /\ queue' = Retained(b) \o b.samples
    /\ epoch' = b.arbiter_epoch
    /\ horizon' = b.horizon_end_tick
    /\ accepted' = accepted + Len(b.samples)
    /\ splices' = IF b.kind = "SPLICE" THEN splices + 1 ELSE splices
    /\ lastCommand' = tick
    /\ UNCHANGED <<now, ending, policy, motion, lastStep, applied>>

-----------------------------------------------------------------------------
(***************************************************************************)
(* Starting: the measured posture becomes the anchor the first sample is   *)
(* interpolated from, and the tick the origin of the control grid.         *)
(***************************************************************************)
StartAllowed(tick, pos) ==
    /\ state = "PRIMING"
    /\ Len(queue) >= policy.minimum_start_samples
    /\ WithinLimits(pos)
    /\ IsAfter(queue[1].apply_tick, tick)
    /\ WithinSteps(policy, pos, queue[1].position_urad,
                   TicksOver(Elapsed(queue[1].apply_tick, tick)))

Start(tick, pos) ==
    /\ StartAllowed(tick, pos)
    /\ anchor' = [apply_tick |-> tick, position_urad |-> pos]
    /\ controlEpoch' = tick
    /\ lastStep' = tick
    /\ state' = "RUNNING"
    /\ UNCHANGED <<now, reason, safeStop, session, output, outputValid,
                   lastCommand, counters>>

\* A call the executor refuses.
Refuse(tick) ==
    /\ ~ /\ \A p \in OfferedPolicy(tick) : OpenAllowed(p, tick)
         /\ \A b \in OfferedBatch(tick) : Admissible(b, tick)
         /\ \A pos \in AnchorPosition : StartAllowed(tick, pos)
    /\ UNCHANGED vars

-----------------------------------------------------------------------------
(***************************************************************************)
(* One control step.  The cases are tried in the order of the source, each *)
(* under the negation of the ones before it.                               *)
(***************************************************************************)
Terminate(s, r, stop) == state' = s /\ reason' = r /\ safeStop' = stop

Emit(pos) == output' = pos /\ outputValid' = TRUE

\* Mutant of TimelineBroken: a second step in one tick counts as a broken clock.
TimelineStalled(tick) ==
    ~IsAfter(tick, lastStep) \/ IsBefore(tick, anchor.apply_tick)

TimelineBroken(tick) ==
    IsBefore(tick, lastStep) \/ IsBefore(tick, anchor.apply_tick)

\* Mutant of CommandTimedOut: every step counts as a sign of life.
StepTimedOut(tick) ==
    IsOpenEnded(horizon) /\ Elapsed(tick, lastStep) > policy.command_timeout_ms

CommandTimedOut(tick) ==
    /\ IsOpenEnded(horizon)
    /\ Elapsed(tick, lastCommand) > policy.command_timeout_ms

\* The clock went backwards.
StepTimelineBroken(tick) ==
    /\ state = "RUNNING" /\ TimelineBroken(tick)
    /\ Terminate("ABORTED", "INVALID_TIMELINE", TRUE)
    /\ UNCHANGED <<now, session, motion, lastStep, lastCommand, counters>>

StepBegins(tick) ==
    state = "RUNNING" /\ ~TimelineBroken(tick) /\ lastStep' = tick

\* An open stream whose host has gone quiet holds its last setpoint and ends.
StepCommandTimeout(tick) ==
    /\ StepBegins(tick) /\ CommandTimedOut(tick)
    /\ Emit(anchor.position_urad)
    /\ Terminate("HOLD", "COMMAND_TIMEOUT", TRUE)
    /\ UNCHANGED <<now, session, anchor, controlEpoch, lastCommand, counters>>

\* Mutant of StepUnderflow: a stream of either kind waits for the next batch.
StepWaits(tick) ==
    /\ StepBegins(tick) /\ ~CommandTimedOut(tick)
    /\ queue = <<>> /\ ~IsOpenEnded(horizon)
    /\ Emit(anchor.position_urad)
    /\ UNCHANGED <<now, ending, session, anchor, controlEpoch, lastCommand,
                   counters>>

\* A finite stream that runs dry before its horizon fails closed.
StepUnderflow(tick) ==
    /\ StepBegins(tick) /\ ~CommandTimedOut(tick)
    /\ queue = <<>> /\ ~IsOpenEnded(horizon)
    /\ Terminate("ABORTED", "QUEUE_UNDERFLOW", TRUE)
    /\ UNCHANGED <<now, session, motion, lastCommand, counters>>

\* An open stream that runs dry keeps commanding its last setpoint.
StepHold(tick) ==
    /\ StepBegins(tick) /\ ~CommandTimedOut(tick)
    /\ queue = <<>> /\ IsOpenEnded(horizon)
    /\ Emit(anchor.position_urad)
    /\ UNCHANGED <<now, ending, session, anchor, controlEpoch, lastCommand,
                   counters>>

StepHasSample(tick) ==
    StepBegins(tick) /\ ~CommandTimedOut(tick) /\ queue # <<>>

DueTick == GridTick(queue[1].apply_tick)
IsDue(tick) == ~IsBefore(tick, DueTick)
Lateness(tick) == Elapsed(tick, DueTick)

StepMissed(tick) ==
    /\ StepHasSample(tick) /\ IsDue(tick)
    /\ Lateness(tick) > policy.maximum_apply_lateness_ms
    /\ Terminate("ABORTED", "MISSED_APPLY_TICK", TRUE)
    /\ UNCHANGED <<now, session, motion, lastCommand, counters>>

\* Mutant of WithoutFirst: the only sample left is not removed.
WithoutFirstOfMany == IF Len(queue) = 1 THEN queue ELSE Tail(queue)

\* consume_first_sample
WithoutFirst == Tail(queue)

\* Mutant of PlanComplete: an empty queue is taken for the planned end.
QueueDone == ~IsOpenEnded(horizon) /\ Len(queue) = 1

PlanComplete ==
    /\ ~IsOpenEnded(horizon)
    /\ queue[1].apply_tick = horizon
    /\ Len(queue) = 1

\* The sample is applied; applying the planned end of a finite stream with
\* nothing left behind it is the only way to succeed.
StepApply(tick) ==
    /\ StepHasSample(tick) /\ IsDue(tick)
    /\ Lateness(tick) <= policy.maximum_apply_lateness_ms
    /\ anchor' = queue[1]
    /\ queue' = WithoutFirst
    /\ applied' = applied + 1
    /\ Emit(queue[1].position_urad)
    /\ IF PlanComplete
         THEN Terminate("SUCCEEDED", "PLANNED_HORIZON", FALSE)
         ELSE UNCHANGED ending
    /\ UNCHANGED <<now, policy, epoch, horizon, controlEpoch, lastCommand,
                   accepted, splices>>

Span == Elapsed(DueTick, GridTick(anchor.apply_tick))
Progress(tick) == Elapsed(tick, GridTick(anchor.apply_tick))
SpanBroken(tick) == Span = 0 \/ Progress(tick) > Span

StepInterpolate(tick) ==
    /\ StepHasSample(tick) /\ ~IsDue(tick) /\ ~SpanBroken(tick)
    /\ Emit(Between(anchor.position_urad, queue[1].position_urad,
                    Progress(tick), Span))
    /\ UNCHANGED <<now, ending, session, anchor, controlEpoch, lastCommand,
                   counters>>

StepSpanBroken(tick) ==
    /\ StepHasSample(tick) /\ ~IsDue(tick) /\ SpanBroken(tick)
    /\ Terminate("ABORTED", "INVALID_TIMELINE", TRUE)
    /\ UNCHANGED <<now, session, motion, lastCommand, counters>>

Step(tick) ==
    \/ StepTimelineBroken(tick) \/ StepCommandTimeout(tick)
    \/ StepUnderflow(tick) \/ StepHold(tick)
    \/ StepMissed(tick) \/ StepApply(tick)
    \/ StepInterpolate(tick) \/ StepSpanBroken(tick)

-----------------------------------------------------------------------------
(***************************************************************************)
(* Tracking feedback.  The asynchronous check also judges the final output *)
(* of a stream that has already succeeded.                                 *)
(***************************************************************************)
TrackingFault ==
    /\ Terminate("ABORTED", "TRACKING_ERROR", TRUE)
    /\ UNCHANGED <<now, session, motion, lastStep, lastCommand, counters>>

CheckJointFeedback(j, commanded, measured) ==
    /\ state \in {"RUNNING", "SUCCEEDED"} /\ outputValid
    /\ Distance(commanded, measured) > policy.tracking_error_limit_urad[j]
    /\ TrackingFault

CheckFeedback(measured) ==
    /\ state = "RUNNING" /\ outputValid
    /\ \E j \in Joint : Distance(output[j], measured[j]) >
                          policy.tracking_error_limit_urad[j]
    /\ TrackingFault

-----------------------------------------------------------------------------
(***************************************************************************)
(* The clock.  MaxSilence bounds how long a running stream goes without a  *)
(* step, and a primed one without a start once its first sample is due: in *)
(* the firmware less than half a turn of the clock (24.8 days), the bound  *)
(* its tick arithmetic rests on.                                           *)
(***************************************************************************)
Advance ==
    /\ now' = Plus(now, 1)
    /\ state = "RUNNING" => Elapsed(now, lastStep) < MaxSilence
    /\ state = "PRIMING" /\ queue # <<>> =>
           \/ IsAfter(queue[1].apply_tick, now)
           \/ Elapsed(now, queue[1].apply_tick) < MaxSilence
    /\ UNCHANGED <<ending, session, motion, lastStep, lastCommand, counters>>

Next ==
    \/ Advance
    \/ \E p \in OfferedPolicy(now) : Open(p, now)
    \/ \E b \in OfferedBatch(now) : Admit(b, now)
    \/ \E pos \in AnchorPosition : Start(now, pos)
    \/ Refuse(now)
    \/ Step(now)
    \/ \E j \in Joint, c, m \in Reading : CheckJointFeedback(j, c, m)
    \/ \E m \in AnchorPosition : CheckFeedback(m)

Spec == Init /\ [][Next]_vars

-----------------------------------------------------------------------------
(***************************************************************************)
(* Properties.                                                             *)
(***************************************************************************)
TypeOK ==
    /\ now \in Tick
    /\ state \in {"CLOSED", "PRIMING", "RUNNING", "HOLD", "SUCCEEDED", "ABORTED"}
    /\ reason \in Reason
    /\ safeStop \in BOOLEAN
    /\ policy \in Policy
    /\ epoch \in Epoch \cup {NoEpoch}
    /\ horizon \in Tick
    /\ queue \in Seq(Setpoint)
    /\ anchor \in Setpoint
    /\ {controlEpoch, lastStep, lastCommand} \subseteq Tick
    /\ output \in Position
    /\ outputValid \in BOOLEAN
    /\ {accepted, applied, splices} \subseteq Nat

InsideJointLimits(pos) ==
    \A j \in Joint : pos[j] \in
        JointLimit[j].minimum_urad .. JointLimit[j].maximum_urad

\* Every posture the executor hands to the servos lies inside the firmware's
\* joint limits: those it interpolates between samples, too, and whatever mix
\* of appends and splices filled the queue (positions_within_limits is called
\* on admission and on the start posture only, never on an output).
MotionWithinLimits == outputValid => InsideJointLimits(output)

\* The queue never overflows and stays in strict tick order across appends
\* and splices, which interpolation and the due test of a step rely on.
QueueInOrder ==
    /\ Len(queue) <= QueueCapacity
    /\ \A i \in 1 .. Len(queue) - 1 :
         IsAfter(queue[i + 1].apply_tick, queue[i].apply_tick)

\* No sample is lost or applied twice: what was accepted is applied, queued
\* or was cut off by a splice.
SampleAccounting ==
    /\ applied + Len(queue) <= accepted
    /\ splices = 0 => applied + Len(queue) = accepted

\* A stream reports success only when the last setpoint of the plan, the one
\* stamped with the planned horizon, is what the servos were last told; any
\* other ending of a started stream asks for a safe stop.
SuccessMeansWholePlan ==
    /\ state = "SUCCEEDED" =>
         /\ ~IsOpenEnded(horizon) /\ queue = <<>>
         /\ anchor.apply_tick = horizon
         /\ outputValid /\ output = anchor.position_urad
         /\ splices = 0 => applied = accepted
    /\ safeStop <=> state \in {"HOLD", "ABORTED"}

\* Batches move a planned end or leave it; none turns an open stream, watched
\* by the command timeout, into a finite one that is not, or the reverse.
StreamKindStable ==
    state # "CLOSED" =>
        (IsOpenEnded(horizon) <=> IsOpenEnded(policy.horizon_end_tick))

\* No setpoint takes effect before its apply tick.
NotAppliedEarly == state = "RUNNING" => ~IsAfter(anchor.apply_tick, now)

\* With a clock that does not run backwards the executor never finds its own
\* timeline broken: control grid, anchor and queue agree with each other.
TimelineNeverBreaks == reason # "INVALID_TIMELINE"

\* An open stream moves only while its host keeps talking: no output was made
\* later than command_timeout_ms after the last admitted batch.
OpenOutputIsAuthorised ==
    state = "RUNNING" /\ IsOpenEnded(horizon) /\ outputValid =>
        \/ IsAfter(lastCommand, lastStep)
        \/ Elapsed(lastStep, lastCommand) <= policy.command_timeout_ms

\* A posture sent to the servos moves no joint further from the one before than
\* the step limit allows for the control ticks in between, the one the step is
\* made in included.  The posture of a stream that ends in HOLD is recorded and
\* not sent (Host_ServiceV2Executor stops both arms instead).
StepKeepsLimit ==
    /\ state = "RUNNING" /\ outputValid /\ output' # output /\ splices = 0
    /\ state' # "HOLD"
    => WithinSteps(policy, output, output',
                   TicksOver(Elapsed(lastStep', lastStep)) + 1)

\* Appended batches never make a joint leave its step limit, as the tests of
\* appends and of interpolated steps say.
OutputStepBounded == [][StepKeepsLimit]_vars

\* When a running stream is over unless its host goes on.
PlanOver ==
    IF IsOpenEnded(horizon) THEN Plus(lastCommand, policy.command_timeout_ms)
    ELSE IF queue = <<>> THEN anchor.apply_tick ELSE queue[Len(queue)].apply_tick

\* A stream that has begun to move ends, at its horizon, by running dry, or
\* because its host falls silent: it outlives its plan, or the silence of its
\* host, by no more than the wait for the control grid, a late apply and the
\* time to the next step.
EndsOnTime ==
    state = "RUNNING" /\ outputValid =>
        ~IsAfter(now, Plus(PlanOver, ControlTickMs - 1 + policy.maximum_apply_lateness_ms
                                       + MaxSilence))

\* What the executor promises whoever owns the arm.
Phase ==
    CASE state = "RUNNING" -> "moving"
      [] state = "SUCCEEDED" -> "finished"
      [] state \in {"HOLD", "ABORTED"} -> "stopped"
      [] OTHER -> "idle"

Promise == INSTANCE BoundedMotion
             WITH phase <- Phase, commanded <- output, Safe <- InsideJointLimits

\* The executor implements BoundedMotion: it moves only after a start, within
\* the limits, and never after it ended, until a new stream is opened.
ImplementsBoundedMotion == Promise!Spec
=============================================================================
