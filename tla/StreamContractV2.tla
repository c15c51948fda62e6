-------------------------- MODULE StreamContractV2 --------------------------
(***************************************************************************)
(* The wire contract of a version 2 trajectory stream: what a stream       *)
(* policy and a batch of setpoints must satisfy before the executor may    *)
(* take them (stream_contract_v2.c).  Everything here is a predicate over  *)
(* the call's arguments; the state it is judged against is passed in.      *)
(*                                                                         *)
(* A decoder's reason for refusing is a diagnostic code on the wire and is *)
(* left out: the operators say whether a payload is taken, not which of    *)
(* several faults is named first.                                          *)
(***************************************************************************)
EXTENDS ModularTick, Sequences, FiniteSets

CONSTANTS
    Joint,               \* joint slots of a setpoint (12 on the robot)
    Arm,                 \* arms a mask can name (left and right)
    Epoch,               \* arbiter epochs
    ControlTickMs,       \* ACTUATOR_V2_CONTROL_TICK_MS (5)
    MinimumSpliceLeadMs, \* ACTUATOR_V2_MINIMUM_SPLICE_LEAD_MS (20)
    QueueCapacity,       \* ACTUATOR_V2_QUEUE_CAPACITY (16)
    WireMaxSamples,      \* ACTUATOR_V2_WIRE_MAX_SAMPLES (9)
    HardCaps             \* the firmware's own caps, never loosened by a host

Position == [Joint -> Int]
Setpoint == [apply_tick : Tick, position_urad : Position]

Policy ==
    [minimum_start_samples : Nat, arm_mask : SUBSET Arm,
     minimum_lead_ms : Nat, maximum_lead_ms : Nat,
     horizon_end_tick : Tick, command_timeout_ms : Nat,
     maximum_apply_lateness_ms : Nat,
     tracking_error_limit_urad : [Joint -> Int],
     maximum_step_urad_per_tick : [Joint -> Int]]

\* samples[i].apply_tick is first_apply_tick plus the sample's wire offset.
Batch ==
    [kind : {"APPEND", "SPLICE"}, samples : Seq(Setpoint),
     horizon_end_tick : Tick, arbiter_epoch : Epoch,
     splice_at_tick : Tick, arm_mask : SUBSET Arm]

ASSUME ContractAssumption ==
    /\ ControlTickMs \in Nat \ {0}
    /\ MinimumSpliceLeadMs \in Nat
    /\ QueueCapacity \in Nat \ {0}
    /\ WireMaxSamples \in Nat \ {0}
    /\ HardCaps \in
         [minimum_lead_ms : Nat, maximum_lead_ms : Nat,
          maximum_command_timeout_ms : Nat,
          maximum_open_command_timeout_ms : Nat,
          maximum_apply_lateness_ms : Nat,
          tracking_error_limit_urad : [Joint -> Int],
          maximum_step_urad_per_tick : [Joint -> Int]]

\* A horizon or splice tick of 0 on the wire means "none": a stream without
\* a planned end is open, one with an end is finite.
NoTick == 0
IsOpenEnded(horizon) == horizon = NoTick

Distance(a, b) == IF a >= b THEN a - b ELSE b - a

\* The division of C: the quotient is truncated towards zero.
CDiv(a, b) == IF a >= 0 THEN a \div b ELSE -((-a) \div b)

\* Control ticks needed to cover a time span, a started tick counting whole.
TicksOver(span) == (span + ControlTickMs - 1) \div ControlTickMs

WithinSteps(p, from, to, ticks) ==
    \A j \in Joint :
        Distance(from[j], to[j]) <= p.maximum_step_urad_per_tick[j] * ticks

-----------------------------------------------------------------------------
PolicyAcceptable(p, now) ==
    /\ p.arm_mask # {}
    /\ p.minimum_start_samples \in 1 .. QueueCapacity
    /\ p.minimum_lead_ms >= HardCaps.minimum_lead_ms
    /\ p.maximum_lead_ms <= HardCaps.maximum_lead_ms
    /\ p.minimum_lead_ms <= p.maximum_lead_ms
    /\ p.command_timeout_ms \in 1 .. HardCaps.maximum_command_timeout_ms
    /\ IsOpenEnded(p.horizon_end_tick) =>
           p.command_timeout_ms <= HardCaps.maximum_open_command_timeout_ms
    /\ p.maximum_apply_lateness_ms <= HardCaps.maximum_apply_lateness_ms
    /\ IsOpenEnded(p.horizon_end_tick) \/ IsAfter(p.horizon_end_tick, now)
    /\ \A j \in Joint :
         /\ p.tracking_error_limit_urad[j] \in
                1 .. HardCaps.tracking_error_limit_urad[j]
         /\ p.maximum_step_urad_per_tick[j] \in
                1 .. HardCaps.maximum_step_urad_per_tick[j]

\* actuator_v2_batch_decode: the batch is well formed on its own.
Decodes(b) ==
    /\ Len(b.samples) \in 1 .. WireMaxSamples
    /\ b.arm_mask # {}
    /\ b.kind = "APPEND" <=> b.splice_at_tick = NoTick
    /\ \A i \in 1 .. Len(b.samples) - 1 :
         IsAfter(b.samples[i + 1].apply_tick, b.samples[i].apply_tick)

\* Neighbouring samples of one batch lie on the same control grid and are no
\* further apart than the stream's step limit allows.
SamplesContinuous(b, p) ==
    \A i \in 1 .. Len(b.samples) - 1 :
        LET gap == Elapsed(b.samples[i + 1].apply_tick,
                           b.samples[i].apply_tick)
        IN  /\ gap % ControlTickMs = 0
            /\ WithinSteps(p, b.samples[i].position_urad,
                           b.samples[i + 1].position_urad,
                           gap \div ControlTickMs)

\* A batch never turns an open stream into a finite one, or the reverse, and
\* never moves a planned end backwards.
HorizonAcceptable(b, horizon, finalTick) ==
    /\ IsOpenEnded(b.horizon_end_tick) <=> IsOpenEnded(horizon)
    /\ ~IsOpenEnded(b.horizon_end_tick) =>
         /\ ~IsAfter(finalTick, b.horizon_end_tick)
         /\ \/ b.horizon_end_tick = horizon
            \/ IsAfter(b.horizon_end_tick, horizon)

\* Mutant of AppendAcceptable: the last queued tick is not looked at.
AppendAnywhere(b, p, now, epoch, lastTick) ==
    /\ IsAfter(b.samples[1].apply_tick, now)
    /\ Elapsed(b.samples[1].apply_tick, now) >= p.minimum_lead_ms
    /\ b.arbiter_epoch = epoch

\* An append continues the epoch in force after the last queued sample.
AppendAcceptable(b, p, now, epoch, lastTick) ==
    LET first == b.samples[1].apply_tick
    IN  /\ IsAfter(first, now)
        /\ Elapsed(first, now) >= p.minimum_lead_ms
        /\ b.arbiter_epoch = epoch
        /\ IsAfter(first, lastTick)

\* A splice replaces the queue from splice_at_tick on, close to where the
\* queued trajectory would have been at that tick.
SpliceAcceptable(b, p, now, lastTick, planned) ==
    LET at == b.splice_at_tick
    IN  /\ IsAfter(at, now)
        /\ Elapsed(at, now) >= MinimumSpliceLeadMs
        /\ Elapsed(at, now) >= p.minimum_lead_ms
        /\ ~IsAfter(at, lastTick)
        /\ b.samples[1].apply_tick = at
        /\ WithinSteps(p, planned, b.samples[1].position_urad, 1)

\* actuator_v2_batch_validate_transition
TransitionAcceptable(b, p, now, epoch, horizon, lastTick, planned) ==
    LET finalTick == b.samples[Len(b.samples)].apply_tick
    IN  /\ b.arm_mask \subseteq p.arm_mask
        /\ Elapsed(finalTick, now) <= p.maximum_lead_ms
        /\ HorizonAcceptable(b, horizon, finalTick)
        /\ SamplesContinuous(b, p)
        /\ IF b.kind = "APPEND"
             THEN AppendAcceptable(b, p, now, epoch, lastTick)
             ELSE SpliceAcceptable(b, p, now, lastTick, planned)
=============================================================================
