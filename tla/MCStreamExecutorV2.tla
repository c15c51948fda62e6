------------------------ MODULE MCStreamExecutorV2 ------------------------
(***************************************************************************)
(* A small executor for TLC: one moving joint and one wire slot locked to  *)
(* 0, a clock of 40 ticks, 2 ms control ticks, a queue of 3.               *)
(***************************************************************************)
EXTENDS FedStream

CONSTANTS MovingJoint, LockedJoint, Left, E1, E2, Timeout, Boot,
          OpenEnded,  \* the kinds of stream a host may open: TRUE for open ones
          Reach,      \* the moving joint's range is 0 .. Reach
          AppendsOnly \* the host plans to the end and never splices

MCJoint == {MovingJoint, LockedJoint}
MCArm == {Left}
MCEpoch == {E1, E2}

\* One value per joint: the moving one first.
Pose(x, y) == [j \in MCJoint |-> IF j = MovingJoint THEN x ELSE y]

MCHardCaps ==
    [minimum_lead_ms |-> 2, maximum_lead_ms |-> 6,
     maximum_command_timeout_ms |-> 5, maximum_open_command_timeout_ms |-> 4,
     maximum_apply_lateness_ms |-> 1,
     tracking_error_limit_urad |-> Pose(2, 2),
     maximum_step_urad_per_tick |-> Pose(1, 1)]

MCJointLimit ==
    [j \in MCJoint |->
        [minimum_urad |-> 0, maximum_urad |-> IF j = MovingJoint THEN Reach ELSE 0]]

BasePolicy(h) ==
    [minimum_start_samples |-> 1, arm_mask |-> {Left},
     minimum_lead_ms |-> 2, maximum_lead_ms |-> 6,
     horizon_end_tick |-> h, command_timeout_ms |-> Timeout,
     maximum_apply_lateness_ms |-> 1,
     tracking_error_limit_urad |-> Pose(2, 2),
     maximum_step_urad_per_tick |-> Pose(1, 1)]

\* A tick d after t.
Soon(t, d) == (t + d) % TickModulus

\* The stream kinds of the run, and a policy that loosens a cap.  Streams open
\* once a turn of the clock, shortly before it wraps: what follows depends on
\* tick differences alone, except for the tick 0 that means "none".
MCOfferedPolicy(t) ==
    IF t # Boot THEN {}
    ELSE UNION {{BasePolicy(h), [BasePolicy(h) EXCEPT !.maximum_lead_ms = 7]} :
                   h \in {IF open THEN NoTick ELSE Soon(t, 4) : open \in OpenEnded}}

Sample(t, x) == [apply_tick |-> t, position_urad |-> Pose(x, 0)]

One(t, d, x) == <<Sample(Soon(t, d), x)>>
Two(t, x, y) == <<Sample(Soon(t, 2), x), Sample(Soon(t, 4), y)>>
OutsideLimits(t) ==
    <<Sample(Soon(t, 2), 0),
      [apply_tick |-> Soon(t, 4), position_urad |-> Pose(0, 1)]>>

AppendOf(s, h, e) ==
    [kind |-> "APPEND", samples |-> s, horizon_end_tick |-> h,
     arbiter_epoch |-> e, splice_at_tick |-> NoTick, arm_mask |-> {Left}]
SpliceOf(s, h, e) ==
    [AppendOf(s, h, e) EXCEPT !.kind = "SPLICE",
                              !.splice_at_tick = s[1].apply_tick]

\* The planned end a batch carries in a stream of either kind.
End(s, extra, open) ==
    IF open THEN NoTick ELSE Soon(s[Len(s)].apply_tick, extra)

\* Batches that can be taken: single samples and pairs a control tick apart
\* that end with the plan.
Planned(t, open) ==
    {AppendOf(s, End(s, 0, open), E1) :
         s \in {Two(t, 0, 1), Two(t, 1, 2), One(t, 3, 0), One(t, 3, Reach)}}

\* A plan that goes on after its last sample so far, and splices.
Replanned(t, open) ==
    {AppendOf(One(t, 3, 2), End(One(t, 3, 2), 1, open), E1)}
      \cup {SpliceOf(s, End(s, 0, open), E2) :
               s \in {Two(t, 1, 2), One(t, 3, 0), One(t, 3, 2)}}

\* Batches with one thing wrong: too early, a step too large, outside the
\* limits, another epoch, no arm.  Those for the other kind of stream have the
\* wrong horizon.
Unfit(t, open) ==
    {AppendOf(s, End(s, 0, open), E1) :
         s \in {One(t, 1, 0), Two(t, 0, 2), OutsideLimits(t)}}
      \cup {AppendOf(One(t, 3, 0), End(One(t, 3, 0), 0, open), E2),
            [AppendOf(One(t, 3, 0), End(One(t, 3, 0), 0, open), E1) EXCEPT !.arm_mask = {}]}

Batches ==
    [t \in Tick |->
        UNION {Planned(t, open) \cup (IF AppendsOnly THEN {} ELSE Replanned(t, open))
                   \cup Unfit(t, open) : open \in BOOLEAN}]
MCOfferedBatch(t) == Batches[t]

MCAnchorPosition == {Pose(0, 0), Pose(Reach + 1, 0)}
MCReading == {0, 3}

\* What a later call can still read: the output only while it is valid, the
\* control grid and the last step only while the stream runs, the session and
\* the counters until the stream has been cut short.
MCView ==
    <<now, ending, outputValid, IF outputValid THEN output ELSE ZeroPosition,
      IF state \in {"HOLD", "ABORTED"}
        THEN <<>>
        ELSE <<session, anchor, lastCommand, counters, ranDry, gridAged>>,
      IF state = "RUNNING" THEN <<controlEpoch, lastStep>> ELSE <<>> >>

\* Every run boots close to the wrap of the clock.
MCInit == FedInit /\ now = Boot
MCSpec == MCInit /\ [][FedNext]_fed_vars
===========================================================================
