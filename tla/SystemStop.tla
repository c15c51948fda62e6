----------------------------- MODULE SystemStop -----------------------------
(***************************************************************************)
(* Stopping the whole robot (system_stop.c) over its two servo buses: the  *)
(* left one carries an arm, the wheels and the lift behind the mobile      *)
(* output (mobile_output.c, mobile_servo_output.c), the right one an arm   *)
(* behind the hold output (mobile_hold_output.c).  A stop sends a zero     *)
(* velocity and then a position hold left, a position hold right, and is   *)
(* confirmed only by evidence observed after all three went out.           *)
(* The main loop runs its parts in turn; transmissions end on their own.   *)
(***************************************************************************)
EXTENDS OutputPass

CONSTANTS
    Timeout,      \* timeout_ms: how long a stop may stay unconfirmed
    MaxAge,       \* feedback_max_age_ms: older evidence proves nothing
    MaxOutage,    \* longest time for one turn of the main loop
    Robots        \* the robots considered

\* job_lifetime_us: deadline of every job.  job_budget: zero_budget_us,
\* hold_budget_us, wheels_budget_us.  faults: transmissions fail, windows are
\* missed, the UART is taken.  arm_feedback: may the positions of both arms be
\* fresh when a stop begins.
Robot == [lifetime: Budget, job_budget: Budget, faults: BOOLEAN,
          arm_feedback: SUBSET BOOLEAN]

ASSUME SystemStopAssumption ==
    /\ Packet = {"VELOCITY", "ZERO", "LEFT_HOLD", "RIGHT_HOLD"}
    /\ Robots \subseteq Robot
    /\ \A r \in Robots : r.job_budget < r.lifetime
    /\ {Timeout, MaxAge} \subseteq Budget
    /\ MaxOutage \in Nat \ {0} /\ MaxOutage < HalfTurn

VARIABLES
    robot,      \* the robot considered
    now,        \* Timebase_NowUs(), HAL_GetTick()
    left,       \* the router of the mobile output
    right,      \* the router of the hold output
    uart,       \* what the two UARTs are doing
    output,     \* the stop latch of the mobile output
    stop,       \* actuator_system_stop_t
    turn,       \* the part of the main loop that runs next
    unpolled,   \* time since the main loop started this turn
    sent,       \* history: what went out whole
    seenAfter   \* history: the evidence that confirmed the stop is newer

vars == <<robot, now, left, right, uart, output, stop, turn, unpolled, sent, seenAfter>>

Side == {"LEFT", "RIGHT"}

\* fresh: launched since the stop began.
Uart == [phase: Phase, packet: Packet, fresh: BOOLEAN]

QuietUart == [phase |-> "IDLE", packet |-> "ZERO", fresh |-> FALSE]

StopState == {"IDLE", "PENDING", "CONFIRMED", "UNCONFIRMED"}

Stop ==
    [state: StopState, started: Tick, arm_feedback_valid: BOOLEAN,
     left_hold_queued: BOOLEAN, actions_completed: BOOLEAN, completed_at: Tick,
     left_zero_after: 0 .. MaxToken, left_hold_after: 0 .. MaxToken,
     right_hold_after: 0 .. MaxToken]

NoStop ==
    [state |-> "IDLE", started |-> 0, arm_feedback_valid |-> FALSE,
     left_hold_queued |-> FALSE, actions_completed |-> FALSE, completed_at |-> 0,
     left_zero_after |-> 0, left_hold_after |-> 0, right_hold_after |-> 0]

\* zero, leftHold, rightHold: launched since the stop began, the left hold
\* after the zero.  still: no velocity went out since the last zero.
Sent == [zero: BOOLEAN, leftHold: BOOLEAN, rightHold: BOOLEAN, still: BOOLEAN,
         ago: 0 .. MaxAge + 1]

TypeOK ==
    /\ robot \in Robots
    /\ now \in Tick
    /\ left \in Router /\ right \in Router
    /\ uart \in [Side -> Uart]
    /\ output \in [stop_requested: BOOLEAN, stop_written: BOOLEAN]
    /\ stop \in Stop
    /\ turn \in {"BOARD", "LEFT", "RIGHT"}
    /\ unpolled \in 0 .. MaxOutage
    /\ sent \in Sent
    /\ seenAfter \in BOOLEAN

Init ==
    /\ robot \in Robots
    /\ now = 0
    /\ left = RouterInit /\ right = RouterInit
    /\ uart = [side \in Side |-> QuietUart]
    /\ output = [stop_requested |-> FALSE, stop_written |-> FALSE]
    /\ stop = NoStop
    /\ turn = "BOARD"
    /\ unpolled = 0
    /\ sent = [zero |-> FALSE, leftHold |-> FALSE, rightHold |-> FALSE, still |-> TRUE,
               ago |-> 0]
    /\ seenAfter = FALSE

-----------------------------------------------------------------------------
SubmitStop(r, packet) ==
    Submitted(r, STOP, packet, now, Plus(now, robot.lifetime), robot.job_budget)

\* Whether a submission at this moment is taken.
Taken(r, kind) == Accepts(Polled(r, now), kind)

\* MobileBoard_RequestStop, once per boot, with or without fresh positions of
\* both arms; actuator_system_stop_begin_timed.
RequestStop(valid) ==
    LET halted == Inhibit(OutputStopped(left, output))
    IN  /\ turn = "BOARD" /\ stop.state = "IDLE"
        /\ output' = [output EXCEPT !.stop_requested = TRUE]
        /\ stop' = [NoStop EXCEPT
                      !.state = "PENDING", !.started = now, !.arm_feedback_valid = valid,
                      !.left_zero_after = left.bus.token,
                      !.right_hold_after = right.bus.token]
        /\ left' = SubmitStop(halted, "ZERO")
        /\ right' = IF valid THEN SubmitStop(Inhibit(right), "RIGHT_HOLD") ELSE Inhibit(right)
        /\ UNCHANGED <<robot, now, uart, turn, unpolled, sent, seenAfter>>

\* Mutant: the first transaction after the submission does not count.
AcknowledgedLater(r, after, packet) ==
    /\ ~r.bus.active /\ ~r.bus.faulted
    /\ r.receipt.token > after + 1
    /\ r.receipt.kind = STOP /\ r.receipt.packet = packet

\* receipt: the last transaction was this packet, claimed after that token.
Acknowledged(r, after, packet) ==
    /\ ~r.bus.active /\ ~r.bus.faulted
    /\ r.receipt.token > after
    /\ r.receipt.kind = STOP /\ r.receipt.packet = packet

ZeroAcknowledged == Acknowledged(left, stop.left_zero_after, "ZERO")

\* Queue the hold of the left arm once the zero before it is out.
HoldDue ==
    /\ stop.arm_feedback_valid /\ ~stop.left_hold_queued
    /\ ~left.jobs[STOP].pending
    /\ ZeroAcknowledged

\* Everything the stop has to send is out.
Written(s, l) ==
    /\ s.left_hold_queued
    /\ ~l.jobs[STOP].pending /\ ~right.jobs[STOP].pending
    /\ Acknowledged(l, s.left_hold_after, "LEFT_HOLD")
    /\ Acknowledged(right, s.right_hold_after, "RIGHT_HOLD")

\* Mutant: evidence from before the end of the transmissions counts.
ProvesWhenFresh(s, observed) == Elapsed(now, observed) < MaxAge

\* When evidence of that age shows that the robot obeyed.
Proves(s, observed) ==
    /\ Elapsed(now, observed) < MaxAge
    /\ IsAfter(observed, s.completed_at)

\* The stop record after the hold of the left arm was asked for.
Held == IF HoldDue
        THEN [stop EXCEPT !.left_hold_after = left.bus.token,
                          !.left_hold_queued = Taken(left, STOP)]
        ELSE stop

HeldRouter == IF HoldDue THEN SubmitStop(left, "LEFT_HOLD") ELSE left

\* The stop record after a poll; a confirmation lasts only while it is proved.
Judged(written, observed, good) ==
    LET done == IF written /\ ~Held.actions_completed
                THEN [Held EXCEPT !.actions_completed = TRUE, !.completed_at = now]
                ELSE Held
        late == done.state = "CONFIRMED" \/ Elapsed(now, done.started) >= Timeout
    IN  [done EXCEPT !.state = IF written /\ good /\ Proves(done, observed) THEN "CONFIRMED"
                               ELSE IF late THEN "UNCONFIRMED" ELSE @]

SeenAfter(age, good) == stop'.state = "CONFIRMED" /\ good /\ age < sent.ago

\* Mutant: a confirmed stop gives the left bus back to motion.
PollStopResumes(age, good) ==
    /\ stop' = Judged(Written(Held, HeldRouter), Plus(now, -age), good)
    /\ left' = IF stop'.state = "CONFIRMED" THEN Resumed(HeldRouter) ELSE HeldRouter
    /\ output' = [output EXCEPT !.stop_requested = @ /\ stop'.state # "CONFIRMED"]
    /\ seenAfter' = SeenAfter(age, good)
    /\ UNCHANGED right

\* poll_stop: age is that of the oldest reading the evidence rests on.
PollStop(age, good) ==
    /\ stop' = Judged(Written(Held, HeldRouter), Plus(now, -age), good)
    /\ left' = HeldRouter
    /\ seenAfter' = SeenAfter(age, good)
    /\ UNCHANGED <<right, output>>

\* MobileBoard_Poll opens a turn of the main loop.  An output that stopped by
\* itself stops the robot before the next turn.
Board(age, good) ==
    /\ turn = "BOARD"
    /\ turn' = "LEFT"
    /\ unpolled' = 0
    /\ IF stop.state # "IDLE" THEN PollStop(age, good)
       ELSE ~output.stop_requested /\ UNCHANGED <<stop, left, right, output, seenAfter>>
    /\ UNCHANGED <<robot, now, uart, sent>>

-----------------------------------------------------------------------------
Outcome == IF robot.faults THEN {"LAUNCHED", "BUSY", "FAILED"} ELSE {"LAUNCHED"}

\* The UART after a pass.
Line(u, pass) ==
    IF pass.launched
    THEN [phase |-> "SENDING", packet |-> pass.router.sending, fresh |-> stop.state # "IDLE"]
    ELSE IF pass.phase = "IDLE" THEN QuietUart ELSE u

\* Mutant: a zero that expired is not queued again.
QueueZeroOnce(r, o) ==
    IF o.stop_requested THEN r ELSE SubmitStop(r, "ZERO")

\* queue_stop
QueueZero(r, o) ==
    IF o.stop_written \/ r.jobs[STOP].pending \/ (r.bus.active /\ r.bus.owner = STOP)
    THEN r ELSE SubmitStop(r, "ZERO")

\* actuator_mobile_output_poll: trouble is a missed slot, a command about to
\* expire or a lost feedback; due that the wheels get a velocity.
OutputPolled(trouble, due) ==
    LET polled == Polled(left, now)
        swept == Swept(polled, now)
        missed == \E k \in Motion : polled.jobs[k] # swept.jobs[k]
        broken == trouble \/ missed \/ swept.bus.faulted
                  \/ (~output.stop_requested /\ (swept.inhibited \/ swept.bus.stop_pending))
        halted == IF broken THEN OutputStopped(swept, output) ELSE swept
    IN  IF broken \/ output.stop_requested
        THEN [router |-> QueueZero(halted, output), stop_requested |-> TRUE, window |-> 0]
        ELSE [router |-> IF due
                         THEN Submitted(swept, 1, "VELOCITY", now,
                                        Plus(now, robot.lifetime), robot.job_budget)
                         ELSE swept,
              stop_requested |-> FALSE, window |-> robot.job_budget]

\* Mutant: a zero counts as written when it is claimed.
WrittenWhenClaimed(before, after, o) ==
    o.stop_written \/ (after.bus.active /\ after.bus.owner = STOP /\ after.sending = "ZERO")

\* actuator_mobile_output_completed
ZeroWritten(before, after, o) ==
    o.stop_written \/ (/\ after.receipt # before.receipt
                       /\ after.receipt.kind = STOP /\ after.receipt.packet = "ZERO")

\* MobileServoOutput_Poll
LeftPass(trouble, due, outcome) ==
    /\ turn = "LEFT"
    /\ turn' = "RIGHT"
    /\ \E polled \in {OutputPolled(trouble, due)} :
       \E pass \in {Pass(polled.router, uart["LEFT"].phase, now, polled.window, outcome)} :
          /\ uart' = [uart EXCEPT !["LEFT"] = Line(@, pass)]
          /\ output' = [stop_requested |-> polled.stop_requested \/ ~pass.ok,
                        stop_written |-> ZeroWritten(left, pass.router, output)]
          /\ left' = IF pass.ok THEN pass.router ELSE OutputStopped(pass.router, output')
    /\ UNCHANGED <<robot, now, right, stop, unpolled, sent, seenAfter>>

\* MobileHoldOutput_Poll; a failure is latched in the router.
RightPass(outcome) ==
    /\ turn = "RIGHT"
    /\ turn' = "BOARD"
    /\ \E pass \in {Pass(Polled(right, now), uart["RIGHT"].phase, now, 0, outcome)} :
          /\ uart' = [uart EXCEPT !["RIGHT"] = Line(@, pass)]
          /\ right' = IF pass.ok THEN pass.router
                      ELSE [pass.router EXCEPT !.inhibited = TRUE, !.bus = Faulted(@)]
    /\ UNCHANGED <<robot, now, left, output, stop, unpolled, sent, seenAfter>>

-----------------------------------------------------------------------------
SentWith(side, u) ==
    [zero |-> sent.zero \/ (u.fresh /\ u.packet = "ZERO"),
     leftHold |-> sent.leftHold \/ (u.fresh /\ u.packet = "LEFT_HOLD" /\ sent.zero),
     rightHold |-> sent.rightHold \/ (u.fresh /\ u.packet = "RIGHT_HOLD" /\ side = "RIGHT"),
     still |-> IF side = "LEFT" /\ u.packet \in {"ZERO", "VELOCITY"}
               THEN u.packet = "ZERO" ELSE sent.still,
     ago |-> 0]

\* A transmission goes out whole, or fails with any part of it on the line.
TransmissionEnds(side) ==
    LET u == uart[side]
    IN  /\ u.phase = "SENDING"
        /\ \/ /\ uart' = [uart EXCEPT ![side].phase = "DONE"]
              /\ sent' = SentWith(side, u)
           \/ /\ robot.faults
              /\ uart' = [uart EXCEPT ![side].phase = "ERROR"]
              /\ sent' \in {sent, [sent EXCEPT !.still = @ /\ u.packet # "VELOCITY"]}
        /\ UNCHANGED <<robot, now, left, right, output, stop, turn, unpolled, seenAfter>>

\* Without faults a packet is on the line for less than a tick.
Advance ==
    /\ unpolled < MaxOutage
    /\ robot.faults \/ \A side \in Side : uart[side].phase # "SENDING"
    /\ now' = Plus(now, 1)
    /\ unpolled' = unpolled + 1
    /\ sent' = [sent EXCEPT !.ago = IF @ > MaxAge \/ stop.state = "IDLE" THEN @ ELSE @ + 1]
    /\ UNCHANGED <<robot, left, right, uart, output, stop, turn, seenAfter>>

Next ==
    \/ \E valid \in robot.arm_feedback : RequestStop(valid)
    \/ \E age \in 0 .. MaxAge, good \in BOOLEAN : Board(age, good)
    \/ \E trouble \in {FALSE, robot.faults}, due \in BOOLEAN, outcome \in Outcome :
          LeftPass(trouble, due, outcome)
    \/ \E outcome \in Outcome : RightPass(outcome)
    \/ \E side \in Side : TransmissionEnds(side)
    \/ Advance

Spec == Init /\ [][Next]_vars

\* The clock runs, the main loop goes round, and no UART is taken by its other
\* owners for ever.  Transmissions end; where they fail, their end may be lost.
FairSpec ==
    /\ Spec
    /\ WF_vars(\E age \in 0 .. MaxAge, good \in BOOLEAN : Board(age, good))
    /\ WF_vars(\E valid \in robot.arm_feedback : output.stop_requested /\ RequestStop(valid))
    /\ WF_vars(\E outcome \in Outcome : LeftPass(FALSE, FALSE, outcome))
    /\ SF_vars(LeftPass(FALSE, FALSE, "LAUNCHED"))
    /\ WF_vars(\E outcome \in Outcome : RightPass(outcome))
    /\ SF_vars(RightPass("LAUNCHED"))
    /\ \A side \in Side : WF_vars(~robot.faults /\ TransmissionEnds(side))
    /\ SF_vars(Advance)

-----------------------------------------------------------------------------
\* A stop is confirmed only when, since it began, a zero velocity went out
\* whole, then the hold of the left arm, and the hold of the right arm, and the
\* evidence that keeps it confirmed was observed after the last of them left.
ConfirmedMeansStopped ==
    stop.state = "CONFIRMED" =>
        sent.zero /\ sent.leftHold /\ sent.rightHold /\ seenAfter

\* While the mobile output says its zero is written, no velocity went out
\* after the zero, not even in a transmission that failed.
WrittenMeansStill == output.stop_written => sent.still

\* Once a stop began, nothing but stop packets is launched on either bus.
NoMotionOnceStopped ==
    [][stop.state # "IDLE" =>
        \A side \in Side :
            (uart[side].phase # "SENDING" /\ uart'[side].phase = "SENDING")
                => uart'[side].packet # "VELOCITY"]_vars

\* The base of a robot that stops gets its zero velocity, though no arm can be
\* read, however often the packet expires behind the other owners of the UART
\* or behind a transmission whose end is lost; only a fault of the bus keeps
\* it back.
ZeroGetsOut == stop.state # "IDLE" ~> (output.stop_written \/ left.bus.faulted)

\* With transmissions that work, a stop that knows where the arms are sends
\* everything it has to send, unless the tokens of the bus run out.
StopIsCarriedOut ==
    (~robot.faults /\ stop.state # "IDLE" /\ stop.arm_feedback_valid)
        ~> (stop.actions_completed \/ (left.bus.faulted /\ left.bus.token = MaxToken))
=============================================================================
