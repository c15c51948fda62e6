---------------------------- MODULE MobileDrive ----------------------------
(***************************************************************************)
(* Driving the wheels: the host's frames, the supervisor, the mobile       *)
(* output (mobile_output.c, mobile_servo_output.c) with its router and     *)
(* UART, and the evidence the reader publishes (mobile_feedback.c,         *)
(* mobile_servo_feedback.c), as the main loop runs them in turn.           *)
(* Commands expire on the millisecond clock and packets are queued on the  *)
(* microsecond clock, whose phases are not known to each other.            *)
(* The lift stands; the rest of a stop of the whole robot is SystemStop's. *)
(***************************************************************************)
EXTENDS OutputPass, MobileRules

CONSTANTS
    PerMs,        \* microseconds in a millisecond
    JobLifetime,  \* job_lifetime_us
    JobBudget,    \* wheels_budget_us, stop_budget_us
    SampleTimeout,  \* sample_timeout_ms of the reader
    MaxOutage     \* longest time for one turn of the main loop

\* A packet sets the wheels; until is when its command expires.
Velocity == [moving: BOOLEAN, until: Tick]

ASSUME MobileDriveAssumption ==
    /\ Packet = Velocity /\ WorkCount = 2
    /\ {PerMs, MaxOutage} \subseteq Nat \ {0} /\ 2 * MaxOutage < HalfTurn
    /\ JobBudget \in Budget /\ JobLifetime \in JobBudget + 1 .. HalfTurn - 1
    /\ SampleTimeout \in 1 .. FeedbackTimeout

WHEELS == 1

Zero == [moving |-> FALSE, until |-> 0]

VARIABLES
    us,           \* Timebase_NowUs()
    ms,           \* HAL_GetTick()
    sub,          \* microseconds since the last HAL tick
    supervisor,   \* actuator_mobile_supervisor_t
    output,       \* the stop latch of the mobile output
    router,       \* its router
    uart,         \* what the left UART does
    readerFault,  \* the reader has failed
    turn,         \* the part of the main loop that runs next
    unpolled,     \* time since the main loop started this turn
    wheels,       \* history: may the wheels be turning, by what went out
    evidenceAge   \* history: age of the supervisor's evidence, if any

vars == <<us, ms, sub, supervisor, output, router, uart, readerFault, turn, unpolled,
          wheels, evidenceAge>>

TypeOK ==
    /\ {us, ms} \subseteq Tick /\ sub \in 0 .. PerMs - 1
    /\ supervisor \in Supervisor
    /\ output \in [stop_requested: BOOLEAN, stop_written: BOOLEAN]
    /\ router \in Router
    /\ uart \in [phase: Phase, packet: Packet]
    /\ {readerFault, wheels} \subseteq BOOLEAN
    /\ turn \in {"SERVICE", "HOST", "OUTPUT", "FEEDBACK"}
    /\ unpolled \in 0 .. MaxOutage
    /\ evidenceAge \in 0 .. FeedbackTimeout

\* The output has been configured, on evidence that the axes stand still, some
\* time after the boot: both clocks are about to wrap.
Init ==
    /\ us = TickModulus - 1 /\ ms = TickModulus - 1 /\ sub \in 0 .. PerMs - 1
    /\ \E good \in BOOLEAN :
          supervisor = Configured([observed |-> ms, good |-> good, still |-> TRUE])
    /\ output = [stop_requested |-> FALSE, stop_written |-> FALSE]
    /\ router = [RouterInit EXCEPT !.sending = Zero, !.receipt.packet = Zero]
    /\ uart = [phase |-> "IDLE", packet |-> Zero]
    /\ readerFault = FALSE
    /\ turn = "SERVICE" /\ unpolled = 0
    /\ wheels = FALSE
    /\ evidenceAge = 0

-----------------------------------------------------------------------------
(***************************************************************************)
(* The host.  It may send any frame, and its frames may be late.           *)
(***************************************************************************)
\* BinaryControl_Service
Service ==
    /\ turn = "SERVICE"
    /\ turn' = "HOST"
    /\ supervisor' = PollSupervisor(supervisor, ms)
    /\ UNCHANGED <<us, ms, sub, output, router, uart, readerFault, unpolled, wheels,
                   evidenceAge>>

\* Mutant: whether the output has stopped is not asked.
CommandAllowedIfSound == ~router.bus.faulted

\* MobileServoOutput_CommandAllowed
CommandAllowed == ~output.stop_requested /\ ~router.inhibited /\ ~router.bus.faulted

\* A MOBILE_REQUEST of Host_ApplyBinaryFrame; a stop is taken in any case.  A
\* query of the status does no more than a frame that comes too late.
HandleFrame(f) ==
    /\ turn = "HOST"
    /\ f.op = "STOP" \/ CommandAllowed
    /\ supervisor' = Applied(supervisor, f, ms)
    /\ UNCHANGED <<us, ms, sub, output, router, uart, readerFault, turn, unpolled, wheels,
                   evidenceAge>>

\* MobileServoOutput_Stop, as a stop of the whole robot begins.
SafeStop ==
    /\ turn = "HOST" /\ ~output.stop_requested
    /\ supervisor' = Latched(supervisor)
    /\ output' = [output EXCEPT !.stop_requested = TRUE]
    /\ router' = OutputStopped(router, output)
    /\ UNCHANGED <<us, ms, sub, uart, readerFault, turn, unpolled, wheels, evidenceAge>>

EndHost ==
    /\ turn = "HOST"
    /\ turn' = "OUTPUT"
    /\ unpolled' = 0
    /\ UNCHANGED <<us, ms, sub, supervisor, output, router, uart, readerFault, wheels,
                   evidenceAge>>

-----------------------------------------------------------------------------
(***************************************************************************)
(* The output.                                                             *)
(***************************************************************************)
\* What the bus schedule gives a poll: a slot was missed, or whether the wheels
\* are due, and a window that is wide enough for a packet or is not.
Window ==
    {[missed |-> TRUE, due |-> FALSE, available |-> 0]}
        \cup [missed: {FALSE}, due: BOOLEAN, available: {0, JobBudget}]

\* Mutant: the phase between the two clocks is left out.
LifeInPhase(s) == Remaining(s, ms) * PerMs

\* How long the command is good for, on the microsecond clock: a millisecond is
\* left for the phase between the two clocks.
Life(s) == (Remaining(s, ms) - 1) * PerMs

\* How long a packet that is queued now may wait.
Lifetime(s) ==
    IF s.state = "ACTIVE" /\ Life(s) < JobLifetime THEN Life(s) ELSE JobLifetime

\* Mutant: a zero that expired is not queued again.
QueueZeroOnce(r) ==
    IF output.stop_requested THEN r
    ELSE Submitted(r, STOP, Zero, us, Plus(us, JobLifetime), JobBudget)

\* queue_stop
QueueZero(r) ==
    IF output.stop_written \/ r.jobs[STOP].pending \/ (r.bus.active /\ r.bus.owner = STOP)
    THEN r ELSE Submitted(r, STOP, Zero, us, Plus(us, JobLifetime), JobBudget)

\* The packet that sets the wheels as the supervisor wants them.
Target(s) == IF s.moving THEN [moving |-> TRUE, until |-> Plus(s.command_ms, s.valid_for)]
             ELSE Zero

\* Why a poll of the output stops it: a missed slot or deadline, a bus that
\* failed, a supervisor that stopped, a command about to expire.
MustStop(s, window, r, swept) ==
    \/ window.missed \/ r.jobs[WHEELS] # swept.jobs[WHEELS]
    \/ swept.bus.faulted \/ swept.inhibited \/ swept.bus.stop_pending
    \/ s.state = "STOP_LATCHED"
    \/ s.state = "ACTIVE" /\ Life(s) <= 0
    \/ window.due /\ Enabled(s) /\ Lifetime(s) <= JobBudget

\* actuator_mobile_output_poll; it leaves what there is of the window.
OutputPolled(window) ==
    LET s == PollSupervisor(supervisor, ms)
        polled == Polled(router, us)
        swept == Swept(polled, us)
        stops == output.stop_requested \/ MustStop(s, window, polled, swept)
    IN  IF stops
        THEN [supervisor |-> Latched(s), available |-> 0, stop_requested |-> TRUE,
              router |-> QueueZero(OutputStopped(swept, output))]
        ELSE [supervisor |-> s, available |-> window.available, stop_requested |-> FALSE,
              router |-> IF window.due /\ Enabled(s)
                         THEN Submitted(swept, WHEELS, Target(s), us,
                                        Plus(us, Lifetime(s)), JobBudget)
                         ELSE swept]

\* actuator_mobile_output_completed
ZeroWritten(after) ==
    output.stop_written \/ (after.receipt # router.receipt /\ after.receipt.kind = STOP)

\* MobileServoOutput_Poll
OutputTurn(window, outcome) ==
    /\ turn = "OUTPUT"
    /\ turn' = "FEEDBACK"
    /\ \E polled \in {OutputPolled(window)} :
       \E pass \in {Pass(polled.router, uart.phase, us, polled.available, outcome)} :
          /\ uart' = IF pass.launched
                     THEN [phase |-> "SENDING", packet |-> pass.router.sending]
                     ELSE [uart EXCEPT !.phase = pass.phase]
          /\ output' = [stop_requested |-> polled.stop_requested \/ ~pass.ok,
                        stop_written |-> ZeroWritten(pass.router)]
          /\ router' = IF pass.ok THEN pass.router ELSE OutputStopped(pass.router, output')
          /\ supervisor' = IF pass.ok THEN polled.supervisor ELSE Latched(polled.supervisor)
    /\ UNCHANGED <<us, ms, sub, readerFault, unpolled, wheels, evidenceAge>>

\* A transmission goes out whole, or fails with any part of it on the line.
TransmissionEnds ==
    /\ uart.phase = "SENDING"
    /\ \/ uart' = [uart EXCEPT !.phase = "DONE"] /\ wheels' = uart.packet.moving
       \/ uart' = [uart EXCEPT !.phase = "ERROR"] /\ wheels' \in {wheels, uart.packet.moving}
    /\ UNCHANGED <<us, ms, sub, supervisor, output, router, readerFault, turn, unpolled,
                   evidenceAge>>

-----------------------------------------------------------------------------
(***************************************************************************)
(* The evidence.                                                           *)
(***************************************************************************)
Invalidated(s) == [s EXCEPT !.feedback.good = FALSE]

\* actuator_mobile_feedback_reader_poll, on the supervisor: evidence that grows
\* old is spoilt before the clock can make it look new again.
Stale(s) ==
    IF Elapsed(ms, s.feedback.observed) >= SampleTimeout
    THEN Invalidated(s) ELSE s

\* actuator_mobile_feedback_publish: no sample, no trust in the samples there
\* are, or the state of all axes, as old as the oldest of its parts.
Publish(incomplete) ==
    LET s == Stale(supervisor)
    IN  supervisor' = PollSupervisor(IF incomplete THEN Invalidated(s) ELSE s, ms)

Sampled(age, good, still) ==
    Observed(PollSupervisor(Stale(supervisor), ms), ms,
             [observed |-> Plus(ms, -age), good |-> good, still |-> still])

ReaderTurn ==
    /\ turn = "FEEDBACK" /\ ~readerFault
    /\ turn' = "SERVICE"
    /\ \/ \E incomplete \in BOOLEAN : Publish(incomplete) /\ UNCHANGED evidenceAge
       \/ \E age \in 0 .. SampleTimeout - 1, good \in BOOLEAN, still \in BOOLEAN :
             /\ supervisor' = Sampled(age, good, still)
             /\ evidenceAge' = IF supervisor'.feedback.observed # supervisor.feedback.observed
                               THEN age ELSE evidenceAge
    /\ UNCHANGED <<us, ms, sub, output, router, uart, readerFault, unpolled, wheels>>

\* fault of the reader, in this turn and every one after it
ReaderFails ==
    /\ turn = "FEEDBACK"
    /\ turn' = "SERVICE"
    /\ readerFault' = TRUE
    /\ supervisor' = Latched(Invalidated(supervisor))
    /\ output' = [output EXCEPT !.stop_requested = TRUE]
    /\ router' = OutputStopped(router, output)
    /\ UNCHANGED <<us, ms, sub, uart, unpolled, wheels, evidenceAge>>

-----------------------------------------------------------------------------
Advance ==
    /\ unpolled < MaxOutage
    /\ us' = Plus(us, 1)
    /\ sub' = (sub + 1) % PerMs
    /\ IF sub' = 0
       THEN ms' = Plus(ms, 1)
            /\ evidenceAge' = IF evidenceAge < FeedbackTimeout THEN evidenceAge + 1
                              ELSE evidenceAge
       ELSE UNCHANGED <<ms, evidenceAge>>
    /\ unpolled' = unpolled + 1
    /\ UNCHANGED <<supervisor, output, router, uart, readerFault, turn, wheels>>

\* Frames with the time they still have, which only a velocity keeps; one that
\* has none stands for all that are late or too far ahead.
Arriving ==
    {f \in Frame : /\ Elapsed(f.until, ms) \in
                       IF f.op = "VELOCITY" THEN 1 .. CommandTimeout ELSE {1}
                   /\ f.op = "ARM" => f.sequence = 0
                   /\ f.op # "VELOCITY" => ~f.moving}
    \cup {[op |-> "STOP", session |-> 1, sequence |-> 0, until |-> ms, moving |-> FALSE]}

Next ==
    \/ Service
    \/ \E f \in Arriving : HandleFrame(f)
    \/ SafeStop
    \/ EndHost
    \/ \E window \in Window, outcome \in {"LAUNCHED", "BUSY", "FAILED"} : OutputTurn(window, outcome)
    \/ TransmissionEnds
    \/ ReaderTurn
    \/ ReaderFails
    \/ Advance

Spec == Init /\ [][Next]_vars

\* The clocks run, the main loop goes round, and again and again a slot of the
\* wheels falls into a window that is wide enough, with the UART free.  Nobody
\* promises that a transmission ends: its budget does.
FairSpec ==
    /\ Spec
    /\ SF_vars(Advance)
    /\ WF_vars(Service) /\ WF_vars(EndHost)
    /\ SF_vars(OutputTurn([missed |-> FALSE, due |-> TRUE, available |-> JobBudget], "LAUNCHED"))
    /\ WF_vars(ReaderTurn \/ ReaderFails)

-----------------------------------------------------------------------------
\* A velocity is put on the line only if, though it takes its whole budget, it
\* is out before its command expires at the host's own deadline, whichever
\* phase the two clocks have and however long it was queued.
MovesInTime ==
    [][(uart.phase # "SENDING" /\ uart'.phase = "SENDING" /\ uart'.packet.moving) =>
         LET left == Elapsed(uart'.packet.until, ms)
         IN  left <= CommandTimeout /\ JobBudget <= left * PerMs - sub]_vars

\* The base is armed, and its wheels are set going, only on evidence that is
\* really younger than the timeout, not on what a wrapped clock makes look young.
MotionRestsOnEvidence ==
    [][(\/ supervisor'.session # supervisor.session
        \/ uart.phase # "SENDING" /\ uart'.phase = "SENDING" /\ uart'.packet.moving) =>
         evidenceAge < FeedbackTimeout]_vars

\* "A host ARM cannot bypass this output latch": once the output has stopped,
\* no frame and no evidence enables the supervisor.
LatchHolds == output.stop_requested => supervisor.state = "STOP_LATCHED"

\* When the host falls silent, or its numbers run out, the wheels get a zero,
\* unless the bus fails.
MotionEnds == wheels ~> (~wheels \/ router.bus.faulted)
=============================================================================
