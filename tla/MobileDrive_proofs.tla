------------------------- MODULE MobileDrive_proofs -------------------------
(***************************************************************************)
(* Proofs about driving the wheels, for every value of the constants, any  *)
(* phase of the two clocks, and whatever the host and the line do.         *)
(***************************************************************************)
EXTENDS MobileDrive, BusRules_proofs

\* What the supervisor and the latch are, and that the latch holds.
Inductive ==
    /\ ms \in Tick
    /\ supervisor \in Supervisor
    /\ output \in [stop_requested: BOOLEAN, stop_written: BOOLEAN]
    /\ LatchHolds

-----------------------------------------------------------------------------
\* Latching a supervisor.
LEMMA LatchedEffect ==
    ASSUME NEW s \in Supervisor
    PROVE  Latched(s) \in Supervisor /\ Latched(s).state = "STOP_LATCHED"
BY DEF Latched, Supervisor

\* A poll keeps a supervisor or latches it.
LEMMA SupervisorPollEffect ==
    ASSUME NEW s \in Supervisor, NEW t \in Tick
    PROVE  /\ PollSupervisor(s, t) \in Supervisor
           /\ s.state = "STOP_LATCHED" => PollSupervisor(s, t).state = "STOP_LATCHED"
BY LatchedEffect DEF PollSupervisor

\* Evidence never enables a supervisor.
LEMMA ObservedEffect ==
    ASSUME NEW s \in Supervisor, NEW t \in Tick, NEW e \in Evidence
    PROVE  /\ Observed(s, t, e) \in Supervisor
           /\ s.state = "STOP_LATCHED" => Observed(s, t, e).state = "STOP_LATCHED"
<1> DEFINE p == PollSupervisor(s, t)
           q == [p EXCEPT !.feedback = e]
<1>1. p \in Supervisor /\ (s.state = "STOP_LATCHED" => p.state = "STOP_LATCHED")
  BY SupervisorPollEffect
<1> HIDE DEF p
<1>2. q \in Supervisor /\ q.state = p.state
  BY <1>1 DEF Supervisor
<1> HIDE DEF q
<1>3. /\ PollSupervisor(q, t) \in Supervisor
      /\ q.state = "STOP_LATCHED" => PollSupervisor(q, t).state = "STOP_LATCHED"
  BY <1>2, SupervisorPollEffect
<1>4. Observed(s, t, e) \in {p, PollSupervisor(q, t)}
  BY DEF Observed, p, q
<1> QED
  BY <1>1, <1>2, <1>3, <1>4

\* A frame leaves a supervisor, and a stop leaves a stopped one stopped.
LEMMA AppliedEffect ==
    ASSUME NEW s \in Supervisor, NEW t \in Tick, NEW f \in Frame
    PROVE  /\ Applied(s, f, t) \in Supervisor
           /\ (s.state = "STOP_LATCHED" /\ f.op = "STOP")
                => Applied(s, f, t).state = "STOP_LATCHED"
<1> DEFINE p == PollSupervisor(s, t)
           inTime == Elapsed(f.until, t) \in 1 .. CommandTimeout
<1>1. p \in Supervisor /\ (s.state = "STOP_LATCHED" => p.state = "STOP_LATCHED")
  BY SupervisorPollEffect
<1>2. f.op \in {"ARM", "VELOCITY", "STOP"} /\ f.session \in Session
      /\ f.sequence \in Sequence /\ f.moving \in BOOLEAN
  BY DEF Frame
<1>3. Applied(s, f, t) =
        CASE ~inTime -> p
          [] inTime /\ f.op = "ARM" -> Armed(p, f.session, t)
          [] inTime /\ f.op = "VELOCITY" -> Commanded(p, f, t)
          [] OTHER -> IF p.state # "DISABLED" /\ Fresher(p, f)
                      THEN Numbered(Latched(p), f) ELSE p
  BY DEF Applied
<1> HIDE DEF p
<1>4. Armed(p, f.session, t) \in Supervisor
  BY <1>1, <1>2 DEF Armed, Supervisor
<1>5. ASSUME inTime PROVE Commanded(p, f, t) \in Supervisor
  <2>1. Elapsed(f.until, t) \in 0 .. CommandTimeout
    BY <1>5, MobileAssumption, HalfTurnIsLess
  <2> QED
    BY <2>1, <1>1, <1>2 DEF Commanded, Numbered, Supervisor
<1>6. /\ Numbered(Latched(p), f) \in Supervisor
      /\ Numbered(Latched(p), f).state = "STOP_LATCHED"
  BY <1>1, <1>2, LatchedEffect DEF Numbered, Supervisor
<1>7. CASE ~inTime
  BY <1>1, <1>3, <1>7
<1>8. CASE inTime /\ f.op = "ARM"
  BY <1>3, <1>4, <1>8
<1>9. CASE inTime /\ f.op = "VELOCITY"
  BY <1>3, <1>5, <1>9
<1>10. CASE inTime /\ f.op = "STOP"
  BY <1>1, <1>3, <1>6, <1>10
<1> QED
  BY <1>2, <1>7, <1>8, <1>9, <1>10

\* The reader spoils evidence and does nothing else to a supervisor.
LEMMA ReaderEffect ==
    ASSUME NEW s \in Supervisor
    PROVE  /\ Invalidated(s) \in Supervisor /\ Invalidated(s).state = s.state
           /\ Stale(s) \in Supervisor /\ Stale(s).state = s.state
<1>1. Invalidated(s) \in Supervisor /\ Invalidated(s).state = s.state
  BY DEF Invalidated, Supervisor, Evidence
<1> QED
  BY <1>1 DEF Stale

-----------------------------------------------------------------------------
\* What the host sends are frames.
LEMMA ArrivingIsFrame ==
    ASSUME NEW f \in Arriving, ms \in Tick
    PROVE  f \in Frame
<1>1. CASE f \in Frame
  BY <1>1
<1>2. CASE f = [op |-> "STOP", session |-> 1, sequence |-> 0, until |-> ms, moving |-> FALSE]
  <2>1. 1 \in Session \ {0} /\ 0 \in Sequence
    BY MobileAssumption DEF Session, Sequence
  <2> QED
    BY <1>2, <2>1 DEF Frame
<1> QED
  BY <1>1, <1>2 DEF Arriving

\* The output has just been configured: nothing has stopped.
LEMMA InductiveInit == Init => Inductive
<1> SUFFICES ASSUME Init PROVE Inductive
  OBVIOUS
<1>1. ms \in Tick
  BY TickModulusAssumption DEF Init, Tick
<1>2. PICK good \in BOOLEAN :
        supervisor = Configured([observed |-> ms, good |-> good, still |-> TRUE])
  BY DEF Init
<1>3. supervisor \in Supervisor
  BY <1>1, <1>2, MobileAssumption, TickModulusAssumption
     DEF Configured, Supervisor, Evidence, Session, Sequence, Tick
<1> QED
  BY <1>1, <1>3 DEF Init, Inductive, LatchHolds

\* No step enables the supervisor of an output that has stopped.
LEMMA InductiveStep == Inductive /\ [Next]_vars => Inductive'
<1> SUFFICES ASSUME Inductive, [Next]_vars PROVE Inductive'
  OBVIOUS
<1> USE DEF Inductive
<1>1. CASE Service
  BY <1>1, SupervisorPollEffect DEF Service, LatchHolds
<1>2. ASSUME NEW f \in Arriving, HandleFrame(f) PROVE Inductive'
  <2>1. f \in Frame
    BY ArrivingIsFrame
  <2> QED
    BY <2>1, <1>2, AppliedEffect DEF HandleFrame, CommandAllowed, LatchHolds
<1>3. CASE SafeStop
  BY <1>3, LatchedEffect DEF SafeStop, LatchHolds
<1>4. CASE EndHost
  BY <1>4 DEF EndHost, LatchHolds
<1>5. ASSUME NEW window \in Window, NEW outcome \in {"LAUNCHED", "BUSY", "FAILED"},
             OutputTurn(window, outcome)
      PROVE  Inductive'
  <2> DEFINE polled == OutputPolled(window)
             pass == Pass(polled.router, uart.phase, us, polled.available, outcome)
             s == PollSupervisor(supervisor, ms)
  <2>1. s \in Supervisor /\ Latched(s) \in Supervisor /\ Latched(s).state = "STOP_LATCHED"
    BY SupervisorPollEffect, LatchedEffect
  <2>2. \/ polled.stop_requested = TRUE /\ polled.supervisor = Latched(s)
        \/ polled.stop_requested = FALSE /\ polled.supervisor = s
    BY DEF OutputPolled
  <2>3. /\ output' = [stop_requested |-> polled.stop_requested \/ ~pass.ok,
                      stop_written |-> ZeroWritten(pass.router)]
        /\ supervisor' = IF pass.ok THEN polled.supervisor ELSE Latched(polled.supervisor)
        /\ ms' = ms
    BY <1>5 DEF OutputTurn
  <2> HIDE DEF polled, pass, s
  <2>4. polled.supervisor \in Supervisor
    BY <2>1, <2>2
  <2>5. supervisor' \in Supervisor
    BY <2>3, <2>4, LatchedEffect
  <2>6. output' \in [stop_requested: BOOLEAN, stop_written: BOOLEAN]
    BY <2>3 DEF ZeroWritten
  <2>7. LatchHolds'
    BY <2>1, <2>2, <2>3, <2>4, LatchedEffect DEF LatchHolds
  <2> QED
    BY <2>3, <2>5, <2>6, <2>7
<1>6. CASE TransmissionEnds
  BY <1>6 DEF TransmissionEnds, LatchHolds
<1>7. CASE ReaderTurn
  <2> DEFINE st == Stale(supervisor)
  <2>1. st \in Supervisor /\ st.state = supervisor.state
    BY ReaderEffect
  <2>2. CASE \E incomplete \in BOOLEAN : Publish(incomplete)
    <3>1. \E t \in Supervisor :
            t.state = supervisor.state /\ supervisor' = PollSupervisor(t, ms)
      BY <2>1, <2>2, ReaderEffect DEF Publish
    <3> QED
      BY <3>1, <1>7, SupervisorPollEffect DEF ReaderTurn, LatchHolds
  <2>3. ASSUME NEW age \in 0 .. SampleTimeout - 1, NEW good \in BOOLEAN, NEW still \in BOOLEAN,
               supervisor' = Sampled(age, good, still)
        PROVE  Inductive'
    <3> DEFINE e == [observed |-> Plus(ms, -age), good |-> good, still |-> still]
               q == PollSupervisor(st, ms)
    <3>1. e \in Evidence
      <4>1. -age \in Int /\ ms \in Int
        BY <2>3, MobileDriveAssumption, MobileAssumption, HalfTurnIsLess DEF Tick
      <4> QED
        BY <4>1, ReadingsInTick DEF Evidence
    <3>2. q \in Supervisor /\ (st.state = "STOP_LATCHED" => q.state = "STOP_LATCHED")
      BY <2>1, SupervisorPollEffect
    <3>3. supervisor' = Observed(q, ms, e)
      BY <2>3 DEF Sampled
    <3> HIDE DEF e, q, st
    <3>4. supervisor' \in Supervisor
          /\ (q.state = "STOP_LATCHED" => supervisor'.state = "STOP_LATCHED")
      BY <3>1, <3>2, <3>3, ObservedEffect
    <3> QED
      BY <2>1, <3>2, <3>4, <1>7 DEF ReaderTurn, LatchHolds
  <2>4. \/ \E incomplete \in BOOLEAN : Publish(incomplete)
        \/ \E age \in 0 .. SampleTimeout - 1, good \in BOOLEAN, still \in BOOLEAN :
              supervisor' = Sampled(age, good, still)
    BY <1>7, Zenon DEF ReaderTurn
  <2> QED
    BY <2>2, <2>3, <2>4
<1>8. CASE ReaderFails
  <2>1. supervisor' \in Supervisor /\ supervisor'.state = "STOP_LATCHED"
    BY <1>8, ReaderEffect, LatchedEffect DEF ReaderFails
  <2> QED
    BY <2>1, <1>8 DEF ReaderFails, LatchHolds
<1>9. CASE Advance
  <2>1. ms' \in Tick
    <3>1. ms' = Plus(ms, 1) \/ ms' = ms
      BY <1>9 DEF Advance
    <3>2. ms \in Int /\ 1 \in Int
      BY TickModulusAssumption DEF Tick
    <3>3. Plus(ms, 1) \in Tick
      BY <3>2, ReadingsInTick
    <3> QED
      BY <3>1, <3>3
  <2> QED
    BY <2>1, <1>9 DEF Advance, LatchHolds
<1>10. CASE UNCHANGED vars
  BY <1>10 DEF vars, LatchHolds
<1> QED
  BY <1>1, <1>2, <1>3, <1>4, <1>5, <1>6, <1>7, <1>8, <1>9, <1>10 DEF Next

\* "A host ARM cannot bypass this output latch": in every behaviour, while the
\* output has stopped the supervisor is latched, so nothing can be commanded.
THEOREM LatchAlwaysHolds == Spec => []LatchHolds
<1>1. Inductive => LatchHolds
  BY DEF Inductive
<1> QED
  BY <1>1, InductiveInit, InductiveStep, PTL DEF Spec

-----------------------------------------------------------------------------
(***************************************************************************)
(* The inductive invariant.                                                *)
(***************************************************************************)
\* Time since the queue was last swept, and since the reader last spoilt old
\* evidence, at most.
Unswept == IF turn = "OUTPUT" THEN MaxOutage + unpolled ELSE unpolled

Unread == IF turn \in {"OUTPUT", "FEEDBACK"} THEN MaxOutage + unpolled ELSE unpolled

\* Microseconds until the millisecond clock has gone on by so much.
Micros(millis, phase) == millis * PerMs - phase

\* A queued velocity is dropped from the queue before its command expires, and
\* what is found late by a sweep has not been late for long.
GoodFor(job, u, m, phase, unswept) ==
    LET left == Ahead(job.packet.until, m)
    IN  job.pending /\ job.packet.moving =>
          /\ Ahead(job.deadline, u) + unswept > 0
          /\ Ahead(job.deadline, u) <= Micros(left, phase)
          /\ left <= CommandTimeout

\* The queue holds zeros to stop with, and packets for the wheels.
Queued(r) ==
    /\ r.jobs[STOP].pending => r.jobs[STOP].packet = Zero
    /\ r.jobs[WHEELS].pending => r.jobs[WHEELS].budget = JobBudget

\* Only a supervisor with a command wants the wheels to move.
Commands(s) == s.moving => s.state = "ACTIVE"

\* Evidence that is trusted is as old as the clock says.
Dated(evidence, m, age, unread) ==
    LET old == Elapsed(m, evidence.observed)
    IN  evidence.good =>
          /\ age = IF old < FeedbackTimeout THEN old ELSE FeedbackTimeout
          /\ old < SampleTimeout + unread

Driven ==
    /\ TypeOK
    /\ Ordered(router) /\ (uart.phase # "IDLE" => router.bus.active)
    /\ Queued(router) /\ Commands(supervisor)
    /\ router.jobs[WHEELS].pending => supervisor.state # "DISABLED"
    /\ GoodFor(router.jobs[WHEELS], us, ms, sub, Unswept)
    /\ Dated(supervisor.feedback, ms, evidenceAge, Unread)

-----------------------------------------------------------------------------
(***************************************************************************)
(* What the calls do to a supervisor.                                      *)
(***************************************************************************)
\* The supervisor goes on in its session: it is not disabled again, and wants
\* motion only on a command.
GoesOn(s, q) ==
    /\ q.session = s.session
    /\ s.state # "DISABLED" => q.state # "DISABLED"
    /\ Commands(s) => Commands(q)

LEMMA LatchGoesOn ==
    ASSUME NEW s \in Supervisor
    PROVE  /\ Latched(s) \in Supervisor /\ Latched(s).state = "STOP_LATCHED"
           /\ GoesOn(s, Latched(s)) /\ Latched(s).feedback = s.feedback
BY DEF Latched, Supervisor, GoesOn, Commands

\* A poll leaves a supervisor enabled only on evidence, and a command in force.
LEMMA PollGoesOn ==
    ASSUME NEW s \in Supervisor, NEW t \in Tick
    PROVE  LET q == PollSupervisor(s, t)
           IN  /\ q \in Supervisor /\ GoesOn(s, q) /\ q.feedback = s.feedback
               /\ Enabled(q) => /\ q = s /\ Healthy(s, t)
                                /\ s.state = "ACTIVE" => ~(Remaining(s, t) <= 0)
<1> DEFINE q == PollSupervisor(s, t)
           bad == Enabled(s) /\ (~Healthy(s, t) \/ (s.state = "ACTIVE" /\ Remaining(s, t) <= 0))
<1>1. q = IF bad THEN Latched(s) ELSE s
  BY DEF PollSupervisor
<1>2. GoesOn(s, s)
  BY DEF GoesOn
<1>3. CASE bad
  <2>1. q = Latched(s)
    BY <1>1, <1>3
  <2>2. ~Enabled(Latched(s))
    BY LatchGoesOn DEF Enabled
  <2> QED
    BY <2>1, <2>2, LatchGoesOn
<1>4. CASE ~bad
  BY <1>1, <1>2, <1>4, Zenon
<1> QED
  BY <1>3, <1>4

\* Evidence replaces what there is only if it is newer.
LEMMA ObservedGoesOn ==
    ASSUME NEW s \in Supervisor, NEW t \in Tick, NEW e \in Evidence
    PROVE  LET q == Observed(s, t, e)
           IN  /\ q \in Supervisor /\ GoesOn(s, q)
               /\ \/ q.feedback = s.feedback
                  \/ q.feedback = e /\ IsAfter(e.observed, s.feedback.observed)
<1> DEFINE p == PollSupervisor(s, t)
           f == [p EXCEPT !.feedback = e]
           old == \/ Elapsed(t, e.observed) >= FeedbackTimeout
                  \/ ~IsAfter(e.observed, p.feedback.observed)
           q == Observed(s, t, e)
<1>1. p \in Supervisor /\ GoesOn(s, p) /\ p.feedback = s.feedback
  BY PollGoesOn
<1>2. q = IF old THEN p ELSE PollSupervisor(f, t)
  BY DEF Observed
<1> HIDE DEF p
<1>3. f \in Supervisor /\ GoesOn(p, f) /\ f.feedback = e
  BY <1>1 DEF Supervisor, GoesOn, Commands
<1> HIDE DEF f
<1>4. LET g == PollSupervisor(f, t)
      IN  g \in Supervisor /\ GoesOn(f, g) /\ g.feedback = e
  BY <1>3, PollGoesOn
<1>5. CASE old
  <2>1. q = p
    BY <1>2, <1>5
  <2> QED
    BY <1>1, <2>1
<1>6. CASE ~old
  <2>1. q = PollSupervisor(f, t) /\ IsAfter(e.observed, s.feedback.observed)
    BY <1>1, <1>2, <1>6
  <2>2. GoesOn(s, q)
    BY <1>1, <1>3, <1>4, <2>1 DEF GoesOn
  <2> QED
    BY <1>4, <2>1, <2>2
<1> QED
  BY <1>5, <1>6

\* The reader spoils evidence, and in the end has left none that is old.
LEMMA ReaderGoesOn ==
    ASSUME NEW s \in Supervisor
    PROVE  /\ LET q == Invalidated(s)
              IN  /\ q \in Supervisor /\ GoesOn(s, q)
                  /\ q.feedback.observed = s.feedback.observed /\ ~q.feedback.good
           /\ LET q == Stale(s)
              IN  /\ q \in Supervisor /\ GoesOn(s, q)
                  /\ q.feedback.observed = s.feedback.observed
                  /\ q.feedback.good =>
                       /\ s.feedback.good
                       /\ ~(Elapsed(ms, s.feedback.observed) >= SampleTimeout)
<1>1. LET q == Invalidated(s)
      IN  /\ q \in Supervisor /\ GoesOn(s, q)
          /\ q.feedback.observed = s.feedback.observed /\ ~q.feedback.good
  BY DEF Invalidated, Supervisor, Evidence, GoesOn, Commands
<1>2. GoesOn(s, s)
  BY DEF GoesOn
<1>3. Stale(s) = IF Elapsed(ms, s.feedback.observed) >= SampleTimeout
                 THEN Invalidated(s) ELSE s
  BY DEF Stale
<1> QED
  BY <1>1, <1>2, <1>3

\* A frame leaves the evidence alone; it opens a session on healthy evidence
\* only.
LEMMA AppliedGoesOn ==
    ASSUME NEW s \in Supervisor, NEW t \in Tick, NEW f \in Frame
    PROVE  LET q == Applied(s, f, t)
           IN  /\ q.feedback = s.feedback
               /\ s.state # "DISABLED" => q.state # "DISABLED"
               /\ Commands(s) => Commands(q)
               /\ q.session # s.session => Healthy(s, t)
<1> DEFINE p == PollSupervisor(s, t)
           q == Applied(s, f, t)
           inTime == Elapsed(f.until, t) \in 1 .. CommandTimeout
<1>1. /\ p \in Supervisor /\ GoesOn(s, p) /\ p.feedback = s.feedback
  BY PollGoesOn
<1>2. f.op \in {"ARM", "VELOCITY", "STOP"}
  BY DEF Frame
<1>3. q = CASE ~inTime -> p
            [] inTime /\ f.op = "ARM" -> Armed(p, f.session, t)
            [] inTime /\ f.op = "VELOCITY" -> Commanded(p, f, t)
            [] OTHER -> IF p.state # "DISABLED" /\ Fresher(p, f)
                        THEN Numbered(Latched(p), f) ELSE p
  BY DEF Applied
<1> HIDE DEF p, q
<1>4. CASE q = p
  BY <1>1, <1>4 DEF GoesOn, q
<1>5. CASE inTime /\ f.op = "ARM" /\ q # p
  <2>1. q = Armed(p, f.session, t)
    BY <1>3, <1>5
  <2>2. /\ Healthy(p, t)
        /\ q = [p EXCEPT !.session = f.session, !.have_sequence = FALSE, !.state = "READY",
                         !.moving = FALSE]
    BY <1>5, <2>1, Zenon DEF Armed
  <2>3. q.feedback = p.feedback /\ q.state = "READY" /\ ~q.moving
    BY <1>1, <2>2 DEF Supervisor
  <2>4. Healthy(s, t)
    BY <1>1, <2>2 DEF Healthy
  <2> QED
    BY <1>1, <2>3, <2>4 DEF Commands, q
<1>6. CASE inTime /\ f.op = "VELOCITY" /\ q # p
  <2>1. q = [Numbered(p, f) EXCEPT !.moving = f.moving, !.command_ms = t,
                                   !.valid_for = Elapsed(f.until, t), !.state = "ACTIVE"]
    <3>1. q = Commanded(p, f, t)
      BY <1>3, <1>6
    <3> QED
      BY <1>6, <3>1, Zenon DEF Commanded
  <2>2. q.feedback = p.feedback /\ q.state = "ACTIVE" /\ q.session = p.session
    BY <1>1, <2>1 DEF Supervisor, Numbered
  <2> QED
    BY <1>1, <2>2 DEF Commands, GoesOn, q
<1>7. CASE inTime /\ f.op = "STOP" /\ q # p
  <2>1. q = Numbered(Latched(p), f)
    BY <1>3, <1>7
  <2>2. q.feedback = p.feedback /\ q.state = "STOP_LATCHED" /\ q.session = p.session
        /\ ~q.moving
    BY <1>1, <2>1 DEF Supervisor, Numbered, Latched
  <2> QED
    BY <1>1, <2>2 DEF Commands, GoesOn, q
<1>8. CASE ~inTime
  BY <1>3, <1>4, <1>8
<1> QED
  BY <1>2, <1>4, <1>5, <1>6, <1>7, <1>8

-----------------------------------------------------------------------------
(***************************************************************************)
(* Queued packets and the clocks.                                          *)
(***************************************************************************)
LEMMA DriveConstants ==
    /\ PerMs \in Nat /\ PerMs >= 1 /\ MaxOutage \in Nat /\ MaxOutage >= 1
    /\ HalfTurn \in Nat /\ 2 * MaxOutage < HalfTurn /\ 2 * HalfTurn <= TickModulus
    /\ JobBudget \in Budget /\ JobBudget \in Nat /\ JobBudget >= 1
    /\ JobLifetime \in Nat /\ JobLifetime > JobBudget /\ JobLifetime < HalfTurn
    /\ CommandTimeout \in Nat /\ CommandTimeout >= 1 /\ CommandTimeout < HalfTurn
    /\ FeedbackTimeout \in Nat /\ FeedbackTimeout >= 1 /\ FeedbackTimeout < HalfTurn
    /\ SampleTimeout \in Nat /\ SampleTimeout >= 1 /\ SampleTimeout <= FeedbackTimeout
    /\ TickModulus \in Nat
BY MobileDriveAssumption, MobileAssumption, TwoHalves, TickModulusAssumption DEF Budget

LEMMA DriveWork ==
    /\ Work = {STOP, WHEELS} /\ Motion = {WHEELS} /\ STOP # WHEELS
    /\ Packet = Velocity /\ Zero \in Packet /\ ~Zero.moving
<1>1. Work = 0 .. 1 /\ Motion = 1 .. 1
  BY MobileDriveAssumption DEF Work, Motion
<1>2. 0 \in Tick
  BY TickModulusAssumption DEF Tick
<1> QED
  BY <1>1, <1>2, MobileDriveAssumption DEF STOP, WHEELS, Zero, Velocity

LEMMA JobFields ==
    ASSUME NEW r \in Router, NEW k \in Work, r.jobs[k].pending
    PROVE  /\ r.jobs[k].packet \in Velocity /\ r.jobs[k].packet.until \in Tick
           /\ r.jobs[k].packet.moving \in BOOLEAN
           /\ r.jobs[k].deadline \in Tick /\ r.jobs[k].budget \in Budget
<1> DEFINE job == r.jobs[k]
<1>1. job \in Job /\ job.pending
  BY RouterTypes
<1> HIDE DEF job
<1>2. job \in [pending: {TRUE}, packet: Packet, deadline: Tick, budget: Budget]
  <2>1. job # NoJob
    BY <1>1 DEF NoJob
  <2> QED
    BY <1>1, <2>1 DEF Job
<1>3. job.packet \in Velocity /\ job.deadline \in Tick /\ job.budget \in Budget
  BY <1>2, DriveWork
<1>4. job.packet.until \in Tick /\ job.packet.moving \in BOOLEAN
  BY <1>3 DEF Velocity
<1> QED
  BY <1>3, <1>4 DEF job

\* A job that has not expired has more time than it takes.
LEMMA UnexpiredIsAhead ==
    ASSUME NEW job, job.deadline \in Tick, NEW t \in Tick, ~Expired(job, t), job.budget \in Budget
    PROVE  Ahead(job.deadline, t) \in Int /\ Ahead(job.deadline, t) > job.budget
<1>1. LET remaining == Elapsed(job.deadline, t)
      IN  ~(remaining >= HalfTurn) /\ ~(job.budget >= remaining)
  BY DEF Expired
<1>2. Elapsed(job.deadline, t) \in Int /\ job.budget \in Int /\ HalfTurn \in Int
  <2>1. job.deadline \in Int /\ t \in Int
    BY TickModulusAssumption DEF Tick
  <2>2. Elapsed(job.deadline, t) \in Tick
    BY <2>1, ReadingsInTick
  <2> QED
    BY <2>2, HalfTurnIsLess, TickModulusAssumption DEF Tick, Budget
<1> QED
  BY <1>1, <1>2, AheadIsElapsed

LEMMA MicrosFacts ==
    ASSUME NEW millis \in Int, NEW phase \in 0 .. PerMs - 1
    PROVE  /\ Micros(millis, phase) \in Int
           /\ Micros(millis, phase) > 0 => millis > 0
           /\ \A n \in Nat : Micros(millis, phase) > -n => millis > -n
           /\ Micros(millis - 1, 0) + PerMs = Micros(millis, 0)
           /\ (millis - 1) * PerMs < Micros(millis, phase)
<1> DEFINE product == millis * PerMs
<1>1. PerMs \in Nat /\ PerMs >= 1 /\ phase \in Int /\ phase >= 0 /\ phase < PerMs
  BY DriveConstants
<1>2. product \in Int
  BY <1>1, Z3
<1>3. (millis - 1) * PerMs = product - PerMs
  BY <1>1, Z3
<1>4. ASSUME NEW n \in Nat, millis <= -n PROVE product <= -n
  BY <1>1, <1>4, Z3
<1>5. Micros(millis, phase) = product - phase
  BY DEF Micros
<1>6. Micros(millis, 0) = product /\ Micros(millis - 1, 0) = product - PerMs
  BY <1>1, <1>2, <1>3 DEF Micros
<1> HIDE DEF product
<1>7. ASSUME NEW n \in Nat, Micros(millis, phase) > -n PROVE millis > -n
  <2>1. product > -n
    BY <1>1, <1>2, <1>5, <1>7
  <2> QED
    BY <1>2, <1>4, <2>1
<1>8. Micros(millis, phase) > 0 => millis > 0
  <2>1. Micros(millis, phase) > 0 => product > 0
    BY <1>1, <1>2, <1>5
  <2>2. millis <= 0 => product <= 0
    BY <1>4
  <2> QED
    BY <1>2, <2>1, <2>2
<1> QED
  BY <1>1, <1>2, <1>3, <1>5, <1>6, <1>7, <1>8

\* As the clock goes on, a queued velocity stays good for its time.
LEMMA GoodForTicks ==
    ASSUME NEW job, job.pending => job.packet.until \in Tick /\ job.deadline \in Tick,
           NEW u \in Tick, NEW m \in Tick, NEW phase \in 0 .. PerMs - 1,
           NEW unswept \in 0 .. 2 * MaxOutage - 1,
           GoodFor(job, u, m, phase, unswept),
           NEW phase2, phase2 = (phase + 1) % PerMs,
           NEW m2, m2 = IF phase2 = 0 THEN Plus(m, 1) ELSE m
    PROVE  /\ phase2 \in 0 .. PerMs - 1
           /\ GoodFor(job, Plus(u, 1), m2, phase2, unswept + 1)
<1>1. /\ PerMs \in Nat /\ PerMs >= 1 /\ MaxOutage \in Nat /\ HalfTurn \in Nat
      /\ 2 * MaxOutage < HalfTurn
      /\ phase \in Int /\ phase >= 0 /\ phase < PerMs
      /\ unswept \in Int /\ unswept >= 0 /\ unswept + 1 <= 2 * MaxOutage
  BY DriveConstants
<1>2. /\ phase2 \in 0 .. PerMs - 1
      /\ phase2 = IF phase + 1 < PerMs THEN phase + 1 ELSE 0
  <2>1. phase + 1 \in Int /\ PerMs \in Nat \ {0} /\ -PerMs <= phase + 1 /\ phase + 1 <= PerMs
        /\ ~(phase + 1 < 0)
    BY <1>1
  <2>2. (phase + 1) % PerMs = IF phase + 1 < PerMs THEN phase + 1 ELSE 0
    BY <2>1, RemainderNearby
  <2> QED
    BY <1>1, <2>1, <2>2
<1>3. ASSUME job.pending, job.packet.moving
      PROVE  GoodFor(job, Plus(u, 1), m2, phase2, unswept + 1)
  <2> DEFINE a == Ahead(job.deadline, u)
             left == Ahead(job.packet.until, m)
  <2>1. a + unswept > 0 /\ a <= Micros(left, phase) /\ left <= CommandTimeout
    BY <1>3 DEF GoodFor
  <2>2. a \in Int /\ left \in Int
    BY <1>3, AheadUnfolded
  <2>3. a - 1 = Ahead(job.deadline, Plus(u, 1))
    <3>1. -HalfTurn + 1 < a
      BY <1>1, <2>1, <2>2
    <3> QED
      BY <1>3, <3>1, AheadAges
  <2>4. left > -(2 * MaxOutage - 1)
    <3>1. Micros(left, phase) \in Int /\ 2 * MaxOutage - 1 \in Nat
      BY <1>1, <2>2, MicrosFacts
    <3>2. Micros(left, phase) > -(2 * MaxOutage - 1)
      BY <1>1, <2>1, <2>2, <3>1
    <3> QED
      BY <2>2, <3>1, <3>2, MicrosFacts
  <2>5. phase2 = 0 => left - 1 = Ahead(job.packet.until, Plus(m, 1))
    <3>1. -HalfTurn + 1 < left
      BY <1>1, <2>2, <2>4
    <3> QED
      BY <1>3, <3>1, AheadAges
  <2> DEFINE left2 == Ahead(job.packet.until, m2)
  <2>6. left2 = IF phase2 = 0 THEN left - 1 ELSE left
    BY <2>5
  <2> HIDE DEF a, left, left2
  <2>7. Micros(left, phase) - 1 = Micros(left2, phase2)
    <3>1. left \in Int /\ left * PerMs \in Int /\ Micros(left, phase) = left * PerMs - phase
          /\ Micros(left, phase2) = left * PerMs - phase2 /\ Micros(left, 0) = left * PerMs - 0
      BY <1>1, <2>2, Z3 DEF Micros
    <3>2. CASE phase + 1 < PerMs
      <4>1. phase2 = phase + 1 /\ phase2 # 0 /\ left2 = left
        BY <1>1, <1>2, <2>6, <3>2
      <4> QED
        BY <1>1, <3>1, <4>1
    <3>3. CASE ~(phase + 1 < PerMs)
      <4>1. phase2 = 0 /\ left2 = left - 1 /\ phase = PerMs - 1
        BY <1>1, <1>2, <2>6, <3>3
      <4>2. Micros(left - 1, 0) + PerMs = Micros(left, 0) /\ Micros(left - 1, 0) \in Int
        <5>1. 0 \in 0 .. PerMs - 1 /\ left - 1 \in Int
          BY <1>1, <2>2
        <5> QED
          BY <2>2, <5>1, MicrosFacts
      <4>3. Micros(left2, phase2) = Micros(left - 1, 0)
        BY <4>1
      <4>4. Micros(left, phase) = Micros(left, 0) - phase
        BY <1>1, <3>1
      <4>5. Micros(left, 0) \in Int
        BY <1>1, <4>2
      <4> QED
        BY <1>1, <4>1, <4>2, <4>3, <4>4, <4>5
    <3> QED
      BY <3>2, <3>3
  <2>8. Micros(left, phase) \in Int /\ left2 \in Int /\ left2 <= left /\ CommandTimeout \in Int
    BY <2>2, <2>6, MicrosFacts, DriveConstants
  <2>9. /\ (a - 1) + (unswept + 1) > 0 /\ a - 1 <= Micros(left2, phase2)
        /\ left2 <= CommandTimeout
    BY <1>1, <2>1, <2>2, <2>7, <2>8 DEF left
  <2> QED
    BY <2>3, <2>9 DEF GoodFor, left2
<1> QED
  BY <1>2, <1>3 DEF GoodFor

\* The phase of the two clocks is left out of the time a command is given.
LEMMA FreshIsGood ==
    ASSUME NEW u \in Tick, NEW m \in Tick, NEW phase \in 0 .. PerMs - 1, NEW packet \in Velocity,
           NEW millis \in Int, 0 < millis, millis <= CommandTimeout,
           packet.moving => packet.until = Plus(m, millis),
           NEW lifetime \in Int, JobBudget < lifetime, lifetime <= JobLifetime,
           packet.moving => lifetime <= (millis - 1) * PerMs
    PROVE  /\ Plus(u, lifetime) \in Tick
           /\ GoodFor([pending |-> TRUE, packet |-> packet, deadline |-> Plus(u, lifetime),
                       budget |-> JobBudget], u, m, phase, 0)
<1>1. Plus(u, lifetime) \in Tick /\ Ahead(Plus(u, lifetime), u) = lifetime
  BY DriveConstants, AheadOfPlus
<1>2. Ahead(Plus(m, millis), m) = millis
  BY DriveConstants, AheadOfPlus
<1>3. (millis - 1) * PerMs < Micros(millis, phase) /\ Micros(millis, phase) \in Int
  BY MicrosFacts
<1>4. (millis - 1) * PerMs \in Int
  BY DriveConstants, Z3
<1> DEFINE job == [pending |-> TRUE, packet |-> packet, deadline |-> Plus(u, lifetime),
                   budget |-> JobBudget]
<1>5. job.packet = packet /\ job.deadline = Plus(u, lifetime)
  OBVIOUS
<1>6. ASSUME packet.moving
      PROVE  /\ lifetime + 0 > 0 /\ lifetime <= Micros(millis, phase)
  <2> DEFINE most == (millis - 1) * PerMs
  <2>1. most < Micros(millis, phase) /\ Micros(millis, phase) \in Int /\ most \in Int
        /\ lifetime <= most
    BY <1>3, <1>4, <1>6
  <2> HIDE DEF most
  <2> QED
    BY <2>1, DriveConstants
<1> HIDE DEF job
<1>7. GoodFor(job, u, m, phase, 0)
  BY <1>1, <1>2, <1>5, <1>6 DEF GoodFor
<1> QED
  BY <1>1, <1>7 DEF job

-----------------------------------------------------------------------------
(***************************************************************************)
(* A turn of the output.                                                   *)
(***************************************************************************)
\* When a command expires, seen from now.
LEMMA SameInstant ==
    ASSUME NEW c \in Tick, NEW m \in Tick, NEW v \in Tick, Elapsed(m, c) <= v
    PROVE  Plus(c, v) = Plus(m, v - Elapsed(m, c))
<1> DEFINE e == Elapsed(m, c)
<1>1. e = IF m < c THEN m - c + TickModulus ELSE m - c
  BY ElapsedUnfolded
<1>2. e \in Int /\ 0 <= e /\ v - e \in Tick
  BY <1>1, TickModulusAssumption DEF Tick
<1>3. Plus(c, v) = IF c + v < TickModulus THEN c + v ELSE c + v - TickModulus
  BY PlusUnfolded
<1> HIDE DEF e
<1>4. Plus(m, v - e) = IF m + (v - e) < TickModulus THEN m + (v - e)
                       ELSE m + (v - e) - TickModulus
  BY <1>2, PlusUnfolded
<1>5. Plus(c, v) = Plus(m, v - e)
  BY <1>1, <1>2, <1>3, <1>4, TickModulusAssumption DEF Tick
<1> QED
  BY <1>5 DEF e

\* What a command is good for, in both units.
LEMMA LifeFacts ==
    ASSUME TypeOK, NEW s \in Supervisor
    PROVE  /\ Remaining(s, ms) \in Int /\ Remaining(s, ms) <= CommandTimeout
           /\ Life(s) \in Int /\ Life(s) = (Remaining(s, ms) - 1) * PerMs
           /\ Lifetime(s) \in Int /\ Lifetime(s) <= JobLifetime
           /\ s.state = "ACTIVE" => Lifetime(s) <= Life(s)
           /\ Remaining(s, ms) > 0 =>
                Plus(s.command_ms, s.valid_for) = Plus(ms, Remaining(s, ms))
<1>1. s.command_ms \in Tick /\ s.valid_for \in 0 .. CommandTimeout /\ ms \in Tick
  BY DEF TypeOK, Supervisor
<1>2. Elapsed(ms, s.command_ms) \in Int /\ Elapsed(ms, s.command_ms) >= 0
  <2>1. ms \in Int /\ s.command_ms \in Int
    BY <1>1, TickModulusAssumption DEF Tick
  <2>2. Elapsed(ms, s.command_ms) \in Tick
    BY <2>1, ReadingsInTick
  <2> QED
    BY <2>2, TickModulusAssumption DEF Tick
<1>3. Remaining(s, ms) = s.valid_for - Elapsed(ms, s.command_ms)
  BY DEF Remaining
<1>4. Remaining(s, ms) \in Int /\ Remaining(s, ms) <= CommandTimeout
  BY <1>1, <1>2, <1>3, DriveConstants
<1>5. Life(s) = (Remaining(s, ms) - 1) * PerMs
  BY DEF Life
<1>6. Life(s) \in Int
  BY <1>4, <1>5, DriveConstants, Z3
<1>7. Lifetime(s) = IF s.state = "ACTIVE" /\ Life(s) < JobLifetime THEN Life(s)
                    ELSE JobLifetime
  BY DEF Lifetime
<1>8. /\ Lifetime(s) \in Int /\ Lifetime(s) <= JobLifetime
      /\ s.state = "ACTIVE" => Lifetime(s) <= Life(s)
  BY <1>6, <1>7, DriveConstants
<1>9. ASSUME Remaining(s, ms) > 0
      PROVE  Plus(s.command_ms, s.valid_for) = Plus(ms, Remaining(s, ms))
  <2>1. s.valid_for \in Tick /\ Elapsed(ms, s.command_ms) <= s.valid_for
    BY <1>1, <1>2, <1>3, <1>9, DriveConstants DEF Tick
  <2> QED
    BY <1>1, <1>3, <2>1, SameInstant
<1> QED
  BY <1>4, <1>5, <1>6, <1>8, <1>9

\* A stop of the output takes the velocity out of the queue, for a zero.
LEMMA QueueZeroEffect ==
    ASSUME TypeOK, NEW r \in Router, Queued(r), NoMotionQueued(r)
    PROVE  LET q == QueueZero(r)
           IN  q \in Router /\ Keeps(r, q) /\ Queued(q) /\ ~q.jobs[WHEELS].pending
<1> DEFINE q == QueueZero(r)
           deadline == Plus(us, JobLifetime)
<1>1. us \in Tick /\ us \in Int /\ JobLifetime \in Int /\ JobBudget \in Budget
  BY DriveConstants, TickModulusAssumption DEF TypeOK, Tick
<1>2. deadline \in Tick
  BY <1>1, ReadingsInTick
<1>3. STOP \in Work /\ WHEELS \in Work /\ WHEELS \in Motion /\ STOP # WHEELS /\ Zero \in Packet
  BY DriveWork
<1>4. q = r \/ q = Submitted(r, STOP, Zero, us, deadline, JobBudget)
  BY DEF QueueZero
<1> HIDE DEF q, deadline
<1>5. ~r.jobs[WHEELS].pending
  BY <1>3 DEF NoMotionQueued
<1>6. CASE q = r
  BY <1>5, <1>6 DEF Keeps, SameTransaction, q
<1>7. CASE q = Submitted(r, STOP, Zero, us, deadline, JobBudget)
  <2>1. q \in Router /\ SameTransaction(r, q) /\ Cautious(r, q)
    BY <1>1, <1>2, <1>3, <1>7, SubmittedEffect
  <2>2. \A k \in Work : q.jobs[k].pending =>
          q.jobs[k] = r.jobs[k] \/ (k = STOP /\ q.jobs[k].packet = Zero)
    BY <1>1, <1>2, <1>3, <1>7, SubmittedQueue
  <2>3. Keeps(r, q)
    BY <2>1 DEF Keeps, Cautious
  <2>4. ~q.jobs[WHEELS].pending
    BY <1>3, <1>5, <2>2
  <2>5. Queued(q)
    BY <1>3, <2>2, <2>4 DEF Queued
  <2> QED
    BY <2>1, <2>3, <2>4, <2>5 DEF q
<1> QED
  BY <1>4, <1>6, <1>7

LEMMA QueuedAddsNothing ==
    ASSUME NEW r \in Router, NEW q \in Router, Queued(r), AddsNothing(r, q)
    PROVE  Queued(q)
<1>1. STOP \in Work /\ WHEELS \in Work
  BY DriveWork
<1> QED
  BY <1>1 DEF Queued, AddsNothing

\* A poll of the output leaves a velocity in the queue only if the supervisor
\* is enabled and the velocity good for its time.
LEMMA OutputPolledEffect ==
    ASSUME Driven, NEW window \in Window
    PROVE  LET polled == OutputPolled(window)
               r == polled.router
               s == PollSupervisor(supervisor, ms)
           IN  /\ r \in Router /\ Keeps(router, r) /\ Queued(r)
               /\ \/ /\ polled.stop_requested = TRUE /\ polled.supervisor = Latched(s)
                     /\ ~r.jobs[WHEELS].pending
                  \/ polled.stop_requested = FALSE /\ polled.supervisor = s
               /\ r.jobs[WHEELS].pending =>
                    /\ Enabled(s)
                    /\ GoodFor(r.jobs[WHEELS], us, ms, sub, 0)
<1> DEFINE s == PollSupervisor(supervisor, ms)
           p == Polled(router, us)
           swept == Swept(p, us)
           stops == output.stop_requested \/ MustStop(s, window, p, swept)
           halted == OutputStopped(swept, output)
           zero == QueueZero(halted)
           moved == Submitted(swept, WHEELS, Target(s), us, Plus(us, Lifetime(s)), JobBudget)
           kept == IF window.due /\ Enabled(s) THEN moved ELSE swept
           polled == OutputPolled(window)
           result(t, available, stop, r) ==
             [supervisor |-> t, available |-> available, stop_requested |-> stop, router |-> r]
<1>1. polled = IF stops THEN result(Latched(s), 0, TRUE, zero)
               ELSE result(s, window.available, FALSE, kept)
  BY DEF OutputPolled
<1>2. /\ TypeOK /\ Queued(router) /\ Commands(supervisor)
      /\ us \in Tick /\ ms \in Tick /\ router \in Router /\ supervisor \in Supervisor
      /\ sub \in 0 .. PerMs - 1
      /\ router.jobs[WHEELS].pending => supervisor.state # "DISABLED"
      /\ GoodFor(router.jobs[WHEELS], us, ms, sub, Unswept)
  BY DEF Driven, TypeOK
<1>3. STOP \in Work /\ WHEELS \in Work /\ STOP # WHEELS
  BY DriveWork
<1>4. /\ s \in Supervisor /\ GoesOn(supervisor, s)
      /\ Enabled(s) => /\ s = supervisor
                       /\ s.state = "ACTIVE" => ~(Remaining(s, ms) <= 0)
  BY <1>2, PollGoesOn
<1>5. p \in Router /\ p.jobs = router.jobs /\ Keeps(router, p)
  BY <1>2, PolledEffect, PolledCautious DEF Keeps, Cautious
<1>6. ~stops => /\ s.state # "STOP_LATCHED"
                /\ ~(s.state = "ACTIVE" /\ Life(s) <= 0)
                /\ window.due /\ Enabled(s) => ~(Lifetime(s) <= JobBudget)
  BY Zenon DEF MustStop
<1> HIDE DEF s, p, stops
<1>7. /\ swept \in Router /\ Keeps(p, swept) /\ AddsNothing(p, swept)
      /\ \A k \in Work : swept.jobs[k].pending => ~Expired(swept.jobs[k], us)
  BY <1>2, <1>5, SweptEffect
<1> HIDE DEF swept
<1>8. Keeps(router, swept) /\ AddsNothing(router, swept)
  BY <1>2, <1>5, <1>7, KeepsComposes DEF AddsNothing
<1>9. Queued(swept)
  BY <1>2, <1>7, <1>8, QueuedAddsNothing
<1>10. ASSUME swept.jobs[WHEELS].pending
       PROVE  /\ s.state # "DISABLED"
              /\ GoodFor(swept.jobs[WHEELS], us, ms, sub, 0)
  <2> DEFINE job == swept.jobs[WHEELS]
  <2>1. job = router.jobs[WHEELS] /\ job.pending /\ ~Expired(job, us)
    BY <1>3, <1>7, <1>8, <1>10 DEF AddsNothing
  <2>2. job.deadline \in Tick /\ job.budget \in Budget
    BY <1>3, <1>7, <1>10, JobFields
  <2>3. s.state # "DISABLED"
    BY <1>2, <1>4, <2>1 DEF GoesOn
  <2>4. GoodFor(job, us, ms, sub, Unswept)
    BY <1>2, <2>1
  <2> HIDE DEF job
  <2>5. Ahead(job.deadline, us) \in Int /\ Ahead(job.deadline, us) > job.budget
    BY <1>2, <2>1, <2>2, UnexpiredIsAhead
  <2>6. Ahead(job.deadline, us) + 0 > 0
    BY <2>2, <2>5 DEF Budget
  <2> QED
    BY <2>3, <2>4, <2>6 DEF GoodFor, job
<1>11. CASE stops
  <2>1. polled = result(Latched(s), 0, TRUE, zero)
    BY <1>1, <1>11
  <2> HIDE DEF polled
  <2>2. /\ polled.router = zero /\ polled.stop_requested = TRUE
        /\ polled.supervisor = Latched(s)
    BY <2>1
  <2>3. halted \in Router /\ Keeps(swept, halted) /\ AddsNothing(swept, halted)
        /\ NoMotionQueued(halted)
    BY <1>7, OutputStoppedEffect
  <2>4. Keeps(router, halted) /\ Queued(halted)
    BY <1>2, <1>7, <1>8, <1>9, <2>3, KeepsComposes, QueuedAddsNothing
  <2> HIDE DEF halted
  <2>5. zero \in Router /\ Keeps(halted, zero) /\ Queued(zero) /\ ~zero.jobs[WHEELS].pending
    BY <1>2, <2>3, <2>4, QueueZeroEffect
  <2> HIDE DEF zero
  <2>6. Keeps(router, zero)
    BY <1>2, <2>3, <2>4, <2>5, KeepsComposes
  <2> QED
    BY <2>2, <2>5, <2>6 DEF polled, s
<1>12. ASSUME ~stops, window.due, Enabled(s)
       PROVE  /\ moved \in Router /\ Keeps(swept, moved) /\ Queued(moved)
              /\ moved.jobs[WHEELS].pending => GoodFor(moved.jobs[WHEELS], us, ms, sub, 0)
  <2> DEFINE packet == Target(s)
             lifetime == Lifetime(s)
             deadline == Plus(us, lifetime)
             job == [pending |-> TRUE, packet |-> packet, deadline |-> deadline,
                     budget |-> JobBudget]
             left == Remaining(s, ms)
  <2>1. /\ left \in Int /\ left <= CommandTimeout
        /\ lifetime \in Int /\ lifetime <= JobLifetime
        /\ s.state = "ACTIVE" => lifetime <= (left - 1) * PerMs
        /\ left > 0 => Plus(s.command_ms, s.valid_for) = Plus(ms, left)
    BY <1>2, <1>4, LifeFacts
  <2>2. JobBudget < lifetime
    BY <1>6, <1>12, <2>1, DriveConstants
  <2>3. s.moving \in BOOLEAN /\ s.command_ms \in Tick /\ s.valid_for \in Int
    BY <1>4, DriveConstants DEF Supervisor
  <2>4. packet = IF s.moving THEN [moving |-> TRUE, until |-> Plus(s.command_ms, s.valid_for)]
                 ELSE Zero
    BY DEF Target
  <2>5. packet \in Velocity /\ packet.moving = s.moving
        /\ (s.moving => packet.until = Plus(s.command_ms, s.valid_for))
    <3> DEFINE until == Plus(s.command_ms, s.valid_for)
    <3>1. until \in Tick
      <4>1. s.command_ms \in Int /\ s.valid_for \in Int
        BY <2>3, TickModulusAssumption DEF Tick
      <4> QED
        BY <4>1, ReadingsInTick
    <3> HIDE DEF until
    <3>2. CASE s.moving
      <4>1. packet = [moving |-> TRUE, until |-> until]
        BY <2>4, <3>2 DEF until
      <4> HIDE DEF packet
      <4> QED
        BY <2>3, <3>1, <3>2, <4>1 DEF Velocity, until
    <3>3. CASE ~s.moving
      <4>1. packet = Zero
        BY <2>4, <3>3
      <4> HIDE DEF packet
      <4> QED
        BY <2>3, <3>3, <4>1, DriveWork DEF Zero
    <3> QED
      BY <3>2, <3>3
  <2>6. s.moving => s.state = "ACTIVE" /\ left > 0
    BY <1>2, <1>4, <1>12, <2>1 DEF Commands
  <2> HIDE DEF packet, left, lifetime
  <2>7. deadline \in Tick /\ GoodFor(job, us, ms, sub, 0)
    <3>1. CASE s.moving
      BY <1>2, <2>1, <2>2, <2>5, <2>6, <3>1, FreshIsGood
    <3>2. CASE ~s.moving
      <4>1. 1 \in Int /\ 0 < 1 /\ 1 <= CommandTimeout /\ ~packet.moving
        BY <2>5, <3>2, DriveConstants
      <4> QED
        BY <1>2, <2>1, <2>2, <2>5, <4>1, FreshIsGood
    <3> QED
      BY <3>1, <3>2
  <2>8. moved = Submitted(swept, WHEELS, packet, us, deadline, JobBudget)
    BY DEF packet, lifetime
  <2>9. JobBudget \in Budget /\ packet \in Packet
    BY <2>5, DriveConstants, DriveWork
  <2> HIDE DEF moved, deadline
  <2>10. moved \in Router /\ SameTransaction(swept, moved) /\ Cautious(swept, moved)
    BY <1>2, <1>3, <1>7, <2>7, <2>8, <2>9, SubmittedEffect
  <2>11. Keeps(swept, moved)
    BY <2>10 DEF Keeps, Cautious
  <2>12. \/ moved.jobs = swept.jobs
         \/ moved.jobs = [swept.jobs EXCEPT ![WHEELS] = job]
    BY <1>2, <1>3, <1>7, <2>7, <2>8, <2>9, SubmittedJob
  <2>13. swept.jobs \in [Work -> Job] /\ job.pending /\ job.budget = JobBudget
    BY <1>7, RouterTypes
  <2> HIDE DEF job
  <2>14. CASE moved.jobs = swept.jobs
    BY <1>9, <1>10, <2>10, <2>11, <2>14 DEF Queued
  <2>15. CASE moved.jobs = [swept.jobs EXCEPT ![WHEELS] = job]
    <3>1. moved.jobs[WHEELS] = job /\ moved.jobs[STOP] = swept.jobs[STOP]
      BY <1>3, <2>13, <2>15
    <3> QED
      BY <1>9, <2>7, <2>10, <2>11, <2>13, <3>1 DEF Queued
  <2> QED
    BY <2>12, <2>14, <2>15
<1>13. CASE ~stops
  <2>1. polled = result(s, window.available, FALSE, kept)
    BY <1>1, <1>13
  <2> HIDE DEF polled
  <2>2. polled.router = kept /\ polled.stop_requested = FALSE /\ polled.supervisor = s
    BY <2>1
  <2>3. s.state \in {"DISABLED", "READY", "ACTIVE", "STOP_LATCHED"}
    BY <1>4 DEF Supervisor
  <2>4. CASE window.due /\ Enabled(s)
    <3>1. kept = moved
      BY <2>4
    <3> HIDE DEF kept, moved
    <3>2. Keeps(router, moved)
      BY <1>2, <1>7, <1>8, <1>12, <1>13, <2>4, KeepsComposes
    <3> QED
      BY <1>12, <1>13, <2>2, <2>4, <3>1, <3>2 DEF polled, s
  <2>5. CASE ~(window.due /\ Enabled(s))
    <3>1. kept = swept
      BY <2>5
    <3> HIDE DEF kept
    <3>2. swept.jobs[WHEELS].pending => Enabled(s)
      BY <1>6, <1>10, <1>13, <2>3 DEF Enabled
    <3> QED
      BY <1>7, <1>8, <1>9, <1>10, <2>2, <3>1, <3>2 DEF polled, s
  <2> QED
    BY <2>4, <2>5
<1> QED
  BY <1>11, <1>13

\* A velocity is on the line from now on.
SetsOff == uart.phase # "SENDING" /\ uart'.phase = "SENDING" /\ uart'.packet.moving

InTimeFor(packet) ==
    LET left == Elapsed(packet.until, ms)
    IN  left <= CommandTimeout /\ JobBudget <= left * PerMs - sub

\* Trusted evidence that looks young is young.
LEMMA HealthyIsYoung ==
    ASSUME Driven, Healthy(supervisor, ms)
    PROVE  evidenceAge < FeedbackTimeout
<1> DEFINE old == Elapsed(ms, supervisor.feedback.observed)
<1>1. evidenceAge = IF old < FeedbackTimeout THEN old ELSE FeedbackTimeout
  BY DEF Driven, Dated, Healthy
<1>2. old < FeedbackTimeout
  BY DEF Healthy
<1> QED
  BY <1>1, <1>2

\* A queued velocity that has not expired is on time.
LEMMA GoodIsInTime ==
    ASSUME NEW r \in Router, TypeOK, Queued(r), r.jobs[WHEELS].pending,
           r.jobs[WHEELS].packet.moving, ~Expired(r.jobs[WHEELS], us),
           GoodFor(r.jobs[WHEELS], us, ms, sub, 0)
    PROVE  InTimeFor(r.jobs[WHEELS].packet)
<1> DEFINE job == r.jobs[WHEELS]
           a == Ahead(job.deadline, us)
           left == Ahead(job.packet.until, ms)
<1>1. /\ job.packet.until \in Tick /\ job.deadline \in Tick /\ job.budget \in Budget
      /\ us \in Tick /\ ms \in Tick /\ sub \in 0 .. PerMs - 1
  BY JobFields, DriveWork DEF TypeOK
<1>2. job.budget = JobBudget
  BY DEF Queued
<1>3. a \in Int /\ a > JobBudget
  BY <1>1, <1>2, UnexpiredIsAhead
<1>4. a <= Micros(left, sub) /\ left <= CommandTimeout
  BY DEF GoodFor
<1>5. left \in Int
  BY <1>1, AheadUnfolded
<1> HIDE DEF a
<1>6. Micros(left, sub) \in Int /\ Micros(left, sub) > 0 /\ JobBudget <= Micros(left, sub)
  <2>1. Micros(left, sub) \in Int
    BY <1>1, <1>5, MicrosFacts
  <2> QED
    BY <1>3, <1>4, <2>1, DriveConstants
<1>7. left > 0
  BY <1>1, <1>5, <1>6, MicrosFacts
<1>8. Elapsed(job.packet.until, ms) = left
  BY <1>1, <1>5, <1>7, AheadIsElapsed
<1> HIDE DEF left, job
<1>9. JobBudget <= left * PerMs - sub
  BY <1>6 DEF Micros
<1>10. InTimeFor(job.packet)
  BY <1>4, <1>8, <1>9 DEF InTimeFor
<1> QED
  BY <1>10 DEF job

\* A turn of the output sends a velocity only in time and on evidence.
LEMMA OutputTurnIsSafe ==
    ASSUME Driven, Inductive', NEW window \in Window,
           NEW outcome \in {"LAUNCHED", "BUSY", "FAILED"}, OutputTurn(window, outcome)
    PROVE  /\ Driven' /\ supervisor'.session = supervisor.session
           /\ SetsOff => InTimeFor(uart'.packet) /\ evidenceAge < FeedbackTimeout
<1> DEFINE polled == OutputPolled(window)
           r == polled.router
           pass == Pass(r, uart.phase, us, polled.available, outcome)
           q == pass.router
           s == PollSupervisor(supervisor, ms)
<1>1. /\ turn = "OUTPUT" /\ turn' = "FEEDBACK"
      /\ uart' = IF pass.launched THEN [phase |-> "SENDING", packet |-> q.sending]
                 ELSE [uart EXCEPT !.phase = pass.phase]
      /\ output' = [stop_requested |-> polled.stop_requested \/ ~pass.ok,
                    stop_written |-> ZeroWritten(q)]
      /\ router' = IF pass.ok THEN q ELSE OutputStopped(q, output')
      /\ supervisor' = IF pass.ok THEN polled.supervisor ELSE Latched(polled.supervisor)
      /\ UNCHANGED <<us, ms, sub, readerFault, unpolled, wheels, evidenceAge>>
  BY DEF OutputTurn
<1>2. /\ TypeOK /\ us \in Tick /\ ms \in Tick /\ router \in Router /\ supervisor \in Supervisor
      /\ uart \in [phase: Phase, packet: Packet] /\ sub \in 0 .. PerMs - 1
      /\ unpolled \in 0 .. MaxOutage
      /\ Ordered(router) /\ (uart.phase # "IDLE" => router.bus.active)
      /\ Commands(supervisor)
      /\ Dated(supervisor.feedback, ms, evidenceAge, Unread)
  BY DEF Driven, TypeOK
<1>3. /\ r \in Router /\ Keeps(router, r) /\ Queued(r)
      /\ \/ /\ polled.stop_requested = TRUE /\ polled.supervisor = Latched(s)
            /\ ~r.jobs[WHEELS].pending
         \/ polled.stop_requested = FALSE /\ polled.supervisor = s
      /\ r.jobs[WHEELS].pending => Enabled(s) /\ GoodFor(r.jobs[WHEELS], us, ms, sub, 0)
  BY OutputPolledEffect
<1>4. /\ s \in Supervisor /\ GoesOn(supervisor, s) /\ s.feedback = supervisor.feedback
      /\ Enabled(s) => Healthy(supervisor, ms)
      /\ Enabled(s) => s.state # "DISABLED"
  BY <1>2, PollGoesOn DEF Enabled
<1> HIDE DEF s, polled
<1>5. /\ uart.phase \in Phase /\ uart.packet \in Packet
      /\ Ordered(r) /\ (uart.phase # "IDLE" => r.bus.active)
  BY <1>2, <1>3 DEF Keeps, SameTransaction, Ordered
<1>6. /\ q \in Router /\ pass.ok \in BOOLEAN /\ AddsNothing(r, q)
      /\ \/ Pauses(r, uart.phase, pass)
         \/ Settles(r, uart.phase, pass) /\ Ordered(q) /\ (Launches(r, us, pass) \/ Rests(r, pass))
  BY <1>2, <1>3, <1>5, PassEffect
<1> HIDE DEF pass
<1>7. STOP \in Work /\ WHEELS \in Work /\ STOP # WHEELS /\ Work = {STOP, WHEELS}
      /\ ~Zero.moving
  BY DriveWork
<1>8. /\ router' \in Router /\ Keeps(q, router') /\ AddsNothing(r, router')
  <2>1. CASE pass.ok
    BY <1>1, <1>6, <2>1 DEF Keeps, SameTransaction
  <2>2. CASE ~pass.ok
    <3>1. router' = OutputStopped(q, output')
      BY <1>1, <2>2
    <3>2. router' \in Router /\ Keeps(q, router') /\ AddsNothing(q, router')
      BY <1>6, <3>1, OutputStoppedEffect
    <3> QED
      BY <1>3, <1>6, <3>2, AddsNothingComposes
  <2> QED
    BY <2>1, <2>2
<1>9. Queued(router')
  BY <1>3, <1>8, QueuedAddsNothing
<1>10. /\ polled.supervisor \in Supervisor /\ GoesOn(supervisor, polled.supervisor)
       /\ polled.supervisor.feedback = supervisor.feedback
  <2>1. GoesOn(supervisor, Latched(s)) /\ Latched(s) \in Supervisor
        /\ Latched(s).feedback = supervisor.feedback
    BY <1>4, LatchGoesOn DEF GoesOn
  <2> QED
    BY <1>3, <1>4, <2>1
<1>11. /\ GoesOn(supervisor, supervisor') /\ supervisor'.feedback = supervisor.feedback
       /\ GoesOn(polled.supervisor, supervisor')
  <2>1. CASE pass.ok
    <3>1. supervisor' = polled.supervisor
      BY <1>1, <2>1
    <3> QED
      BY <1>10, <3>1 DEF GoesOn
  <2>2. CASE ~pass.ok
    <3>1. supervisor' = Latched(polled.supervisor)
      BY <1>1, <2>2
    <3> QED
      BY <1>10, <3>1, LatchGoesOn DEF GoesOn
  <2> QED
    BY <2>1, <2>2
<1>12. router'.jobs[WHEELS].pending =>
         /\ r.jobs[WHEELS].pending /\ router'.jobs[WHEELS] = r.jobs[WHEELS]
         /\ supervisor'.state # "DISABLED"
  BY <1>3, <1>4, <1>7, <1>8, <1>11 DEF AddsNothing, GoesOn
<1>13. GoodFor(router'.jobs[WHEELS], us, ms, sub, unpolled)
  <2>1. ASSUME router'.jobs[WHEELS].pending
        PROVE  GoodFor(router'.jobs[WHEELS], us, ms, sub, unpolled)
    <3> DEFINE job == r.jobs[WHEELS]
    <3>1. router'.jobs[WHEELS] = job /\ GoodFor(job, us, ms, sub, 0) /\ job.pending
          /\ job.deadline \in Tick
      BY <1>3, <1>7, <1>12, <2>1, JobFields
    <3> HIDE DEF job
    <3>2. Ahead(job.deadline, us) \in Int /\ unpolled \in Int /\ unpolled >= 0
      BY <1>2, <3>1, AheadUnfolded, DriveConstants
    <3>3. Ahead(job.deadline, us) + 0 > 0 => Ahead(job.deadline, us) + unpolled > 0
      BY <3>2
    <3>4. GoodFor(job, us, ms, sub, unpolled)
      BY <3>1, <3>3 DEF GoodFor
    <3> QED
      BY <3>1, <3>4
  <2> QED
    BY <2>1 DEF GoodFor
<1>14. /\ Ordered(router') /\ uart' \in [phase: Phase, packet: Packet]
       /\ uart'.phase # "IDLE" => router'.bus.active
       /\ SetsOff => Launches(r, us, pass) /\ uart'.packet = q.sending
  <2>1. Ordered(q) => Ordered(router')
    BY <1>8 DEF Keeps, SameTransaction, Ordered
  <2>2. router'.bus.active = q.bus.active
    BY <1>8 DEF Keeps, SameTransaction
  <2>3. CASE Pauses(r, uart.phase, pass)
    <3>1. q = r /\ pass.phase = uart.phase /\ ~pass.launched
      BY <2>3 DEF Pauses
    <3>2. uart' = uart
      BY <1>1, <1>2, <3>1
    <3> QED
      BY <1>2, <1>5, <2>1, <2>2, <3>1, <3>2 DEF SetsOff
  <2>4. CASE Ordered(q) /\ Launches(r, us, pass)
    <3>1. uart' = [phase |-> "SENDING", packet |-> q.sending] /\ q.bus.active
      BY <1>1, <2>4 DEF Launches
    <3>2. q.sending \in Packet
      BY <1>6, RouterTypes
    <3> QED
      BY <2>1, <2>2, <2>4, <3>1, <3>2 DEF Phase
  <2>5. CASE Ordered(q) /\ Rests(r, pass)
    <3>1. uart' = [uart EXCEPT !.phase = "IDLE"]
      BY <1>1, <2>5 DEF Rests
    <3>2. uart'.phase = "IDLE" /\ uart' \in [phase: Phase, packet: Packet]
      BY <1>2, <3>1 DEF Phase
    <3> QED
      BY <2>1, <2>5, <3>2 DEF SetsOff
  <2> QED
    BY <1>6, <2>3, <2>4, <2>5
<1>15. ASSUME SetsOff PROVE InTimeFor(uart'.packet) /\ evidenceAge < FeedbackTimeout
  <2> DEFINE k == q.bus.owner
  <2>1. /\ k \in Work /\ r.jobs[k].pending /\ ~Expired(r.jobs[k], us)
        /\ uart'.packet = r.jobs[k].packet /\ r.jobs[k].packet.moving
    BY <1>14, <1>15 DEF Launches, SetsOff
  <2> HIDE DEF k
  <2>2. k = WHEELS
    BY <1>3, <1>7, <2>1 DEF Queued
  <2>3. Healthy(supervisor, ms)
    BY <1>3, <1>4, <2>1, <2>2
  <2>4. InTimeFor(r.jobs[WHEELS].packet)
    BY <1>2, <1>3, <2>1, <2>2, GoodIsInTime
  <2> QED
    BY <2>1, <2>2, <2>3, <2>4, HealthyIsYoung
<1>16. Dated(supervisor'.feedback, ms, evidenceAge, Unread')
  <2>1. Unread' = Unread
    BY <1>1 DEF Unread
  <2> QED
    BY <1>2, <1>11, <2>1
<1>17. TypeOK'
  BY <1>1, <1>2, <1>8, <1>14 DEF Inductive, TypeOK
<1>18. Driven'
  <2>1. Unswept' = unpolled
    BY <1>1 DEF Unswept
  <2>2. Commands(supervisor')
    BY <1>2, <1>11 DEF GoesOn
  <2> QED
    BY <1>1, <1>9, <1>12, <1>13, <1>14, <1>16, <1>17, <2>1, <2>2 DEF Driven
<1>19. supervisor'.session = supervisor.session
  BY <1>11 DEF GoesOn
<1> QED
  BY <1>15, <1>18, <1>19

-----------------------------------------------------------------------------
(***************************************************************************)
(* The other turns.                                                        *)
(***************************************************************************)
\* What a step keeps that leaves the clocks, the line and the queue alone.
LEMMA SupervisorStep ==
    ASSUME Driven, Inductive', UNCHANGED <<us, ms, sub, router, uart, readerFault, unpolled, wheels>>,
           supervisor.state # "DISABLED" => supervisor'.state # "DISABLED",
           Commands(supervisor) => Commands(supervisor'),
           turn' \in {"SERVICE", "HOST"}, turn \in {"FEEDBACK", "SERVICE", "HOST"},
           evidenceAge' \in 0 .. FeedbackTimeout,
           Dated(supervisor'.feedback, ms, evidenceAge', Unread')
    PROVE  Driven'
<1>1. TypeOK'
  BY DEF Driven, Inductive, TypeOK
<1>2. Unswept' = Unswept
  BY DEF Unswept
<1> QED
  BY <1>1, <1>2 DEF Driven

\* What a step keeps that takes the velocity out of the queue.
LEMMA StopStep ==
    ASSUME Driven, Inductive', UNCHANGED <<us, ms, sub, uart, unpolled, wheels, evidenceAge>>,
           readerFault' \in BOOLEAN,
           router' = OutputStopped(router, output),
           Commands(supervisor) => Commands(supervisor'),
           turn' \in {"SERVICE", "HOST"},
           Dated(supervisor'.feedback, ms, evidenceAge, Unread')
    PROVE  Driven'
<1>1. router \in Router
  BY DEF Driven, TypeOK
<1>2. /\ router' \in Router /\ Keeps(router, router') /\ AddsNothing(router, router')
      /\ NoMotionQueued(router')
  BY <1>1, OutputStoppedEffect
<1>3. TypeOK'
  BY <1>2 DEF Driven, Inductive, TypeOK
<1>4. Queued(router')
  BY <1>1, <1>2, QueuedAddsNothing DEF Driven
<1>5. ~router'.jobs[WHEELS].pending
  BY <1>2, DriveWork DEF NoMotionQueued
<1>6. Ordered(router') /\ (uart'.phase # "IDLE" => router'.bus.active)
  BY <1>2 DEF Driven, Keeps, SameTransaction, Ordered
<1>7. GoodFor(router'.jobs[WHEELS], us', ms', sub', Unswept')
  BY <1>5 DEF GoodFor
<1> QED
  BY <1>3, <1>4, <1>5, <1>6, <1>7 DEF Driven

\* Evidence the reader has looked at is as old as the clock says.
LEMMA ReaderTurnIsSafe ==
    ASSUME Driven, Inductive', ReaderTurn
    PROVE  Driven' /\ supervisor'.session = supervisor.session
<1> DEFINE st == Stale(supervisor)
           seen == supervisor.feedback.observed
           old == Elapsed(ms, seen)
<1>1. /\ turn = "FEEDBACK" /\ turn' = "SERVICE"
      /\ UNCHANGED <<us, ms, sub, output, router, uart, readerFault, unpolled, wheels>>
  BY DEF ReaderTurn
<1>2. /\ supervisor \in Supervisor /\ ms \in Tick /\ seen \in Tick
      /\ evidenceAge \in 0 .. FeedbackTimeout
      /\ unpolled \in Int /\ unpolled >= 0
      /\ Dated(supervisor.feedback, ms, evidenceAge, Unread)
  BY DriveConstants DEF Driven, TypeOK, Supervisor, Evidence
<1>3. Unread' = unpolled
  BY <1>1 DEF Unread
<1>4. /\ st \in Supervisor /\ GoesOn(supervisor, st) /\ st.feedback.observed = seen
      /\ st.feedback.good => supervisor.feedback.good /\ ~(old >= SampleTimeout)
  BY <1>2, ReaderGoesOn
<1>5. old \in Int
  <2>1. ms \in Int /\ seen \in Int
    BY <1>2, TickModulusAssumption DEF Tick
  <2>2. old \in Tick
    BY <2>1, ReadingsInTick
  <2> QED
    BY <2>2, TickModulusAssumption DEF Tick
<1> HIDE DEF st
<1>6. \A f : /\ f.observed = seen
             /\ f.good => supervisor.feedback.good /\ ~(old >= SampleTimeout)
             => Dated(f, ms, evidenceAge, unpolled)
  <2> TAKE f
  <2> HAVE /\ f.observed = seen
           /\ f.good => supervisor.feedback.good /\ ~(old >= SampleTimeout)
  <2>1. f.good => evidenceAge = IF old < FeedbackTimeout THEN old ELSE FeedbackTimeout
    BY <1>2 DEF Dated
  <2>2. f.good => old < SampleTimeout + unpolled
    BY <1>2, <1>5, DriveConstants
  <2> QED
    BY <2>1, <2>2 DEF Dated
<1>7. ASSUME NEW incomplete \in BOOLEAN, Publish(incomplete), UNCHANGED evidenceAge
      PROVE  Driven' /\ supervisor'.session = supervisor.session
  <2> DEFINE t == IF incomplete THEN Invalidated(st) ELSE st
  <2>1. /\ t \in Supervisor /\ GoesOn(supervisor, t) /\ t.feedback.observed = seen
        /\ t.feedback.good => supervisor.feedback.good /\ ~(old >= SampleTimeout)
    <3>1. /\ Invalidated(st) \in Supervisor /\ GoesOn(st, Invalidated(st))
          /\ Invalidated(st).feedback.observed = seen /\ ~Invalidated(st).feedback.good
      BY <1>4, ReaderGoesOn
    <3> QED
      BY <1>4, <3>1 DEF GoesOn
  <2>2. supervisor' = PollSupervisor(t, ms)
    BY <1>7 DEF Publish, st
  <2> HIDE DEF t
  <2>3. GoesOn(t, supervisor') /\ supervisor'.feedback = t.feedback
    BY <1>2, <2>1, <2>2, PollGoesOn
  <2>4. GoesOn(supervisor, supervisor')
    BY <2>1, <2>3 DEF GoesOn
  <2>5. Dated(supervisor'.feedback, ms, evidenceAge', Unread')
    BY <1>3, <1>6, <1>7, <2>1, <2>3
  <2> QED
    BY <1>1, <1>2, <1>7, <2>4, <2>5, SupervisorStep DEF GoesOn
<1>8. ASSUME NEW age \in 0 .. SampleTimeout - 1, NEW good \in BOOLEAN, NEW still \in BOOLEAN,
             supervisor' = Sampled(age, good, still),
             evidenceAge' = IF supervisor'.feedback.observed # supervisor.feedback.observed
                            THEN age ELSE evidenceAge
      PROVE  Driven' /\ supervisor'.session = supervisor.session
  <2> DEFINE e == [observed |-> Plus(ms, -age), good |-> good, still |-> still]
             t == PollSupervisor(st, ms)
  <2>1. t \in Supervisor /\ GoesOn(st, t) /\ t.feedback = st.feedback
    BY <1>2, <1>4, PollGoesOn
  <2>2. Plus(ms, -age) \in Tick /\ Ahead(Plus(ms, -age), ms) = -age
        /\ age \in Int /\ age >= 0 /\ age < SampleTimeout
    BY <1>2, DriveConstants, AheadOfPlus
  <2>3. e \in Evidence /\ e.observed = Plus(ms, -age)
    BY <2>2 DEF Evidence
  <2>4. Elapsed(ms, e.observed) = age
    <3>1. -HalfTurn < Ahead(e.observed, ms) /\ Ahead(e.observed, ms) <= 0
          /\ Ahead(e.observed, ms) = -age
      BY <2>2, <2>3, DriveConstants
    <3>2. Elapsed(ms, e.observed) = -(-age)
      BY <1>2, <2>2, <2>3, <3>1, AgeIsBehind
    <3> QED
      BY <2>2, <3>2
  <2>5. supervisor' = Observed(t, ms, e)
    BY <1>8 DEF Sampled, st
  <2> HIDE DEF e, t
  <2>6. /\ GoesOn(t, supervisor')
        /\ \/ supervisor'.feedback = t.feedback
           \/ supervisor'.feedback = e /\ IsAfter(e.observed, t.feedback.observed)
    BY <1>2, <2>1, <2>3, <2>5, ObservedGoesOn
  <2>7. GoesOn(supervisor, supervisor')
    BY <1>4, <2>1, <2>6 DEF GoesOn
  <2>8. evidenceAge' \in 0 .. FeedbackTimeout
    BY <1>2, <1>8, <2>2, DriveConstants
  <2>9. Dated(supervisor'.feedback, ms, evidenceAge', unpolled)
    <3>1. CASE supervisor'.feedback = st.feedback
      <4>1. evidenceAge' = evidenceAge
        BY <1>4, <1>8, <3>1
      <4> QED
        BY <1>4, <1>6, <3>1, <4>1
    <3>2. CASE supervisor'.feedback = e /\ IsAfter(e.observed, seen)
      <4>1. e.observed # seen
        <5>1. Elapsed(seen, seen) = 0
          BY <1>2, ElapsedUnfolded, TickModulusAssumption DEF Tick
        <5> QED
          BY <3>2, <5>1 DEF IsAfter
      <4>2. evidenceAge' = age
        BY <1>8, <3>2, <4>1
      <4>3. age < FeedbackTimeout /\ age < SampleTimeout + unpolled
        BY <1>2, <2>2, DriveConstants
      <4> QED
        BY <2>4, <3>2, <4>2, <4>3 DEF Dated
    <3> QED
      BY <1>4, <2>1, <2>6, <3>1, <3>2
  <2> QED
    BY <1>1, <1>3, <2>7, <2>8, <2>9, SupervisorStep DEF GoesOn
<1>9. \/ \E incomplete \in BOOLEAN : Publish(incomplete) /\ UNCHANGED evidenceAge
      \/ \E age \in 0 .. SampleTimeout - 1, good \in BOOLEAN, still \in BOOLEAN :
            /\ supervisor' = Sampled(age, good, still)
            /\ evidenceAge' = IF supervisor'.feedback.observed # supervisor.feedback.observed
                              THEN age ELSE evidenceAge
  BY Zenon DEF ReaderTurn
<1> QED
  BY <1>7, <1>8, <1>9

\* Time passes for the queue and for the evidence alike.
LEMMA AdvanceIsSafe ==
    ASSUME Driven, Inductive', Advance
    PROVE  Driven'
<1>1. /\ unpolled < MaxOutage /\ us' = Plus(us, 1) /\ sub' = (sub + 1) % PerMs
      /\ ms' = IF sub' = 0 THEN Plus(ms, 1) ELSE ms
      /\ evidenceAge' = IF sub' = 0 /\ evidenceAge < FeedbackTimeout THEN evidenceAge + 1
                        ELSE evidenceAge
      /\ unpolled' = unpolled + 1
      /\ UNCHANGED <<supervisor, output, router, uart, readerFault, turn, wheels>>
  BY DEF Advance
<1>2. /\ us \in Tick /\ ms \in Tick /\ sub \in 0 .. PerMs - 1 /\ router \in Router
      /\ unpolled \in 0 .. MaxOutage /\ evidenceAge \in 0 .. FeedbackTimeout
      /\ unpolled \in Int /\ unpolled >= 0
      /\ supervisor.feedback.observed \in Tick
      /\ GoodFor(router.jobs[WHEELS], us, ms, sub, Unswept)
      /\ Dated(supervisor.feedback, ms, evidenceAge, Unread)
  BY DriveConstants DEF Driven, TypeOK, Supervisor, Evidence
<1>3. /\ Unswept \in 0 .. 2 * MaxOutage - 1 /\ Unswept' = Unswept + 1
      /\ Unread \in 0 .. 2 * MaxOutage - 1 /\ Unread' = Unread + 1
  BY <1>1, <1>2, DriveConstants DEF Unswept, Unread
<1>4. sub' \in 0 .. PerMs - 1 /\ GoodFor(router.jobs[WHEELS], us', ms', sub', Unswept + 1)
  <2> DEFINE job == router.jobs[WHEELS]
  <2>1. job.pending => job.packet.until \in Tick /\ job.deadline \in Tick
    BY <1>2, DriveWork, JobFields
  <2>2. GoodFor(job, us, ms, sub, Unswept)
    BY <1>2
  <2> HIDE DEF job
  <2>3. sub' \in 0 .. PerMs - 1 /\ GoodFor(job, Plus(us, 1), ms', sub', Unswept + 1)
    BY <1>1, <1>2, <1>3, <2>1, <2>2, GoodForTicks
  <2> QED
    BY <1>1, <2>3 DEF job
<1>5. Dated(supervisor.feedback, ms', evidenceAge', Unread + 1)
  <2> DEFINE f == supervisor.feedback
             old == Elapsed(ms, f.observed)
             new == Elapsed(ms', f.observed)
  <2> SUFFICES ASSUME f.good
               PROVE  /\ evidenceAge' = IF new < FeedbackTimeout THEN new ELSE FeedbackTimeout
                      /\ new < SampleTimeout + (Unread + 1)
    BY DEF Dated
  <2>1. /\ evidenceAge = IF old < FeedbackTimeout THEN old ELSE FeedbackTimeout
        /\ old < SampleTimeout + Unread
    BY <1>2 DEF Dated
  <2>2. old \in Int /\ old >= 0
    <3>1. ms \in Int /\ f.observed \in Int
      BY <1>2, TickModulusAssumption DEF Tick
    <3>2. old \in Tick
      BY <3>1, ReadingsInTick
    <3> QED
      BY <3>2, TickModulusAssumption DEF Tick
  <2>3. old + 1 < TickModulus
    BY <1>3, <2>1, <2>2, DriveConstants
  <2>4. new = IF sub' = 0 THEN old + 1 ELSE old
    BY <1>1, <1>2, <2>3, ReadingAges
  <2> HIDE DEF old, new
  <2>5. new \in Int /\ Unread \in Int
    BY <1>3, <2>2, <2>4
  <2> QED
    BY <1>1, <2>1, <2>2, <2>4, <2>5, DriveConstants
<1>6. TypeOK'
  <2>1. us' \in Tick
    BY <1>1, <1>2, ReadingsInTick, TickModulusAssumption DEF Tick
  <2>2. evidenceAge' \in 0 .. FeedbackTimeout /\ unpolled' \in 0 .. MaxOutage
    BY <1>1, <1>2, DriveConstants
  <2> QED
    BY <1>1, <1>4, <2>1, <2>2 DEF Driven, Inductive, TypeOK
<1> QED
  BY <1>1, <1>3, <1>4, <1>5, <1>6 DEF Driven

-----------------------------------------------------------------------------
(***************************************************************************)
(* All steps.                                                              *)
(***************************************************************************)
LEMMA DrivenInit == Init => Driven
<1> SUFFICES ASSUME Init PROVE Driven
  OBVIOUS
<1>1. Inductive
  BY InductiveInit
<1>2. RouterInit \in Router
  BY InitialRouter
<1>3. router = [RouterInit EXCEPT !.sending = Zero, !.receipt.packet = Zero]
  BY DEF Init
<1>4. Zero \in Packet /\ STOP \in Work /\ WHEELS \in Work
  BY DriveWork
<1>5. /\ router \in Router /\ router.bus = RouterInit.bus /\ router.jobs = RouterInit.jobs
      /\ router.receipt.token = RouterInit.receipt.token
  <2>1. [RouterInit.receipt EXCEPT !.packet = Zero] \in Receipt
        /\ [RouterInit.receipt EXCEPT !.packet = Zero].token = RouterInit.receipt.token
    BY <1>2, <1>4, RouterTypes DEF Receipt
  <2> QED
    BY <1>2, <1>3, <1>4, <2>1 DEF Router
<1>6. /\ ~router.bus.active /\ router.bus.token = 0 /\ router.receipt.token = 0
      /\ \A k \in Work : ~router.jobs[k].pending
  BY <1>5 DEF RouterInit, NoJob
<1>7. Ordered(router)
  BY <1>6 DEF Ordered
<1>8. Queued(router) /\ ~router.jobs[WHEELS].pending
  BY <1>4, <1>6 DEF Queued
<1>9. GoodFor(router.jobs[WHEELS], us, ms, sub, Unswept)
  BY <1>8 DEF GoodFor
<1>10. PICK good \in BOOLEAN :
         supervisor = Configured([observed |-> ms, good |-> good, still |-> TRUE])
  BY DEF Init
<1>11. /\ supervisor.feedback.observed = ms /\ ~supervisor.moving
  BY <1>10 DEF Configured
<1>12. /\ us \in Tick /\ ms \in Tick /\ 0 \in Tick
  BY TickModulusAssumption DEF Init, Tick
<1>13. uart.phase = "IDLE" /\ uart \in [phase: Phase, packet: Packet]
  BY <1>4 DEF Init, Phase
<1>14. TypeOK
  <2>1. /\ sub \in 0 .. PerMs - 1 /\ ~readerFault /\ readerFault \in BOOLEAN
        /\ turn = "SERVICE" /\ unpolled = 0 /\ wheels \in BOOLEAN /\ evidenceAge = 0
    BY DEF Init
  <2>2. unpolled \in 0 .. MaxOutage /\ evidenceAge \in 0 .. FeedbackTimeout
    BY <2>1, DriveConstants
  <2> QED
    BY <1>1, <1>5, <1>12, <1>13, <2>1, <2>2 DEF TypeOK, Inductive
<1>15. Dated(supervisor.feedback, ms, evidenceAge, Unread)
  <2>1. Elapsed(ms, ms) = 0
    BY <1>12, ElapsedUnfolded, TickModulusAssumption DEF Tick
  <2>2. evidenceAge = 0 /\ Unread = 0
    BY DEF Init, Unread
  <2> QED
    BY <1>11, <2>1, <2>2, DriveConstants DEF Dated
<1> QED
  BY <1>7, <1>8, <1>9, <1>11, <1>13, <1>14, <1>15 DEF Driven, Commands

\* A session is opened, and a velocity sent, on young evidence, and a velocity
\* in time.
Careful ==
    /\ SetsOff => InTimeFor(uart'.packet) /\ evidenceAge < FeedbackTimeout
    /\ supervisor'.session # supervisor.session => evidenceAge < FeedbackTimeout

LEMMA DrivenStep ==
    ASSUME Driven, Inductive', [Next]_vars
    PROVE  Driven' /\ Careful
<1>1. /\ supervisor \in Supervisor /\ ms \in Tick /\ router \in Router
      /\ uart \in [phase: Phase, packet: Packet] /\ evidenceAge \in 0 .. FeedbackTimeout
      /\ Commands(supervisor)
      /\ Dated(supervisor.feedback, ms, evidenceAge, Unread)
      /\ turn \in {"SERVICE", "HOST", "OUTPUT", "FEEDBACK"}
  BY DEF Driven, TypeOK
<1>2. CASE Service
  <2>1. /\ GoesOn(supervisor, supervisor') /\ supervisor'.feedback = supervisor.feedback
        /\ turn = "SERVICE" /\ turn' = "HOST"
        /\ UNCHANGED <<us, ms, sub, router, uart, readerFault, unpolled, wheels, evidenceAge>>
    BY <1>1, <1>2, PollGoesOn DEF Service
  <2>2. Unread' = Unread
    BY <2>1 DEF Unread
  <2>3. Driven'
    BY <1>1, <2>1, <2>2, SupervisorStep DEF GoesOn
  <2> QED
    BY <2>1, <2>3 DEF Careful, SetsOff, GoesOn
<1>3. ASSUME NEW f \in Arriving, HandleFrame(f) PROVE Driven' /\ Careful
  <2>1. f \in Frame
    BY <1>1, ArrivingIsFrame
  <2>2. /\ supervisor' = Applied(supervisor, f, ms) /\ turn = "HOST"
        /\ UNCHANGED <<us, ms, sub, output, router, uart, readerFault, turn, unpolled, wheels,
                       evidenceAge>>
    BY <1>3 DEF HandleFrame
  <2>3. /\ supervisor'.feedback = supervisor.feedback
        /\ supervisor.state # "DISABLED" => supervisor'.state # "DISABLED"
        /\ Commands(supervisor) => Commands(supervisor')
        /\ supervisor'.session # supervisor.session => Healthy(supervisor, ms)
    BY <1>1, <2>1, <2>2, AppliedGoesOn
  <2>4. Unread' = Unread
    BY <2>2 DEF Unread
  <2>5. Driven'
    BY <1>1, <2>2, <2>3, <2>4, SupervisorStep
  <2> QED
    BY <2>2, <2>3, <2>5, HealthyIsYoung DEF Careful, SetsOff
<1>4. CASE SafeStop
  <2>1. /\ supervisor' = Latched(supervisor) /\ router' = OutputStopped(router, output)
        /\ turn = "HOST"
        /\ UNCHANGED <<us, ms, sub, uart, readerFault, turn, unpolled, wheels, evidenceAge>>
    BY <1>4 DEF SafeStop
  <2>2. GoesOn(supervisor, supervisor') /\ supervisor'.feedback = supervisor.feedback
    BY <1>1, <2>1, LatchGoesOn
  <2>3. Unread' = Unread /\ readerFault' \in BOOLEAN
    BY <2>1 DEF Unread, Driven, TypeOK
  <2>4. Driven'
    BY <1>1, <2>1, <2>2, <2>3, StopStep DEF GoesOn
  <2> QED
    BY <2>1, <2>2, <2>4 DEF Careful, SetsOff, GoesOn
<1>5. CASE EndHost
  <2>1. /\ turn = "HOST" /\ turn' = "OUTPUT" /\ unpolled' = 0
        /\ UNCHANGED <<us, ms, sub, supervisor, output, router, uart, readerFault, wheels,
                       evidenceAge>>
    BY <1>5 DEF EndHost
  <2>2. unpolled \in Int /\ unpolled <= MaxOutage
    BY DriveConstants DEF Driven, TypeOK
  <2>3. /\ Unswept = unpolled /\ Unswept' = MaxOutage /\ Unread = unpolled
        /\ Unread' = MaxOutage
    BY <2>1, DriveConstants DEF Unswept, Unread
  <2>4. GoodFor(router.jobs[WHEELS], us, ms, sub, MaxOutage)
    <3> DEFINE job == router.jobs[WHEELS]
    <3>1. GoodFor(job, us, ms, sub, unpolled)
      BY <2>3 DEF Driven
    <3>2. job.pending => Ahead(job.deadline, us) \in Int
      BY <1>1, DriveWork, JobFields, AheadUnfolded DEF Driven, TypeOK
    <3> HIDE DEF job
    <3>3. job.pending /\ Ahead(job.deadline, us) + unpolled > 0 =>
            Ahead(job.deadline, us) + MaxOutage > 0
      BY <2>2, <3>2, DriveConstants
    <3>4. GoodFor(job, us, ms, sub, MaxOutage)
      BY <3>1, <3>3 DEF GoodFor
    <3> QED
      BY <3>4 DEF job
  <2>5. Dated(supervisor.feedback, ms, evidenceAge, MaxOutage)
    <3> DEFINE old == Elapsed(ms, supervisor.feedback.observed)
    <3>1. old \in Int
      <4>1. ms \in Int /\ supervisor.feedback.observed \in Int
        BY <1>1, TickModulusAssumption DEF Tick, Supervisor, Evidence
      <4>2. old \in Tick
        BY <4>1, ReadingsInTick
      <4> QED
        BY <4>2, TickModulusAssumption DEF Tick
    <3>2. old < SampleTimeout + unpolled => old < SampleTimeout + MaxOutage
      BY <2>2, <3>1, DriveConstants
    <3> QED
      BY <1>1, <2>3, <3>2 DEF Dated
  <2>6. TypeOK'
    BY <2>1, DriveConstants DEF Driven, Inductive, TypeOK
  <2>7. Driven'
    BY <2>1, <2>3, <2>4, <2>5, <2>6 DEF Driven
  <2> QED
    BY <2>1, <2>7 DEF Careful, SetsOff
<1>6. ASSUME NEW window \in Window, NEW outcome \in {"LAUNCHED", "BUSY", "FAILED"},
             OutputTurn(window, outcome)
      PROVE  Driven' /\ Careful
  BY <1>6, OutputTurnIsSafe DEF Careful
<1>7. CASE TransmissionEnds
  <2>1. /\ uart.phase = "SENDING"
        /\ UNCHANGED <<us, ms, sub, supervisor, output, router, readerFault, turn, unpolled,
                       evidenceAge>>
    BY <1>7 DEF TransmissionEnds
  <2>2. /\ uart' = [uart EXCEPT !.phase = "DONE"] \/ uart' = [uart EXCEPT !.phase = "ERROR"]
        /\ wheels' \in {wheels, uart.packet.moving}
    BY <1>7 DEF TransmissionEnds
  <2>3. uart' \in [phase: Phase, packet: Packet] /\ uart'.phase # "IDLE"
    BY <1>1, <2>2 DEF Phase
  <2>4. wheels' \in BOOLEAN
    <3>1. uart.packet \in Velocity
      BY <1>1, DriveWork
    <3>2. uart.packet.moving \in BOOLEAN
      BY <3>1 DEF Velocity
    <3> QED
      BY <2>2, <3>2 DEF Driven, TypeOK
  <2>5. TypeOK'
    BY <2>1, <2>3, <2>4 DEF Driven, Inductive, TypeOK
  <2>6. Unswept' = Unswept /\ Unread' = Unread
    BY <2>1 DEF Unswept, Unread
  <2>7. Driven'
    BY <2>1, <2>5, <2>6 DEF Driven
  <2> QED
    BY <2>1, <2>7 DEF Careful, SetsOff
<1>8. CASE ReaderTurn
  <2>1. uart' = uart
    BY <1>8 DEF ReaderTurn
  <2> QED
    BY <1>8, <2>1, ReaderTurnIsSafe DEF Careful, SetsOff
<1>9. CASE ReaderFails
  <2>1. /\ supervisor' = Latched(Invalidated(supervisor))
        /\ router' = OutputStopped(router, output)
        /\ turn' = "SERVICE" /\ readerFault' = TRUE
        /\ UNCHANGED <<us, ms, sub, uart, unpolled, wheels, evidenceAge>>
    BY <1>9 DEF ReaderFails
  <2>2. GoesOn(supervisor, supervisor') /\ ~supervisor'.feedback.good
    <3>1. /\ Invalidated(supervisor) \in Supervisor
          /\ GoesOn(supervisor, Invalidated(supervisor))
          /\ ~Invalidated(supervisor).feedback.good
      BY <1>1, ReaderGoesOn
    <3>2. /\ GoesOn(Invalidated(supervisor), supervisor')
          /\ supervisor'.feedback = Invalidated(supervisor).feedback
      BY <2>1, <3>1, LatchGoesOn
    <3> QED
      BY <3>1, <3>2 DEF GoesOn
  <2>3. Dated(supervisor'.feedback, ms, evidenceAge, Unread')
    BY <2>2 DEF Dated
  <2>4. Driven'
    BY <1>1, <2>1, <2>2, <2>3, StopStep DEF GoesOn
  <2> QED
    BY <2>1, <2>2, <2>4 DEF Careful, SetsOff, GoesOn
<1>10. CASE Advance
  <2>1. UNCHANGED <<supervisor, uart>>
    BY <1>10 DEF Advance
  <2> QED
    BY <1>10, <2>1, AdvanceIsSafe DEF Careful, SetsOff
<1>11. CASE UNCHANGED vars
  <2>1. UNCHANGED <<us, ms, sub, supervisor, output, router, uart, readerFault, turn, unpolled,
                    wheels, evidenceAge>>
    BY <1>11 DEF vars
  <2>2. TypeOK' /\ Unswept' = Unswept /\ Unread' = Unread
    BY <2>1 DEF Driven, TypeOK, Unswept, Unread
  <2>3. Driven'
    BY <2>1, <2>2 DEF Driven
  <2> QED
    BY <2>1, <2>3 DEF Careful, SetsOff
<1> QED
  BY <1>2, <1>3, <1>4, <1>5, <1>6, <1>7, <1>8, <1>9, <1>10, <1>11 DEF Next

LEMMA DrivenHolds == Spec => [](Inductive /\ Driven)
<1>1. Init => Inductive /\ Driven
  BY InductiveInit, DrivenInit
<1>2. Inductive /\ Driven /\ [Next]_vars => (Inductive /\ Driven)'
  BY InductiveStep, DrivenStep
<1> QED
  BY <1>1, <1>2, PTL DEF Spec

\* Type correctness: supervisor, output, router, UART and the histories keep
\* their types through frames, polls, evidence and stops.
THEOREM TypeCorrect == Spec => []TypeOK
<1>1. Driven => TypeOK
  BY DEF Driven
<1> QED
  BY <1>1, DrivenHolds, PTL

\* However long a velocity waited in the queue and whatever phase the two
\* clocks have, it is put on the line only if it is out before its command
\* expires (mobile_servo_output.c, remaining_command_us, and the deadline the
\* router checks before it claims a job).
THEOREM MotionAlwaysInTime == Spec => MovesInTime
<1>1. Inductive /\ Driven /\ [Next]_vars
        => [(uart.phase # "SENDING" /\ uart'.phase = "SENDING" /\ uart'.packet.moving) =>
              LET left == Elapsed(uart'.packet.until, ms)
              IN  left <= CommandTimeout /\ JobBudget <= left * PerMs - sub]_vars
  BY InductiveStep, DrivenStep DEF Careful, SetsOff, InTimeFor
<1> QED
  BY <1>1, DrivenHolds, PTL DEF Spec, MovesInTime

\* A session is opened, and a velocity put on the line, only on evidence whose
\* real age is less than the timeout: the reader spoils old evidence before
\* the clock can go round (actuator_mobile_feedback_reader_poll).
THEOREM MotionAlwaysRests == Spec => MotionRestsOnEvidence
<1>1. Inductive /\ Driven /\ [Next]_vars
        => [(\/ supervisor'.session # supervisor.session
             \/ uart.phase # "SENDING" /\ uart'.phase = "SENDING" /\ uart'.packet.moving) =>
              evidenceAge < FeedbackTimeout]_vars
  BY InductiveStep, DrivenStep DEF Careful, SetsOff
<1> QED
  BY <1>1, DrivenHolds, PTL DEF Spec, MotionRestsOnEvidence
=============================================================================
