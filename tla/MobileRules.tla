---------------------------- MODULE MobileRules ----------------------------
(***************************************************************************)
(* The supervisor of the mobile base (mobile_supervisor.c) and the host's  *)
(* frames as it takes them (mobile_wire.c).  A host arms a session on      *)
(* evidence that the wheels stand still; a velocity is good for a time the *)
(* host states, and evidence must keep coming; anything else latches a     *)
(* stop.  The operators are the C functions: each takes the supervisor and *)
(* the millisecond clock and returns the supervisor.                       *)
(*                                                                         *)
(* The axes move or stand; a height outside its limits is bad evidence.    *)
(***************************************************************************)
EXTENDS ModularTick

CONSTANTS
    MaxSession, MaxSequence,  \* the last numbers a host uses
    CommandTimeout,           \* command_timeout_ms
    FeedbackTimeout           \* feedback_timeout_ms

ASSUME MobileAssumption ==
    /\ {MaxSession, MaxSequence} \subseteq Nat \ {0}
    /\ {CommandTimeout, FeedbackTimeout} \subseteq 1 .. HalfTurn - 1

Session == 0 .. MaxSession
Sequence == 0 .. MaxSequence

\* good: modes verified, lift homed and within its limits, hardware well.
Evidence == [observed: Tick, good: BOOLEAN, still: BOOLEAN]

Supervisor ==
    [state: {"DISABLED", "READY", "ACTIVE", "STOP_LATCHED"},
     session: Session, have_sequence: BOOLEAN, sequence: Sequence,
     command_ms: Tick, valid_for: 0 .. CommandTimeout, moving: BOOLEAN,
     feedback: Evidence]

\* A supervisor that was never armed and has had this evidence; from then on
\* have_feedback is set.
Configured(evidence) ==
    [state |-> "DISABLED", session |-> 0, have_sequence |-> FALSE, sequence |-> 0,
     command_ms |-> 0, valid_for |-> 0, moving |-> FALSE,
     feedback |-> evidence]

Frame == [op: {"ARM", "VELOCITY", "STOP"}, session: Session \ {0}, sequence: Sequence,
          until: Tick, moving: BOOLEAN]

-----------------------------------------------------------------------------
Latched(s) == [s EXCEPT !.state = "STOP_LATCHED", !.moving = FALSE]

Enabled(s) == s.state \in {"READY", "ACTIVE"}

\* Mutant: how old the evidence is, is left to the reader.
HealthyOnce(s, ms) == s.feedback.good

\* fresh, healthy and lift_inside
Healthy(s, ms) ==
    /\ Elapsed(ms, s.feedback.observed) < FeedbackTimeout
    /\ s.feedback.good

Remaining(s, ms) == s.valid_for - Elapsed(ms, s.command_ms)

\* actuator_mobile_poll
PollSupervisor(s, ms) ==
    IF Enabled(s) /\ (~Healthy(s, ms) \/ (s.state = "ACTIVE" /\ Remaining(s, ms) <= 0))
    THEN Latched(s) ELSE s

\* actuator_mobile_feedback: only evidence that is fresh and newer counts.
Observed(s, ms, evidence) ==
    LET p == PollSupervisor(s, ms)
    IN  IF \/ Elapsed(ms, evidence.observed) >= FeedbackTimeout
           \/ ~IsAfter(evidence.observed, p.feedback.observed)
        THEN p
        ELSE PollSupervisor([p EXCEPT !.feedback = evidence], ms)

\* actuator_mobile_arm, of a polled supervisor: a greater session, on evidence
\* that all axes stand still.
Armed(s, session, ms) ==
    IF s.session < session /\ ~Enabled(s) /\ Healthy(s, ms) /\ s.feedback.still
    THEN [s EXCEPT !.session = session, !.have_sequence = FALSE, !.state = "READY",
                   !.moving = FALSE]
    ELSE s

\* A number not used in this session yet.
Fresher(s, f) == f.session = s.session /\ (s.have_sequence => f.sequence > s.sequence)

Numbered(s, f) == [s EXCEPT !.sequence = f.sequence, !.have_sequence = TRUE]

\* actuator_mobile_command_until, of a polled supervisor, before the deadline
Commanded(s, f, ms) ==
    IF Enabled(s) /\ Fresher(s, f)
    THEN [Numbered(s, f) EXCEPT !.moving = f.moving, !.command_ms = ms,
                                !.valid_for = Elapsed(f.until, ms), !.state = "ACTIVE"]
    ELSE s

\* actuator_mobile_wire_apply; a frame whose deadline passed, or lies too far
\* ahead, is refused whatever it says.
Applied(s, f, ms) ==
    LET p == PollSupervisor(s, ms)
    IN  CASE Elapsed(f.until, ms) \notin 1 .. CommandTimeout -> p
          [] Elapsed(f.until, ms) \in 1 .. CommandTimeout /\ f.op = "ARM" ->
                Armed(p, f.session, ms)
          [] Elapsed(f.until, ms) \in 1 .. CommandTimeout /\ f.op = "VELOCITY" ->
                Commanded(p, f, ms)
          [] OTHER ->
                IF p.state # "DISABLED" /\ Fresher(p, f) THEN Numbered(Latched(p), f) ELSE p
=============================================================================
