---------------------------- MODULE TaskControl ----------------------------
(***************************************************************************)
(* Running household tasks on the host: the runtime tick (runtime.py), the *)
(* application and its lease (application.py), the task executor           *)
(* (execution.py), the adapter that routes skills to ports                 *)
(* (skill_ports.py), a port of either kind, Nav2 with its callbacks        *)
(* (nav2_port.py) and the lift with its own stop (device_ports.py), each   *)
(* behind a resolved port (fetch_composition.py), and the one whole-robot  *)
(* stop they share (system_stop_backend.py).                               *)
(*                                                                         *)
(* A call of another object may raise: calls are sets of outcomes, each    *)
(* the state it leaves, whether it returned, and its value.  The host runs *)
(* on one thread; callbacks, the navigation server, the controller and     *)
(* time come between ticks.  CANCELLED ports count as FAILED ones.         *)
(***************************************************************************)
EXTENDS Integers, Sequences

CONSTANTS
    Tasks,        \* requests that may come, numbered in the order they come in
    None,
    Plan,         \* the skills of a task, in order: "NAVIGATE" or "LIFT"
    TaskTimeout, StepTimeout, StopTimeout,
    MaxAge,       \* feedback_max_age_s: older evidence proves nothing
    MaxGap        \* maximum_tick_gap_s

Run == 1 .. Tasks
Goal == Run \X (1 .. Len(Plan))

ASSUME TaskControlAssumption ==
    /\ Tasks \in Nat \ {0} /\ None \notin Run \cup Goal
    /\ Plan \in Seq({"NAVIGATE", "LIFT"}) /\ Plan # <<>>
    /\ {TaskTimeout, StepTimeout, StopTimeout, MaxAge, MaxGap} \subseteq Nat \ {0}

VARIABLE sys

Lifts(g) == Plan[g[2]] = "LIFT"

Ended == {"SUCCEEDED", "FAILED", "CANCELLED"}
Stopping == {"STOPPING", "STOP_UNCONFIRMED"}
TaskState == {"NEW", "WAITING", "RUNNING"} \cup Stopping \cup Ended
PortState == {"ABSENT", "RUNNING", "SUCCEEDED", "FAILED"}

\* LOST is a FAILED entry of Nav2 whose goal may be at work all the same: a
\* call about it raised, and nobody waits for its result any more.
InnerState == PortState \cup {"LOST"}

\* The value of a stop poll that proves nothing: an age no evidence may have.
NoProof == MaxAge + 1

\* Times are ages, counted as long as a longer one makes a difference.
LongestStop == IF StopTimeout > MaxAge THEN StopTimeout ELSE NoProof

Sys ==
    [owner: Run \cup {None},              \* TaskLease
     state: [Run -> TaskState],           \* the executors
     index: 0 .. Len(Plan), destination: {"FAILED", "CANCELLED"},
     stop_sent: BOOLEAN,                  \* ... of the owner's
     taskAge: 0 .. TaskTimeout, stepAge: 0 .. StepTimeout,
     sinceStop: 0 .. LongestStop,         \* age of stop_at
     active: Goal \cup {None},            \* RoutedSkillAdapter
     outer: [Goal -> PortState],          \* entries of the resolved ports
     inner: [Goal -> InnerState],         \* entries of the ports below
     cancel: [Goal -> BOOLEAN],
     accepted: [Goal -> BOOLEAN],         \* an accepted Nav2 handle
     watched: [Goal -> BOOLEAN],          \* the callback "finished" is yet to come
     stopRun: Run \cup {None},            \* SystemStopBackend
     requested: BOOLEAN,
     fault: BOOLEAN, gap: 0 .. MaxGap + 1, \* RobotRuntime
     work: [Goal -> {"NONE", "SENT", "WORKING", "REJECTED", "SUCCEEDED", "ABORTED"}],
     asked: [Goal -> BOOLEAN],            \* the server was asked to cancel
     stopping: BOOLEAN,                   \* the controller was asked to stop
     still: BOOLEAN,                      \* ... and its evidence is good
     lastStill: 0 .. NoProof,             \* age of the last good evidence
     smooth: BOOLEAN]   \* history: every call of the last tick was answered

TypeOK == sys \in Sys /\ (sys.owner # None => sys.index < Len(Plan))

Init ==
    sys = [owner |-> None, state |-> [r \in Run |-> "NEW"],
           index |-> 0, destination |-> "FAILED", stop_sent |-> FALSE,
           taskAge |-> 0, stepAge |-> 0, sinceStop |-> 0, active |-> None,
           outer |-> [g \in Goal |-> "ABSENT"], inner |-> [g \in Goal |-> "ABSENT"],
           cancel |-> [g \in Goal |-> FALSE], accepted |-> [g \in Goal |-> FALSE],
           watched |-> [g \in Goal |-> FALSE],
           stopRun |-> None, requested |-> FALSE, fault |-> FALSE, gap |-> 0,
           work |-> [g \in Goal |-> "NONE"], asked |-> [g \in Goal |-> FALSE],
           stopping |-> FALSE, still |-> FALSE, lastStill |-> NoProof, smooth |-> TRUE]

-----------------------------------------------------------------------------
Returns(s, age) == {[s |-> s, ok |-> TRUE, age |-> age]}
Done(s) == Returns(s, NoProof)
Raises(s) == {[s |-> [s EXCEPT !.smooth = FALSE], ok |-> FALSE, age |-> NoProof]}

\* What follows a call that returned; an exception passes through.
After(outcomes, Then(_)) == UNION {IF o.ok THEN Then(o) ELSE {o} : o \in outcomes}

\* SystemStopClient.request: a stop may arrive though its answer does not.
SendStop(s) ==
    LET sent == [s EXCEPT !.stopping = TRUE]
    IN  Done(sent) \cup Raises(s) \cup Raises(sent)

\* SystemStopBackend.request
Request(s, run) ==
    IF s.owner # run \/ s.stopRun \notin {None, run} THEN Raises(s)
    ELSE IF s.requested THEN Done(s)
    ELSE After(SendStop([s EXCEPT !.stopRun = run]),
               LAMBDA o : Done([o.s EXCEPT !.requested = TRUE]))

\* SystemStopBackend.poll: how old the evidence is that the robot stopped; an
\* answer that took its time makes it older.
StopEvidence(s, run) ==
    IF s.owner # run \/ s.stopRun # run THEN Raises(s)
    ELSE Raises(s) \cup Returns(s, IF s.stopping THEN s.lastStill ELSE NoProof)
           \cup IF s.stopping THEN Returns([s EXCEPT !.smooth = FALSE], s.lastStill + 1)
                ELSE {}

-----------------------------------------------------------------------------
(***************************************************************************)
(* The ports.                                                              *)
(***************************************************************************)
\* LiftPort._stop
LiftStop(s, g) ==
    IF s.cancel[g] \/ s.inner[g] # "RUNNING" THEN Done(s)
    ELSE Request([s EXCEPT !.cancel[g] = TRUE], g[1])

\* Nav2Port.cancel: an accepted goal is cancelled at the server, as far as that
\* call gets.
NavigationCancel(s, g) ==
    LET marked == [s EXCEPT !.cancel[g] = TRUE]
        asked == [marked EXCEPT !.asked[g] = TRUE]
    IN  IF s.accepted[g] THEN Done(asked) \cup Raises(marked) \cup Raises(asked)
        ELSE Done(marked)

\* ResolvedPort.cancel, and the cancel of the port below it; neither finds the
\* entry of a goal whose start it refused.
PortCancel(s, g) ==
    IF s.outer[g] = "ABSENT" THEN Raises(s)
    ELSE IF s.outer[g] # "RUNNING" THEN Done(s)
    ELSE IF s.inner[g] = "ABSENT" THEN Raises(s)
    ELSE IF Lifts(g) THEN LiftStop(s, g)
    ELSE NavigationCancel(s, g)

\* LiftPort.poll of a goal being stopped: every exception is the port's own.
LiftPollStop(s, g) ==
    UNION {Done(IF o.ok /\ o.age <= MaxAge THEN [o.s EXCEPT !.inner[g] = "FAILED"] ELSE o.s) :
           o \in After(Request(s, g[1]), LAMBDA r : StopEvidence(r.s, g[1]))}

\* LiftPort.poll of a goal under way: at its height, on its way, or in trouble.
LiftPoll(s, g) ==
    LiftStop([s EXCEPT !.smooth = FALSE], g)
      \cup CASE s.work[g] = "SUCCEEDED" -> Done([s EXCEPT !.inner[g] = "SUCCEEDED"])
             [] s.work[g] = "WORKING" -> Done(s)
             [] OTHER -> LiftStop(s, g)

InnerPoll(s, g) ==
    IF s.inner[g] = "ABSENT" THEN Raises(s)
    ELSE IF s.inner[g] # "RUNNING" \/ ~Lifts(g) THEN Done(s)
    ELSE IF s.cancel[g] THEN LiftPollStop(s, g)
    ELSE LiftPoll(s, g)

Reported(state) == IF state = "LOST" THEN "FAILED" ELSE state

\* ResolvedPort.poll; its answer is the outer state it leaves.
PortPoll(s, g) ==
    IF s.outer[g] = "ABSENT" THEN Raises(s)
    ELSE IF s.outer[g] # "RUNNING" THEN Done(s)
    ELSE After(InnerPoll(s, g), LAMBDA o : Done([o.s EXCEPT !.outer[g] = Reported(o.s.inner[g])]))

\* Nav2Port.start, LiftPort.start: refused before an entry is made, dispatched,
\* or failed with nothing known about what was dispatched; none starts a goal
\* twice.  A controller that stops takes no lift command.
InnerStart(s, g) ==
    LET entered == [s EXCEPT !.inner[g] = "RUNNING"]
        moving == [entered EXCEPT !.work[g] = "WORKING"]
        unheard == {entered} \cup IF s.stopping THEN {} ELSE {moving}
    IN  Raises(s)
          \cup IF s.inner[g] # "ABSENT" THEN {}
               ELSE IF ~Lifts(g)
               THEN Raises([s EXCEPT !.inner[g] = "FAILED"])
                      \cup Raises([s EXCEPT !.inner[g] = "LOST", !.work[g] = "SENT"])
                      \cup Done([entered EXCEPT !.work[g] = "SENT"])
               ELSE (UNION {LiftStop([u EXCEPT !.smooth = FALSE], g) : u \in unheard})
                      \cup IF s.stopping THEN {} ELSE Done(moving)

\* ResolvedPort.start: refused before an entry is made (the port is no longer
\* ready, knows the goal, or has made 128 entries), not resolved and never
\* attempted, or passed to the port below.
PortStart(s, g) ==
    Raises(s)
      \cup IF s.outer[g] # "ABSENT" THEN {}
           ELSE Raises([s EXCEPT !.outer[g] = "FAILED"])
                  \cup InnerStart([s EXCEPT !.outer[g] = "RUNNING"], g)

-----------------------------------------------------------------------------
(***************************************************************************)
(* RoutedSkillAdapter.                                                     *)
(***************************************************************************)
AdapterStart(s, g) ==
    IF s.active # None THEN Raises(s) ELSE PortStart([s EXCEPT !.active = g], g)

\* request_stop: a cancel that fails does not keep the robot from stopping.
AdapterRequestStop(s) ==
    UNION {{[r EXCEPT !.ok = @ /\ o.ok] : r \in Request(o.s, s.owner)} :
           o \in IF s.active = None THEN Done(s) ELSE PortCancel(s, s.active)}

\* Mutant: the robot's evidence is enough.
PollRobotStop(s) ==
    After(StopEvidence(s, s.owner), LAMBDA o : Returns([o.s EXCEPT !.active = None], o.age))

\* poll_stop: the evidence counts once the port's goal is over too.
AdapterPollStop(s) ==
    LET judged(evidence, p) ==
            IF p.outer[p.active] = "RUNNING" \/ evidence > MaxAge THEN Done(p)
            ELSE Returns([p EXCEPT !.active = None], evidence)
    IN  After(StopEvidence(s, s.owner),
              LAMBDA o : IF s.active = None THEN Returns(o.s, o.age)
                         ELSE After(PortPoll(o.s, s.active), LAMBDA p : judged(o.age, p.s)))

-----------------------------------------------------------------------------
(***************************************************************************)
(* TaskExecutor, of the task that owns the robot.                          *)
(***************************************************************************)
State(s) == s.state[s.owner]

Release(s, result) ==
    [s EXCEPT !.state[s.owner] = result, !.owner = None, !.stop_sent = FALSE,
              !.destination = "FAILED", !.taskAge = 0, !.stepAge = 0, !.sinceStop = 0]

\* Mutant: evidence of a moment before the stop was decided counts.
ProvesStopAnyTime(s, age) == age <= MaxAge

\* _valid_feedback, of stop evidence of that age.
ProvesStop(s, age) == age <= MaxAge /\ age <= s.sinceStop

\* The request of _poll_stop is made again until it was taken.
StopAsked(s) ==
    IF s.stop_sent THEN Done(s)
    ELSE After(AdapterRequestStop(s), LAMBDA o : Done([o.s EXCEPT !.stop_sent = TRUE]))

\* _poll_stop
PollStop(s) ==
    {IF o.ok /\ ProvesStop(o.s, o.age) THEN Release(o.s, o.s.destination)
     ELSE IF o.s.sinceStop >= StopTimeout THEN [o.s EXCEPT !.state[s.owner] = "STOP_UNCONFIRMED"]
     ELSE o.s : o \in After(StopAsked(s), LAMBDA t : AdapterPollStop(t.s))}

\* _stopping
Stop(s, destination) ==
    IF State(s) \in Stopping THEN {s}
    ELSE PollStop([s EXCEPT !.state[s.owner] = "STOPPING", !.destination = destination,
                            !.sinceStop = 0])

CurrentGoal(s) == <<s.owner, s.index + 1>>

\* Mutant: the step after the last one is waited for too.
CompletedLate(s) ==
    LET done == [s EXCEPT !.index = @ + 1, !.stepAge = 0]
    IN  IF s.index = Len(Plan) THEN Release(done, "SUCCEEDED")
        ELSE [done EXCEPT !.state[s.owner] = "WAITING"]

Completed(s) ==
    LET done == [s EXCEPT !.index = @ + 1, !.stepAge = 0]
    IN  IF done.index = Len(Plan) THEN Release(done, "SUCCEEDED")
        ELSE [done EXCEPT !.state[s.owner] = "WAITING"]

\* tick while WAITING: not ready yet; evidence that is missing, old or bad; or
\* a start, which may raise when part of it was dispatched.
Observe(s) ==
    {s} \cup Stop(s, "FAILED")
      \cup UNION {IF o.ok THEN {o.s} ELSE Stop(o.s, "FAILED") :
                  o \in AdapterStart([s EXCEPT !.state[s.owner] = "RUNNING"], CurrentGoal(s))}

\* tick while RUNNING: success counts with the evidence for it, and evidence
\* that is old or says that a condition was lost stops the task.
Poll(s) ==
    LET succeeded(p) == LET free == [p EXCEPT !.active = None]
                        IN  {Completed(free)} \cup Stop(free, "FAILED")
        judged(p) == CASE p.outer[p.active] = "FAILED" -> Stop(p, "FAILED")
                       [] p.outer[p.active] = "RUNNING" -> {p} \cup Stop(p, "FAILED")
                       [] OTHER -> {p} \cup Stop(p, "FAILED") \cup succeeded(p)
    IN  UNION {IF o.ok THEN judged(o.s) ELSE Stop(o.s, "FAILED") : o \in PortPoll(s, s.active)}

DeadlinePassed(s) == s.taskAge >= TaskTimeout \/ s.stepAge >= StepTimeout

ExecutorTick(s) ==
    CASE State(s) \in Stopping -> PollStop(s)
      [] State(s) \notin Stopping /\ DeadlinePassed(s) -> Stop(s, "FAILED")
      [] State(s) = "WAITING" /\ ~DeadlinePassed(s) -> Observe(s)
      [] State(s) = "RUNNING" /\ ~DeadlinePassed(s) -> Poll(s)

-----------------------------------------------------------------------------
(***************************************************************************)
(* RobotApplication and RobotRuntime.                                      *)
(***************************************************************************)
\* The admission of build_runtime, as far as the host's own state goes.
Admitted(s) == ~s.fault /\ s.owner = None /\ ~s.requested

Submit(r) ==
    /\ sys.state[r] = "NEW" /\ \A earlier \in 1 .. r - 1 : sys.state[earlier] # "NEW"
    /\ Admitted(sys)
    /\ sys' = [sys EXCEPT !.owner = r, !.state[r] = "WAITING", !.index = 0]

Cancel ==
    /\ sys.owner # None
    /\ sys' \in Stop(sys, "CANCELLED")

\* Mutant: the task of a runtime that failed runs on until it asks by itself.
FaultedTick(s) == {o.s : o \in SendStop(s)}

\* A fault stops the robot, again at every tick, and cancels its task.
Faulted(s) ==
    UNION {IF o.s.owner = None THEN {o.s} ELSE Stop(o.s, "CANCELLED") : o \in SendStop(s)}

\* Mutant: a runtime that failed stops the robot and does nothing else.
TickWhileSound(bad) ==
    LET fault == sys.fault \/ sys.gap > MaxGap \/ bad
        begun == [sys EXCEPT !.fault = fault, !.gap = 0, !.smooth = ~bad]
    IN  sys' \in IF fault THEN Faulted(begun)
                 ELSE IF begun.owner = None THEN {begun} ELSE ExecutorTick(begun)

\* RobotRuntime.tick; bad: an observation or the maintenance of a bridge failed.
Tick(bad) ==
    LET fault == sys.fault \/ sys.gap > MaxGap \/ bad
        begun == [sys EXCEPT !.fault = fault, !.gap = 0, !.smooth = ~bad]
    IN  sys' \in UNION {IF s.owner = None THEN {s} ELSE ExecutorTick(s) :
                        s \in IF fault THEN Faulted(begun) ELSE {begun}}

-----------------------------------------------------------------------------
(***************************************************************************)
(* Around the host: the navigation server, the callbacks of its client,    *)
(* the lift, the controller and time.                                      *)
(***************************************************************************)
Sent(g) == sys.work[g] = "SENT"

NavigationAnswers(g) ==
    /\ Sent(g)
    /\ \E answer \in {"WORKING", "REJECTED"} : sys' = [sys EXCEPT !.work[g] = answer]

\* A goal of Nav2 whose callback "accepted" is yet to come.
Unanswered(g) == ~Lifts(g) /\ sys.inner[g] = "RUNNING" /\ ~sys.accepted[g]

Lost(s, g) == [s EXCEPT !.inner[g] = "LOST"]

\* The callback "accepted": a goal cancelled before is cancelled now.  Reading
\* the answer, asking for the result or cancelling may raise; the last of them
\* leaves the result watched.
Accepted(g) ==
    LET handled == [sys EXCEPT !.accepted[g] = TRUE]
        watched == [handled EXCEPT !.watched[g] = TRUE]
        cancelled == [watched EXCEPT !.asked[g] = TRUE]
    IN  /\ Unanswered(g)
        /\ \/ sys' = Lost(sys, g)
           \/ ~Sent(g) /\ sys.work[g] = "REJECTED" /\ sys' = [sys EXCEPT !.inner[g] = "FAILED"]
           \/ /\ ~Sent(g) /\ sys.work[g] # "REJECTED"
              /\ \/ sys' = Lost(handled, g)
                 \/ ~sys.cancel[g] /\ sys' = watched
                 \/ sys.cancel[g] /\ sys' \in {cancelled, Lost(watched, g), Lost(cancelled, g)}

\* The callback "finished"; its result may raise, and before the goal ended.
Finished(g) ==
    LET over == [sys EXCEPT !.watched[g] = FALSE]
    IN  /\ sys.watched[g]
        /\ \/ sys' = Lost(over, g)
           \/ /\ sys.work[g] \in {"SUCCEEDED", "ABORTED"}
              /\ sys' = [over EXCEPT !.inner[g] = IF sys.work[g] = "SUCCEEDED"
                                                   THEN "SUCCEEDED" ELSE "FAILED"]

GoalEnds(g) ==
    /\ sys.work[g] = "WORKING"
    /\ \E result \in {"SUCCEEDED", "ABORTED"} : sys' = [sys EXCEPT !.work[g] = result]

\* The controller latches a stop for reasons of its own; its stop is carried
\* out, and ends the motion of the lift; later readings may contradict it.
ControllerStops == ~sys.stopping /\ sys' = [sys EXCEPT !.stopping = TRUE]

RobotSettles ==
    /\ sys.stopping /\ ~sys.still
    /\ sys' = [sys EXCEPT !.still = TRUE, !.lastStill = 0,
                          !.work = [g \in Goal |-> IF Lifts(g) /\ @[g] = "WORKING"
                                                   THEN "ABORTED" ELSE @[g]]]

Disturbed == sys.still /\ sys' = [sys EXCEPT !.still = FALSE]

Older(age, limit) == IF age < limit THEN age + 1 ELSE limit

Advance ==
    LET owned == sys.owner # None
        stopped == owned /\ State(sys) \in Stopping
        advanced == [sys EXCEPT
                       !.gap = Older(@, MaxGap + 1),
                       !.lastStill = IF sys.still THEN 0 ELSE Older(@, NoProof),
                       !.taskAge = IF owned /\ ~stopped THEN Older(@, TaskTimeout) ELSE @,
                       !.stepAge = IF owned /\ ~stopped THEN Older(@, StepTimeout) ELSE @,
                       !.sinceStop = IF stopped THEN Older(@, LongestStop) ELSE @]
    IN  sys' = advanced

-----------------------------------------------------------------------------
Next ==
    \/ \E r \in Run : Submit(r)
    \/ Cancel
    \/ \E bad \in BOOLEAN : Tick(bad)
    \/ \E g \in Goal : NavigationAnswers(g)
    \/ \E g \in Goal : Accepted(g)
    \/ \E g \in Goal : Finished(g)
    \/ \E g \in Goal : GoalEnds(g)
    \/ ControllerStops
    \/ RobotSettles
    \/ Disturbed
    \/ Advance

Spec == Init /\ [][Next]_sys

\* What the navigation server and its client owe a goal, one after the other.
NavigationOwed(g) ==
    \/ NavigationAnswers(g) \/ Accepted(g)
    \/ (sys.work[g] # "WORKING" /\ Finished(g)) \/ (sys.asked[g] /\ GoalEnds(g))

\* Time passes and the runtime ticks; now and then every call of a tick is
\* answered, also while the robot stands still, if it does so often; the
\* navigation server answers and ends what it was asked to cancel, and its
\* callbacks are called; a robot asked to stop stops.
FairSpec ==
    /\ Spec
    /\ WF_sys(Advance)
    /\ SF_sys((sys.still \/ ~sys.stopping) /\ Tick(FALSE) /\ sys'.smooth)
    /\ WF_sys(\E g \in Goal : NavigationOwed(g))
    /\ WF_sys(RobotSettles)

\* ... whatever becomes of its calls, the runtime goes on ticking.
TickingSpec == FairSpec /\ WF_sys(Tick(FALSE))

-----------------------------------------------------------------------------
AtWork(g) == sys.work[g] \in {"SENT", "WORKING"}
Ends(r, how) == sys.owner = r /\ sys'.owner # r /\ sys'.state[r] \in how

\* A goal at work that its port has not lost sight of.
Followed(g) == AtWork(g) /\ sys.inner[g] # "LOST"

\* Sharing the robot is what RobotLease promises: tasks never overlap, one that
\* ended left no goal behind that the navigation server or the lift still
\* works on or could still accept, and none starts twice.  The goals are those
\* the port follows: one it lost, a call of the navigation client having
\* raised, counts as failed and may outlive its task (NothingLeftAtWork).
Lease == INSTANCE RobotLease WITH
             owner <- sys.owner,
             ended <- {r \in Run : sys.state[r] \in Ended},
             busy <- {r \in Run : \E i \in 1 .. Len(Plan) : Followed(<<r, i>>)}

ImplementsRobotLease == Lease!Spec

\* "The underlying pending action must also be cancelled/terminal.  A late
\* accepted goal cannot execute after the task has released ownership": the
\* goals of a task that ended have ended too, also when a call of the
\* navigation client raised.
NothingLeftAtWork == \A g \in Goal : sys.state[g[1]] \in Ended => ~AtWork(g)

\* A task gives the robot back as failed or cancelled only when the controller
\* is stopping it and was seen to have stopped it after that was decided.
StopProved ==
    [][\A r \in Run :
         Ends(r, {"FAILED", "CANCELLED"}) =>
            /\ sys'.stopping
            /\ sys.lastStill <= MaxAge
            /\ sys.lastStill <= IF sys.state[r] \in Stopping THEN sys.sinceStop ELSE 0]_sys

\* Once the runtime failed or the task asked for a stop, nothing new is sent to
\* the navigation server or the lift.
NothingSentAfterStop ==
    [][\A g \in Goal :
         sys.work[g] = "NONE" /\ sys'.work[g] # "NONE" =>
            ~sys'.fault /\ sys.stopRun = None /\ sys.state[g[1]] = "WAITING"]_sys

\* The active goal was refused before an entry was made for it, by the resolved
\* port (it is not ready, or has made 128 entries) or by the port below (the
\* navigation server is not there, the lift does not answer or is not homed):
\* cancelling it raises for ever.
Stranded(r) ==
    \E i \in 1 .. Len(Plan) :
        /\ sys.active = <<r, i>>
        /\ sys.outer[<<r, i>>] \in {"ABSENT", "RUNNING"} /\ sys.inner[<<r, i>>] = "ABSENT"

\* Every task ends, by success, timeout, fault or request, whatever is lost or
\* late on the way, and unless its goal is stranded.
TaskEnds == \A r \in Run : sys.owner = r ~> sys.owner # r \/ Stranded(r)

\* "Without an answer the stop is unconfirmed and the task keeps the robot; when
\* valid evidence of the stop comes later, it ends": a task whose stop the
\* controller took, and goes on proving, does not stay unconfirmed.
StopUnconfirmedEnds ==
    \A r \in Run :
        <>[](sys.requested /\ sys.still) =>
            (sys.state[r] = "STOP_UNCONFIRMED" ~> sys.state[r] \in Ended)
=============================================================================
